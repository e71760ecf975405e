-------------------------- MODULE SchedulerProofs ---------------------------
(***************************************************************************)
(* Proofs about Scheduler, for every card, set of requests, residents and  *)
(* renders: the fields keep their type, an id asks once, a resident is in  *)
(* one place, and the leases of clients fit the card together, across any  *)
(* order of calls, ticks, renders, saves and restarts.  Within one process *)
(* admission is in the order of the queue and the scheduler implements     *)
(* Leases, what its clients rely on; under one render that fits the card,  *)
(* residents and leases never overcommit it.  Last, the closed forms of    *)
(* the pump and of the restore are the loops of the code.                  *)
(***************************************************************************)
EXTENDS SchedulerLoops, CollectionTheorems

\* What a restart reads back is a state the scheduler was in: the file keeps
\* the same facts as the fields.
FileInv ==
    /\ Distinct(disk.queue)
    /\ Elements(disk.queue) \cap disk.running = {}
    /\ Sum(Vram, disk.running \ {Recovery}) <= Total

IInv ==
    /\ TypeOK
    /\ OneRequestPerId
    /\ ResidentInOnePlace
    /\ ClientLeasesFit
    /\ FileInv

\* Any set of lease holders is finite.
LEMMA HoldersFinite ==
    \A S \in SUBSET Holders : IsFiniteSet(S)
<1>1. IsFiniteSet(Holders)
  BY JobsAssumption, FS_AddElement DEF Holders
<1> QED
  BY <1>1, FS_Subset

\* So is any set of residents.
LEMMA ResidentsFinite ==
    \A S \in SUBSET Residents : IsFiniteSet(S)
BY RendersAssumption, FS_Subset

\* The client holders among some holders are jobs, each with its footprint.
LEMMA Clients ==
    ASSUME NEW S \in SUBSET Holders
    PROVE  /\ S \ {Recovery} \in SUBSET Jobs
           /\ IsFiniteSet(S \ {Recovery})
           /\ \A j \in S \ {Recovery} : Vram[j] \in Nat
<1>1. S \ {Recovery} \in SUBSET Jobs
  BY DEF Holders
<1>2. S \ {Recovery} \in SUBSET Holders
  OBVIOUS
<1> QED
  BY <1>1, <1>2, HoldersFinite, JobsAssumption

\* Giving leases back keeps the rest within the card.
LEMMA FewerClientsFit ==
    ASSUME NEW S \in SUBSET Holders, NEW T \in SUBSET S,
           Sum(Vram, S \ {Recovery}) <= Total
    PROVE  Sum(Vram, T \ {Recovery}) <= Total
<1>1. Sum(Vram, T \ {Recovery}) <= Sum(Vram, S \ {Recovery})
  BY Clients, SumMonotone
<1>2. Sum(Vram, T \ {Recovery}) \in Nat /\ Sum(Vram, S \ {Recovery}) \in Nat
  BY Clients, SumType
<1> QED
  BY <1>1, <1>2, JobsAssumption

\* Every footprint is a number of units.
LEMMA JobVramType ==
    ASSUME TypeOK
    PROVE  \A j \in Holders : JobVram[j] \in Nat
BY JobsAssumption DEF TypeOK, JobVram, Holders

\* The clients among the holders of S occupy no more than all of S.
LEMMA ClientsWithin ==
    ASSUME TypeOK, NEW S \in SUBSET Holders
    PROVE  /\ Sum(Vram, S \ {Recovery}) <= Sum(JobVram, S)
           /\ Sum(Vram, S \ {Recovery}) \in Nat
           /\ Sum(JobVram, S) \in Nat
<1>1. \A j \in S : JobVram[j] \in Nat
  BY JobVramType
<1>2. \A j \in S \ {Recovery} : JobVram[j] = Vram[j]
  BY DEF JobVram, Holders
<1>3. Sum(Vram, S \ {Recovery}) = Sum(JobVram, S \ {Recovery})
  <2>1. \A j \in S \ {Recovery} : Vram[j] = JobVram[j]
    BY <1>2
  <2> QED
    BY <2>1, SumSame
<1>4. Sum(JobVram, S \ {Recovery}) <= Sum(JobVram, S)
  BY <1>1, HoldersFinite, SumMonotone
<1> QED
  BY <1>1, <1>3, <1>4, Clients, HoldersFinite, SumType

\* A lease lasts a whole number of poll intervals.
LEMMA LeaseTtlType == \A j \in Jobs : LeaseTtl(j) \in Nat
BY JobsAssumption, TtlAssumption DEF LeaseTtl, Smaller

\* A fresh installation satisfies the invariant.
LEMMA InitInv == Init => IInv
<1> SUFFICES ASSUME Init PROVE IInv
  OBVIOUS
<1>1. PICK fp \in Renders :
        /\ queue = <<>> /\ running = {} /\ left = [j \in Holders |-> 0]
        /\ recovered = 0 /\ idle \in Orderings(DOMAIN fp) /\ evicted = {}
        /\ foot = [r \in Residents |-> IF r \in DOMAIN fp THEN fp[r] ELSE 0]
        /\ rejected = {} /\ disk = NoFile
  BY DEF Init
<1>2. DOMAIN fp \in SUBSET Residents /\ \A r \in DOMAIN fp : fp[r] \in Nat
  BY RendersAssumption
<1>3. idle \in Seq(DOMAIN fp) /\ Distinct(idle)
  BY <1>1, <1>2, ResidentsFinite, OrderingFacts
<1>4. idle \in Seq(Residents)
  BY <1>2, <1>3
<1>5. disk \in StateFile
  BY <1>1 DEF NoFile, StateFile
<1>6. TypeOK
  BY <1>1, <1>2, <1>4, <1>5 DEF TypeOK
<1>7. OneRequestPerId /\ ResidentInOnePlace
  BY <1>1, <1>3 DEF OneRequestPerId, ResidentInOnePlace, Distinct, Elements
<1>8. Sum(Vram, {} \ {Recovery}) <= Total
  <2>1. {} \ {Recovery} = {}
    OBVIOUS
  <2> QED
    BY <2>1, SumEmpty, JobsAssumption
<1>9. ClientLeasesFit
  BY <1>1, <1>8 DEF ClientLeasesFit
<1>10. FileInv
  BY <1>1, <1>8 DEF FileInv, NoFile, Distinct, Elements
<1> QED
  BY <1>6, <1>7, <1>9, <1>10 DEF IInv

-----------------------------------------------------------------------------
(* Every action keeps the invariant. *)

\* A submit queues at most one request of an id that has none.
LEMMA SubmitInv ==
    ASSUME IInv, NEW j \in Jobs, Submit(j)
    PROVE  IInv'
<1>1. /\ queue' \in Seq(Jobs)
      /\ Distinct(queue')
      /\ Elements(queue') \cap running = {}
  <2>1. CASE j \in running \cup Elements(queue)
    BY <2>1 DEF Submit, IInv, TypeOK, OneRequestPerId
  <2>2. CASE j \notin running \cup Elements(queue)
    <3>1. queue \in Seq(Jobs) /\ Distinct(queue) /\ queue' = Append(queue, j)
      BY <2>2 DEF Submit, IInv, TypeOK, OneRequestPerId
    <3>2. /\ queue' \in Seq(Jobs)
          /\ Distinct(queue')
          /\ Elements(queue') = Elements(queue) \cup {j}
      BY <2>2, <3>1, AppendFacts
    <3> QED
      BY <2>2, <3>2 DEF IInv, OneRequestPerId
  <2> QED
    BY <2>1, <2>2
<1>2. UNCHANGED <<running, left, recovered, idle, evicted, foot, rejected, disk>>
  BY DEF Submit
<1> QED
  BY <1>1, <1>2 DEF IInv, TypeOK, OneRequestPerId, ResidentInOnePlace,
                    ClientLeasesFit, FileInv

\* Completing gives up the lease and the place in the queue.
LEMMA CompleteInv ==
    ASSUME IInv, NEW j \in Jobs, Complete(j)
    PROVE  IInv'
<1>1. queue \in Seq(Jobs) /\ Distinct(queue)
  BY DEF IInv, TypeOK, OneRequestPerId
<1>2. /\ queue' \in Seq(Jobs)
      /\ Distinct(queue')
      /\ Elements(queue') = Elements(queue) \ {j}
  BY <1>1, WithoutFacts DEF Complete
<1>3. running' \in SUBSET running /\ running \in SUBSET Holders
  BY DEF Complete, IInv, TypeOK
<1>4. left' \in [Holders -> Nat]
  BY DEF Complete, IInv, TypeOK
<1>5. TypeOK'
  BY <1>2, <1>3, <1>4 DEF Complete, IInv, TypeOK
<1>6. OneRequestPerId'
  BY <1>2, <1>3 DEF IInv, OneRequestPerId
<1>7. ClientLeasesFit'
  BY <1>3, FewerClientsFit DEF IInv, ClientLeasesFit
<1> QED
  BY <1>5, <1>6, <1>7 DEF Complete, IInv, ResidentInOnePlace, FileInv

\* A heartbeat moves a deadline only.
LEMMA HeartbeatInv ==
    ASSUME IInv, NEW j \in Jobs, Heartbeat(j)
    PROVE  IInv'
<1>1. left' \in [Holders -> Nat]
  BY TtlAssumption DEF Heartbeat, IInv, TypeOK
<1> QED
  BY <1>1 DEF Heartbeat, IInv, TypeOK, OneRequestPerId, ResidentInOnePlace,
              ClientLeasesFit, FileInv

\* The pump admits what fits beside the leases that run, takes it from the
\* queue, and moves the coldest residents out of the LRU order.
LEMMA PumpInv ==
    ASSUME IInv, Pump
    PROVE  IInv'
<1>1. PICK n \in 0..Len(queue), k \in 0..Len(idle) :
        /\ Takes(n)
        /\ queue' = SubSeq(queue, n + 1, Len(queue))
        /\ running' = running \cup Admitted(n)
        /\ left' = [j \in Holders |->
                      IF j \in Admitted(n) THEN LeaseTtl(j) ELSE left[j]]
        /\ idle' = SubSeq(idle, k + 1, Len(idle))
        /\ evicted' = evicted \cup {idle[i] : i \in 1..k}
        /\ rejected' = rejected \cup {j \in {queue[i] : i \in 1..n} : TooBig(j)}
        /\ UNCHANGED <<recovered, foot, disk>>
  BY DEF Pump
<1> DEFINE taken == {queue[i] : i \in 1..n}
           out == {idle[i] : i \in 1..k}
<1>2. queue \in Seq(Jobs) /\ idle \in Seq(Residents)
  BY DEF IInv, TypeOK
<1>3. taken \in SUBSET Elements(queue) /\ Elements(queue) \in SUBSET Jobs
  BY <1>1, <1>2 DEF Elements
<1>4. out \in SUBSET Elements(idle) /\ Elements(idle) \in SUBSET Residents
  BY <1>1, <1>2 DEF Elements
<1>5. Admitted(n) \in SUBSET taken
  BY DEF Admitted
<1>6. /\ queue' \in Seq(Jobs)
      /\ Distinct(queue')
      /\ Elements(queue') \cap taken = {}
      /\ Elements(queue') \in SUBSET Elements(queue)
  <2>1. Distinct(queue)
    BY DEF IInv, OneRequestPerId
  <2> QED
    BY <1>1, <1>2, <2>1, SuffixFacts
<1>7. /\ idle' \in Seq(Residents)
      /\ Distinct(idle')
      /\ Elements(idle') \cap out = {}
      /\ Elements(idle') \in SUBSET Elements(idle)
  <2>1. Distinct(idle)
    BY DEF IInv, ResidentInOnePlace
  <2> QED
    BY <1>1, <1>2, <2>1, SuffixFacts
<1> HIDE DEF taken, out
<1>8. running \in SUBSET Holders /\ running' \in SUBSET Holders
  BY <1>1, <1>3, <1>5 DEF IInv, TypeOK, Holders
<1>9. left' \in [Holders -> Nat]
  <2>1. Admitted(n) \in SUBSET Jobs
    BY <1>3, <1>5
  <2>2. left \in [Holders -> Nat]
    BY DEF IInv, TypeOK
  <2> QED
    BY <1>1, <2>1, <2>2, LeaseTtlType
<1>10. rejected' \in SUBSET Jobs /\ evicted' \in SUBSET Residents
  <2>1. rejected' = rejected \cup {j \in taken : TooBig(j)}
    BY <1>1 DEF taken
  <2>2. evicted' = evicted \cup out
    BY <1>1 DEF out
  <2> QED
    BY <1>3, <1>4, <2>1, <2>2 DEF IInv, TypeOK
<1>11. TypeOK'
  BY <1>1, <1>6, <1>7, <1>8, <1>9, <1>10 DEF IInv, TypeOK
<1>12. OneRequestPerId'
  <2>1. Elements(queue) \cap running = {}
    BY DEF IInv, OneRequestPerId
  <2> QED
    BY <1>1, <1>5, <1>6, <2>1 DEF OneRequestPerId
<1>13. ResidentInOnePlace'
  <2>1. Elements(idle) \cap evicted = {}
    BY DEF IInv, ResidentInOnePlace
  <2>2. evicted' = evicted \cup out
    BY <1>1 DEF out
  <2> QED
    BY <1>7, <2>1, <2>2 DEF ResidentInOnePlace
<1>14. ClientLeasesFit'
  <2>1. CASE Admitted(n) = {}
    BY <1>1, <2>1 DEF IInv, ClientLeasesFit
  <2>2. CASE Admitted(n) # {}
    <3>1. Sum(JobVram, running') <= Total
      BY <1>1, <2>2 DEF Takes, Fits
    <3>2. /\ Sum(Vram, running' \ {Recovery}) <= Sum(JobVram, running')
          /\ Sum(Vram, running' \ {Recovery}) \in Nat
          /\ Sum(JobVram, running') \in Nat
      BY <1>8, ClientsWithin DEF IInv
    <3>3. Sum(Vram, running' \ {Recovery}) <= Total
      BY <3>1, <3>2, JobsAssumption
    <3> QED
      BY <3>3 DEF ClientLeasesFit
  <2> QED
    BY <2>1, <2>2
<1>15. FileInv'
  BY <1>1 DEF IInv, FileInv
<1> QED
  BY <1>11, <1>12, <1>13, <1>14, <1>15 DEF IInv

\* A restore moves residents back into the LRU order, each of them once.
LEMMA TakeRestorableInv ==
    ASSUME IInv, TakeRestorable
    PROVE  IInv'
<1>0. PICK R \in SUBSET evicted :
        /\ \E s \in Orderings(R) : idle' = idle \o s
        /\ evicted' = evicted \ R
        /\ UNCHANGED <<queue, running, left, recovered, foot, rejected, disk>>
  BY DEF TakeRestorable
<1>1. PICK s \in Orderings(R) : idle' = idle \o s
  BY <1>0
<1>2. R \in SUBSET Residents /\ idle \in Seq(Residents) /\ Distinct(idle)
      /\ Elements(idle) \cap evicted = {}
  BY DEF IInv, TypeOK, ResidentInOnePlace
<1>3. s \in Seq(R) /\ Elements(s) = R /\ Distinct(s)
  BY <1>1, <1>2, ResidentsFinite, OrderingFacts
<1>4. s \in Seq(Residents) /\ Elements(idle) \cap Elements(s) = {}
  BY <1>2, <1>3
<1>5. /\ idle' \in Seq(Residents)
      /\ Elements(idle') = Elements(idle) \cup R
      /\ Distinct(idle')
  BY <1>1, <1>2, <1>3, <1>4, ConcatFacts
<1>6. TypeOK'
  BY <1>0, <1>5 DEF IInv, TypeOK
<1>7. ResidentInOnePlace'
  BY <1>0, <1>2, <1>5 DEF ResidentInOnePlace
<1> QED
  BY <1>0, <1>6, <1>7 DEF IInv, OneRequestPerId, ClientLeasesFit, FileInv

\* A tick counts leases down, those in the file too.
LEMMA TickInv ==
    ASSUME IInv, Tick
    PROVE  IInv'
<1>1. left' \in [Holders -> Nat]
  BY DEF Tick, IInv, TypeOK
<1>2. /\ disk' \in StateFile
      /\ disk'.queue = disk.queue
      /\ disk'.running = disk.running
  <2> DEFINE aged == [j \in Holders |->
                        IF disk.left[j] > 0 THEN disk.left[j] - 1 ELSE 0]
  <2>1. disk \in StateFile
    BY DEF IInv, TypeOK
  <2>2. disk.left \in [Holders -> Nat]
    BY <2>1 DEF StateFile
  <2>3. aged \in [Holders -> Nat]
    BY <2>2
  <2>4. disk' = [disk EXCEPT !.left = aged]
    BY DEF Tick
  <2> HIDE DEF aged
  <2> QED
    BY <2>1, <2>3, <2>4 DEF StateFile
<1> QED
  BY <1>1, <1>2 DEF Tick, IInv, TypeOK, OneRequestPerId, ResidentInOnePlace,
                    ClientLeasesFit, FileInv

\* The sweep gives leases back.
LEMMA SweepInv ==
    ASSUME IInv, SweepExpired
    PROVE  IInv'
<1>1. running' \in SUBSET running /\ running \in SUBSET Holders
  BY DEF SweepExpired, IInv, TypeOK
<1>2. TypeOK'
  BY <1>1 DEF SweepExpired, IInv, TypeOK
<1>3. OneRequestPerId'
  BY <1>1 DEF SweepExpired, IInv, OneRequestPerId
<1>4. ClientLeasesFit'
  BY <1>1, FewerClientsFit DEF IInv, ClientLeasesFit
<1> QED
  BY <1>2, <1>3, <1>4 DEF SweepExpired, IInv, ResidentInOnePlace, FileInv

\* A render gives residents their sizes and registers the unknown ones.
LEMMA UpdateFootprintsInv ==
    ASSUME IInv, NEW fp \in Renders, UpdateFootprints(fp)
    PROVE  IInv'
<1> DEFINE unknown == DOMAIN fp \ (Elements(idle) \cup evicted)
<1>1. /\ unknown \in SUBSET Residents
      /\ \A r \in DOMAIN fp : fp[r] \in Nat
  BY RendersAssumption
<1>2. PICK s \in Orderings(unknown) : idle' = idle \o s
  BY DEF UpdateFootprints
<1>3. unknown \cap Elements(idle) = {} /\ unknown \cap evicted = {}
  OBVIOUS
<1> HIDE DEF unknown
<1>4. s \in Seq(unknown) /\ Elements(s) = unknown /\ Distinct(s)
  BY <1>1, <1>2, ResidentsFinite, OrderingFacts
<1>5. s \in Seq(Residents) /\ idle \in Seq(Residents) /\ Distinct(idle)
  BY <1>1, <1>4 DEF IInv, TypeOK, ResidentInOnePlace
<1>6. /\ idle' \in Seq(Residents)
      /\ Elements(idle') = Elements(idle) \cup unknown
      /\ Distinct(idle')
  BY <1>2, <1>3, <1>4, <1>5, ConcatFacts
<1>7. foot' \in [Residents -> Nat]
  BY <1>1 DEF UpdateFootprints, IInv, TypeOK
<1>8. UNCHANGED <<queue, running, left, recovered, evicted, rejected, disk>>
  BY DEF UpdateFootprints
<1>9. TypeOK'
  BY <1>6, <1>7, <1>8 DEF IInv, TypeOK
<1>10. ResidentInOnePlace'
  BY <1>3, <1>6, <1>8 DEF IInv, ResidentInOnePlace
<1> QED
  BY <1>8, <1>9, <1>10 DEF IInv, OneRequestPerId, ClientLeasesFit, FileInv

\* The file takes the facts of the fields.
LEMMA SaveInv ==
    ASSUME IInv, Save
    PROVE  IInv'
<1>1. disk' \in StateFile
  BY DEF Save, Snapshot, StateFile, IInv, TypeOK
<1>2. /\ disk'.queue = queue
      /\ disk'.running = running
  BY DEF Save, Snapshot
<1>3. UNCHANGED <<queue, running, left, recovered, idle, evicted, foot, rejected>>
  BY DEF Save, decisions
<1> QED
  BY <1>1, <1>2, <1>3 DEF IInv, TypeOK, OneRequestPerId, ResidentInOnePlace,
                          ClientLeasesFit, FileInv

\* And gives them back to the next process.
LEMMA LoadInv ==
    ASSUME IInv, NEW fp \in Renders, NEW down \in 0..MaxTtl, Load(fp, down)
    PROVE  IInv'
<1>1. disk \in StateFile
  BY DEF IInv, TypeOK
<1>2. /\ running' = disk.running /\ running' \in SUBSET Holders
      /\ queue' = disk.queue /\ queue' \in Seq(Jobs)
      /\ evicted' = disk.evicted /\ evicted' \in SUBSET Residents
      /\ recovered' \in Nat /\ rejected' \in SUBSET Jobs
      /\ disk' = disk
  BY <1>1 DEF Load, StateFile
<1>3. left' \in [Holders -> Nat]
  <2>1. disk.left \in [Holders -> Nat]
    BY <1>1 DEF StateFile
  <2>2. \A j \in Holders :
           (IF disk.left[j] > down THEN disk.left[j] - down ELSE 0) \in Nat
    BY <2>1, TtlAssumption
  <2> QED
    BY <2>2 DEF Load
<1>4. foot' \in [Residents -> Nat]
  <2>1. disk.foot \in [Residents -> Nat]
    BY <1>1 DEF StateFile
  <2>2. \A r \in DOMAIN fp : fp[r] \in Nat
    BY RendersAssumption
  <2> QED
    BY <2>1, <2>2 DEF Load
<1>5. /\ idle' \in Seq(Residents)
      /\ Distinct(idle')
      /\ Elements(idle') \cap evicted' = {}
  <2> DEFINE S == DOMAIN fp \ disk.evicted
  <2>1. S \in SUBSET Residents
    BY RendersAssumption
  <2>2. idle' \in Orderings(S)
    BY DEF Load
  <2>3. IsFiniteSet(S) /\ S \cap disk.evicted = {}
    BY <2>1, ResidentsFinite
  <2> HIDE DEF S
  <2>4. idle' \in Seq(S) /\ Elements(idle') = S /\ Distinct(idle')
    BY <2>2, <2>3, OrderingFacts
  <2> QED
    BY <1>2, <2>1, <2>3, <2>4
<1>6. TypeOK'
  BY <1>1, <1>2, <1>3, <1>4, <1>5 DEF TypeOK
<1> QED
  BY <1>2, <1>5, <1>6 DEF IInv, OneRequestPerId, ResidentInOnePlace,
                          ClientLeasesFit, FileInv

\* A process that cannot read the file holds no client's lease.
LEMMA LoadUnreadableInv ==
    ASSUME IInv, NEW fp \in Renders, NEW down \in SUBSET DOMAIN fp,
           LoadUnreadable(fp, down)
    PROVE  IInv'
<1>1. /\ DOMAIN fp \in SUBSET Residents
      /\ \A r \in DOMAIN fp : fp[r] \in Nat
  BY RendersAssumption
<1>2. /\ running' \in SUBSET {Recovery}
      /\ queue' = <<>> /\ evicted' = down /\ rejected' = {}
      /\ disk' = disk
  BY DEF LoadUnreadable
<1>3. foot' \in [Residents -> Nat]
  BY <1>1 DEF LoadUnreadable
<1>4. left' \in [Holders -> Nat]
  BY TtlAssumption DEF LoadUnreadable
<1>5. recovered' \in Nat
  <2>1. down \in SUBSET Residents
    BY <1>1
  <2>2. recovered' = Sum(foot', down)
    BY DEF LoadUnreadable
  <2> QED
    BY <1>3, <2>1, <2>2, ResidentsFinite, SumType
<1>6. /\ idle' \in Seq(Residents)
      /\ Distinct(idle')
      /\ Elements(idle') \cap evicted' = {}
  <2> DEFINE S == DOMAIN fp \ down
  <2>1. S \in SUBSET Residents /\ S \cap down = {}
    BY <1>1
  <2>2. idle' \in Orderings(S)
    BY DEF LoadUnreadable
  <2> HIDE DEF S
  <2>3. idle' \in Seq(S) /\ Elements(idle') = S /\ Distinct(idle')
    BY <2>1, <2>2, ResidentsFinite, OrderingFacts
  <2> QED
    BY <1>2, <2>1, <2>3
<1>7. TypeOK'
  BY <1>1, <1>2, <1>3, <1>4, <1>5, <1>6 DEF TypeOK, IInv, Holders
<1>8. Sum(Vram, running' \ {Recovery}) <= Total
  <2>1. running' \ {Recovery} = {}
    BY <1>2
  <2> QED
    BY <2>1, SumEmpty, JobsAssumption
<1>9. OneRequestPerId'
  BY <1>2 DEF OneRequestPerId, Distinct, Elements
<1> QED
  BY <1>2, <1>6, <1>7, <1>8, <1>9 DEF IInv, ResidentInOnePlace,
                                      ClientLeasesFit, FileInv

-----------------------------------------------------------------------------

\* Every step of the scheduler, a restart included, keeps the invariant.
LEMMA NextInv == IInv /\ [Next]_vars => IInv'
<1> SUFFICES ASSUME IInv, [Next]_vars PROVE IInv'
  OBVIOUS
<1>1. CASE Decide
  BY <1>1, SubmitInv, CompleteInv, HeartbeatInv, PumpInv, TakeRestorableInv,
     TickInv, SweepInv, UpdateFootprintsInv DEF Decide
<1>2. CASE Save
  BY <1>2, SaveInv
<1>3. CASE Restart
  BY <1>3, LoadInv, LoadUnreadableInv DEF Restart
<1>4. CASE UNCHANGED vars
  BY <1>4 DEF vars, IInv, TypeOK, OneRequestPerId, ResidentInOnePlace,
              ClientLeasesFit, FileInv
<1> QED
  BY <1>1, <1>2, <1>3, <1>4 DEF Next

\* The inductive invariant holds in every state of every behaviour.
THEOREM SchedulerInvariant == Spec => []IInv
BY InitInv, NextInv, PTL DEF Spec

\* The fields of the scheduler and the state file keep their types.
THEOREM TypeCorrect == Spec => []TypeOK
<1>1. IInv => TypeOK
  BY DEF IInv
<1> QED
  BY <1>1, SchedulerInvariant, PTL

\* An id waits once or runs once, across restarts too.
THEOREM AsksOnce == Spec => []OneRequestPerId
<1>1. IInv => OneRequestPerId
  BY DEF IInv
<1> QED
  BY <1>1, SchedulerInvariant, PTL

\* A resident is counted once and restored once, across restarts too.
THEOREM CountedOnce == Spec => []ResidentInOnePlace
<1>1. IInv => ResidentInOnePlace
  BY DEF IInv
<1> QED
  BY <1>1, SchedulerInvariant, PTL

\* Whatever the card, the requests, the renders and the restarts: the leases
\* clients hold never exceed the card together.
THEOREM LeasesFit == Spec => []ClientLeasesFit
<1>1. IInv => ClientLeasesFit
  BY DEF IInv
<1> QED
  BY <1>1, SchedulerInvariant, PTL

-----------------------------------------------------------------------------
(* What the scheduler's steps do to the two places a resident is in.        *)

\* A render registers the residents it declares and nobody knows.
LEMMA UpdateMoves ==
    ASSUME IInv, NEW fp \in Renders, UpdateFootprints(fp)
    PROVE  Elements(idle') = Elements(idle) \cup (DOMAIN fp \ (Elements(idle) \cup evicted))
<1> DEFINE unknown == DOMAIN fp \ (Elements(idle) \cup evicted)
<1>1. unknown \in SUBSET Residents /\ unknown \cap Elements(idle) = {}
  BY RendersAssumption
<1>2. PICK s \in Orderings(unknown) : idle' = idle \o s
  BY DEF UpdateFootprints
<1> HIDE DEF unknown
<1>3. s \in Seq(unknown) /\ Elements(s) = unknown /\ Distinct(s)
  BY <1>1, <1>2, ResidentsFinite, OrderingFacts
<1>4. s \in Seq(Residents) /\ idle \in Seq(Residents)
  BY <1>1, <1>3 DEF IInv, TypeOK
<1>5. Elements(idle') = Elements(idle) \cup unknown
  BY <1>2, <1>3, <1>4, ConcatFacts
<1> QED
  BY <1>5 DEF unknown

\* But for a pump, a restore and a restart, no resident changes places.
LEMMA ResidentsStay ==
    ASSUME IInv,
           \/ \E j \in Jobs : Submit(j) \/ Complete(j) \/ Heartbeat(j)
           \/ Tick \/ SweepExpired \/ Save
           \/ \E fp \in Renders : UpdateFootprints(fp)
           \/ UNCHANGED vars
    PROVE  evicted' = evicted /\ Elements(idle) \subseteq Elements(idle')
<1>1. CASE \E j \in Jobs : Submit(j) \/ Complete(j) \/ Heartbeat(j)
  BY <1>1 DEF Submit, Complete, Heartbeat
<1>2. CASE Tick \/ SweepExpired \/ Save \/ UNCHANGED vars
  BY <1>2 DEF Tick, SweepExpired, Save, decisions, vars
<1>3. CASE \E fp \in Renders : UpdateFootprints(fp)
  BY <1>3, UpdateMoves DEF UpdateFootprints
<1> QED
  BY <1>1, <1>2, <1>3

\* A pump only evicts.
LEMMA PumpEvicts == Pump => evicted \subseteq evicted'
BY DEF Pump

\* What a restore takes from the evicted residents is idle again.
LEMMA RestoreMoves ==
    ASSUME IInv, TakeRestorable
    PROVE  /\ evicted' \subseteq evicted
           /\ evicted \ evicted' \subseteq Elements(idle')
           /\ Elements(idle) \subseteq Elements(idle')
<1>1. PICK R \in SUBSET evicted :
        /\ \E s \in Orderings(R) : idle' = idle \o s
        /\ evicted' = evicted \ R
  BY DEF TakeRestorable
<1>2. PICK s \in Orderings(R) : idle' = idle \o s
  BY <1>1
<1>3. R \in SUBSET Residents /\ idle \in Seq(Residents) /\ Distinct(idle)
      /\ Elements(idle) \cap R = {}
  BY DEF IInv, TypeOK, ResidentInOnePlace
<1>4. s \in Seq(R) /\ Elements(s) = R /\ Distinct(s)
  BY <1>2, <1>3, ResidentsFinite, OrderingFacts
<1>5. s \in Seq(Residents)
  BY <1>3, <1>4
<1>6. Elements(idle') = Elements(idle) \cup R
  BY <1>2, <1>3, <1>4, <1>5, ConcatFacts
<1> QED
  BY <1>1, <1>6

-----------------------------------------------------------------------------
(* The order of admission, and the refinement of Leases, within one process *)
(* (a restart may bring back a lease that was given up after the last save).*)

\* Without a restart nobody holds the recovery lease, and a resident that is
\* neither idle nor evicted is one no render has declared yet.
ProcessInv ==
    /\ IInv
    /\ running \subseteq Jobs
    /\ \A r \in Residents \ (Elements(idle) \cup evicted) : foot[r] = 0

\* What a pump does to the queue and to the residents.
LEMMA PumpMoves ==
    ASSUME IInv, NEW n \in 0..Len(queue), NEW k \in 0..Len(idle)
    PROVE  LET taken == {queue[i] : i \in 1..n}
               out == {idle[i] : i \in 1..k}
               rest == SubSeq(queue, n + 1, Len(queue))
           IN  /\ taken \in SUBSET Jobs
               /\ Elements(queue) = Elements(rest) \cup taken
               /\ Elements(rest) \cap taken = {}
               /\ Elements(idle) = Kept(k) \cup out
               /\ Elements(SubSeq(idle, k + 1, Len(idle))) = Kept(k)
               /\ Kept(k) \cap out = {}
               /\ Admitted(n) \in SUBSET taken
               /\ Elements(idle) \in SUBSET Residents
<1> DEFINE taken == {queue[i] : i \in 1..n}
           out == {idle[i] : i \in 1..k}
           rest == SubSeq(queue, n + 1, Len(queue))
<1>1. queue \in Seq(Jobs) /\ Distinct(queue) /\ idle \in Seq(Residents) /\ Distinct(idle)
  BY DEF IInv, TypeOK, OneRequestPerId, ResidentInOnePlace
<1>2. /\ Elements(queue) = Elements(rest) \cup taken
      /\ Elements(rest) \cap taken = {}
  BY <1>1, SuffixFacts
<1>3. /\ Elements(SubSeq(idle, k + 1, Len(idle))) = Kept(k)
      /\ Elements(idle) = Kept(k) \cup out
      /\ Kept(k) \cap out = {}
  <2> DEFINE kept == SubSeq(idle, k + 1, Len(idle))
  <2>1. /\ Elements(kept) = {idle[i] : i \in (k + 1)..Len(idle)}
        /\ Elements(idle) = Elements(kept) \cup out
        /\ Elements(kept) \cap out = {}
    BY <1>1, SuffixFacts
  <2>2. Elements(kept) = Kept(k)
    BY <2>1 DEF Kept
  <2> QED
    BY <2>1, <2>2
<1>4. taken \in SUBSET Jobs
  <2>1. \A i \in 1..n : queue[i] \in Jobs
    BY <1>1
  <2> QED
    BY <2>1
<1>5. Admitted(n) \in SUBSET taken
  BY DEF Admitted
<1>6. Elements(idle) \in SUBSET Residents
  BY <1>1 DEF Elements
<1> HIDE DEF taken, out, rest
<1> QED
  BY <1>2, <1>3, <1>4, <1>5, <1>6 DEF taken, out, rest

\* A fresh installation has no recovery lease.
LEMMA ProcessInit == Init => ProcessInv
<1> SUFFICES ASSUME Init PROVE ProcessInv
  OBVIOUS
<1>1. PICK fp \in Renders :
        /\ running = {} /\ idle \in Orderings(DOMAIN fp) /\ evicted = {}
        /\ foot = [r \in Residents |-> IF r \in DOMAIN fp THEN fp[r] ELSE 0]
  BY DEF Init
<1>2. DOMAIN fp \in SUBSET Residents
  BY RendersAssumption
<1>3. Elements(idle) = DOMAIN fp
  BY <1>1, <1>2, ResidentsFinite, OrderingFacts
<1> QED
  BY <1>1, <1>3, InitInv DEF ProcessInv

\* Within one process no lease is the recovery lease.
LEMMA ProcessStep == ProcessInv /\ [Decide \/ Save]_vars => ProcessInv'
<1> SUFFICES ASSUME ProcessInv, [Decide \/ Save]_vars PROVE ProcessInv'
  OBVIOUS
<1>1. IInv /\ IInv'
  BY NextInv DEF ProcessInv, Next
<1> SUFFICES /\ running' \subseteq Jobs
             /\ \A r \in Residents \ (Elements(idle') \cup evicted') : foot'[r] = 0
  BY <1>1 DEF ProcessInv
<1>2. CASE \E j \in Jobs : Submit(j) \/ Complete(j) \/ Heartbeat(j)
  BY <1>2 DEF Submit, Complete, Heartbeat, ProcessInv
<1>3. CASE Pump
  <2>1. PICK n \in 0..Len(queue), k \in 0..Len(idle) :
          /\ running' = running \cup Admitted(n)
          /\ idle' = SubSeq(idle, k + 1, Len(idle))
          /\ evicted' = evicted \cup {idle[i] : i \in 1..k}
          /\ foot' = foot
    BY <1>3 DEF Pump
  <2>2. /\ Elements(idle') \cup evicted' = Elements(idle) \cup evicted
        /\ Admitted(n) \subseteq Jobs
    BY <1>1, <2>1, PumpMoves
  <2> QED
    BY <2>1, <2>2 DEF ProcessInv
<1>4. CASE TakeRestorable
  <2>1. /\ Elements(idle) \cup (evicted \ evicted') \subseteq Elements(idle')
    BY <1>1, <1>4, RestoreMoves
  <2>2. UNCHANGED <<running, foot>>
    BY <1>4 DEF TakeRestorable
  <2> QED
    BY <2>1, <2>2 DEF ProcessInv
<1>5. CASE Tick \/ SweepExpired \/ Save \/ UNCHANGED vars
  BY <1>5 DEF Tick, SweepExpired, Save, decisions, vars, ProcessInv
<1>6. CASE \E fp \in Renders : UpdateFootprints(fp)
  <2>1. PICK fp \in Renders : UpdateFootprints(fp)
    BY <1>6
  <2>2. UNCHANGED <<running, evicted>>
        /\ foot' = [r \in Residents |-> IF r \in DOMAIN fp THEN fp[r] ELSE foot[r]]
    BY <2>1 DEF UpdateFootprints
  <2>3. Elements(idle') = Elements(idle) \cup (DOMAIN fp \ (Elements(idle) \cup evicted))
    BY <1>1, <2>1, UpdateMoves
  <2> QED
    BY <2>2, <2>3 DEF ProcessInv
<1> QED
  BY <1>2, <1>3, <1>4, <1>5, <1>6 DEF Decide

\* No request overtakes another within one process.
LEMMA AdmitsInOrder ==
    ASSUME IInv, [Decide \/ Save]_vars,
           NEW i \in DOMAIN queue, queue[i] \in running' \ running, NEW h \in 1..i
    PROVE  queue[h] \notin Elements(queue')
<1>1. CASE Pump
  <2>1. PICK n \in 0..Len(queue), k \in 0..Len(idle) :
          /\ running' = running \cup Admitted(n)
          /\ queue' = SubSeq(queue, n + 1, Len(queue))
    BY <1>1 DEF Pump
  <2>2. queue[i] \in {queue[m] : m \in 1..n}
    BY <2>1, PumpMoves
  <2>3. PICK m \in 1..n : queue[i] = queue[m]
    BY <2>2
  <2>4. queue \in Seq(Jobs) /\ Distinct(queue)
    BY DEF IInv, TypeOK, OneRequestPerId
  <2>5. i = m
    BY <2>1, <2>3, <2>4 DEF Distinct
  <2>6. queue[h] \in {queue[q] : q \in 1..n}
    BY <2>4, <2>5
  <2> QED
    BY <2>1, <2>6, PumpMoves
<1>2. CASE ~Pump
  <2>1. running' \subseteq running
    BY <1>2 DEF Decide, Submit, Complete, Heartbeat, TakeRestorable, Tick,
                SweepExpired, UpdateFootprints, Save, decisions, vars
  <2> QED
    BY <2>1
<1> QED
  BY <1>1, <1>2

\* Without a recovery lease, what the holders occupy is what the clients asked
\* for; and a resident that is in neither place occupies nothing.
LEMMA ClientSums ==
    ASSUME ProcessInv, NEW g \in SUBSET Jobs, NEW a \in SUBSET Residents,
           NEW on \in SUBSET Residents, on \subseteq Residents \ a,
           (Residents \ a) \ on \subseteq Residents \ (Elements(idle) \cup evicted)
    PROVE  Client!FitsCard(g, a) <=> Sum(JobVram, g) + Sum(foot, on) <= Total
<1>1. Sum(Vram, g) = Sum(JobVram, g)
  <2>1. \A j \in g : Vram[j] = JobVram[j]
    BY JobsAssumption DEF JobVram, Holders
  <2> QED
    BY <2>1, SumSame
<1>2. Sum(foot, Residents \ a) = Sum(foot, on)
  <2> DEFINE off == (Residents \ a) \ on
  <2>1. Residents \ a = on \cup off
    OBVIOUS
  <2>2. \A r \in off : foot[r] = 0
    BY DEF ProcessInv
  <2> HIDE DEF off
  <2>3. Sum(foot, on \cup off) = Sum(foot, on)
    BY <2>2, SumZero
  <2> QED
    BY <2>1, <2>3
<1>3. \A f, S : Client!Sum(f, S) = Sum(f, S)
  BY DEF Client!Sum, Client!Units, Client!Cardinality, Sum, Units, Cardinality
<1> QED
  BY <1>1, <1>2, <1>3 DEF Client!FitsCard

\* A pump serves those who wait.
LEMMA PumpServes == ASSUME ProcessInv, Pump PROVE Client!Serve
<1>1. PICK n \in 0..Len(queue), k \in 0..Len(idle) :
        /\ Takes(n)
        /\ Evicts(n, k)
        /\ queue' = SubSeq(queue, n + 1, Len(queue))
        /\ running' = running \cup Admitted(n)
        /\ idle' = SubSeq(idle, k + 1, Len(idle))
        /\ evicted' = evicted \cup {idle[i] : i \in 1..k}
        /\ rejected' = rejected \cup {j \in {queue[i] : i \in 1..n} : TooBig(j)}
        /\ foot' = foot
  BY DEF Pump
<1> DEFINE taken == {queue[i] : i \in 1..n}
           out == {idle[i] : i \in 1..k}
           big == {j \in taken : TooBig(j)}
<1>2. /\ IInv /\ running \subseteq Jobs
      /\ queue \in Seq(Jobs) /\ idle \in Seq(Residents) /\ evicted \subseteq Residents
      /\ Elements(idle) \cap evicted = {}
  BY DEF ProcessInv, IInv, TypeOK, ResidentInOnePlace
<1>3. /\ taken \in SUBSET Jobs
      /\ Elements(queue) = Elements(queue') \cup taken
      /\ Elements(queue') \cap taken = {}
      /\ Elements(idle) = Kept(k) \cup out
      /\ Kept(k) \cap out = {}
      /\ Admitted(n) \in SUBSET taken
      /\ Elements(idle) \in SUBSET Residents
  BY <1>1, <1>2, PumpMoves
<1>4. Admitted(n) = taken \ big
  BY DEF Admitted
<1>5. /\ evicted' = evicted \cup out
      /\ rejected' = rejected \cup big
      /\ \A j \in big : Vram[j] > Total
  BY <1>1 DEF TooBig
<1> HIDE DEF taken, out, big
<1>6. big \subseteq taken
  BY DEF big
<1>7. Admitted(n) # {} => Client!FitsCard(running \cup Admitted(n), evicted \cup out)
  <2> SUFFICES ASSUME Admitted(n) # {}
               PROVE  Client!FitsCard(running \cup Admitted(n), evicted \cup out)
    OBVIOUS
  <2>1. /\ Kept(k) \subseteq Residents \ (evicted \cup out)
        /\ (Residents \ (evicted \cup out)) \ Kept(k)
              \subseteq Residents \ (Elements(idle) \cup evicted)
    BY <1>2, <1>3
  <2>2. Sum(JobVram, running \cup Admitted(n)) + Sum(foot, Kept(k)) <= Total
    <3>1. CASE n < Len(queue)
      <4>1. k = Len(idle)
        BY <1>1, <3>1 DEF Evicts
      <4>2. Kept(k) = {}
        BY <1>2, <4>1 DEF Kept
      <4>3. Sum(JobVram, running \cup Admitted(n)) <= Total
        BY <1>1 DEF Takes, Fits
      <4>4. Sum(JobVram, running \cup Admitted(n)) \in Nat
        <5>1. running \cup Admitted(n) \in SUBSET Holders
          BY <1>2, <1>3 DEF Holders
        <5> QED
          BY <1>2, <5>1, ClientsWithin DEF IInv
      <4> QED
        BY <4>2, <4>3, <4>4, SumEmpty, JobsAssumption
    <3>2. CASE ~(n < Len(queue))
      BY <1>1, <3>2 DEF Evicts, RoomFor
    <3> QED
      BY <3>1, <3>2
  <2> QED
    BY <1>2, <1>3, <2>1, <2>2, ClientSums
<1>8. out # {} => Elements(queue) # {}
  <2> SUFFICES ASSUME out # {} PROVE Elements(queue) # {}
    OBVIOUS
  <2>1. k # 0
    BY DEF out
  <2>2. n < Len(queue) \/ Admitted(n) # {}
    BY <1>1, <2>1 DEF Evicts
  <2>3. CASE n < Len(queue)
    <3>1. queue[n + 1] \in Elements(queue)
      BY <1>2, <2>3 DEF Elements
    <3> QED
      BY <3>1
  <2>4. CASE Admitted(n) # {}
    BY <1>3, <2>4
  <2> QED
    BY <2>2, <2>3, <2>4
<1>9. /\ Admitted(n) \in SUBSET Elements(queue)
      /\ big \in SUBSET Elements(queue)
      /\ out \in SUBSET (Residents \ evicted)
      /\ Admitted(n) \cap big = {}
      /\ Elements(queue') = Elements(queue) \ (Admitted(n) \cup big)
  BY <1>2, <1>3, <1>4, <1>6
<1> QED
  BY <1>1, <1>5, <1>7, <1>8, <1>9 DEF Client!Serve

\* A restore brings residents back when nobody waits and they fit.
LEMMA TakeRestores == ASSUME ProcessInv, TakeRestorable PROVE Client!Restore
<1>1. PICK R \in SUBSET evicted :
        /\ IF queue # <<>> \/ Free < 0 THEN R = {} ELSE Restorable(R)
        /\ evicted' = evicted \ R
        /\ UNCHANGED <<queue, running, rejected, foot>>
  BY DEF TakeRestorable
<1>2. /\ IInv /\ running \subseteq Jobs /\ evicted \subseteq Residents
      /\ foot \in [Residents -> Nat] /\ Elements(idle) \subseteq Residents
      /\ Elements(idle) \cap evicted = {}
  BY DEF ProcessInv, IInv, TypeOK, ResidentInOnePlace, Elements
<1>3. ASSUME R # {} PROVE Elements(queue) = {} /\ Client!FitsCard(running, evicted \ R)
  <2>1. queue = <<>> /\ Restorable(R)
    BY <1>1, <1>3
  <2>2. Elements(queue) = {}
    BY <2>1 DEF Elements
  <2>3. Sum(foot, R) <= Total - (Sum(JobVram, running) + Sum(foot, Elements(idle)))
    BY <2>1 DEF Restorable, Free, Used
  <2>4. /\ Sum(foot, R) \in Nat /\ Sum(foot, Elements(idle)) \in Nat
        /\ Sum(foot, Elements(idle) \cup R) = Sum(foot, Elements(idle)) + Sum(foot, R)
    <3>1. IsFiniteSet(R) /\ IsFiniteSet(Elements(idle)) /\ R \cap Elements(idle) = {}
      BY <1>2, ResidentsFinite
    <3>2. \A r \in Elements(idle) \cup R : foot[r] \in Nat
      BY <1>2
    <3> QED
      BY <3>1, <3>2, SumType, SumUnion
  <2>5. Sum(JobVram, running) \in Nat
    <3>1. running \in SUBSET Holders
      BY <1>2 DEF Holders
    <3> QED
      BY <1>2, <3>1, ClientsWithin DEF IInv
  <2>6. Sum(JobVram, running) + Sum(foot, Elements(idle) \cup R) <= Total
    BY <2>3, <2>4, <2>5, JobsAssumption
  <2>7. Client!FitsCard(running, evicted \ R)
    <3> DEFINE on == Elements(idle) \cup R
               away == evicted \ R
    <3>1. /\ on \in SUBSET Residents /\ away \in SUBSET Residents
          /\ on \subseteq Residents \ away
          /\ (Residents \ away) \ on \subseteq Residents \ (Elements(idle) \cup evicted)
      BY <1>2
    <3> QED
      BY <1>2, <2>6, <3>1, ClientSums
  <2> QED
    BY <2>2, <2>7
<1> QED
  BY <1>1, <1>3 DEF Client!Restore

\* Every decision of one process is a step of Leases or a stutter.
LEMMA ProcessImplements ==
    ProcessInv /\ [Decide \/ Save]_vars => [Client!Change]_(Client!leases)
<1> SUFFICES ASSUME ProcessInv, [Decide \/ Save]_vars
             PROVE  Client!Change \/ UNCHANGED Client!leases
  OBVIOUS
<1>0. queue \in Seq(Jobs) /\ Distinct(queue)
  BY DEF ProcessInv, IInv, TypeOK, OneRequestPerId
<1>1. ASSUME NEW j \in Jobs, Submit(j) PROVE Client!Ask(j)
  <2>1. CASE j \in running \cup Elements(queue)
    BY <1>1, <2>1 DEF Submit, Client!Ask
  <2>2. CASE j \notin running \cup Elements(queue)
    <3>1. Elements(queue') = Elements(queue) \cup {j}
      BY <1>0, <1>1, <2>2, AppendFacts DEF Submit
    <3> QED
      BY <1>1, <2>2, <3>1 DEF Submit, Client!Ask
  <2> QED
    BY <2>1, <2>2
<1>2. ASSUME NEW j \in Jobs, Complete(j) PROVE Client!Return(j)
  <2>1. Elements(queue') = Elements(queue) \ {j}
    BY <1>0, <1>2, WithoutFacts DEF Complete
  <2> QED
    BY <1>2, <2>1 DEF Complete, Client!Return
<1>3. CASE \/ \E j \in Jobs : Heartbeat(j)
           \/ Tick \/ Save \/ UNCHANGED vars
  BY <1>3 DEF Heartbeat, Tick, Save, decisions, vars, Client!leases
<1>4. CASE SweepExpired
  <2>1. Expired \in SUBSET running
    BY DEF Expired
  <2>2. Client!Lapse(Expired)
    BY <1>4 DEF SweepExpired, Client!Lapse
  <2> QED
    BY <2>1, <2>2 DEF Client!Change
<1>5. ASSUME NEW fp \in Renders, UpdateFootprints(fp) PROVE Client!Resize
  <2>1. foot' \in [Residents -> Nat]
    BY <1>5, UpdateFootprintsInv DEF ProcessInv, IInv, TypeOK
  <2> QED
    BY <1>5, <2>1 DEF UpdateFootprints, Client!Resize
<1> QED
  BY <1>1, <1>2, <1>3, <1>4, <1>5, PumpServes, TakeRestores DEF Decide, Client!Change

-----------------------------------------------------------------------------

\* Strict FIFO, for any queue: a request is admitted only in a step that takes
\* every request ahead of it from the queue.
THEOREM AdmissionIsFifo == OneProcess => FifoAdmission
<1>1. IInv /\ [Decide \/ Save]_vars => IInv'
  BY NextInv DEF Next
<1>2. IInv /\ [Decide \/ Save]_vars =>
        [\A i \in DOMAIN queue :
            queue[i] \in running' \ running =>
                \A h \in 1..i : queue[h] \notin Elements(queue')]_vars
  BY AdmitsInOrder
<1> QED
  BY <1>1, <1>2, InitInv, PTL DEF OneProcess, FifoAdmission

\* The scheduler keeps what Leases promises its clients, for any card, any
\* requests and any renders.
THEOREM SchedulerImplementsLeases == OneProcess => ImplementsLeases
<1>1. Init => Client!Empty
  <2>1. Init => foot \in [Residents -> Nat]
    BY InitInv DEF IInv, TypeOK
  <2> QED
    BY <2>1 DEF Init, Client!Empty, Elements
<1> QED
  BY <1>1, ProcessInit, ProcessStep, ProcessImplements, PTL
  DEF OneProcess, ImplementsLeases, Client!Promise

-----------------------------------------------------------------------------
(* A render that fits the card, and is never replaced by another.           *)

\* The render that is there fits the card.
OneRender(fp) == Renders = {fp} /\ Sum(fp, DOMAIN fp) <= Total

\* What a file hands back fits the card beside the residents it did not evict.
FileFits(fp) ==
    /\ disk.evicted \subseteq DOMAIN fp
    /\ \A r \in disk.evicted : disk.foot[r] = fp[r]
    /\ Sum([j \in Holders |-> IF j = Recovery THEN disk.recovered ELSE Vram[j]],
           disk.running) + Sum(fp, DOMAIN fp \ disk.evicted) <= Total

\* The residents are those of the render, at the size it declares, and what
\* was handed out fits the card, in the file too.
FitInv(fp) ==
    /\ IInv
    /\ Elements(idle) \cup evicted = DOMAIN fp
    /\ \A r \in DOMAIN fp : foot[r] = fp[r]
    /\ NoOvercommit
    /\ FileFits(fp)

\* Whatever is given back leaves the rest within the card.
LEMMA LessFits ==
    ASSUME NEW f, NEW S, IsFiniteSet(S), \A x \in S : f[x] \in Nat, NEW T \in SUBSET S,
           NEW g, NEW U, IsFiniteSet(U), \A x \in U : g[x] \in Nat, NEW W \in SUBSET U,
           Sum(f, S) + Sum(g, U) <= Total
    PROVE  Sum(f, T) + Sum(g, W) <= Total
<1>1. Sum(f, T) <= Sum(f, S) /\ Sum(g, W) <= Sum(g, U)
  BY SumMonotone
<1>2. IsFiniteSet(T) /\ IsFiniteSet(W)
  BY FS_Subset
<1>3. /\ Sum(f, T) \in Nat /\ Sum(f, S) \in Nat
      /\ Sum(g, W) \in Nat /\ Sum(g, U) \in Nat
  BY <1>2, SumType
<1> QED
  BY <1>1, <1>3, JobsAssumption

\* What FitInv says of the sums.
LEMMA FitFacts ==
    ASSUME NEW fp \in Renders, OneRender(fp), FitInv(fp)
    PROVE  /\ DOMAIN fp \in SUBSET Residents /\ IsFiniteSet(DOMAIN fp)
           /\ \A r \in DOMAIN fp : fp[r] \in Nat
           /\ running \in SUBSET Holders /\ IsFiniteSet(running)
           /\ \A j \in Holders : JobVram[j] \in Nat
           /\ Elements(idle) \in SUBSET DOMAIN fp /\ IsFiniteSet(Elements(idle))
           /\ Sum(JobVram, running) + Sum(fp, Elements(idle)) <= Total
<1>1. DOMAIN fp \in SUBSET Residents /\ \A r \in DOMAIN fp : fp[r] \in Nat
  BY RendersAssumption
<1>2. running \in SUBSET Holders /\ \A j \in Holders : JobVram[j] \in Nat
  BY JobVramType DEF FitInv, IInv, TypeOK
<1>3. Elements(idle) \in SUBSET DOMAIN fp
  BY DEF FitInv
<1>4. Sum(foot, Elements(idle)) = Sum(fp, Elements(idle))
  <2>1. \A r \in Elements(idle) : foot[r] = fp[r]
    BY <1>3 DEF FitInv
  <2> QED
    BY <2>1, SumSame
<1>5. Sum(JobVram, running) + Sum(fp, Elements(idle)) <= Total
  BY <1>4 DEF FitInv, NoOvercommit, Used
<1>6. IsFiniteSet(DOMAIN fp) /\ IsFiniteSet(running) /\ IsFiniteSet(Elements(idle))
  BY <1>1, <1>2, <1>3, HoldersFinite, ResidentsFinite
<1> QED
  BY <1>1, <1>2, <1>3, <1>5, <1>6

\* To show that FitInv holds next, it is enough to sum with the render's sizes.
LEMMA FitNext ==
    ASSUME NEW fp \in Renders, IInv',
           Elements(idle') \cup evicted' = DOMAIN fp,
           \A r \in DOMAIN fp : foot'[r] = fp[r],
           Sum(JobVram', running') + Sum(fp, Elements(idle')) <= Total,
           FileFits(fp)'
    PROVE  FitInv(fp)'
<1>1. \A r \in Elements(idle') : foot'[r] = fp[r]
  OBVIOUS
<1>2. Sum(foot', Elements(idle')) = Sum(fp, Elements(idle'))
  BY <1>1, SumSame
<1>3. NoOvercommit'
  BY <1>2 DEF NoOvercommit, Used
<1> QED
  BY <1>3 DEF FitInv

\* A fresh installation fits.
LEMMA FitInit ==
    ASSUME NEW fp \in Renders, OneRender(fp), Init
    PROVE  FitInv(fp)
<1>1. /\ running = {} /\ idle \in Orderings(DOMAIN fp) /\ evicted = {}
      /\ foot = [r \in Residents |-> IF r \in DOMAIN fp THEN fp[r] ELSE 0]
      /\ disk = NoFile
  BY DEF Init, OneRender
<1>2. DOMAIN fp \in SUBSET Residents
  BY RendersAssumption
<1>3. Elements(idle) = DOMAIN fp
  BY <1>1, <1>2, ResidentsFinite, OrderingFacts
<1>4. \A r \in DOMAIN fp : foot[r] = fp[r]
  BY <1>1, <1>2
<1>5. Sum(fp, DOMAIN fp) \in Nat /\ Sum(fp, DOMAIN fp) <= Total
  BY <1>2, RendersAssumption, ResidentsFinite, SumType DEF OneRender
<1>6. NoOvercommit
  <2>1. Sum(foot, Elements(idle)) = Sum(fp, DOMAIN fp)
    BY <1>3, <1>4, SumSame
  <2>2. Sum(JobVram, running) = 0
    BY <1>1, SumEmpty
  <2> QED
    BY <1>5, <2>1, <2>2 DEF NoOvercommit, Used
<1>7. FileFits(fp)
  <2>1. disk.running = {} /\ disk.evicted = {}
    BY <1>1 DEF NoFile
  <2>2. DOMAIN fp \ disk.evicted = DOMAIN fp
    BY <2>1
  <2> QED
    BY <1>5, <2>1, <2>2, SumEmpty DEF FileFits
<1> QED
  BY <1>1, <1>3, <1>4, <1>6, <1>7, InitInv DEF FitInv

\* A pump hands out no more than the residents it evicts leave free.
LEMMA PumpFits ==
    ASSUME NEW fp \in Renders, OneRender(fp), FitInv(fp), IInv', Pump
    PROVE  FitInv(fp)'
<1>1. PICK n \in 0..Len(queue), k \in 0..Len(idle) :
        /\ Takes(n)
        /\ Evicts(n, k)
        /\ running' = running \cup Admitted(n)
        /\ idle' = SubSeq(idle, k + 1, Len(idle))
        /\ evicted' = evicted \cup {idle[i] : i \in 1..k}
        /\ UNCHANGED <<recovered, foot, disk>>
  BY DEF Pump
<1>2. /\ Elements(idle') = Kept(k)
      /\ Elements(idle) = Kept(k) \cup {idle[i] : i \in 1..k}
      /\ Admitted(n) \in SUBSET Jobs
  BY <1>1, PumpMoves DEF FitInv
<1>3. JobVram' = JobVram
  BY <1>1 DEF JobVram
<1>4. Elements(idle') \cup evicted' = DOMAIN fp /\ Kept(k) \in SUBSET Elements(idle)
  BY <1>1, <1>2 DEF FitInv
<1>5. Sum(JobVram, running') + Sum(fp, Kept(k)) <= Total
  <2>1. CASE Admitted(n) = {}
    <3>1. running' = running
      BY <1>1, <2>1
    <3> QED
      BY <1>4, <3>1, FitFacts, LessFits
  <2>2. CASE Admitted(n) # {} /\ n < Len(queue)
    <3>1. k = Len(idle)
      BY <1>1, <2>2 DEF Evicts
    <3>2. idle \in Seq(Residents)
      BY DEF FitInv, IInv, TypeOK
    <3>3. Kept(k) = {}
      BY <3>1, <3>2 DEF Kept
    <3>4. Sum(JobVram, running') <= Total
      BY <1>1, <2>2 DEF Takes, Fits
    <3>5. Sum(JobVram, running') \in Nat
      BY ClientsWithin, FitFacts, <1>1, <1>2 DEF FitInv, IInv, Holders
    <3> QED
      BY <3>3, <3>4, <3>5, SumEmpty, JobsAssumption
  <2>3. CASE Admitted(n) # {} /\ ~(n < Len(queue))
    <3>1. Sum(JobVram, running') + Sum(foot, Kept(k)) <= Total
      BY <1>1, <2>3 DEF Evicts, RoomFor
    <3>2. \A r \in Kept(k) : foot[r] = fp[r]
      BY <1>4 DEF FitInv
    <3> QED
      BY <3>1, <3>2, SumSame
  <2> QED
    BY <2>1, <2>2, <2>3
<1>6. FileFits(fp)'
  BY <1>1 DEF FitInv, FileFits
<1>7. \A r \in DOMAIN fp : foot'[r] = fp[r]
  BY <1>1 DEF FitInv
<1> QED
  BY <1>2, <1>3, <1>4, <1>5, <1>6, <1>7, FitNext

\* A restore takes no more than is free.
LEMMA RestoreFits ==
    ASSUME NEW fp \in Renders, OneRender(fp), FitInv(fp), IInv', TakeRestorable
    PROVE  FitInv(fp)'
<1>1. PICK R \in SUBSET evicted :
        /\ IF queue # <<>> \/ Free < 0 THEN R = {} ELSE Restorable(R)
        /\ \E s \in Orderings(R) : idle' = idle \o s
        /\ evicted' = evicted \ R
        /\ UNCHANGED <<running, recovered, foot, disk>>
  BY DEF TakeRestorable
<1>2. R \in SUBSET DOMAIN fp /\ R \cap Elements(idle) = {}
  BY DEF FitInv, IInv, ResidentInOnePlace
<1>3. Elements(idle') = Elements(idle) \cup R
  <2>1. PICK s \in Orderings(R) : idle' = idle \o s
    BY <1>1
  <2>2. R \in SUBSET Residents /\ IsFiniteSet(R) /\ idle \in Seq(Residents)
    BY <1>2, FitFacts, ResidentsFinite DEF FitInv, IInv, TypeOK
  <2>3. s \in Seq(R) /\ Elements(s) = R
    BY <2>1, <2>2, OrderingFacts
  <2>4. s \in Seq(Residents)
    BY <2>2, <2>3
  <2> QED
    BY <2>1, <2>2, <2>3, <2>4, ConcatFacts
<1>4. Sum(fp, Elements(idle) \cup R) = Sum(fp, Elements(idle)) + Sum(fp, R)
  BY <1>2, FitFacts, ResidentsFinite, SumUnion
<1>5. /\ Sum(fp, R) \in Nat /\ Sum(fp, Elements(idle)) \in Nat
      /\ Sum(JobVram, running) \in Nat
  <2>1. IsFiniteSet(R) /\ \A r \in R : fp[r] \in Nat
    BY <1>2, FitFacts, ResidentsFinite
  <2> QED
    BY <2>1, FitFacts, SumType
<1>6. Sum(JobVram, running) + (Sum(fp, Elements(idle)) + Sum(fp, R)) <= Total
  <2>1. CASE R = {}
    BY <1>5, <2>1, FitFacts, SumEmpty
  <2>2. CASE R # {}
    <3>1. Sum(foot, R) <= Total - (Sum(JobVram, running) + Sum(foot, Elements(idle)))
      BY <1>1, <2>2 DEF Restorable, Free, Used
    <3>2. /\ \A r \in R : foot[r] = fp[r]
          /\ \A r \in Elements(idle) : foot[r] = fp[r]
      BY <1>2, FitFacts DEF FitInv
    <3>3. Sum(foot, R) = Sum(fp, R) /\ Sum(foot, Elements(idle)) = Sum(fp, Elements(idle))
      BY <3>2, SumSame
    <3> QED
      BY <1>5, <3>1, <3>3, JobsAssumption
  <2> QED
    BY <2>1, <2>2
<1>7. JobVram' = JobVram
  BY <1>1 DEF JobVram
<1>8. FileFits(fp)' /\ \A r \in DOMAIN fp : foot'[r] = fp[r]
  BY <1>1 DEF FitInv, FileFits
<1>9. Elements(idle') \cup evicted' = DOMAIN fp
  BY <1>1, <1>3 DEF FitInv
<1> QED
  BY <1>1, <1>3, <1>4, <1>6, <1>7, <1>8, <1>9, FitNext

\* Giving leases back leaves the rest within the card.
LEMMA ReturnFits ==
    ASSUME NEW fp \in Renders, OneRender(fp), FitInv(fp), IInv',
           (\E j \in Jobs : Complete(j)) \/ SweepExpired
    PROVE  FitInv(fp)'
<1>1. /\ running' \in SUBSET running
      /\ UNCHANGED <<idle, evicted, foot, disk>>
  BY DEF Complete, SweepExpired
<1>2. \A j \in running' : JobVram'[j] = JobVram[j]
  <2>1. recovered' = recovered \/ Recovery \notin running'
    BY DEF Complete, SweepExpired
  <2> QED
    BY <1>1, <2>1, FitFacts DEF JobVram
<1>3. Sum(JobVram', running') = Sum(JobVram, running')
  BY <1>2, SumSame
<1>4. Sum(JobVram, running') + Sum(fp, Elements(idle)) <= Total
  BY <1>1, FitFacts, LessFits
<1>5. FileFits(fp)' /\ \A r \in DOMAIN fp : foot'[r] = fp[r]
  BY <1>1 DEF FitInv, FileFits
<1>6. Elements(idle') \cup evicted' = DOMAIN fp
  BY <1>1 DEF FitInv
<1> QED
  BY <1>1, <1>3, <1>4, <1>5, <1>6, FitNext

\* The render that is there declares what is counted already.
LEMMA UpdateFits ==
    ASSUME NEW fp \in Renders, OneRender(fp), FitInv(fp), IInv',
           \E new \in Renders : UpdateFootprints(new)
    PROVE  FitInv(fp)'
<1>1. UpdateFootprints(fp)
  BY DEF OneRender
<1>2. Elements(idle') = Elements(idle)
  BY <1>1, UpdateMoves DEF FitInv
<1>3. UNCHANGED <<running, recovered, evicted, disk>>
  BY <1>1 DEF UpdateFootprints
<1>4. \A r \in DOMAIN fp : foot'[r] = fp[r]
  BY <1>1, FitFacts DEF UpdateFootprints
<1>5. JobVram' = JobVram /\ FileFits(fp)'
  BY <1>3 DEF JobVram, FitInv, FileFits
<1>6. Elements(idle') \cup evicted' = DOMAIN fp
  BY <1>2, <1>3 DEF FitInv
<1> QED
  BY <1>2, <1>3, <1>4, <1>5, <1>6, FitFacts, FitNext

\* The clock and the client's heartbeat hand out nothing.
LEMMA QuietFits ==
    ASSUME NEW fp \in Renders, OneRender(fp), FitInv(fp), IInv',
           \/ \E j \in Jobs : Submit(j) \/ Heartbeat(j)
           \/ Tick
           \/ UNCHANGED vars
    PROVE  FitInv(fp)'
<1>1. /\ UNCHANGED <<running, recovered, idle, evicted, foot>>
      /\ disk'.evicted = disk.evicted /\ disk'.foot = disk.foot
      /\ disk'.running = disk.running /\ disk'.recovered = disk.recovered
  <2>1. disk \in StateFile
    BY DEF FitInv, IInv, TypeOK
  <2> QED
    BY <2>1 DEF Submit, Heartbeat, Tick, vars, StateFile
<1>2. JobVram' = JobVram
  BY <1>1 DEF JobVram
<1>3. FileFits(fp)'
  BY <1>1 DEF FitInv, FileFits
<1> QED
  BY <1>1, <1>2, <1>3, FitFacts, FitNext DEF FitInv

\* The file is written when what was handed out fits.
LEMMA SaveFits ==
    ASSUME NEW fp \in Renders, OneRender(fp), FitInv(fp), IInv', Save
    PROVE  FitInv(fp)'
<1>1. UNCHANGED <<running, recovered, idle, evicted, foot>>
  BY DEF Save, decisions
<1>2. /\ disk'.evicted = evicted /\ disk'.running = running
      /\ disk'.recovered = recovered
      /\ disk'.foot = [r \in Residents |-> IF r \in evicted THEN foot[r] ELSE 0]
  BY DEF Save, Snapshot
<1>3. evicted \subseteq DOMAIN fp /\ DOMAIN fp \ evicted \subseteq Elements(idle)
  BY DEF FitInv
<1>4. FileFits(fp)'
  <2>1. \A r \in evicted : disk'.foot[r] = fp[r]
    BY <1>2, <1>3, FitFacts DEF FitInv
  <2>2. [j \in Holders |-> IF j = Recovery THEN disk'.recovered ELSE Vram[j]] = JobVram
    BY <1>2 DEF JobVram
  <2>3. Sum(JobVram, running) + Sum(fp, DOMAIN fp \ evicted) <= Total
    BY <1>3, FitFacts, LessFits
  <2> QED
    BY <1>2, <1>3, <2>1, <2>2, <2>3 DEF FileFits
<1>5. JobVram' = JobVram
  BY <1>1 DEF JobVram
<1> QED
  BY <1>1, <1>4, <1>5, FitFacts, FitNext DEF FitInv

\* A process that loads the file counts what it says and the other residents.
LEMMA LoadFits ==
    ASSUME NEW fp \in Renders, OneRender(fp), FitInv(fp), IInv', NEW down \in 0..MaxTtl,
           Load(fp, down)
    PROVE  FitInv(fp)'
<1>1. /\ running' = disk.running /\ recovered' = disk.recovered
      /\ evicted' = disk.evicted /\ disk' = disk
      /\ foot' = [r \in Residents |-> IF r \in disk.evicted THEN disk.foot[r]
                                      ELSE IF r \in DOMAIN fp THEN fp[r] ELSE 0]
      /\ idle' \in Orderings(DOMAIN fp \ disk.evicted)
  BY DEF Load
<1>2. /\ disk.evicted \subseteq DOMAIN fp
      /\ \A r \in disk.evicted : disk.foot[r] = fp[r]
  BY DEF FitInv, FileFits
<1>3. Elements(idle') = DOMAIN fp \ disk.evicted
  <2>1. DOMAIN fp \ disk.evicted \in SUBSET Residents
    BY FitFacts
  <2> QED
    BY <1>1, <2>1, ResidentsFinite, OrderingFacts
<1>4. JobVram' = [j \in Holders |-> IF j = Recovery THEN disk.recovered ELSE Vram[j]]
  BY <1>1 DEF JobVram
<1>5. Sum(JobVram', running') + Sum(fp, Elements(idle')) <= Total
  BY <1>1, <1>3, <1>4 DEF FitInv, FileFits
<1>6. FileFits(fp)'
  BY <1>1 DEF FitInv, FileFits
<1>7. \A r \in DOMAIN fp : foot'[r] = fp[r]
  BY <1>1, <1>2, FitFacts
<1>8. Elements(idle') \cup evicted' = DOMAIN fp
  BY <1>1, <1>2, <1>3
<1> QED
  BY <1>5, <1>6, <1>7, <1>8, FitNext

\* One that cannot read it reserves what the residents that are down take.
LEMMA HoldFits ==
    ASSUME NEW fp \in Renders, OneRender(fp), FitInv(fp), IInv',
           NEW down \in SUBSET DOMAIN fp, LoadUnreadable(fp, down)
    PROVE  FitInv(fp)'
<1>1. /\ running' = IF down = {} THEN {} ELSE {Recovery}
      /\ foot' = [r \in Residents |-> IF r \in DOMAIN fp THEN fp[r] ELSE 0]
      /\ recovered' = Sum(foot', down)
      /\ evicted' = down /\ disk' = disk
      /\ idle' \in Orderings(DOMAIN fp \ down)
  BY DEF LoadUnreadable
<1>2. Elements(idle') = DOMAIN fp \ down
  <2>1. DOMAIN fp \ down \in SUBSET Residents
    BY FitFacts
  <2> QED
    BY <1>1, <2>1, ResidentsFinite, OrderingFacts
<1>3. \A r \in DOMAIN fp : foot'[r] = fp[r]
  BY <1>1, FitFacts
<1>4. IsFiniteSet(down) /\ IsFiniteSet(DOMAIN fp \ down)
  BY FitFacts, FS_Subset
<1>5. recovered' = Sum(fp, down) /\ recovered' \in Nat
  <2>1. \A r \in down : foot'[r] = fp[r]
    BY <1>3
  <2>2. Sum(foot', down) = Sum(fp, down)
    BY <2>1, SumSame
  <2>3. \A r \in down : fp[r] \in Nat
    BY FitFacts
  <2> QED
    BY <1>1, <1>4, <2>2, <2>3, SumType
<1>6. Sum(JobVram', running') = Sum(fp, down)
  <2>1. JobVram'[Recovery] = recovered'
    BY DEF JobVram, Holders
  <2>2. CASE down = {}
    BY <1>1, <2>2, SumEmpty
  <2>3. CASE down # {}
    BY <1>1, <1>5, <2>1, <2>3, SumSingleton
  <2> QED
    BY <2>2, <2>3
<1>7. Sum(fp, DOMAIN fp) = Sum(fp, down) + Sum(fp, DOMAIN fp \ down)
  <2> DEFINE others == DOMAIN fp \ down
  <2>1. down \cup others = DOMAIN fp /\ down \cap others = {}
    OBVIOUS
  <2>2. \A r \in down \cup others : fp[r] \in Nat
    BY <2>1, FitFacts
  <2>3. IsFiniteSet(others)
    BY <1>4
  <2> HIDE DEF others
  <2>4. Sum(fp, down \cup others) = Sum(fp, down) + Sum(fp, others)
    BY <1>4, <2>1, <2>2, <2>3, SumUnion
  <2> QED
    BY <2>1, <2>4 DEF others
<1>8. FileFits(fp)'
  BY <1>1 DEF FitInv, FileFits
<1>9. Elements(idle') \cup evicted' = DOMAIN fp
  BY <1>1, <1>2
<1> QED
  BY <1>2, <1>3, <1>6, <1>7, <1>8, <1>9, FitNext DEF OneRender

\* Every step keeps what was handed out within the card.
LEMMA FitStep ==
    ASSUME NEW fp \in Renders, OneRender(fp)
    PROVE  FitInv(fp) /\ [Next]_vars => FitInv(fp)'
<1> SUFFICES ASSUME FitInv(fp), [Next]_vars PROVE FitInv(fp)'
  OBVIOUS
<1>1. IInv'
  BY NextInv DEF FitInv
<1>2. CASE Decide
  BY <1>1, <1>2, PumpFits, RestoreFits, ReturnFits, UpdateFits, QuietFits DEF Decide
<1>3. CASE Save
  BY <1>1, <1>3, SaveFits
<1>4. CASE Restart
  <2>1. (\E down \in 0..MaxTtl : Load(fp, down))
           \/ \E down \in SUBSET DOMAIN fp : LoadUnreadable(fp, down)
    BY <1>4 DEF Restart, OneRender
  <2> QED
    BY <1>1, <2>1, LoadFits, HoldFits
<1>5. CASE UNCHANGED vars
  BY <1>1, <1>5, QuietFits
<1> QED
  BY <1>2, <1>3, <1>4, <1>5 DEF Next

\* While the render keeps the residents and their sizes, and they fit the card,
\* no order of requests, expiries, evictions, restores, saves and restarts hands
\* out more than the card has.
THEOREM NeverOvercommitted ==
    ASSUME NEW fp \in Renders, OneRender(fp)
    PROVE  Spec => []NoOvercommit
<1>1. Init => FitInv(fp)
  BY FitInit
<1>2. FitInv(fp) /\ [Next]_vars => FitInv(fp)'
  BY FitStep
<1>3. FitInv(fp) => NoOvercommit
  BY DEF FitInv
<1> QED
  BY <1>1, <1>2, <1>3, PTL DEF Spec

-----------------------------------------------------------------------------
(* The loop of the pump. *)

\* What the residents kept, and the leases with those admitted, occupy.
LEMMA PumpSums ==
    ASSUME IInv, NEW n \in 0..Len(queue), NEW k \in 0..Len(idle)
    PROVE  /\ Admitted(n) \in SUBSET Jobs
           /\ running \cup Admitted(n) \in SUBSET Holders
           /\ Sum(JobVram, running \cup Admitted(n)) \in Nat
           /\ Kept(k) \in SUBSET Residents
           /\ Sum(foot, Kept(k)) \in Nat
<1>1. queue \in Seq(Jobs) /\ idle \in Seq(Residents) /\ running \in SUBSET Holders
      /\ foot \in [Residents -> Nat] /\ TypeOK
  BY DEF IInv, TypeOK
<1>2. Admitted(n) \in SUBSET Jobs
  BY <1>1 DEF Admitted
<1>3. running \cup Admitted(n) \in SUBSET Holders
  BY <1>1, <1>2 DEF Holders
<1>4. Kept(k) \in SUBSET Residents
  BY <1>1 DEF Kept
<1>5. Sum(JobVram, running \cup Admitted(n)) \in Nat
  BY <1>1, <1>3, ClientsWithin
<1>6. Sum(foot, Kept(k)) \in Nat
  BY <1>1, <1>4, ResidentsFinite, SumType
<1> QED
  BY <1>2, <1>3, <1>4, <1>5, <1>6

\* One more request adds its footprint to the leases, unless it is too big.
LEMMA NextRequest ==
    ASSUME IInv, NEW n \in 0..(Len(queue) - 1)
    PROVE  /\ queue[n + 1] \in Jobs
           /\ Vram[queue[n + 1]] \in Nat
           /\ TooBig(queue[n + 1]) => Admitted(n + 1) = Admitted(n)
           /\ ~TooBig(queue[n + 1]) =>
                /\ Admitted(n + 1) = Admitted(n) \cup {queue[n + 1]}
                /\ Sum(JobVram, running \cup Admitted(n + 1))
                     = Sum(JobVram, running \cup Admitted(n)) + Vram[queue[n + 1]]
<1> DEFINE head == queue[n + 1]
           held == running \cup Admitted(n)
<1>1. queue \in Seq(Jobs) /\ Distinct(queue) /\ Elements(queue) \cap running = {}
      /\ Len(queue) \in Nat /\ n \in 0..Len(queue)
      /\ n + 1 \in 1..Len(queue) /\ DOMAIN queue = 1..Len(queue) /\ TypeOK
  BY DEF IInv, TypeOK, OneRequestPerId
<1>2. head \in Jobs /\ Vram[head] \in Nat /\ head \in Elements(queue)
  BY <1>1, JobsAssumption DEF Elements
<1>3. {queue[i] : i \in 1..(n + 1)} = {queue[i] : i \in 1..n} \cup {head}
  <2>1. \A i \in 1..(n + 1) : i \in 1..n \/ i = n + 1
    BY <1>1
  <2>2. \A i \in 1..n : i \in 1..(n + 1)
    BY <1>1
  <2> QED
    BY <1>1, <2>1, <2>2
<1>4. head \notin held
  <2>1. head \notin {queue[i] : i \in 1..n}
    BY <1>1 DEF Distinct
  <2> QED
    BY <1>1, <1>2, <2>1 DEF Admitted
<1>5. TooBig(head) => Admitted(n + 1) = Admitted(n)
  BY <1>3 DEF Admitted
<1>6. ~TooBig(head) => Admitted(n + 1) = Admitted(n) \cup {head}
  BY <1>3 DEF Admitted
<1>7. ASSUME ~TooBig(head)
      PROVE  Sum(JobVram, running \cup Admitted(n + 1))
               = Sum(JobVram, held) + Vram[head]
  <2>1. running \cup Admitted(n + 1) = held \cup {head}
    BY <1>6, <1>7
  <2>2. held \in SUBSET Holders
    <3>1. 0 \in 0..Len(idle)
      BY DEF IInv, TypeOK
    <3> QED
      BY <1>1, <3>1, PumpSums
  <2>3. head \in Holders /\ JobVram[head] = Vram[head] /\ JobVram[head] \in Nat
    BY <1>2, JobsAssumption DEF Holders, JobVram
  <2>4. {head} \in SUBSET Holders /\ held \cap {head} = {}
    BY <1>4, <2>3
  <2>5. \A j \in held \cup {head} : JobVram[j] \in Nat
    BY <1>1, <2>2, <2>3, JobVramType
  <2>6. IsFiniteSet(held) /\ IsFiniteSet({head})
    BY <2>2, <2>4, HoldersFinite
  <2> HIDE DEF held, head
  <2>7. Sum(JobVram, held \cup {head}) = Sum(JobVram, held) + Sum(JobVram, {head})
    BY <2>4, <2>5, <2>6, SumUnion
  <2>8. Sum(JobVram, {head}) = JobVram[head]
    BY <2>3, SumSingleton
  <2> QED
    BY <2>1, <2>3, <2>7, <2>8
<1> QED
  BY <1>2, <1>5, <1>6, <1>7

\* Fewer requests and fewer residents fit where more do.
LEMMA RoomForFewer ==
    ASSUME IInv, NEW n \in 0..Len(queue), NEW m \in 0..n,
           NEW k \in 0..Len(idle), NEW i \in 0..k, RoomFor(n, i)
    PROVE  RoomFor(m, k)
<1>1. Len(queue) \in Nat /\ Len(idle) \in Nat /\ TypeOK
      /\ foot \in [Residents -> Nat]
  BY DEF IInv, TypeOK
<1>2. m \in 0..Len(queue) /\ i \in 0..Len(idle)
  BY <1>1
<1>3. running \cup Admitted(m) \in SUBSET (running \cup Admitted(n))
  BY <1>1 DEF Admitted
<1>4. Kept(k) \in SUBSET Kept(i)
  BY <1>1, <1>2 DEF Kept
<1>5. /\ Sum(JobVram, running \cup Admitted(m)) \in Nat
      /\ Sum(JobVram, running \cup Admitted(n)) \in Nat
      /\ Sum(foot, Kept(k)) \in Nat /\ Sum(foot, Kept(i)) \in Nat
  BY <1>2, PumpSums
<1>6. Sum(JobVram, running \cup Admitted(m)) <= Sum(JobVram, running \cup Admitted(n))
  <2>1. running \cup Admitted(n) \in SUBSET Holders
    BY PumpSums
  <2> QED
    BY <1>1, <1>3, <2>1, HoldersFinite, JobVramType, SumMonotone
<1>7. Sum(foot, Kept(k)) <= Sum(foot, Kept(i))
  <2>1. Kept(i) \in SUBSET Residents
    BY <1>2, PumpSums
  <2> QED
    BY <1>1, <1>4, <2>1, ResidentsFinite, SumMonotone
<1> QED
  BY <1>5, <1>6, <1>7, JobsAssumption DEF RoomFor

\* With every resident evicted there is room for what fits beside the leases.
LEMMA RoomWhenEmpty ==
    ASSUME IInv, NEW n \in 0..Len(queue)
    PROVE  RoomFor(n, Len(idle)) <=> Fits(n)
<1>1. Len(idle) \in Nat /\ Len(idle) \in 0..Len(idle)
  BY DEF IInv, TypeOK
<1>2. Kept(Len(idle)) = {}
  BY <1>1 DEF Kept
<1>3. Sum(foot, Kept(Len(idle))) = 0
  BY <1>2, SumEmpty
<1>4. Sum(JobVram, running \cup Admitted(n)) \in Nat
  BY <1>1, PumpSums
<1> QED
  BY <1>3, <1>4, JobsAssumption DEF RoomFor, Fits

\* What is free where the loop has taken n requests and evicted k residents.
LEMMA FreeAfter ==
    ASSUME IInv, NEW n \in 0..Len(queue), NEW k \in 0..Len(idle)
    PROVE  /\ FreeIn(Decided(n, k)) =
                Total - Sum(JobVram, running \cup Admitted(n)) - Sum(foot, Kept(k))
           /\ n < Len(queue) /\ ~TooBig(queue[n + 1]) =>
                (Vram[queue[n + 1]] <= FreeIn(Decided(n, k)) <=> RoomFor(n + 1, k))
<1>1. idle \in Seq(Residents) /\ Len(queue) \in Nat /\ queue \in Seq(Jobs)
  BY DEF IInv, TypeOK
<1>2. Elements(SubSeq(idle, k + 1, Len(idle))) = Kept(k)
  BY <1>1, SuffixFacts DEF Kept
<1>3. FreeIn(Decided(n, k)) =
        Total - Sum(JobVram, running \cup Admitted(n)) - Sum(foot, Kept(k))
  BY <1>2 DEF FreeIn, Decided
<1>4. ASSUME n < Len(queue), ~TooBig(queue[n + 1])
      PROVE  Vram[queue[n + 1]] <= FreeIn(Decided(n, k)) <=> RoomFor(n + 1, k)
  <2>1. n \in 0..(Len(queue) - 1)
    BY <1>1, <1>4
  <2>2. /\ Vram[queue[n + 1]] \in Nat
        /\ Sum(JobVram, running \cup Admitted(n + 1))
             = Sum(JobVram, running \cup Admitted(n)) + Vram[queue[n + 1]]
    BY <1>4, <2>1, NextRequest
  <2>3. Sum(JobVram, running \cup Admitted(n)) \in Nat /\ Sum(foot, Kept(k)) \in Nat
    BY PumpSums
  <2> QED
    BY <1>3, <2>2, <2>3, JobsAssumption DEF RoomFor
<1> QED
  BY <1>3, <1>4

\* A turn of the loop takes the head, evicts the coldest resident, or, with no
\* request left or none that ever fits beside the leases, changes nothing.
LEMMA TurnFacts ==
    ASSUME IInv, NEW n \in 0..Len(queue), NEW k \in 0..Len(idle)
    PROVE  /\ n = Len(queue) => PumpTurn(Decided(n, k)) = Decided(n, k)
           /\ n < Len(queue) =>
                IF TooBig(queue[n + 1]) \/ RoomFor(n + 1, k)
                THEN PumpTurn(Decided(n, k)) = Decided(n + 1, k)
                ELSE IF k < Len(idle)
                THEN PumpTurn(Decided(n, k)) = Decided(n, k + 1)
                ELSE PumpTurn(Decided(n, k)) = Decided(n, k)
<1> DEFINE st == Decided(n, k)
           head == queue[n + 1]
           gone == {j \in {queue[i] : i \in 1..n} : TooBig(j)}
<1>1. /\ queue \in Seq(Jobs) /\ idle \in Seq(Residents)
      /\ Len(queue) \in Nat /\ Len(idle) \in Nat
  BY DEF IInv, TypeOK
<1>2. ASSUME n = Len(queue)
      PROVE  PumpTurn(st) = st
  <2>1. SubSeq(queue, n + 1, Len(queue)) = <<>>
    BY <1>1, <1>2
  <2> QED
    BY <2>1 DEF PumpTurn, Decided
<1>3. ASSUME n < Len(queue)
      PROVE  IF TooBig(head) \/ RoomFor(n + 1, k)
             THEN PumpTurn(st) = Decided(n + 1, k)
             ELSE IF k < Len(idle)
             THEN PumpTurn(st) = Decided(n, k + 1)
             ELSE PumpTurn(st) = st
  <2>1. n \in 0..(Len(queue) - 1)
    BY <1>1, <1>3
  <2>2. /\ st.queue # <<>> /\ Head(st.queue) = head
        /\ Tail(st.queue) = SubSeq(queue, (n + 1) + 1, Len(queue))
        /\ {queue[i] : i \in 1..(n + 1)} = {queue[i] : i \in 1..n} \cup {head}
    BY <1>1, <2>1, SuffixStep DEF Decided
  <2>3. /\ TooBig(head) => Admitted(n + 1) = Admitted(n)
        /\ ~TooBig(head) => Admitted(n + 1) = Admitted(n) \cup {head}
    BY <2>1, NextRequest
  <2>4. {j \in {queue[i] : i \in 1..(n + 1)} : TooBig(j)}
          = IF TooBig(head) THEN gone \cup {head} ELSE gone
    BY <2>2
  <2>5. ~TooBig(head) => (Vram[head] <= FreeIn(st) <=> RoomFor(n + 1, k))
    BY <1>3, FreeAfter
  <2>6. /\ k < Len(idle) =>
             /\ st.idle # <<>> /\ Head(st.idle) = idle[k + 1]
             /\ Tail(st.idle) = SubSeq(idle, (k + 1) + 1, Len(idle))
             /\ {idle[i] : i \in 1..(k + 1)} = {idle[i] : i \in 1..k} \cup {idle[k + 1]}
        /\ ~(k < Len(idle)) => st.idle = <<>>
    <3>1. CASE k < Len(idle)
      <4>1. k \in 0..(Len(idle) - 1)
        BY <1>1, <3>1
      <4> QED
        BY <1>1, <3>1, <4>1, SuffixStep DEF Decided
    <3>2. CASE ~(k < Len(idle))
      BY <1>1, <3>2 DEF Decided
    <3> QED
      BY <3>1, <3>2
  <2>7. CASE TooBig(head)
    <3>1. PumpTurn(st) = [st EXCEPT !.queue = Tail(@), !.rejected = @ \cup {head}]
      BY <2>2, <2>7 DEF PumpTurn
    <3>2. PumpTurn(st) = Decided(n + 1, k)
      BY <2>2, <2>3, <2>4, <2>7, <3>1 DEF Decided
    <3> QED
      BY <2>7, <3>2
  <2>8. CASE ~TooBig(head) /\ RoomFor(n + 1, k)
    <3>1. PumpTurn(st) = [st EXCEPT !.queue = Tail(@), !.running = @ \cup {head}]
      BY <2>2, <2>5, <2>8 DEF PumpTurn
    <3>2. running \cup Admitted(n + 1) = running \cup Admitted(n) \cup {head}
      BY <2>3, <2>8
    <3>3. PumpTurn(st) = Decided(n + 1, k)
      BY <2>2, <2>4, <2>8, <3>1, <3>2 DEF Decided
    <3> QED
      BY <2>8, <3>3
  <2>9. CASE ~TooBig(head) /\ ~RoomFor(n + 1, k) /\ k < Len(idle)
    <3>1. PumpTurn(st)
            = [st EXCEPT !.idle = Tail(@), !.evicted = @ \cup {Head(st.idle)}]
      BY <2>2, <2>5, <2>6, <2>9 DEF PumpTurn
    <3>2. evicted \cup {idle[i] : i \in 1..(k + 1)}
            = evicted \cup {idle[i] : i \in 1..k} \cup {idle[k + 1]}
      BY <2>6, <2>9
    <3>3. PumpTurn(st) = Decided(n, k + 1)
      BY <2>6, <2>9, <3>1, <3>2 DEF Decided
    <3> QED
      BY <2>9, <3>3
  <2>10. CASE ~TooBig(head) /\ ~RoomFor(n + 1, k) /\ ~(k < Len(idle))
    <3>1. PumpTurn(st) = st
      BY <2>2, <2>5, <2>6, <2>10 DEF PumpTurn
    <3> QED
      BY <2>10, <3>1
  <2> QED
    BY <2>7, <2>8, <2>9, <2>10
<1> QED
  BY <1>2, <1>3

\* The loop evicts only for a request that does not fit yet: what n and k can
\* be after any turn.
Reached(n, k) ==
    /\ Admitted(n) # {} => RoomFor(n, k)
    /\ \/ k = 0
       \/ Admitted(n) # {} /\ ~RoomFor(n, k - 1)
       \/ n < Len(queue) /\ ~TooBig(queue[n + 1]) /\ ~RoomFor(n + 1, k - 1)

\* Nothing is left to take: no request, or one that the leases keep waiting.
Settled(n, k) ==
    n < Len(queue) => /\ ~TooBig(queue[n + 1])
                      /\ ~RoomFor(n + 1, k)
                      /\ k = Len(idle)

\* Where the loop may be after i turns.
After(st, i) ==
    \E n \in 0..Len(queue), k \in 0..Len(idle) :
        /\ st = Decided(n, k)
        /\ Reached(n, k)
        /\ n + k = i \/ Settled(n, k)

\* A settled loop stays where it is.
LEMMA SettledStays ==
    ASSUME IInv, NEW n \in 0..Len(queue), NEW k \in 0..Len(idle), Settled(n, k)
    PROVE  PumpTurn(Decided(n, k)) = Decided(n, k)
<1>1. Len(queue) \in Nat /\ Len(idle) \in Nat
  BY DEF IInv, TypeOK
<1>2. CASE n = Len(queue)
  BY <1>2, TurnFacts
<1>3. CASE n < Len(queue)
  BY <1>1, <1>3, TurnFacts DEF Settled
<1> QED
  BY <1>1, <1>2, <1>3

\* One more turn.
LEMMA AfterTurn ==
    ASSUME IInv, NEW i \in Nat, NEW st, After(st, i)
    PROVE  After(PumpTurn(st), i + 1)
<1>1. PICK n \in 0..Len(queue), k \in 0..Len(idle) :
        /\ st = Decided(n, k)
        /\ Reached(n, k)
        /\ n + k = i \/ Settled(n, k)
  BY DEF After
<1>2. Len(queue) \in Nat /\ Len(idle) \in Nat
  BY DEF IInv, TypeOK
<1>3. CASE Settled(n, k)
  BY <1>1, <1>3, SettledStays DEF After
<1>4. CASE ~Settled(n, k)
  <2>1. n < Len(queue) /\ n + k = i
    BY <1>1, <1>4 DEF Settled
  <2>2. n \in 0..(Len(queue) - 1) /\ n + 1 \in 0..Len(queue)
        /\ n \in 0..(n + 1) /\ (n + 1) + k = i + 1 /\ n + (k + 1) = i + 1
    BY <1>1, <1>2, <2>1
  <2>3. CASE TooBig(queue[n + 1])
    <3>1. PumpTurn(st) = Decided(n + 1, k)
      BY <1>1, <2>1, <2>3, TurnFacts
    <3>2. Admitted(n + 1) = Admitted(n)
      BY <2>2, <2>3, NextRequest
    <3>3. \A m : RoomFor(n + 1, m) <=> RoomFor(n, m)
      BY <3>2 DEF RoomFor
    <3>4. Reached(n + 1, k)
      BY <1>1, <2>3, <3>2, <3>3 DEF Reached
    <3> QED
      BY <2>2, <3>1, <3>4 DEF After
  <2>4. CASE ~TooBig(queue[n + 1]) /\ RoomFor(n + 1, k)
    <3>1. PumpTurn(st) = Decided(n + 1, k)
      BY <1>1, <2>1, <2>4, TurnFacts
    <3>2. Admitted(n + 1) # {}
      BY <2>2, <2>4, NextRequest
    <3>3. k = 0 \/ ~RoomFor(n + 1, k - 1)
      <4>1. CASE k # 0 /\ RoomFor(n + 1, k - 1)
        <5>1. k - 1 \in 0..Len(idle) /\ k - 1 \in 0..(k - 1)
          BY <1>2, <4>1
        <5>2. RoomFor(n, k - 1)
          BY <2>2, <4>1, <5>1, RoomForFewer
        <5> QED
          BY <1>1, <4>1, <5>2 DEF Reached
      <4> QED
        BY <4>1
    <3>4. Reached(n + 1, k)
      BY <2>4, <3>2, <3>3 DEF Reached
    <3> QED
      BY <2>2, <3>1, <3>4 DEF After
  <2>5. CASE ~TooBig(queue[n + 1]) /\ ~RoomFor(n + 1, k)
    <3>1. k < Len(idle)
      BY <1>2, <1>4, <2>5 DEF Settled
    <3>2. k + 1 \in 0..Len(idle) /\ k \in 0..(k + 1) /\ (k + 1) - 1 = k
          /\ n \in 0..n
      BY <1>2, <2>1, <3>1
    <3>3. PumpTurn(st) = Decided(n, k + 1)
      BY <1>1, <2>1, <2>5, <3>1, TurnFacts
    <3>4. Admitted(n) # {} => RoomFor(n, k + 1)
      BY <1>1, <3>2, RoomForFewer DEF Reached
    <3>5. Reached(n, k + 1)
      BY <2>1, <2>5, <3>2, <3>4 DEF Reached
    <3> QED
      BY <2>2, <3>2, <3>3, <3>5 DEF After
  <2> QED
    BY <2>3, <2>4, <2>5
<1> QED
  BY <1>3, <1>4

\* The function PumpLoop is what its definition says.
LEMMA PumpLoopDef ==
    ASSUME PumpTurns \in Nat
    PROVE  /\ PumpLoop[0] = Now
           /\ \A i \in 0..(PumpTurns - 1) : PumpLoop[i + 1] = PumpTurn(PumpLoop[i])
<1> DEFINE Runs(g, m) ==
             g = [i \in 0..m |-> IF i = 0 THEN Now ELSE PumpTurn(g[i - 1])]
           M == {m \in Nat : \E g : Runs(g, m)}
<1>1. 0 \in M
  <2> DEFINE g == [i \in 0..0 |-> Now]
  <2>1. Runs(g, 0)
    OBVIOUS
  <2> QED
    BY <2>1
<1>2. ASSUME NEW m \in Nat, m \in M
      PROVE  m + 1 \in M
  <2>1. PICK g : Runs(g, m)
    BY <1>2
  <2> DEFINE h == [i \in 0..(m + 1) |-> IF i = 0 THEN Now ELSE PumpTurn(g[i - 1])]
  <2>2. \A i \in 0..m : h[i] = g[i]
    BY <2>1
  <2>3. h = [i \in 0..(m + 1) |-> IF i = 0 THEN Now ELSE PumpTurn(g[i - 1])]
    OBVIOUS
  <2> HIDE DEF h
  <2>4. ASSUME NEW i \in 0..(m + 1), i # 0
        PROVE  h[i - 1] = g[i - 1]
    <3>1. i - 1 \in 0..m
      BY <2>4
    <3> QED
      BY <2>2, <3>1
  <2>5. [i \in 0..(m + 1) |-> IF i = 0 THEN Now ELSE PumpTurn(g[i - 1])]
          = [i \in 0..(m + 1) |-> IF i = 0 THEN Now ELSE PumpTurn(h[i - 1])]
    BY <2>4
  <2>6. Runs(h, m + 1)
    BY <2>3, <2>5, Zenon
  <2> QED
    BY <2>6
<1> HIDE DEF M
<1>3. PumpTurns \in M
  BY <1>1, <1>2, Induction
<1>4. \E g : Runs(g, PumpTurns)
  BY <1>3 DEF M
<1>5. Runs(PumpLoop, PumpTurns)
  BY <1>4, Zenon DEF PumpLoop
<1> DEFINE f == PumpLoop
<1>6. \A i \in 0..PumpTurns : f[i] = IF i = 0 THEN Now ELSE PumpTurn(f[i - 1])
  <2> HIDE DEF f
  <2>1. f = [i \in 0..PumpTurns |-> IF i = 0 THEN Now ELSE PumpTurn(f[i - 1])]
    BY <1>5 DEF f
  <2> QED
    BY <2>1
<1> HIDE DEF f
<1>7. \A i \in 0..(PumpTurns - 1) : i + 1 \in 0..PumpTurns /\ i + 1 # 0
                                   /\ (i + 1) - 1 = i
  OBVIOUS
<1>8. \A i \in 0..(PumpTurns - 1) : f[i + 1] = PumpTurn(f[i])
  BY <1>6, <1>7
<1>9. f[0] = Now
  BY <1>6
<1> QED
  BY <1>8, <1>9 DEF f

\* After its last turn the loop has settled where Pump goes.
LEMMA PumpLoopEnds ==
    ASSUME IInv
    PROVE  \E n \in 0..Len(queue), k \in 0..Len(idle) :
              /\ PumpLoop[PumpTurns] = Decided(n, k)
              /\ Reached(n, k)
              /\ Settled(n, k)
<1>1. Len(queue) \in Nat /\ Len(idle) \in Nat /\ PumpTurns \in Nat
      /\ queue \in Seq(Jobs) /\ idle \in Seq(Residents)
  BY DEF IInv, TypeOK, PumpTurns
<1> DEFINE M == {i \in Nat : i <= PumpTurns => After(PumpLoop[i], i)}
<1>2. 0 \in M
  <2>1. Now = Decided(0, 0)
    <3>1. SubSeq(queue, 0 + 1, Len(queue)) = queue
          /\ SubSeq(idle, 0 + 1, Len(idle)) = idle
      BY <1>1
    <3>2. Admitted(0) = {} /\ {idle[i] : i \in 1..0} = {}
          /\ {j \in {queue[i] : i \in 1..0} : TooBig(j)} = {}
      BY DEF Admitted
    <3> QED
      BY <3>1, <3>2 DEF Now, Decided
  <2>2. Reached(0, 0)
    BY DEF Reached, Admitted
  <2>3. 0 \in 0..Len(queue) /\ 0 \in 0..Len(idle) /\ 0 + 0 = 0
    BY <1>1
  <2> QED
    BY <1>1, <2>1, <2>2, <2>3, PumpLoopDef DEF After
<1>3. ASSUME NEW i \in Nat, i \in M
      PROVE  i + 1 \in M
  <2> SUFFICES ASSUME i + 1 <= PumpTurns
               PROVE  After(PumpLoop[i + 1], i + 1)
    BY <1>3
  <2>1. i <= PumpTurns /\ i \in 0..(PumpTurns - 1)
    BY <1>1
  <2>2. After(PumpLoop[i], i)
    BY <1>3, <2>1
  <2>3. PumpLoop[i + 1] = PumpTurn(PumpLoop[i])
    BY <1>1, <2>1, PumpLoopDef
  <2> QED
    BY <2>2, <2>3, AfterTurn
<1> HIDE DEF M
<1>4. PumpTurns \in M
  BY <1>1, <1>2, <1>3, Induction
<1>5. PumpTurns <= PumpTurns
  BY <1>1
<1>6. After(PumpLoop[PumpTurns], PumpTurns)
  BY <1>4, <1>5 DEF M
<1>7. PICK n \in 0..Len(queue), k \in 0..Len(idle) :
        /\ PumpLoop[PumpTurns] = Decided(n, k)
        /\ Reached(n, k)
        /\ n + k = PumpTurns \/ Settled(n, k)
  BY <1>6 DEF After
<1>8. Settled(n, k)
  BY <1>1, <1>7 DEF Settled, PumpTurns
<1> QED
  BY <1>7, <1>8

\* It is one of the outcomes the closed form allows.
LEMMA SettledIsClosedForm ==
    ASSUME IInv, NEW n \in 0..Len(queue), NEW k \in 0..Len(idle),
           Reached(n, k), Settled(n, k)
    PROVE  Takes(n) /\ Evicts(n, k)
<1>1. Len(queue) \in Nat /\ Len(idle) \in Nat /\ n \in 0..n /\ Len(idle) \in 0..Len(idle)
      /\ k \in 0..Len(idle)
  BY DEF IInv, TypeOK
<1>2. Admitted(n) # {} => Fits(n)
  <2> SUFFICES ASSUME RoomFor(n, k) PROVE Fits(n)
    BY DEF Reached
  <2>1. RoomFor(n, Len(idle))
    BY <1>1, RoomForFewer
  <2> QED
    BY <2>1, RoomWhenEmpty
<1>3. ASSUME n < Len(queue)
      PROVE  ~TooBig(queue[n + 1]) /\ ~Fits(n + 1) /\ k = Len(idle)
  <2>1. n + 1 \in 0..Len(queue)
    BY <1>1, <1>3
  <2> QED
    BY <1>3, <2>1, RoomWhenEmpty DEF Settled
<1>4. ASSUME ~(n < Len(queue)), Admitted(n) # {}
      PROVE  RoomFor(n, k) /\ \A i \in 0..(k - 1) : ~RoomFor(n, i)
  <2>1. RoomFor(n, k)
    BY <1>4 DEF Reached
  <2>2. ASSUME NEW i \in 0..(k - 1), RoomFor(n, i)
        PROVE  FALSE
    <3>1. k # 0 /\ k - 1 \in 0..Len(idle) /\ i \in 0..(k - 1)
      BY <1>1
    <3>2. RoomFor(n, k - 1)
      BY <1>1, <2>2, <3>1, RoomForFewer
    <3> QED
      BY <1>4, <3>1, <3>2 DEF Reached
  <2> QED
    BY <2>1, <2>2
<1>5. ASSUME ~(n < Len(queue)), Admitted(n) = {}
      PROVE  k = 0
  BY <1>5 DEF Reached
<1> QED
  BY <1>2, <1>3, <1>4, <1>5 DEF Takes, Evicts

\* And the closed form allows only one.
LEMMA ClosedFormIsOne ==
    ASSUME IInv, NEW n \in 0..Len(queue), NEW k \in 0..Len(idle),
           NEW m \in 0..Len(queue), NEW l \in 0..Len(idle),
           Takes(n), Evicts(n, k), Takes(m), Evicts(m, l)
    PROVE  n = m /\ k = l
<1>1. Len(queue) \in Nat /\ Len(idle) \in Nat
  BY DEF IInv, TypeOK
<1>2. ASSUME NEW a \in 0..Len(queue), NEW b \in 0..Len(queue),
             Takes(a), Takes(b)
      PROVE  ~(a < b)
  <2> SUFFICES ASSUME a < b PROVE FALSE
    OBVIOUS
  <2>1. ~TooBig(queue[a + 1]) /\ ~Fits(a + 1) /\ a + 1 \in 0..b
        /\ a + 1 \in 1..b /\ a + 1 \in 0..Len(queue)
    BY <1>1, <1>2 DEF Takes
  <2>2. Fits(b)
    BY <1>2, <2>1 DEF Takes, Admitted
  <2>3. Len(idle) \in 0..Len(idle)
    BY <1>1
  <2>4. RoomFor(b, Len(idle))
    BY <2>2, RoomWhenEmpty
  <2>5. RoomFor(a + 1, Len(idle))
    BY <2>1, <2>3, <2>4, RoomForFewer
  <2> QED
    BY <2>1, <2>5, RoomWhenEmpty
<1>3. n = m
  BY <1>1, <1>2
<1>4. ASSUME NEW a \in 0..Len(idle), NEW b \in 0..Len(idle),
             Evicts(n, a), Evicts(n, b)
      PROVE  ~(a < b)
  BY <1>1, <1>4 DEF Evicts
<1> QED
  BY <1>1, <1>3, <1>4

\* Pump is the loop of Scheduler.pump.
LEMMA PumpAgrees == IInv => PumpIsTheLoop
<1> SUFFICES ASSUME IInv PROVE PumpIsTheLoop
  OBVIOUS
<1>1. PICK n \in 0..Len(queue), k \in 0..Len(idle) :
        PumpLoop[PumpTurns] = Decided(n, k) /\ Reached(n, k) /\ Settled(n, k)
  BY PumpLoopEnds
<1>2. Takes(n) /\ Evicts(n, k)
  BY <1>1, SettledIsClosedForm
<1>3. PumpTurn(PumpLoop[PumpTurns]) = PumpLoop[PumpTurns]
  BY <1>1, SettledStays
<1>4. \A m \in 0..Len(queue), l \in 0..Len(idle) :
         Takes(m) /\ Evicts(m, l) => PumpLoop[PumpTurns] = Decided(m, l)
  BY <1>1, <1>2, ClosedFormIsOne
<1> QED
  BY <1>2, <1>3, <1>4 DEF PumpIsTheLoop

-----------------------------------------------------------------------------
(* The loop of the restore. *)

\* The loop visits each resident of the order in turn.
LEMMA RestoreLoopDef ==
    ASSUME NEW o, Len(o) \in Nat
    PROVE  \E f : /\ f[0] = [free |-> FreeIn(Now), restore |-> <<>>]
                  /\ \A i \in 0..(Len(o) - 1) : f[i + 1] = RestoreTurn(f[i], o[i + 1])
                  /\ RestoreLoop(o) = f[Len(o)].restore
<1> DEFINE start == [free |-> FreeIn(Now), restore |-> <<>>]
           Runs(g, m) ==
             g = [i \in 0..m |-> IF i = 0 THEN start ELSE RestoreTurn(g[i - 1], o[i])]
           M == {m \in Nat : \E g : Runs(g, m)}
           f == CHOOSE g : Runs(g, Len(o))
<1>1. RestoreLoop(o) = f[Len(o)].restore
  BY DEF RestoreLoop
<1> HIDE DEF start
<1>2. 0 \in M
  <2> DEFINE g == [i \in 0..0 |-> start]
  <2>1. Runs(g, 0)
    OBVIOUS
  <2> QED
    BY <2>1
<1>3. ASSUME NEW m \in Nat, m \in M
      PROVE  m + 1 \in M
  <2>1. PICK g : Runs(g, m)
    BY <1>3
  <2> DEFINE h == [i \in 0..(m + 1) |->
                     IF i = 0 THEN start ELSE RestoreTurn(g[i - 1], o[i])]
  <2>2. \A i \in 0..m : h[i] = g[i]
    BY <2>1
  <2>3. h = [i \in 0..(m + 1) |->
               IF i = 0 THEN start ELSE RestoreTurn(g[i - 1], o[i])]
    OBVIOUS
  <2> HIDE DEF h
  <2>4. ASSUME NEW i \in 0..(m + 1), i # 0
        PROVE  h[i - 1] = g[i - 1]
    <3>1. i - 1 \in 0..m
      BY <2>4
    <3> QED
      BY <2>2, <3>1
  <2>5. [i \in 0..(m + 1) |-> IF i = 0 THEN start ELSE RestoreTurn(g[i - 1], o[i])]
          = [i \in 0..(m + 1) |->
               IF i = 0 THEN start ELSE RestoreTurn(h[i - 1], o[i])]
    BY <2>4
  <2>6. Runs(h, m + 1)
    BY <2>3, <2>5, Zenon
  <2> QED
    BY <2>6
<1> HIDE DEF M
<1>4. Len(o) \in M
  BY <1>2, <1>3, Induction
<1>5. \E g : Runs(g, Len(o))
  BY <1>4 DEF M
<1>6. Runs(f, Len(o))
  BY <1>5, Zenon
<1> HIDE DEF f
<1>7. \A i \in 0..Len(o) : f[i] = IF i = 0 THEN start ELSE RestoreTurn(f[i - 1], o[i])
  BY <1>6
<1>8. \A i \in 0..(Len(o) - 1) : i + 1 \in 0..Len(o) /\ i + 1 # 0 /\ (i + 1) - 1 = i
  OBVIOUS
<1>9. f[0] = start /\ \A i \in 0..(Len(o) - 1) : f[i + 1] = RestoreTurn(f[i], o[i + 1])
  BY <1>7, <1>8
<1> QED
  BY <1>1, <1>9 DEF start

\* What is free is a number of units, negative or not.
LEMMA FreeType ==
    ASSUME IInv
    PROVE  Free \in Int /\ FreeIn(Now) = Free
<1>1. TypeOK /\ running \in SUBSET Holders /\ foot \in [Residents -> Nat]
      /\ idle \in Seq(Residents)
  BY DEF IInv, TypeOK
<1>2. Elements(idle) \in SUBSET Residents
  BY <1>1 DEF Elements
<1>3. Sum(JobVram, running) \in Nat
  BY <1>1, ClientsWithin
<1>4. Sum(foot, Elements(idle)) \in Nat
  BY <1>1, <1>2, ResidentsFinite, SumType
<1>5. FreeIn(Now) = Total - Sum(JobVram, running) - Sum(foot, Elements(idle))
  BY DEF FreeIn, Now
<1> QED
  BY <1>3, <1>4, <1>5, JobsAssumption DEF Free, Used

\* The evicted, and any of them, are residents with a footprint.
LEMMA EvictedFacts ==
    ASSUME IInv
    PROVE  /\ evicted \in SUBSET Residents /\ IsFiniteSet(evicted)
           /\ foot \in [Residents -> Nat]
           /\ \A R \in SUBSET Residents : IsFiniteSet(R) /\ Sum(foot, R) \in Nat
           /\ \A R \in SUBSET Residents : \A r \in Residents \ R :
                 Sum(foot, R \cup {r}) = Sum(foot, R) + foot[r]
           /\ \A R \in SUBSET Residents : \A T \in SUBSET R : Sum(foot, T) <= Sum(foot, R)
<1>1. evicted \in SUBSET Residents /\ IsFiniteSet(evicted)
      /\ foot \in [Residents -> Nat]
  BY ResidentsFinite DEF IInv, TypeOK
<1>2. ASSUME NEW R \in SUBSET Residents
      PROVE  IsFiniteSet(R) /\ Sum(foot, R) \in Nat
             /\ \A T \in SUBSET R : Sum(foot, T) <= Sum(foot, R)
  BY <1>1, ResidentsFinite, SumType, SumMonotone
<1>3. ASSUME NEW R \in SUBSET Residents, NEW r \in Residents \ R
      PROVE  Sum(foot, R \cup {r}) = Sum(foot, R) + foot[r]
  <2> DEFINE one == {r}
  <2>1. R \cap one = {} /\ IsFiniteSet(R) /\ IsFiniteSet(one)
    BY <1>2, FS_Singleton
  <2>2. \A x \in R \cup one : foot[x] \in Nat
    BY <1>1
  <2>3. Sum(foot, one) = foot[r]
    BY <1>1, SumSingleton
  <2> HIDE DEF one
  <2>4. Sum(foot, R \cup one) = Sum(foot, R) + Sum(foot, one)
    BY <2>1, <2>2, SumUnion
  <2> QED
    BY <2>3, <2>4 DEF one
<1> QED
  BY <1>1, <1>2, <1>3

\* Any sequence of evicted residents, largest first, is kept in its order by a
\* sorting of all of them that puts its own before the others of their size.
LEMMA RestoreOrder ==
    ASSUME IInv, NEW R \in SUBSET evicted, NEW s \in Orderings(R), LargestFirst(s)
    PROVE  \E o \in Orderings(evicted) :
              /\ LargestFirst(o)
              /\ \A i, j \in DOMAIN o :
                    o[i] \in R /\ o[j] \notin R /\ foot[o[i]] = foot[o[j]] => i < j
              /\ \A i, j \in DOMAIN o : \A a, b \in DOMAIN s :
                    o[i] = s[a] /\ o[j] = s[b] /\ a < b => i < j
<1>1. IsFiniteSet(evicted) /\ IsFiniteSet(R) /\ \A r \in evicted : foot[r] \in Nat
  BY EvictedFacts
<1>2. /\ s \in Seq(R) /\ Elements(s) = R /\ Distinct(s)
      /\ Len(s) \in Nat /\ DOMAIN s = 1..Len(s)
  BY <1>1, OrderingFacts
<1>3. PICK q : q \in [evicted -> Nat] /\ \A x, y \in evicted : q[x] = q[y] => x = y
  <2> DEFINE n == Cardinality(evicted)
  <2>1. n \in Nat /\ IsFiniteSet(1..n) /\ Cardinality(1..n) = n
    BY <1>1, FS_CardinalityType, FS_Interval
  <2>2. ExistsBijection(evicted, 1..n)
    BY <1>1, <2>1, FS_SameCardinalityBij
  <2>3. PICK q : q \in Bijection(evicted, 1..n)
    BY <2>2 DEF ExistsBijection
  <2>4. q \in [evicted -> 1..n] /\ \A x, y \in evicted : q[x] = q[y] => x = y
    BY <2>3 DEF Bijection, Injection, IsInjective
  <2> HIDE DEF n
  <2>5. q \in [evicted -> Nat]
    BY <2>1, <2>4
  <2> QED
    BY <2>4, <2>5
<1> DEFINE at(x) == CHOOSE a \in DOMAIN s : s[a] = x
           pos == [x \in evicted |-> IF x \in R THEN at(x) ELSE Len(s) + 1 + q[x]]
           B == {p \in evicted \X evicted :
                   \/ foot[p[1]] > foot[p[2]]
                   \/ foot[p[1]] = foot[p[2]] /\ pos[p[1]] < pos[p[2]]}
<1>4. \A x \in R : at(x) \in DOMAIN s /\ s[at(x)] = x
  BY <1>2 DEF Elements
<1>5. \A a \in DOMAIN s : s[a] \in R /\ at(s[a]) = a
  BY <1>2, <1>4 DEF Elements, Distinct
<1> HIDE DEF at
<1>6. /\ \A x \in evicted : pos[x] \in Nat
      /\ \A x \in R : pos[x] <= Len(s)
      /\ \A x \in evicted \ R : pos[x] > Len(s)
      /\ \A a \in DOMAIN s : pos[s[a]] = a
  BY <1>2, <1>3, <1>4, <1>5
<1>7. \A x, y \in evicted : pos[x] = pos[y] => x = y
  <2> SUFFICES ASSUME NEW x \in evicted, NEW y \in evicted, pos[x] = pos[y]
               PROVE  x = y
    OBVIOUS
  <2>1. CASE x \in R /\ y \in R
    BY <1>4, <2>1
  <2>2. CASE x \notin R /\ y \notin R
    <3>1. q[x] \in Nat /\ q[y] \in Nat /\ Len(s) + 1 + q[x] = Len(s) + 1 + q[y]
      BY <1>3, <2>2
    <3>2. q[x] = q[y]
      BY <1>2, <3>1
    <3> QED
      BY <1>3, <3>2
  <2>3. CASE (x \in R /\ y \notin R) \/ (x \notin R /\ y \in R)
    <3>1. pos[x] \in Nat /\ pos[y] \in Nat
      BY <1>6
    <3> HIDE DEF pos
    <3> QED
      BY <1>2, <1>6, <2>3, <3>1
  <2> QED
    BY <2>1, <2>2, <2>3
<1> HIDE DEF pos
<1>8. /\ B \in SUBSET (evicted \X evicted)
      /\ \A x, y \in evicted :
            <<x, y>> \in B <=> \/ foot[x] > foot[y]
                               \/ foot[x] = foot[y] /\ pos[x] < pos[y]
  OBVIOUS
<1> HIDE DEF B
<1>9. \A x \in evicted : <<x, x>> \notin B
  BY <1>1, <1>6, <1>8
<1>10. \A x, y, z \in evicted : <<x, y>> \in B /\ <<y, z>> \in B => <<x, z>> \in B
  <2> SUFFICES ASSUME NEW x \in evicted, NEW y \in evicted, NEW z \in evicted,
                      <<x, y>> \in B, <<y, z>> \in B
               PROVE  <<x, z>> \in B
    OBVIOUS
  <2>1. /\ foot[x] > foot[y] \/ (foot[x] = foot[y] /\ pos[x] < pos[y])
        /\ foot[y] > foot[z] \/ (foot[y] = foot[z] /\ pos[y] < pos[z])
    BY <1>8
  <2>2. /\ foot[x] \in Nat /\ foot[y] \in Nat /\ foot[z] \in Nat
        /\ pos[x] \in Nat /\ pos[y] \in Nat /\ pos[z] \in Nat
    BY <1>1, <1>6
  <2>3. foot[x] > foot[z] \/ (foot[x] = foot[z] /\ pos[x] < pos[z])
    BY <2>1, <2>2
  <2> QED
    BY <1>8, <2>3
<1>11. \A x, y \in evicted : x # y => <<x, y>> \in B \/ <<y, x>> \in B
  <2> SUFFICES ASSUME NEW x \in evicted, NEW y \in evicted, x # y
               PROVE  <<x, y>> \in B \/ <<y, x>> \in B
    OBVIOUS
  <2>1. /\ foot[x] \in Nat /\ foot[y] \in Nat
        /\ pos[x] \in Nat /\ pos[y] \in Nat /\ pos[x] # pos[y]
    BY <1>1, <1>6, <1>7
  <2>2. \/ foot[x] > foot[y] \/ (foot[x] = foot[y] /\ pos[x] < pos[y])
        \/ foot[y] > foot[x] \/ (foot[y] = foot[x] /\ pos[y] < pos[x])
    BY <2>1
  <2> QED
    BY <1>8, <2>2
<1>12. PICK o \in Orderings(evicted) :
          \A i, j \in DOMAIN o : i < j <=> <<o[i], o[j]>> \in B
  BY <1>1, <1>8, <1>9, <1>10, <1>11, Sorting
<1>13. \A i \in DOMAIN o : o[i] \in evicted
  BY DEF Orderings
<1>14. LargestFirst(o)
  <2> SUFFICES ASSUME NEW i \in DOMAIN o, NEW j \in DOMAIN o, i < j
               PROVE  foot[o[i]] >= foot[o[j]]
    BY DEF LargestFirst
  <2>1. foot[o[i]] > foot[o[j]] \/ foot[o[i]] = foot[o[j]]
    BY <1>8, <1>12, <1>13
  <2>2. foot[o[i]] \in Nat /\ foot[o[j]] \in Nat
    BY <1>1, <1>13
  <2> QED
    BY <2>1, <2>2
<1>15. ASSUME NEW i \in DOMAIN o, NEW j \in DOMAIN o,
              o[i] \in R, o[j] \notin R, foot[o[i]] = foot[o[j]]
       PROVE  i < j
  <2>1. pos[o[i]] < pos[o[j]]
    BY <1>2, <1>6, <1>13, <1>15
  <2> QED
    BY <1>8, <1>12, <1>13, <1>15, <2>1
<1>16. ASSUME NEW i \in DOMAIN o, NEW j \in DOMAIN o,
              NEW a \in DOMAIN s, NEW b \in DOMAIN s,
              o[i] = s[a], o[j] = s[b], a < b
       PROVE  i < j
  <2>1. foot[s[a]] >= foot[s[b]]
    BY <1>16 DEF LargestFirst
  <2>2. pos[o[i]] < pos[o[j]]
    BY <1>6, <1>16
  <2>3. foot[o[i]] \in Nat /\ foot[o[j]] \in Nat
    BY <1>1, <1>13
  <2>4. foot[o[i]] > foot[o[j]] \/ foot[o[i]] = foot[o[j]]
    BY <1>16, <2>1, <2>3
  <2> QED
    BY <1>8, <1>12, <1>13, <2>2, <2>4
<1> QED
  BY <1>14, <1>15, <1>16

\* Where the loop over such a sorting is after i turns: it has restored the
\* residents of s it has met, and no other.
Meets(st, i, o, s, R) ==
    \E n \in 0..Len(s) :
        /\ st = [free |-> Free - Sum(foot, {s[a] : a \in 1..n}),
                 restore |-> SubSeq(s, 1, n)]
        /\ {o[j] : j \in 1..i} \cap R = {s[a] : a \in 1..n}

\* One more turn.
LEMMA MeetsNext ==
    ASSUME IInv, NEW R \in SUBSET evicted, NEW s \in Orderings(R),
           LargestFirst(s), Restorable(R),
           NEW o \in Orderings(evicted), LargestFirst(o),
           \A i, j \in DOMAIN o :
              o[i] \in R /\ o[j] \notin R /\ foot[o[i]] = foot[o[j]] => i < j,
           \A i, j \in DOMAIN o : \A a, b \in DOMAIN s :
              o[i] = s[a] /\ o[j] = s[b] /\ a < b => i < j,
           NEW i \in 0..(Len(o) - 1), NEW st, Meets(st, i, o, s, R)
    PROVE  Meets(RestoreTurn(st, o[i + 1]), i + 1, o, s, R)
<1> DEFINE r == o[i + 1]
           seen == {o[j] : j \in 1..i}
<1>1. /\ s \in Seq(R) /\ Elements(s) = R /\ Distinct(s)
      /\ Len(s) \in Nat /\ DOMAIN s = 1..Len(s)
  <2>1. IsFiniteSet(R)
    BY EvictedFacts
  <2> QED
    BY <2>1, OrderingFacts
<1>2. /\ o \in Seq(evicted) /\ Elements(o) = evicted /\ Distinct(o)
      /\ Len(o) \in Nat /\ DOMAIN o = 1..Len(o)
  <2>1. IsFiniteSet(evicted)
    BY EvictedFacts
  <2> QED
    BY <2>1, OrderingFacts
<1>3. /\ i \in Nat /\ i + 1 \in DOMAIN o /\ 1..i \subseteq DOMAIN o
      /\ \A j \in DOMAIN o : j < i + 1 => j \in 1..i
  BY <1>2
<1>4. r \in evicted /\ r \in Residents /\ foot[r] \in Nat
  BY <1>2, <1>3, EvictedFacts DEF Elements
<1>5. \A x \in evicted : \E j \in DOMAIN o : x = o[j]
  BY <1>2 DEF Elements
<1>6. {o[j] : j \in 1..(i + 1)} = seen \cup {r}
  <2>1. \A j \in 1..(i + 1) : j \in 1..i \/ j = i + 1
    BY <1>3
  <2>2. \A j \in 1..i : j \in 1..(i + 1)
    BY <1>3
  <2>3. i + 1 \in 1..(i + 1)
    BY <1>3
  <2> QED
    BY <2>1, <2>2, <2>3
<1>7. r \notin seen
  <2> SUFFICES ASSUME NEW j \in 1..i, o[j] = r PROVE FALSE
    OBVIOUS
  <2>1. j \in DOMAIN o /\ j # i + 1
    BY <1>3
  <2> QED
    BY <1>2, <1>3, <2>1 DEF Distinct
<1>8. PICK n \in 0..Len(s) :
        /\ st = [free |-> Free - Sum(foot, {s[a] : a \in 1..n}),
                 restore |-> SubSeq(s, 1, n)]
        /\ seen \cap R = {s[a] : a \in 1..n}
  BY DEF Meets
<1> DEFINE T == {s[a] : a \in 1..n}
<1>9. T \in SUBSET R /\ T \in SUBSET Residents /\ R \in SUBSET Residents
      /\ Sum(foot, T) \in Nat /\ Sum(foot, R) \in Nat
  <2>1. T \in SUBSET R
    BY <1>1
  <2> HIDE DEF T
  <2> QED
    BY <2>1, EvictedFacts
<1>10. Free \in Int
  BY FreeType
<1>11. CASE r \in R
  <2>1. PICK b \in DOMAIN s : s[b] = r
    BY <1>1, <1>11 DEF Elements
  <2>2. ~(b <= n)
    BY <1>1, <1>7, <1>8, <2>1
  <2>3. ASSUME NEW a \in DOMAIN s, a < b
        PROVE  a <= n
    <3>1. s[a] \in R /\ s[a] \in evicted
      BY <1>1
    <3>2. PICK j \in DOMAIN o : s[a] = o[j]
      BY <1>5, <3>1
    <3>3. j < i + 1
      BY <1>3, <2>1, <2>3, <3>2
    <3>4. s[a] \in seen
      BY <1>3, <3>2, <3>3
    <3>5. PICK c \in 1..n : s[a] = s[c]
      BY <1>8, <3>1, <3>4
    <3>6. a = c
      BY <1>1, <3>5 DEF Distinct
    <3> QED
      BY <3>5, <3>6
  <2>4. b = n + 1 /\ n \in 0..(Len(s) - 1)
    <3>1. b - 1 \in DOMAIN s => b - 1 <= n
      BY <1>1, <2>3
    <3> QED
      BY <1>1, <2>2, <3>1
  <2>5. {s[a] : a \in 1..(n + 1)} = T \cup {r}
    BY <1>1, <2>1, <2>4, SuffixStep
  <2>6. r \notin T
    BY <1>7, <1>8
  <2>7. Sum(foot, T \cup {r}) = Sum(foot, T) + foot[r]
    BY <1>4, <1>9, <2>6, EvictedFacts
  <2>8. Sum(foot, T \cup {r}) <= Sum(foot, R)
    BY <1>9, <1>11, EvictedFacts
  <2>9. Sum(foot, R) <= Free
    BY DEF Restorable
  <2>10. foot[r] <= st.free /\ st.free - foot[r] = Free - Sum(foot, T \cup {r})
    <3>1. st.free = Free - Sum(foot, T)
      BY <1>8
    <3> HIDE DEF T, r
    <3> QED
      BY <1>4, <1>9, <1>10, <2>7, <2>8, <2>9, <3>1
  <2>11. Append(st.restore, r) = SubSeq(s, 1, n + 1)
    <3>1. st.restore = SubSeq(s, 1, n)
      BY <1>8
    <3> QED
      BY <1>1, <2>1, <2>4, <3>1, PrefixStep
  <2>12. RestoreTurn(st, r)
           = [free |-> Free - Sum(foot, {s[a] : a \in 1..(n + 1)}),
              restore |-> SubSeq(s, 1, n + 1)]
    BY <2>5, <2>10, <2>11 DEF RestoreTurn
  <2>13. {o[j] : j \in 1..(i + 1)} \cap R = {s[a] : a \in 1..(n + 1)}
    BY <1>6, <1>8, <1>11, <2>5
  <2>14. n + 1 \in 0..Len(s)
    BY <1>1, <2>4
  <2> QED
    BY <2>12, <2>13, <2>14 DEF Meets
<1>12. CASE r \notin R
  <2> DEFINE U == {q \in R : foot[q] >= foot[r]}
  <2>1. ASSUME NEW q \in U
        PROVE  q \in T
    <3>1. q \in R /\ q \in evicted /\ foot[q] \in Nat /\ foot[q] >= foot[r]
      BY EvictedFacts
    <3>2. PICK j \in DOMAIN o : q = o[j]
      BY <1>5, <3>1
    <3>3. j # i + 1
      BY <1>12, <3>1, <3>2
    <3>4. ASSUME foot[q] = foot[r]
          PROVE  j < i + 1
      BY <1>3, <1>12, <3>1, <3>2, <3>4
    <3>5. ASSUME foot[q] # foot[r]
          PROVE  j < i + 1
      <4>1. ~(foot[r] >= foot[q])
        BY <1>4, <3>1, <3>5
      <4>2. ~(i + 1 < j)
        BY <1>3, <3>2, <4>1 DEF LargestFirst
      <4> QED
        BY <1>2, <1>3, <3>3, <4>2
    <3>6. j < i + 1
      BY <3>4, <3>5
    <3>7. q \in seen
      BY <1>3, <3>2, <3>6
    <3> QED
      BY <1>8, <3>1, <3>7
  <2>2. foot[r] + Sum(foot, U) > Free
    BY <1>4, <1>12 DEF Restorable
  <2> HIDE DEF U
  <2>3. U \in SUBSET T
    BY <2>1
  <2>4. Sum(foot, U) <= Sum(foot, T) /\ Sum(foot, U) \in Nat
    <3>1. U \in SUBSET Residents
      BY <1>9, <2>3
    <3> HIDE DEF T
    <3> QED
      BY <1>9, <2>3, <3>1, EvictedFacts
  <2>5. ~(foot[r] <= st.free)
    <3>1. st.free = Free - Sum(foot, T)
      BY <1>8
    <3> HIDE DEF T, r
    <3> QED
      BY <1>4, <1>9, <1>10, <2>2, <2>4, <3>1
  <2>6. RestoreTurn(st, r) = st
    BY <2>5 DEF RestoreTurn
  <2>7. {o[j] : j \in 1..(i + 1)} \cap R = T
    BY <1>6, <1>8, <1>12
  <2> QED
    BY <1>8, <2>6, <2>7 DEF Meets
<1> QED
  BY <1>11, <1>12

\* What may be restored, in its order, is what the loop restores over some
\* sorting of the evicted.
LEMMA RestoreReached ==
    ASSUME IInv, NEW R \in SUBSET evicted, NEW s \in Orderings(R),
           LargestFirst(s), Restorable(R)
    PROVE  \E o \in Orderings(evicted) : LargestFirst(o) /\ RestoreLoop(o) = s
<1>1. PICK o \in Orderings(evicted) :
        /\ LargestFirst(o)
        /\ \A i, j \in DOMAIN o :
              o[i] \in R /\ o[j] \notin R /\ foot[o[i]] = foot[o[j]] => i < j
        /\ \A i, j \in DOMAIN o : \A a, b \in DOMAIN s :
              o[i] = s[a] /\ o[j] = s[b] /\ a < b => i < j
  BY RestoreOrder
<1>2. /\ s \in Seq(R) /\ Elements(s) = R /\ Distinct(s)
      /\ Len(s) \in Nat /\ DOMAIN s = 1..Len(s)
  <2>1. IsFiniteSet(R)
    BY EvictedFacts
  <2> QED
    BY <2>1, OrderingFacts
<1>3. Elements(o) = evicted /\ Len(o) \in Nat /\ DOMAIN o = 1..Len(o)
  <2>1. IsFiniteSet(evicted)
    BY EvictedFacts
  <2> QED
    BY <2>1, OrderingFacts
<1>4. PICK f :
        /\ f[0] = [free |-> FreeIn(Now), restore |-> <<>>]
        /\ \A i \in 0..(Len(o) - 1) : f[i + 1] = RestoreTurn(f[i], o[i + 1])
        /\ RestoreLoop(o) = f[Len(o)].restore
  BY <1>3, RestoreLoopDef
<1> DEFINE M == {i \in Nat : i <= Len(o) => Meets(f[i], i, o, s, R)}
<1>5. 0 \in M
  <2>1. {s[a] : a \in 1..0} = {} /\ {o[j] : j \in 1..0} = {}
    OBVIOUS
  <2>2. Sum(foot, {s[a] : a \in 1..0}) = 0 /\ Free - 0 = Free
    <3>1. Sum(foot, {s[a] : a \in 1..0}) = 0
      BY <2>1, SumEmpty, Zenon
    <3>2. Free - 0 = Free
      BY FreeType
    <3> QED
      BY <3>1, <3>2
  <2>3. SubSeq(s, 1, 0) = <<>>
    BY <1>2
  <2>4. 0 \in 0..Len(s)
    BY <1>2
  <2>5. Meets(f[0], 0, o, s, R)
    BY <1>4, <2>1, <2>2, <2>3, <2>4, FreeType DEF Meets
  <2> QED
    BY <2>5
<1>6. ASSUME NEW i \in Nat, i \in M
      PROVE  i + 1 \in M
  <2> SUFFICES ASSUME i + 1 <= Len(o)
               PROVE  Meets(f[i + 1], i + 1, o, s, R)
    BY <1>6
  <2>1. i <= Len(o) /\ i \in 0..(Len(o) - 1)
    BY <1>3
  <2>2. Meets(f[i], i, o, s, R)
    BY <1>6, <2>1
  <2>3. f[i + 1] = RestoreTurn(f[i], o[i + 1])
    BY <1>4, <2>1
  <2>4. Meets(RestoreTurn(f[i], o[i + 1]), i + 1, o, s, R)
    BY <1>1, <2>1, <2>2, MeetsNext
  <2> QED
    BY <2>3, <2>4
<1> HIDE DEF M
<1>7. Len(o) \in M /\ Len(o) <= Len(o)
  BY <1>3, <1>5, <1>6, Induction
<1>8. Meets(f[Len(o)], Len(o), o, s, R)
  BY <1>7 DEF M
<1>9. PICK n \in 0..Len(s) :
        /\ f[Len(o)] = [free |-> Free - Sum(foot, {s[a] : a \in 1..n}),
                        restore |-> SubSeq(s, 1, n)]
        /\ {o[j] : j \in 1..Len(o)} \cap R = {s[a] : a \in 1..n}
  BY <1>8 DEF Meets
<1>10. n = Len(s)
  <2> SUFFICES ASSUME n # Len(s) PROVE FALSE
    OBVIOUS
  <2> DEFINE last == Len(s)
  <2>1. last \in DOMAIN s /\ n < last /\ s[last] \in R
    <3>1. last \in Nat /\ n \in 0..last /\ n # last /\ DOMAIN s = 1..last
      BY <1>2
    <3> HIDE DEF last
    <3>2. last \in 1..last /\ n < last
      BY <3>1
    <3> QED
      BY <1>2, <3>1, <3>2 DEF Elements
  <2>2. s[last] \in {o[j] : j \in 1..Len(o)}
    BY <1>3, <2>1 DEF Elements
  <2>3. PICK a \in 1..n : s[last] = s[a]
    BY <1>9, <2>1, <2>2
  <2>4. a \in DOMAIN s /\ a # last
    <3>1. last \in Nat /\ n \in 0..last /\ n < last /\ DOMAIN s = 1..last
      BY <1>2, <2>1
    <3> HIDE DEF last
    <3> QED
      BY <3>1
  <2> QED
    BY <1>2, <2>1, <2>3, <2>4 DEF Distinct
<1>11. SubSeq(s, 1, Len(s)) = s
  BY <1>2, SubSeqFull
<1> QED
  BY <1>1, <1>4, <1>9, <1>10, <1>11

\* Where the loop over any sorting is after i turns: what it restored is in
\* order and fits, and each resident it passed over did not fit beside those
\* as large or larger.
Passes(st, i, o) ==
    /\ st.restore \in Seq(Residents)
    /\ Distinct(st.restore)
    /\ Elements(st.restore) \subseteq {o[j] : j \in 1..i}
    /\ LargestFirst(st.restore)
    /\ st.free = Free - Sum(foot, Elements(st.restore))
    /\ st.restore = <<>> \/ st.free >= 0
    /\ \A j \in 1..i :
          o[j] \notin Elements(st.restore) =>
            foot[o[j]] + Sum(foot, {q \in Elements(st.restore) : foot[q] >= foot[o[j]]})
              > Free

\* One more turn.
LEMMA PassesNext ==
    ASSUME IInv, NEW o \in Orderings(evicted), LargestFirst(o),
           NEW i \in 0..(Len(o) - 1), NEW st, Passes(st, i, o)
    PROVE  Passes(RestoreTurn(st, o[i + 1]), i + 1, o)
<1> DEFINE r == o[i + 1]
           E == Elements(st.restore)
           next == RestoreTurn(st, r)
           tie(x, S) == {q \in S : foot[q] >= foot[x]}
<1>1. /\ o \in Seq(evicted) /\ Elements(o) = evicted /\ Distinct(o)
      /\ Len(o) \in Nat /\ DOMAIN o = 1..Len(o)
  <2>1. IsFiniteSet(evicted)
    BY EvictedFacts
  <2> QED
    BY <2>1, OrderingFacts
<1>2. /\ i \in Nat /\ i + 1 \in DOMAIN o
      /\ \A j \in 1..i : j \in DOMAIN o /\ j < i + 1 /\ j # i + 1
      /\ \A j \in 1..(i + 1) : j \in 1..i \/ j = i + 1
      /\ \A j \in 1..i : j \in 1..(i + 1)
      /\ i + 1 \in 1..(i + 1)
  BY <1>1
<1>3. \A j \in DOMAIN o : o[j] \in Residents /\ foot[o[j]] \in Nat
  BY <1>1, EvictedFacts DEF Elements
<1>4. r \in Residents /\ foot[r] \in Nat
  BY <1>2, <1>3
<1>5. /\ st.restore \in Seq(Residents) /\ Distinct(st.restore)
      /\ E \subseteq {o[j] : j \in 1..i}
      /\ LargestFirst(st.restore)
      /\ st.free = Free - Sum(foot, E)
      /\ st.restore = <<>> \/ st.free >= 0
      /\ \A j \in 1..i : o[j] \notin E => foot[o[j]] + Sum(foot, tie(o[j], E)) > Free
  BY DEF Passes
<1>6. r \notin E /\ \A q \in E : q \in Residents /\ foot[q] \in Nat /\ foot[q] >= foot[r]
  <2> SUFFICES ASSUME NEW q \in E
               PROVE  q # r /\ q \in Residents /\ foot[q] \in Nat /\ foot[q] >= foot[r]
    OBVIOUS
  <2>1. PICK j \in 1..i : q = o[j]
    BY <1>5
  <2>2. j \in DOMAIN o /\ j < i + 1 /\ j # i + 1
    BY <1>2
  <2>3. q # r
    BY <1>1, <1>2, <2>1, <2>2 DEF Distinct
  <2>4. foot[q] >= foot[r]
    BY <1>2, <2>1, <2>2 DEF LargestFirst
  <2> QED
    BY <1>3, <2>1, <2>2, <2>3, <2>4
<1> HIDE DEF r, E
<1>7. E \in SUBSET Residents /\ Sum(foot, E) \in Nat /\ Free \in Int
      /\ st.free \in Int
  <2>1. E \in SUBSET Residents
    BY <1>6
  <2>2. Sum(foot, E) \in Nat /\ Free \in Int
    BY <2>1, EvictedFacts, FreeType
  <2> QED
    BY <1>5, <2>1, <2>2
<1>8. CASE foot[r] <= st.free
  <2> DEFINE s == Append(st.restore, r)
  <2>1. next = [free |-> st.free - foot[r], restore |-> s]
    BY <1>8 DEF RestoreTurn
  <2>2. s \in Seq(Residents) /\ Elements(s) = E \cup {r} /\ Distinct(s)
    BY <1>4, <1>5, <1>6, AppendFacts DEF E
  <2>3. Elements(s) \subseteq {o[j] : j \in 1..(i + 1)}
    BY <1>2, <1>5, <2>2 DEF r
  <2>4. Sum(foot, E \cup {r}) = Sum(foot, E) + foot[r]
    BY <1>4, <1>6, <1>7, EvictedFacts
  <2>5. st.free - foot[r] = Free - Sum(foot, E \cup {r}) /\ st.free - foot[r] >= 0
    BY <1>4, <1>5, <1>7, <1>8, <2>4
  <2>6. LargestFirst(s)
    <3> SUFFICES ASSUME NEW a \in DOMAIN s, NEW b \in DOMAIN s, a < b
                 PROVE  foot[s[a]] >= foot[s[b]]
      BY DEF LargestFirst
    <3> DEFINE m == Len(st.restore)
    <3>1. /\ m \in Nat /\ DOMAIN s = 1..(m + 1) /\ DOMAIN st.restore = 1..m
          /\ \A c \in 1..m : s[c] = st.restore[c]
          /\ s[m + 1] = r
      BY <1>5
    <3> HIDE DEF s
    <3>2. a \in 1..m /\ s[a] = st.restore[a] /\ s[a] \in E
      <4>1. a \in 1..m
        BY <3>1
      <4> QED
        BY <3>1, <4>1 DEF E, Elements
    <3>3. CASE b = m + 1
      BY <1>6, <3>1, <3>2, <3>3
    <3>4. CASE b # m + 1
      <4>1. b \in 1..m /\ s[b] = st.restore[b]
        BY <3>1, <3>4
      <4> QED
        BY <1>5, <3>1, <3>2, <4>1 DEF LargestFirst
    <3> QED
      BY <3>3, <3>4
  <2>7. ASSUME NEW j \in 1..(i + 1), o[j] \notin E \cup {r}
        PROVE  foot[o[j]] + Sum(foot, tie(o[j], E \cup {r})) > Free
    <3>1. j \in 1..i /\ o[j] \notin E
      BY <1>2, <2>7 DEF r
    <3>2. foot[o[j]] + Sum(foot, tie(o[j], E)) > Free
      BY <1>5, <3>1
    <3>3. tie(o[j], E \cup {r}) \in SUBSET Residents
          /\ tie(o[j], E) \in SUBSET tie(o[j], E \cup {r})
          /\ tie(o[j], E) \in SUBSET Residents
      BY <1>4, <1>7
    <3> HIDE DEF tie
    <3>4. /\ Sum(foot, tie(o[j], E)) <= Sum(foot, tie(o[j], E \cup {r}))
          /\ Sum(foot, tie(o[j], E)) \in Nat
          /\ Sum(foot, tie(o[j], E \cup {r})) \in Nat
      BY <3>3, EvictedFacts
    <3>5. foot[o[j]] \in Nat
      BY <1>2, <1>3, <3>1
    <3> QED
      BY <1>7, <3>2, <3>4, <3>5
  <2>8. next.restore = s /\ next.free = st.free - foot[r]
    BY <2>1
  <2> HIDE DEF s, next
  <2>9. Passes(next, i + 1, o)
    BY <2>2, <2>3, <2>5, <2>6, <2>7, <2>8 DEF Passes
  <2> QED
    BY <2>9 DEF next, r
<1>9. CASE ~(foot[r] <= st.free)
  <2>1. next = st
    BY <1>9 DEF RestoreTurn
  <2>2. E \subseteq {o[j] : j \in 1..(i + 1)}
    BY <1>2, <1>5
  <2>3. ASSUME NEW j \in 1..(i + 1), o[j] \notin E
        PROVE  foot[o[j]] + Sum(foot, tie(o[j], E)) > Free
    <3>1. CASE j \in 1..i
      BY <1>5, <2>3, <3>1
    <3>2. CASE j = i + 1
      <4>1. tie(r, E) = E
        BY <1>6
      <4>2. foot[r] + Sum(foot, E) > Free
        BY <1>4, <1>5, <1>7, <1>9
      <4> QED
        BY <3>2, <4>1, <4>2 DEF r
    <3> QED
      BY <1>2, <3>1, <3>2
  <2>4. Passes(st, i + 1, o)
    BY <1>5, <2>2, <2>3 DEF Passes, E
  <2> QED
    BY <2>1, <2>4 DEF r
<1> QED
  BY <1>8, <1>9

\* Whatever sorting the loop visits, it restores what may be restored.
LEMMA RestoreAllowed ==
    ASSUME IInv, NEW o \in Orderings(evicted), LargestFirst(o)
    PROVE  /\ RestoreLoop(o) \in Orderings(Elements(RestoreLoop(o)))
           /\ Elements(RestoreLoop(o)) \in SUBSET evicted
           /\ LargestFirst(RestoreLoop(o))
           /\ Free < 0 => RestoreLoop(o) = <<>>
           /\ ~(Free < 0) => Restorable(Elements(RestoreLoop(o)))
<1>1. Elements(o) = evicted /\ Len(o) \in Nat /\ DOMAIN o = 1..Len(o)
  <2>1. IsFiniteSet(evicted)
    BY EvictedFacts
  <2> QED
    BY <2>1, OrderingFacts
<1>2. PICK f :
        /\ f[0] = [free |-> FreeIn(Now), restore |-> <<>>]
        /\ \A i \in 0..(Len(o) - 1) : f[i + 1] = RestoreTurn(f[i], o[i + 1])
        /\ RestoreLoop(o) = f[Len(o)].restore
  BY <1>1, RestoreLoopDef
<1> DEFINE M == {i \in Nat : i <= Len(o) => Passes(f[i], i, o)}
<1>3. 0 \in M
  <2>1. f[0].restore = <<>> /\ f[0].free = Free /\ Free \in Int
    BY <1>2, FreeType
  <2>2. Elements(<<>>) = {}
    BY DEF Elements
  <2>3. Sum(foot, {}) = 0 /\ Free = Free - 0
    BY <2>1, SumEmpty
  <2>4. Distinct(<<>>) /\ LargestFirst(<<>>) /\ <<>> \in Seq(Residents)
    BY DEF Distinct, LargestFirst
  <2>5. Passes(f[0], 0, o)
    <3>1. f[0].free = Free - Sum(foot, Elements(f[0].restore))
      BY <2>1, <2>2, <2>3
    <3>2. \A j \in 1..0 : FALSE
      OBVIOUS
    <3>3. Elements(f[0].restore) \subseteq {o[j] : j \in 1..0}
      BY <2>1, <2>2
    <3> QED
      BY <2>1, <2>4, <3>1, <3>2, <3>3 DEF Passes
  <2> QED
    BY <2>5
<1>4. ASSUME NEW i \in Nat, i \in M
      PROVE  i + 1 \in M
  <2> SUFFICES ASSUME i + 1 <= Len(o)
               PROVE  Passes(f[i + 1], i + 1, o)
    BY <1>4
  <2>1. i <= Len(o) /\ i \in 0..(Len(o) - 1)
    BY <1>1
  <2>2. Passes(f[i], i, o)
    BY <1>4, <2>1
  <2>3. f[i + 1] = RestoreTurn(f[i], o[i + 1])
    BY <1>2, <2>1
  <2>4. Passes(RestoreTurn(f[i], o[i + 1]), i + 1, o)
    BY <2>1, <2>2, PassesNext
  <2> QED
    BY <2>3, <2>4
<1> HIDE DEF M
<1>5. Len(o) \in M /\ Len(o) <= Len(o)
  BY <1>1, <1>3, <1>4, Induction
<1>6. Passes(f[Len(o)], Len(o), o)
  BY <1>5 DEF M
<1> DEFINE s == RestoreLoop(o)
           R == Elements(s)
           free == f[Len(o)].free
<1>7. /\ s \in Seq(Residents) /\ Distinct(s) /\ LargestFirst(s)
      /\ R \subseteq {o[j] : j \in 1..Len(o)}
      /\ free = Free - Sum(foot, R)
      /\ s = <<>> \/ free >= 0
      /\ \A j \in 1..Len(o) :
            o[j] \notin R =>
              foot[o[j]] + Sum(foot, {q \in R : foot[q] >= foot[o[j]]}) > Free
  BY <1>2, <1>6 DEF Passes
<1> HIDE DEF s, free
<1>8. s \in Orderings(R)
  BY <1>7, DistinctListing
<1>9. R \in SUBSET evicted
  BY <1>1, <1>7 DEF Elements
<1>10. Sum(foot, R) \in Nat /\ Free \in Int
  <2>1. R \in SUBSET Residents
    BY <1>9, EvictedFacts
  <2> HIDE DEF R
  <2> QED
    BY <2>1, EvictedFacts, FreeType
<1>11. Free < 0 => s = <<>>
  BY <1>7, <1>10
<1>12. ASSUME ~(Free < 0)
       PROVE  Restorable(R)
  <2>1. Sum(foot, R) <= Free
    <3>1. CASE s = <<>>
      <4>1. R = {}
        BY <3>1 DEF Elements
      <4> QED
        BY <1>10, <1>12, <4>1, SumEmpty
    <3>2. CASE free >= 0
      BY <1>7, <1>10, <3>2
    <3> QED
      BY <1>7, <3>1, <3>2
  <2>2. ASSUME NEW r \in evicted \ R
        PROVE  foot[r] + Sum(foot, {q \in R : foot[q] >= foot[r]}) > Free
    <3>1. PICK j \in 1..Len(o) : r = o[j]
      BY <1>1 DEF Elements
    <3> QED
      BY <1>7, <2>2, <3>1
  <2> HIDE DEF R
  <2> QED
    BY <2>1, <2>2 DEF Restorable
<1> QED
  BY <1>7, <1>8, <1>9, <1>11, <1>12 DEF s

\* TakeRestorable restores what the code's loop restores.
LEMMA RestoreAgrees == IInv => RestoreIsTheLoop
<1> SUFFICES ASSUME IInv PROVE RestoreIsTheLoop
  OBVIOUS
<1> DEFINE May(s) == IF queue # <<>> \/ Free < 0 THEN s = <<>> ELSE Restorable(Elements(s))
           All == UNION {Orderings(R) : R \in SUBSET evicted}
           Sorted == {o \in Orderings(evicted) : LargestFirst(o)}
<1>1. <<>> \in Orderings({}) /\ LargestFirst(<<>>) /\ Elements(<<>>) = {}
  BY FS_EmptySet DEF Orderings, LargestFirst, Elements
<1>2. Restorable({}) \/ ~Restorable({})
  OBVIOUS
<1>3. PICK any \in Orderings(evicted) : LargestFirst(any)
  <2>1. {} \in SUBSET evicted
    OBVIOUS
  <2> QED
    BY <1>1, <2>1, RestoreOrder
<1>4. ASSUME NEW s \in All, LargestFirst(s), May(s)
      PROVE  \E o \in Sorted : s = Restored(o)
  <2>1. CASE queue # <<>>
    BY <1>3, <1>4, <2>1 DEF Restored
  <2>2. CASE queue = <<>> /\ Free < 0
    <3>1. RestoreLoop(any) = <<>>
      BY <1>3, <2>2, RestoreAllowed
    <3> QED
      BY <1>3, <1>4, <2>2, <3>1 DEF Restored
  <2>3. CASE queue = <<>> /\ ~(Free < 0)
    <3>1. PICK R \in SUBSET evicted : s \in Orderings(R)
      BY <1>4
    <3>2. Elements(s) = R
      BY <3>1 DEF Orderings
    <3>3. Restorable(R)
      BY <1>4, <2>3, <3>2
    <3>4. PICK o \in Orderings(evicted) : LargestFirst(o) /\ RestoreLoop(o) = s
      BY <1>4, <3>1, <3>3, RestoreReached
    <3> QED
      BY <2>3, <3>4 DEF Restored
  <2> QED
    BY <2>1, <2>2, <2>3
<1>5. ASSUME NEW o \in Sorted
      PROVE  Restored(o) \in All /\ LargestFirst(Restored(o)) /\ May(Restored(o))
  <2>1. CASE queue # <<>>
    <3>1. Restored(o) = <<>>
      BY <2>1 DEF Restored
    <3>2. {} \in SUBSET evicted
      OBVIOUS
    <3> QED
      BY <1>1, <2>1, <3>1, <3>2
  <2>2. CASE queue = <<>>
    <3>1. Restored(o) = RestoreLoop(o)
      BY <2>2 DEF Restored
    <3> DEFINE s == RestoreLoop(o)
    <3>2. /\ s \in Orderings(Elements(s)) /\ Elements(s) \in SUBSET evicted
          /\ LargestFirst(s)
          /\ Free < 0 => s = <<>>
          /\ ~(Free < 0) => Restorable(Elements(s))
      BY RestoreAllowed
    <3> HIDE DEF s
    <3>3. s \in All /\ LargestFirst(s) /\ May(s)
      BY <2>2, <3>2
    <3> QED
      BY <3>1, <3>3 DEF s
  <2> QED
    BY <2>1, <2>2
<1>6. {s \in All : LargestFirst(s) /\ May(s)} = {Restored(o) : o \in Sorted}
  BY <1>4, <1>5
<1> QED
  BY <1>6 DEF RestoreIsTheLoop

\* In every reachable state, for every card, queue and set of residents, the
\* decisions of the specification are those of the code's loops, and the loops
\* end.
THEOREM DecisionsAreTheLoops == Spec => []LoopsAgree
<1>1. IInv => LoopsAgree
  BY PumpAgrees, RestoreAgrees DEF LoopsAgree
<1> QED
  BY <1>1, SchedulerInvariant, PTL
=============================================================================
