-------------------------- MODULE LifecycleProofs ---------------------------
(***************************************************************************)
(* Four of Lifecycle's properties for any members, callers, budget and     *)
(* window, and its type invariant.                                         *)
(*                                                                         *)
(* None of them is inductive.  The network is kept because a verb that     *)
(* cycles the owner still has, in what is left of its program, a renewal   *)
(* of every member that is up outside the new namespace (NetworkInv); the  *)
(* card because what a verb took the lock for before an eviction cannot    *)
(* outlive it (CardInv); the budget because the slots of a key are its     *)
(* restarts in the window followed by those under way (BudgetInv).         *)
(***************************************************************************)
EXTENDS Lifecycle, FiniteSetTheorems, TLAPS

Containers == [up : SUBSET Services, bound : SUBSET Members, joined : SUBSET Members,
               failed : SUBSET Members]

Names == {"none", "stop", "start", "restart", "recreate", "reconcile", "reclaim"}
DockerCalls == {"stop", "start", "recreate"} \X Services

\* Only what runs beside its owner, and was created against it, is in its
\* namespace.
Sane(d) ==
    /\ d \in Containers
    /\ d.joined \subseteq d.up \cap d.bound
    /\ d.joined # {} => Owner \in d.up

DockerInv == Sane(docker)

\* The holder of the lock.
VerbInv ==
    /\ verb \in [name : Names, about : SUBSET Services, todo : Seq(DockerCalls)]
    /\ LockFree <=> verb.todo = <<>>
    /\ LockFree => verb.about = {}
    /\ \A i \in DOMAIN verb.todo : verb.todo[i][2] \in verb.about
    /\ verb.name = "stop" => \A i \in DOMAIN verb.todo : verb.todo[i][1] = "stop"
    /\ verb.name = "reconcile" => verb.about = {Resident} /\ Len(verb.todo) = 1
    /\ verb.name = "reclaim" => verb.about = {ComfyUI}

\* Where everything else is; a managed project has none of the scheduler's.
PlacesInv ==
    /\ own \in BOOLEAN
    /\ torn \in BOOLEAN
    /\ lease \in {"free", "queued", "running"}
    /\ evicted \subseteq {Resident}
    /\ reclaim \in {"idle", "measured"}
    /\ sweep \in [rows : SUBSET Members, on : SUBSET Members]
    /\ \A m, n \in sweep.on : m = n
    /\ callers \in [Callers -> SUBSET Asked]
    /\ \A c \in Callers : \A s, t \in callers[c] : s = t
    /\ own => \A c \in Callers : callers[c] = {}
    /\ ~own => LockFree /\ lease = "free" /\ evicted = {} /\ reclaim = "idle"

\* No verb that runs while the resident is out starts it, and none that
\* reclaims ComfyUI runs while a lease does.
CardInv ==
    /\ lease = "running" => evicted = {Resident}
    /\ evicted # {} /\ Resident \in docker.up => verb.name = "reconcile"
    /\ evicted # {} =>
         \A i \in DOMAIN verb.todo : verb.todo[i][2] = Resident => verb.todo[i][1] = "stop"
    /\ verb.name = "reclaim" => lease # "running"

\* After its call number `from`, a program stops or recreates m.
Renews(todo, m, from) ==
    \E i \in DOMAIN todo : i > from /\ todo[i][2] = m /\ todo[i][1] \in {"stop", "recreate"}

\* It renews every member after it touches their owner.
RenewsAll(todo) ==
    \A i \in DOMAIN todo : todo[i][2] = Owner => \A m \in Members : Renews(todo, m, i)

\* Who is up outside the namespace waits for the verb to renew it.
NetworkInv ==
    own =>
      /\ Owner \in docker.up /\ (Cycles \/ ~torn) =>
           \A m \in Members \cap docker.up : m \in docker.joined \/ (Cycles /\ Renews(verb.todo, m, 0))
      /\ Cycles => RenewsAll(verb.todo)

\* The restarts under way that took a slot of the key.
UnderWay(key) ==
    {c \in Callers : \E s \in callers[c] : key = <<"asked", s>>}
      \cup {m \in sweep.on : key = <<"repair", m>>}

\* The slots are those of the restarts that happened, and n new ones.
SlotsAre(taken, happened, n) ==
    /\ taken \in Seq(Nat) /\ happened \in Seq(Nat)
    /\ Len(taken) <= Limit
    /\ Len(taken) = Len(happened) + n
    /\ \A i \in 1..Len(taken) :
         taken[i] = IF i <= Len(happened) THEN happened[i] ELSE 0

BudgetInv ==
    /\ slots \in [Keys -> Seq(Nat)] /\ restarted \in [Keys -> Seq(Nat)]
    /\ \A k \in Keys : SlotsAre(slots[k], restarted[k], Cardinality(UnderWay(k)))

LifecycleInv == DockerInv /\ VerbInv /\ PlacesInv /\ CardInv /\ NetworkInv /\ BudgetInv

-----------------------------------------------------------------------------
\* The services are told apart.
LEMMA ServiceFacts ==
    /\ Owner \in Services /\ Resident \in Services /\ ComfyUI \in Services
    /\ Members \subseteq Services
    /\ Owner \notin Members /\ Resident \notin Members /\ ComfyUI \notin Members
    /\ Owner # Resident /\ Owner # ComfyUI /\ Resident # ComfyUI
BY ServicesAssumption DEF Services

\* A stop takes the service down, and the members out of their owner's
\* namespace.
LEMMA StopFacts ==
    ASSUME NEW d, Sane(d), NEW s \in Services
    PROVE  /\ Sane(StopOne(d, s))
           /\ StopOne(d, s).up = d.up \ {s}
           /\ StopOne(d, s).bound = d.bound
           /\ StopOne(d, s).failed = d.failed
           /\ s = Owner => StopOne(d, s).joined = {}
           /\ s # Owner => StopOne(d, s).joined = d.joined \ {s}
<1> DEFINE e == StopOne(d, s)
<1>1. d \in Containers /\ d.joined \subseteq d.up \cap d.bound
      /\ (d.joined # {} => Owner \in d.up)
  BY DEF Sane
<1>2. e \in Containers
  BY <1>1 DEF StopOne, Containers
<1>3. e.up = d.up \ {s}
  BY <1>1 DEF StopOne, Containers
<1>4. e.bound = d.bound /\ e.failed = d.failed
  BY <1>1 DEF StopOne, Containers
<1>5. e.joined = IF s = Owner THEN {} ELSE d.joined \ {s}
  BY <1>1 DEF StopOne, Containers
<1> HIDE DEF e
<1>6. Sane(e)
  BY <1>1, <1>2, <1>3, <1>4, <1>5 DEF Sane
<1> QED
  BY <1>3, <1>4, <1>5, <1>6 DEF e

\* A start that brings a member up has it join its owner's namespace.
LEMMA StartFacts ==
    ASSUME NEW d, Sane(d), NEW s \in Services
    PROVE  /\ Sane(StartOne(d, s))
           /\ d.up \subseteq StartOne(d, s).up
           /\ StartOne(d, s).up \subseteq d.up \cup {s}
           /\ StartOne(d, s).bound = d.bound
           /\ s # Owner => d.joined \subseteq StartOne(d, s).joined
           /\ s \in d.up => StartOne(d, s) = d
           /\ s \in Members /\ s \notin d.up /\ s \in StartOne(d, s).up
                => s \in StartOne(d, s).joined
<1> DEFINE e == StartOne(d, s)
<1>1. d \in Containers /\ d.joined \subseteq d.up \cap d.bound
      /\ (d.joined # {} => Owner \in d.up)
  BY DEF Sane
<1>2. CASE s \in d.up
  BY <1>2 DEF StartOne
<1>3. CASE s \notin d.up /\ s = Owner
  <2>1. e = [d EXCEPT !.up = @ \cup {s}, !.joined = {}]
    BY <1>3, ServiceFacts DEF StartOne
  <2>2. e \in Containers
    BY <1>1, <2>1 DEF Containers
  <2>3. e.up = d.up \cup {s} /\ e.bound = d.bound /\ e.joined = {}
    BY <1>1, <2>1 DEF Containers
  <2> HIDE DEF e
  <2> QED
    BY <1>1, <1>3, <2>2, <2>3, ServiceFacts DEF Sane, e
<1>4. CASE s \notin d.up /\ s \in Members /\ ~CanJoin(d, s)
  <2>1. s # Owner
    BY <1>4, ServiceFacts
  <2>2. e = [d EXCEPT !.failed = @ \cup {s}]
    BY <1>4, <2>1 DEF StartOne
  <2>3. e \in Containers
    BY <1>1, <1>4, <2>2 DEF Containers
  <2>4. e.up = d.up /\ e.bound = d.bound /\ e.joined = d.joined
    BY <1>1, <2>2 DEF Containers
  <2> HIDE DEF e
  <2> QED
    BY <1>1, <1>4, <2>3, <2>4 DEF Sane, e
<1>5. CASE s \notin d.up /\ s # Owner /\ ~(s \in Members /\ ~CanJoin(d, s))
  <2>1. e = [d EXCEPT !.up = @ \cup {s}, !.failed = @ \ {s},
                      !.joined = @ \cup ({s} \cap Members)]
    BY <1>5 DEF StartOne
  <2>2. e \in Containers
    BY <1>1, <2>1 DEF Containers
  <2>3. e.up = d.up \cup {s} /\ e.bound = d.bound
    BY <1>1, <2>1 DEF Containers
  <2>4. e.joined = d.joined \cup ({s} \cap Members)
    BY <1>1, <2>1 DEF Containers
  <2>5. s \in Members => s \in d.bound /\ Owner \in d.up
    BY <1>5 DEF CanJoin
  <2> HIDE DEF e
  <2> QED
    BY <1>1, <1>5, <2>2, <2>3, <2>4, <2>5 DEF Sane, e
<1> QED
  BY <1>2, <1>3, <1>4, <1>5

\* A member that is up after it was recreated is in its owner's namespace.
LEMMA RecreateFacts ==
    ASSUME NEW d, Sane(d), NEW s \in Services
    PROVE  /\ Sane(Recreate(d, s))
           /\ Recreate(d, s).up \ {s} = d.up \ {s}
           /\ s # Owner => d.joined \ {s} \subseteq Recreate(d, s).joined
           /\ s \in Members /\ s \in Recreate(d, s).up => s \in Recreate(d, s).joined
<1> DEFINE st == StopOne(d, s)
           r == Renewed(d, s)
<1>1. Sane(st) /\ st.up = d.up \ {s} /\ st.bound = d.bound
      /\ (s = Owner => st.joined = {}) /\ (s # Owner => st.joined = d.joined \ {s})
  BY StopFacts
<1>2. st \in Containers /\ st.joined \subseteq st.up \cap st.bound
      /\ (st.joined # {} => Owner \in st.up)
  BY <1>1 DEF Sane
<1>3. r = [st EXCEPT !.bound = IF s = Owner THEN {} ELSE @ \cup ({s} \cap Members)]
  BY DEF Renewed
<1> HIDE DEF st, r
<1>4. r \in Containers
  BY <1>2, <1>3 DEF Containers
<1>5. r.up = st.up /\ r.joined = st.joined
  BY <1>2, <1>3 DEF Containers
<1>6. r.bound = IF s = Owner THEN {} ELSE st.bound \cup ({s} \cap Members)
  BY <1>2, <1>3 DEF Containers
<1>7. Sane(r)
  BY <1>1, <1>2, <1>4, <1>5, <1>6 DEF Sane
<1> QED
  BY <1>1, <1>5, <1>7, StartFacts DEF Recreate, r

\* What a call does to the containers, whichever it is.
LEMMA CallFacts ==
    ASSUME NEW d, Sane(d), NEW call \in DockerCalls
    PROVE  /\ Sane(Did(call, d))
           /\ Did(call, d).up \ {call[2]} = d.up \ {call[2]}
           /\ call[1] = "stop" => call[2] \notin Did(call, d).up
           /\ call[2] # Owner => d.joined \ {call[2]} \subseteq Did(call, d).joined
           /\ call[2] \in Members /\ call[2] \in Did(call, d).up
                => \/ call[2] \in Did(call, d).joined
                   \/ call[1] = "start" /\ Did(call, d) = d
<1>1. call[2] \in Services /\ call[1] \in {"stop", "start", "recreate"}
  BY DEF DockerCalls
<1>2. CASE call[1] = "stop"
  <2>1. Did(call, d) = StopOne(d, call[2])
    BY <1>2 DEF Did
  <2>2. PICK x \in Services : x = call[2]
    BY <1>1
  <2>3. /\ Sane(StopOne(d, x)) /\ StopOne(d, x).up = d.up \ {x}
        /\ x # Owner => StopOne(d, x).joined = d.joined \ {x}
    BY StopFacts
  <2> QED
    BY <1>2, <2>1, <2>2, <2>3
<1>3. CASE call[1] = "start"
  BY <1>1, <1>3, StartFacts DEF Did
<1>4. CASE call[1] = "recreate"
  BY <1>1, <1>4, RecreateFacts DEF Did
<1> QED
  BY <1>1, <1>2, <1>3, <1>4

-----------------------------------------------------------------------------
\* A service with the members of its namespace.
LEMMA GroupFacts ==
    ASSUME NEW s \in Services
    PROVE  /\ Group(s) \in Seq(Services)
           /\ Group(s) # <<>> /\ Group(s)[1] = s
           /\ Tail(Group(s)) \in Seq(Services)
           /\ s = Owner => /\ Len(Group(s)) = Len(MemberList) + 1
                           /\ \A i \in 1..Len(MemberList) : Group(s)[i + 1] = MemberList[i]
                           /\ Len(Tail(Group(s))) = Len(MemberList)
                           /\ \A i \in 1..Len(MemberList) : Tail(Group(s))[i] = MemberList[i]
           /\ s # Owner => Group(s) = <<s>> /\ Tail(Group(s)) = <<>>
<1>1. MemberList \in Seq(Services)
  BY ServicesAssumption, ServiceFacts
<1>2. CASE s # Owner
  BY <1>2 DEF Group
<1>3. CASE s = Owner
  BY <1>1, <1>3 DEF Group
<1> QED
  BY <1>2, <1>3

\* The whole stack, the owner first.
LEMMA WholeFacts ==
    /\ Whole \in Seq(Services) /\ Len(Whole) = Len(MemberList) + 3
    /\ Whole[1] = Owner
    /\ \A i \in 1..Len(MemberList) : Whole[i + 1] = MemberList[i]
    /\ Whole[Len(MemberList) + 2] = Resident
    /\ Whole[Len(MemberList) + 3] = ComfyUI
<1>1. MemberList \in Seq(Services)
  BY ServicesAssumption, ServiceFacts
<1> QED
  BY <1>1, ServiceFacts DEF Whole

\* One call for each service.
LEMMA EachFacts ==
    ASSUME NEW services \in Seq(Services), NEW call \in {"stop", "start", "recreate"}
    PROVE  /\ Each(call, services) \in Seq(DockerCalls)
           /\ Len(Each(call, services)) = Len(services)
           /\ \A i \in 1..Len(services) : Each(call, services)[i] = <<call, services[i]>>
BY DEF Each, DockerCalls

\* A stop and a start for each service.
LEMMA RestartsFacts ==
    ASSUME NEW services \in Seq(Services)
    PROVE  /\ Restarts(services) \in Seq(DockerCalls)
           /\ Len(Restarts(services)) = 2 * Len(services)
           /\ \A i \in 1..Len(services) :
                /\ Restarts(services)[2 * i - 1] = <<"stop", services[i]>>
                /\ Restarts(services)[2 * i] = <<"start", services[i]>>
           /\ \A i \in 1..(2 * Len(services)) :
                /\ (i + 1) \div 2 \in 1..Len(services)
                /\ Restarts(services)[i][2] = services[(i + 1) \div 2]
<1> DEFINE t == Restarts(services)
           n == Len(services)
<1>1. n \in Nat /\ \A i \in 1..n : services[i] \in Services
  OBVIOUS
<1>2. \A i \in 1..(2 * n) : (i + 1) \div 2 \in 1..n
  BY <1>1
<1>3. t = [i \in 1..(2 * n) |->
             <<IF i % 2 = 1 THEN "stop" ELSE "start", services[(i + 1) \div 2]>>]
  BY DEF Restarts
<1> HIDE DEF t, n
<1>4. \A i \in 1..(2 * n) : t[i] \in DockerCalls /\ t[i][2] = services[(i + 1) \div 2]
  BY <1>1, <1>2, <1>3 DEF DockerCalls
<1>5. t \in Seq(DockerCalls) /\ Len(t) = 2 * n
  BY <1>1, <1>3, <1>4
<1>6. ASSUME NEW i \in 1..n
      PROVE  t[2 * i - 1] = <<"stop", services[i]>> /\ t[2 * i] = <<"start", services[i]>>
  <2>1. /\ 2 * i - 1 \in 1..(2 * n) /\ 2 * i \in 1..(2 * n)
        /\ (2 * i - 1) % 2 = 1 /\ (2 * i) % 2 = 0
        /\ (2 * i - 1 + 1) \div 2 = i /\ (2 * i + 1) \div 2 = i
    BY <1>1
  <2> QED
    BY <1>3, <2>1
<1> QED
  BY <1>2, <1>4, <1>5, <1>6 DEF t, n

\* The programs call on the services they are about, their target first, and
\* one that cycles the owner renews the members after it.
ProgramOf(s, group, todo) ==
    /\ todo \in Seq(DockerCalls) /\ todo # <<>> /\ todo[1][2] = s
    /\ \A i \in DOMAIN todo : todo[i][2] \in ToSet(group)
    /\ s = Owner => RenewsAll(todo)

\* Every member is listed.
LEMMA MemberIndex == \A m \in Members : \E k \in 1..Len(MemberList) : MemberList[k] = m
BY ServicesAssumption DEF Members, ToSet

\* Any restart of a list that begins with the owner and goes on with its
\* members.
LEMMA RestartsProgram ==
    ASSUME NEW group \in Seq(Services), group # <<>>,
           group[1] = Owner =>
             /\ Len(MemberList) < Len(group)
             /\ \A i \in 1..Len(MemberList) : group[i + 1] = MemberList[i]
             /\ \A i \in 2..Len(group) : group[i] # Owner
    PROVE  ProgramOf(group[1], group, Restarts(group))
<1> DEFINE t == Restarts(group)
           n == Len(group)
<1>1. n \in Nat /\ n >= 1 /\ DOMAIN group = 1..n
  OBVIOUS
<1>2. /\ t \in Seq(DockerCalls) /\ Len(t) = 2 * n
      /\ \A i \in 1..n : t[2 * i - 1] = <<"stop", group[i]>>
      /\ \A i \in 1..(2 * n) : (i + 1) \div 2 \in 1..n /\ t[i][2] = group[(i + 1) \div 2]
  BY RestartsFacts
<1>3. DOMAIN t = 1..(2 * n)
  BY <1>2
<1> HIDE DEF t, n
<1>4. t # <<>> /\ t[1][2] = group[1]
  <2>1. t[2 * 1 - 1] = <<"stop", group[1]>>
    BY <1>1, <1>2
  <2> QED
    BY <1>1, <1>2, <2>1
<1>5. ASSUME NEW i \in DOMAIN t PROVE t[i][2] \in ToSet(group)
  <2>1. PICK k \in 1..n : k = (i + 1) \div 2 /\ t[i][2] = group[k]
    BY <1>2, <1>3
  <2> QED
    BY <1>1, <2>1 DEF ToSet
<1>6. ASSUME group[1] = Owner PROVE RenewsAll(t)
  <2> SUFFICES ASSUME NEW i \in 1..(2 * n), t[i][2] = Owner, NEW m \in Members
               PROVE  Renews(t, m, i)
    BY <1>3 DEF RenewsAll
  <2>1. (i + 1) \div 2 = 1
    BY <1>1, <1>2, <1>6 DEF n
  <2>2. PICK k \in 1..Len(MemberList) : MemberList[k] = m
    BY MemberIndex
  <2>3. Len(MemberList) \in Nat
    BY ServicesAssumption
  <2>4. k + 1 \in 1..n /\ group[k + 1] = m
    BY <1>6, <2>2, <2>3 DEF n
  <2>5. t[2 * (k + 1) - 1] = <<"stop", m>>
    BY <1>2, <2>4
  <2>6. 2 * (k + 1) - 1 \in 1..(2 * n) /\ 2 * (k + 1) - 1 > i
    BY <1>1, <2>1, <2>4
  <2> QED
    BY <1>3, <2>5, <2>6 DEF Renews
<1> QED
  BY <1>2, <1>4, <1>5, <1>6 DEF ProgramOf, t

\* The three verbs that bring a service up.
LEMMA GroupPrograms ==
    ASSUME NEW s \in Services
    PROVE  /\ ProgramOf(s, Group(s), Restarts(Group(s)))
           /\ ProgramOf(s, Group(s), Each("recreate", Group(s)))
           /\ ProgramOf(s, Group(s), StartProgram(s))
<1> DEFINE g == Group(s)
           tl == Tail(g)
           n == Len(MemberList)
<1>1. /\ g \in Seq(Services) /\ g # <<>> /\ g[1] = s /\ tl \in Seq(Services)
      /\ s = Owner => /\ Len(g) = n + 1 /\ Len(tl) = n
                      /\ \A i \in 1..n : g[i + 1] = MemberList[i]
                      /\ \A i \in 1..n : tl[i] = MemberList[i]
      /\ s # Owner => g = <<s>> /\ tl = <<>>
  BY GroupFacts
<1>2. n \in Nat /\ \A i \in 1..n : MemberList[i] \in Members
  BY ServicesAssumption
<1>3. ASSUME s = Owner, NEW i \in 2..Len(g) PROVE g[i] \in Members
  <2>1. i - 1 \in 1..n /\ g[(i - 1) + 1] = MemberList[i - 1] /\ (i - 1) + 1 = i
    BY <1>1, <1>2, <1>3
  <2> QED
    BY <1>2, <2>1
<1> HIDE DEF g, tl, n
<1>4. ProgramOf(s, g, Restarts(g))
  <2>1. s = Owner => /\ Len(MemberList) < Len(g)
                     /\ \A i \in 1..Len(MemberList) : g[i + 1] = MemberList[i]
                     /\ \A i \in 2..Len(g) : g[i] # Owner
    BY <1>1, <1>2, <1>3, ServiceFacts DEF n
  <2> QED
    BY <1>1, <2>1, RestartsProgram
<1>5. ProgramOf(s, g, Each("recreate", g))
  <2> DEFINE t == Each("recreate", g)
  <2>1. /\ t \in Seq(DockerCalls) /\ Len(t) = Len(g)
        /\ \A i \in 1..Len(g) : t[i] = <<"recreate", g[i]>>
    BY <1>1, EachFacts
  <2> HIDE DEF t
  <2>2. DOMAIN t = 1..Len(g) /\ DOMAIN g = 1..Len(g) /\ Len(g) \in Nat /\ Len(g) >= 1
    BY <1>1, <2>1
  <2>3. t # <<>> /\ t[1][2] = s
    BY <1>1, <2>1, <2>2
  <2>4. \A i \in DOMAIN t : t[i][2] \in ToSet(g)
    BY <2>1, <2>2 DEF ToSet
  <2>5. ASSUME s = Owner PROVE RenewsAll(t)
    <3> SUFFICES ASSUME NEW i \in 1..Len(g), t[i][2] = Owner, NEW m \in Members
                 PROVE  Renews(t, m, i)
      BY <2>2 DEF RenewsAll
    <3>1. i = 1
      BY <1>3, <2>1, <2>2, <2>5, ServiceFacts
    <3>2. PICK k \in 1..n : MemberList[k] = m
      BY MemberIndex DEF n
    <3>3. k + 1 \in 1..Len(g) /\ g[k + 1] = m
      BY <1>1, <1>2, <1>3, <2>5, <3>2
    <3> QED
      BY <1>2, <2>1, <2>2, <3>1, <3>3 DEF Renews
  <2> QED
    BY <2>1, <2>3, <2>4, <2>5 DEF ProgramOf, t
<1>6. ProgramOf(s, g, StartProgram(s))
  <2> DEFINE h == Each("start", <<s>>)
             b == Restarts(tl)
             t == h \o b
  <2>1. h \in Seq(DockerCalls) /\ Len(h) = 1 /\ h[1] = <<"start", s>>
    <3> DEFINE one == <<s>>
    <3>1. one \in Seq(Services) /\ Len(one) = 1 /\ one[1] = s /\ 1 \in 1..1
      OBVIOUS
    <3> HIDE DEF one
    <3>2. /\ Each("start", one) \in Seq(DockerCalls) /\ Len(Each("start", one)) = 1
          /\ Each("start", one)[1] = <<"start", one[1]>>
      BY <3>1, EachFacts
    <3> QED
      BY <3>1, <3>2 DEF one
  <2>2. /\ b \in Seq(DockerCalls) /\ Len(b) = 2 * Len(tl)
        /\ \A i \in 1..Len(tl) : b[2 * i - 1] = <<"stop", tl[i]>>
        /\ \A i \in 1..(2 * Len(tl)) : (i + 1) \div 2 \in 1..Len(tl)
                                      /\ b[i][2] = tl[(i + 1) \div 2]
    BY <1>1, RestartsFacts
  <2> HIDE DEF h, b
  <2>3. /\ t \in Seq(DockerCalls) /\ Len(t) = 1 + 2 * Len(tl) /\ t[1] = <<"start", s>>
        /\ \A i \in 2..Len(t) : t[i] = b[i - 1]
        /\ Len(tl) \in Nat /\ DOMAIN t = 1..Len(t)
    <3>1. Len(tl) \in Nat
      BY <1>1
    <3>2. h \in Seq(DockerCalls) /\ b \in Seq(DockerCalls)
      BY <2>1, <2>2
    <3>3. t \in Seq(DockerCalls) /\ Len(t) = Len(h) + Len(b) /\ DOMAIN t = 1..Len(t)
      BY <3>2
    <3>4. \A i \in 1..Len(t) : t[i] = IF i <= Len(h) THEN h[i] ELSE b[i - Len(h)]
      BY <3>2
    <3> QED
      BY <2>1, <2>2, <3>1, <3>3, <3>4
  <2> HIDE DEF t
  <2>4. t # <<>> /\ t[1][2] = s
    BY <2>3
  <2>5. \A i \in 2..Len(t) : \E k \in 1..Len(tl) : t[i][2] = tl[k]
    BY <2>2, <2>3
  <2>6. \A k \in 1..Len(tl) : tl[k] \in ToSet(g) /\ (s = Owner => tl[k] \in Members)
    <3>1. DOMAIN g = 1..Len(g) /\ \A k \in 1..Len(tl) : k + 1 \in 1..Len(g) /\ tl[k] = g[k + 1]
      BY <1>1 DEF tl
    <3> QED
      BY <1>1, <1>2, <3>1 DEF ToSet
  <2>7. s \in ToSet(g)
    BY <1>1 DEF ToSet
  <2>8. \A i \in DOMAIN t : t[i][2] \in ToSet(g)
    BY <2>3, <2>4, <2>5, <2>6, <2>7
  <2>9. ASSUME s = Owner PROVE RenewsAll(t)
    <3> SUFFICES ASSUME NEW i \in 1..Len(t), t[i][2] = Owner, NEW m \in Members
                 PROVE  Renews(t, m, i)
      BY <2>3 DEF RenewsAll
    <3>1. i = 1
      BY <2>3, <2>5, <2>6, <2>9, ServiceFacts
    <3>2. PICK k \in 1..n : MemberList[k] = m
      BY MemberIndex DEF n
    <3>3. k \in 1..Len(tl) /\ tl[k] = m
      BY <1>1, <2>9, <3>2
    <3>4. b[2 * k - 1] = <<"stop", m>>
      BY <2>2, <3>3
    <3>5. 2 * k \in 2..Len(t) /\ t[2 * k] = b[2 * k - 1]
      BY <2>3, <3>3
    <3> QED
      BY <2>3, <3>1, <3>4, <3>5 DEF Renews
  <2>10. StartProgram(s) = t
    BY DEF StartProgram, t, h, b, tl, g
  <2> QED
    BY <2>3, <2>4, <2>8, <2>9, <2>10 DEF ProgramOf
<1> QED
  BY <1>4, <1>5, <1>6 DEF g

\* The restart of the whole stack.
LEMMA WholeProgram == ProgramOf(Owner, Whole, Restarts(Whole))
<1> DEFINE n == Len(MemberList)
<1>1. n \in Nat /\ \A i \in 1..n : MemberList[i] \in Members
  BY ServicesAssumption
<1>2. /\ Whole \in Seq(Services) /\ Len(Whole) = n + 3 /\ Whole[1] = Owner
      /\ \A i \in 1..n : Whole[i + 1] = MemberList[i]
      /\ Whole[n + 2] = Resident /\ Whole[n + 3] = ComfyUI
  BY WholeFacts
<1> HIDE DEF n
<1>3. ASSUME NEW i \in 2..Len(Whole) PROVE Whole[i] # Owner
  <2>1. CASE i \in 2..(n + 1)
    <3>1. i - 1 \in 1..n /\ Whole[(i - 1) + 1] = MemberList[i - 1] /\ (i - 1) + 1 = i
      BY <1>1, <1>2, <2>1
    <3> QED
      BY <1>1, <3>1, ServiceFacts
  <2>2. CASE i = n + 2 \/ i = n + 3
    BY <1>2, <2>2, ServiceFacts
  <2> QED
    BY <1>1, <1>2, <2>1, <2>2
<1>4. Whole # <<>>
  BY <1>1, <1>2
<1>5. Len(MemberList) < Len(Whole)
      /\ \A i \in 1..Len(MemberList) : Whole[i + 1] = MemberList[i]
  BY <1>1, <1>2 DEF n
<1> QED
  BY <1>2, <1>3, <1>4, <1>5, RestartsProgram

\* A stop only stops.
LEMMA StopPrograms ==
    ASSUME NEW s \in Services
    PROVE  /\ StopProgram(s) \in Seq(DockerCalls) /\ StopProgram(s) # <<>>
           /\ \A i \in DOMAIN StopProgram(s) :
                StopProgram(s)[i][1] = "stop" /\ StopProgram(s)[i][2] \in ToSet(Group(s))
<1> DEFINE g == Group(s)
           q == Tail(g) \o <<s>>
<1>1. g \in Seq(Services) /\ g # <<>> /\ g[1] = s
  BY GroupFacts
<1>2. /\ q \in Seq(Services) /\ q # <<>> /\ DOMAIN q = 1..Len(q) /\ Len(q) \in Nat
      /\ \A i \in 1..Len(q) : \E j \in DOMAIN g : q[i] = g[j]
  <2>1. /\ Tail(g) \in Seq(Services) /\ <<s>> \in Seq(Services)
        /\ \A i \in 1..Len(Tail(g)) : i + 1 \in DOMAIN g /\ Tail(g)[i] = g[i + 1]
        /\ 1 \in DOMAIN g
    BY <1>1
  <2>2. q \in Seq(Services) /\ Len(q) = Len(Tail(g)) + 1 /\ q[Len(q)] = s
        /\ \A i \in 1..Len(Tail(g)) : q[i] = Tail(g)[i]
    BY <2>1
  <2> QED
    BY <1>1, <2>1, <2>2
<1> HIDE DEF q
<1>3. /\ Each("stop", q) \in Seq(DockerCalls) /\ Len(Each("stop", q)) = Len(q)
      /\ \A i \in 1..Len(q) : Each("stop", q)[i] = <<"stop", q[i]>>
  BY <1>2, EachFacts
<1>4. StopProgram(s) = Each("stop", q)
  BY DEF StopProgram, q
<1>5. DOMAIN Each("stop", q) = 1..Len(q) /\ Each("stop", q) # <<>>
  BY <1>2, <1>3
<1>6. \A i \in 1..Len(q) : q[i] \in ToSet(g)
  BY <1>2 DEF ToSet
<1> QED
  BY <1>3, <1>4, <1>5, <1>6

-----------------------------------------------------------------------------
\* The parts of the invariant that only say what there is.
Shape == DockerInv /\ VerbInv /\ PlacesInv

\* Only the owner's group has the owner.
LEMMA GroupServices ==
    ASSUME NEW s \in Services
    PROVE  /\ ToSet(Group(s)) \subseteq Services
           /\ Owner \in ToSet(Group(s)) => s = Owner
<1>1. CASE s = Owner
  BY <1>1, GroupFacts DEF ToSet
<1>2. CASE s # Owner
  BY <1>2, GroupFacts DEF ToSet
<1> QED
  BY <1>1, <1>2

\* What a verb takes the lock for.
VerbTaken(name, group, todo) ==
    /\ Takes(name, group, todo) /\ name \in {"stop", "start", "restart", "recreate"}
    /\ ToSet(group) \subseteq Services
    /\ todo \in Seq(DockerCalls) /\ todo # <<>>
    /\ \A i \in DOMAIN todo : todo[i][2] \in ToSet(group)
    /\ name = "stop" => \A i \in DOMAIN todo : todo[i][1] = "stop"
    /\ name # "stop" /\ Owner \in ToSet(group) => RenewsAll(todo) /\ todo[1][2] = Owner
    /\ name = "stop" \/ ToSet(group) \cap evicted = {}

\* Every verb takes the lock that way.
LEMMA ServiceVerbTakes ==
    ASSUME Shape, ServiceVerb
    PROVE  own /\ \E name, group, todo : VerbTaken(name, group, todo)
<1>1. own
  BY DEF ServiceVerb
<1>2. ASSUME NEW s \in Services, Takes("stop", Group(s), StopProgram(s))
      PROVE  VerbTaken("stop", Group(s), StopProgram(s))
  BY <1>2, StopPrograms, GroupServices DEF VerbTaken
<1>3. ASSUME NEW s \in Services, ToSet(Group(s)) \cap evicted = {},
             NEW name \in {"start", "restart", "recreate"},
             NEW todo, ProgramOf(s, Group(s), todo), Takes(name, Group(s), todo)
      PROVE  VerbTaken(name, Group(s), todo)
  BY <1>3, GroupServices DEF VerbTaken, ProgramOf
<1>4. ASSUME ~Leased, Takes("restart", Whole, Restarts(Whole))
      PROVE  VerbTaken("restart", Whole, Restarts(Whole))
  <2>1. evicted = {}
    BY <1>4 DEF Leased
  <2>2. ToSet(Whole) \subseteq Services
    BY WholeFacts DEF ToSet
  <2> QED
    BY <1>4, <2>1, <2>2, WholeProgram DEF VerbTaken, ProgramOf
<1>5. CASE \E s \in Services : Takes("stop", Group(s), StopProgram(s))
  BY <1>1, <1>2, <1>5
<1>6. CASE ~Leased /\ Takes("restart", Whole, Restarts(Whole))
  BY <1>1, <1>4, <1>6
<1>7. CASE \E s \in Services :
             /\ ToSet(Group(s)) \cap evicted = {}
             /\ \/ Takes("start", Group(s), StartProgram(s))
                \/ Takes("restart", Group(s), Restarts(Group(s)))
                \/ Takes("recreate", Group(s), Each("recreate", Group(s)))
  <2>1. PICK s \in Services :
             /\ ToSet(Group(s)) \cap evicted = {}
             /\ \/ Takes("start", Group(s), StartProgram(s))
                \/ Takes("restart", Group(s), Restarts(Group(s)))
                \/ Takes("recreate", Group(s), Each("recreate", Group(s)))
    BY <1>7
  <2>2. CASE Takes("start", Group(s), StartProgram(s))
    BY <1>1, <1>3, <2>1, <2>2, GroupPrograms
  <2>3. CASE Takes("restart", Group(s), Restarts(Group(s)))
    BY <1>1, <1>3, <2>1, <2>3, GroupPrograms
  <2>4. CASE Takes("recreate", Group(s), Each("recreate", Group(s)))
    BY <1>1, <1>3, <2>1, <2>4, GroupPrograms
  <2> QED
    BY <2>1, <2>2, <2>3, <2>4
<1> QED
  BY <1>5, <1>6, <1>7 DEF ServiceVerb

\* The scheduler and the reclaim take it for one service.
LEMMA OtherTakes ==
    /\ Each("stop", <<Resident>>) = <<<<"stop", Resident>>>>
    /\ Each("start", <<Resident>>) = <<<<"start", Resident>>>>
    /\ Restarts(<<ComfyUI>>) \in Seq(DockerCalls) /\ Restarts(<<ComfyUI>>) # <<>>
    /\ \A i \in DOMAIN Restarts(<<ComfyUI>>) : Restarts(<<ComfyUI>>)[i][2] = ComfyUI
    /\ ToSet(<<ComfyUI>>) = {ComfyUI} /\ ToSet(<<Resident>>) = {Resident}
<1>1. ToSet(<<ComfyUI>>) = {ComfyUI} /\ ToSet(<<Resident>>) = {Resident}
  BY DEF ToSet
<1>2. Each("stop", <<Resident>>) = <<<<"stop", Resident>>>>
  BY DEF Each
<1>3. Each("start", <<Resident>>) = <<<<"start", Resident>>>>
  BY DEF Each
<1>4. /\ Restarts(<<ComfyUI>>) \in Seq(DockerCalls) /\ Restarts(<<ComfyUI>>) # <<>>
      /\ \A i \in DOMAIN Restarts(<<ComfyUI>>) : Restarts(<<ComfyUI>>)[i][2] = ComfyUI
  <2> DEFINE one == <<ComfyUI>>
  <2>1. one \in Seq(Services) /\ one # <<>> /\ one[1] = ComfyUI
    BY ServiceFacts
  <2>2. one[1] # Owner
    BY <2>1, ServiceFacts
  <2> HIDE DEF one
  <2>3. ProgramOf(one[1], one, Restarts(one))
    BY <2>1, <2>2, RestartsProgram
  <2>4. ToSet(one) = {ComfyUI}
    BY <1>1 DEF one
  <2> QED
    BY <2>3, <2>4 DEF ProgramOf, one
<1> QED
  BY <1>1, <1>2, <1>3, <1>4

\* Docker does what is asked of it, one call at a time.
LEMMA DockerStep ==
    ASSUME Shape, [Next]_vars
    PROVE  DockerInv'
<1> USE DEF Shape, DockerInv
<1>1. ASSUME ~LockFree
      PROVE  Head(verb.todo) \in DockerCalls /\ Sane(Did(Head(verb.todo), docker))
  <2>1. verb.todo \in Seq(DockerCalls) /\ verb.todo # <<>>
    BY <1>1 DEF VerbInv
  <2>2. Head(verb.todo) \in DockerCalls
    BY <2>1
  <2> QED
    BY <2>2, CallFacts
<1>2. CASE VerbCalls
  BY <1>1, <1>2 DEF VerbCalls
<1>3. CASE VerbRaises
  BY <1>1, <1>3 DEF VerbRaises
<1>4. ASSUME NEW c \in Callers, CallerRestarts(c) \/ CallerFails(c)
      PROVE  Sane(docker')
  <2>1. callers[c] \subseteq Services
    BY BudgetAssumption DEF PlacesInv
  <2>2. \A s \in callers[c] : /\ Sane(StopOne(docker, s))
                              /\ Sane(StartOne(StopOne(docker, s), s))
    BY <2>1, StopFacts, StartFacts
  <2>3. CASE CallerRestarts(c)
    BY <2>2, <2>3 DEF CallerRestarts
  <2>4. CASE CallerFails(c)
    BY <2>2, <2>4 DEF CallerFails
  <2> QED
    BY <1>4, <2>3, <2>4
<1>5. CASE SweepRepairs
  <2>1. \A m \in sweep.on : m \in Services
    BY ServiceFacts DEF PlacesInv
  <2>2. \A m \in sweep.on : /\ Sane(StartOne(StopOne(docker, m), m))
                            /\ Sane(Recreate(docker, m))
    BY <2>1, StopFacts, StartFacts, RecreateFacts
  <2> QED
    BY <1>5, <2>2 DEF SweepRepairs
<1>6. CASE DaemonRestarts
  <2>1. PICK early \in SUBSET (docker.up \cap Members) :
          docker' = [docker EXCEPT
            !.up = @ \ (early \cup {m \in docker.up \cap Members : ~CanJoin(docker, m)}),
            !.failed = @ \cup (early \cup {m \in docker.up \cap Members : ~CanJoin(docker, m)}),
            !.joined = (docker.up \cap Members)
                         \ (early \cup {m \in docker.up \cap Members : ~CanJoin(docker, m)})]
    BY <1>6 DEF DaemonRestarts
  <2> DEFINE lost == early \cup {m \in docker.up \cap Members : ~CanJoin(docker, m)}
             stay == (docker.up \cap Members) \ lost
  <2>2. lost \subseteq docker.up \cap Members
    OBVIOUS
  <2>3. stay \subseteq docker.bound /\ (stay # {} => Owner \in docker.up)
    BY DEF CanJoin
  <2> HIDE DEF lost
  <2>4. docker \in Containers
    BY DEF Sane
  <2>5. docker' = [docker EXCEPT !.up = @ \ lost, !.failed = @ \cup lost, !.joined = stay]
    BY <2>1 DEF lost
  <2> HIDE DEF stay
  <2>6. docker' \in Containers
    BY <2>2, <2>4, <2>5 DEF Containers, stay
  <2>7. docker'.up = docker.up \ lost /\ docker'.bound = docker.bound
        /\ docker'.joined = stay
    BY <2>4, <2>5 DEF Containers
  <2>8. Owner \notin lost /\ stay \subseteq docker'.up
    BY <2>2, <2>7, ServiceFacts DEF stay
  <2> QED
    BY <2>3, <2>6, <2>7, <2>8 DEF Sane
<1>7. CASE Elsewhere
  <2>1. docker \in Containers
    BY DEF Sane
  <2>2. CASE docker' = [docker EXCEPT !.up = @ \ ({Owner} \cup Members), !.joined = {}]
    <3>1. docker' \in Containers
      BY <2>1, <2>2 DEF Containers
    <3>2. docker'.joined = {}
      BY <2>1, <2>2 DEF Containers
    <3> QED
      BY <3>1, <3>2 DEF Sane
  <2>3. CASE docker' = [docker EXCEPT !.up = @ \cup {Owner} \cup Members, !.bound = Members,
                                      !.joined = Members, !.failed = {}]
    <3>1. docker' \in Containers
      BY <2>1, <2>3, ServiceFacts DEF Containers
    <3>2. docker'.joined = Members /\ docker'.bound = Members
          /\ docker'.up = docker.up \cup {Owner} \cup Members
      BY <2>1, <2>3 DEF Containers
    <3> QED
      BY <3>1, <3>2 DEF Sane
  <2> QED
    BY <1>7, <2>2, <2>3 DEF Elsewhere
<1>8. CASE UNCHANGED docker
  BY <1>8
<1>9. ServiceVerb \/ Ask \/ Complete \/ Reconcile \/ ReclaimMeasures \/ ReclaimRestarts
        \/ (\E c \in Callers : CallerReserves(c)) \/ SweepLists \/ SweepReserves \/ Tick
        \/ UNCHANGED vars => UNCHANGED docker
  BY DEF ServiceVerb, Ask, Complete, Reconcile, ReclaimMeasures, ReclaimRestarts, CallerReserves,
     SweepLists, SweepReserves, Tick, vars
<1> QED
  BY <1>2, <1>3, <1>4, <1>5, <1>6, <1>7, <1>8, <1>9 DEF Next, Sweep

\* The lock's holder: what it calls is about what it took the lock for.
LEMMA VerbStep ==
    ASSUME Shape, [Next]_vars
    PROVE  VerbInv'
<1> USE DEF Shape
<1>1. CASE ServiceVerb
  <2>1. PICK name, group, todo : VerbTaken(name, group, todo)
    BY <1>1, ServiceVerbTakes
  <2> QED
    BY <2>1 DEF VerbTaken, Takes, VerbInv, LockFree, Names
<1>2. CASE VerbCalls
  <2>1. CASE verb' = Free
    BY <2>1 DEF Free, VerbInv, LockFree, Names
  <2>2. CASE verb' = [verb EXCEPT !.todo = Tail(@)] /\ Tail(verb.todo) # <<>>
    <3>1. verb.todo \in Seq(DockerCalls) /\ verb.todo # <<>>
      BY <1>2 DEF VerbCalls, VerbInv
    <3>2. /\ Tail(verb.todo) \in Seq(DockerCalls)
          /\ Len(verb.todo) > 1
          /\ \A i \in DOMAIN Tail(verb.todo) :
               i + 1 \in DOMAIN verb.todo /\ Tail(verb.todo)[i] = verb.todo[i + 1]
      BY <2>2, <3>1
    <3>3. verb' = [name |-> verb.name, about |-> verb.about, todo |-> Tail(verb.todo)]
      BY <2>2 DEF VerbInv
    <3> DEFINE rest == Tail(verb.todo)
    <3> HIDE DEF rest
    <3>4. /\ verb'.name = verb.name /\ verb'.about = verb.about /\ verb'.todo = rest
          /\ verb' = [name |-> verb.name, about |-> verb.about, todo |-> rest]
          /\ rest # <<>> /\ rest \in Seq(DockerCalls)
          /\ \A i \in DOMAIN rest : i + 1 \in DOMAIN verb.todo /\ rest[i] = verb.todo[i + 1]
      BY <2>2, <3>2, <3>3 DEF rest
    <3>5. verb.name # "none" /\ verb.name # "reconcile"
      BY <1>2, <3>2 DEF VerbCalls, VerbInv, LockFree
    <3> QED
      BY <3>4, <3>5 DEF VerbInv, LockFree
  <2> QED
    BY <1>2, <2>1, <2>2 DEF VerbCalls
<1>3. CASE verb' = Free
  BY <1>3 DEF Free, VerbInv, LockFree, Names
<1>4. CASE Reconcile
  <2>1. CASE \E call \in {"stop", "start"} :
                Takes("reconcile", <<Resident>>, Each(call, <<Resident>>))
    <3>1. PICK call \in {"stop", "start"} :
            verb' = [name |-> "reconcile", about |-> {Resident}, todo |-> <<<<call, Resident>>>>]
      BY <2>1, OtherTakes DEF Takes
    <3>2. <<call, Resident>> \in DockerCalls
      BY ServiceFacts DEF DockerCalls
    <3> QED
      BY <3>1, <3>2, ServiceFacts DEF VerbInv, LockFree, Names
  <2>2. CASE UNCHANGED verb
    BY <2>2 DEF VerbInv, LockFree
  <2> QED
    BY <1>4, <2>1, <2>2 DEF Reconcile
<1>5. CASE ReclaimRestarts
  <2>1. CASE Takes("reclaim", <<ComfyUI>>, Restarts(<<ComfyUI>>))
    BY <2>1, OtherTakes, ServiceFacts DEF Takes, VerbInv, LockFree, Names
  <2>2. CASE UNCHANGED verb
    BY <2>2 DEF VerbInv, LockFree
  <2> QED
    BY <1>5, <2>1, <2>2 DEF ReclaimRestarts
<1>6. CASE UNCHANGED verb
  BY <1>6 DEF VerbInv, LockFree
<1>7. VerbRaises \/ DaemonRestarts => verb' = Free
  BY DEF VerbRaises, DaemonRestarts
<1>8. Ask \/ Complete \/ ReclaimMeasures \/ Sweep \/ Tick \/ Elsewhere \/ UNCHANGED vars
        \/ (\E c \in Callers : CallerReserves(c) \/ CallerRestarts(c) \/ CallerFails(c))
        => UNCHANGED verb
  BY DEF Ask, Complete, ReclaimMeasures, CallerReserves, CallerRestarts, CallerFails,
     Sweep, SweepLists, SweepReserves, SweepRepairs, Tick, Elsewhere, vars
<1> QED
  BY <1>1, <1>2, <1>3, <1>4, <1>5, <1>6, <1>7, <1>8 DEF Next

\* The places of the threads; the two kinds of project never mix.
LEMMA PlacesStep ==
    ASSUME Shape, [Next]_vars
    PROVE  PlacesInv'
<1> USE DEF Shape
<1>1. CASE ServiceVerb
  BY <1>1 DEF ServiceVerb, PlacesInv, LockFree
<1>2. CASE VerbCalls
  <2>1. own
    BY <1>2 DEF VerbCalls, PlacesInv
  <2> QED
    BY <1>2, <2>1 DEF VerbCalls, PlacesInv, Failed, Cycles
<1>3. CASE VerbRaises
  <2>1. own
    BY <1>3 DEF VerbRaises, PlacesInv
  <2> QED
    BY <1>3, <2>1 DEF VerbRaises, PlacesInv, Cycles
<1>4. CASE Ask \/ Complete
  BY <1>4 DEF Ask, Complete, PlacesInv, LockFree
<1>5. CASE Reconcile
  BY <1>5 DEF Reconcile, PlacesInv
<1>6. CASE ReclaimMeasures \/ ReclaimRestarts
  BY <1>6 DEF ReclaimMeasures, ReclaimRestarts, PlacesInv, LockFree
<1>7. ASSUME NEW c \in Callers, CallerReserves(c)
      PROVE  PlacesInv'
  <2>1. PICK s \in Asked : callers' = [callers EXCEPT ![c] = {s}]
    BY <1>7 DEF CallerReserves
  <2>2. callers' \in [Callers -> SUBSET Asked]
        /\ \A b \in Callers : \A x, y \in callers'[b] : x = y
    BY <2>1 DEF PlacesInv
  <2> QED
    BY <1>7, <2>2 DEF CallerReserves, PlacesInv, LockFree
<1>8. ASSUME NEW c \in Callers, CallerRestarts(c) \/ CallerFails(c)
      PROVE  PlacesInv'
  <2>1. callers' = [callers EXCEPT ![c] = {}]
    BY <1>8 DEF CallerRestarts, CallerFails
  <2>2. callers' \in [Callers -> SUBSET Asked]
        /\ \A b \in Callers : callers'[b] \subseteq callers[b]
    BY <2>1 DEF PlacesInv
  <2> QED
    BY <1>8, <2>2 DEF CallerRestarts, CallerFails, PlacesInv, LockFree
<1>9. CASE Sweep
  <2>1. /\ sweep' \in [rows : SUBSET Members, on : SUBSET Members]
        /\ \A m, n \in sweep'.on : m = n
    <3>1. CASE SweepLists
      BY <3>1 DEF SweepLists, Orphans
    <3>2. CASE SweepReserves
      BY <3>2 DEF SweepReserves, PlacesInv
    <3>3. CASE SweepRepairs
      BY <3>3 DEF SweepRepairs, PlacesInv
    <3> QED
      BY <1>9, <3>1, <3>2, <3>3 DEF Sweep
  <2>2. UNCHANGED <<own, lease, evicted, verb, reclaim, callers, torn>>
    BY <1>9 DEF Sweep, SweepLists, SweepReserves, SweepRepairs
  <2> QED
    BY <2>1, <2>2 DEF PlacesInv, LockFree
<1>10. CASE Tick \/ Elsewhere \/ UNCHANGED vars
  BY <1>10 DEF Tick, Elsewhere, vars, PlacesInv, LockFree
<1>11. CASE DaemonRestarts
  BY <1>11 DEF DaemonRestarts, PlacesInv, LockFree, Free, SweepIdle
<1> QED
  BY <1>1, <1>2, <1>3, <1>4, <1>5, <1>6, <1>7, <1>8, <1>9, <1>10, <1>11 DEF Next

-----------------------------------------------------------------------------
\* A resident that is out stays down.
LEMMA CardStep ==
    ASSUME Shape, CardInv, [Next]_vars
    PROVE  CardInv'
<1> USE DEF Shape
<1>1. CASE ServiceVerb
  <2>1. PICK name, group, todo : VerbTaken(name, group, todo)
    BY <1>1, ServiceVerbTakes
  <2>2. UNCHANGED <<docker, lease, evicted>> /\ LockFree
        /\ verb' = [name |-> name, about |-> ToSet(group), todo |-> todo]
    BY <1>1, <2>1 DEF ServiceVerb, VerbTaken, Takes
  <2>3. evicted # {} => \A i \in DOMAIN todo : todo[i][2] = Resident => todo[i][1] = "stop"
    BY <2>1 DEF VerbTaken, PlacesInv
  <2>4. name # "reclaim"
    BY <2>1 DEF VerbTaken
  <2> QED
    BY <2>2, <2>3, <2>4 DEF CardInv, LockFree
<1>2. ASSUME ~LockFree, verb.name # "reconcile", evicted # {}
      PROVE  Resident \notin Did(Head(verb.todo), docker).up
  <2>1. /\ verb.todo \in Seq(DockerCalls) /\ verb.todo # <<>>
        /\ 1 \in DOMAIN verb.todo /\ Head(verb.todo) = verb.todo[1]
        /\ Head(verb.todo) \in DockerCalls
    BY <1>2 DEF VerbInv
  <2>2. Resident \notin docker.up
    BY <1>2 DEF CardInv
  <2> QED
    BY <1>2, <2>1, <2>2, CallFacts DEF CardInv, DockerInv
<1>3. CASE VerbCalls
  <2>1. /\ verb.todo \in Seq(DockerCalls) /\ verb.todo # <<>>
        /\ 1 \in DOMAIN verb.todo /\ Head(verb.todo) = verb.todo[1]
        /\ Head(verb.todo) \in DockerCalls
        /\ \A i \in DOMAIN Tail(verb.todo) :
             i + 1 \in DOMAIN verb.todo /\ Tail(verb.todo)[i] = verb.todo[i + 1]
    BY <1>3 DEF VerbCalls, VerbInv
  <2>2. UNCHANGED <<lease, evicted>> /\ docker' = Did(Head(verb.todo), docker)
        /\ (verb' = Free \/ verb' = [verb EXCEPT !.todo = Tail(@)])
    BY <1>3 DEF VerbCalls
  <2>3. evicted # {} => Resident \notin docker'.up
    <3>1. CASE verb.name = "reconcile" /\ evicted # {}
      <4>1. verb.todo[1][2] = Resident /\ verb.todo[1][1] = "stop"
        BY <2>1, <3>1 DEF CardInv, VerbInv
      <4> QED
        BY <2>1, <2>2, <4>1, CallFacts DEF DockerInv
    <3> QED
      BY <1>2, <1>3, <2>2, <3>1 DEF VerbCalls
  <2>4. /\ \A i \in DOMAIN verb'.todo : \E j \in DOMAIN verb.todo : verb'.todo[i] = verb.todo[j]
        /\ verb'.name = verb.name \/ verb'.name = "none"
    <3>1. CASE verb' = Free
      BY <3>1 DEF Free
    <3>2. CASE verb' = [verb EXCEPT !.todo = Tail(@)]
      BY <2>1, <3>2 DEF VerbInv
    <3> QED
      BY <2>2, <3>1, <3>2
  <2> QED
    BY <2>2, <2>3, <2>4 DEF CardInv
<1>4. CASE VerbRaises
  BY <1>2, <1>4 DEF VerbRaises, CardInv, Free
<1>5. CASE Ask \/ Complete
  BY <1>5 DEF Ask, Complete, CardInv
<1>6. CASE Reconcile
  <2>1. CASE evicted' = {}
    BY <1>6, <2>1 DEF Reconcile, CardInv, Takes, PlacesInv
  <2>2. CASE evicted' = {Resident} /\ evicted = {}
    <3>1. verb' = [name |-> "reconcile", about |-> {Resident}, todo |-> <<<<"stop", Resident>>>>]
      BY <1>6, <2>2, OtherTakes DEF Reconcile, Takes
    <3> QED
      BY <2>2, <3>1 DEF CardInv
  <2>3. CASE evicted' = {Resident} /\ evicted # {}
    BY <1>6, <2>3 DEF Reconcile, CardInv, LockFree, VerbInv
  <2> QED
    BY <1>6, <2>1, <2>2, <2>3 DEF Reconcile
<1>7. CASE ReclaimRestarts
  <2>1. CASE UNCHANGED verb
    BY <1>7, <2>1 DEF ReclaimRestarts, CardInv
  <2>2. CASE ~Leased /\ Takes("reclaim", <<ComfyUI>>, Restarts(<<ComfyUI>>))
    BY <1>7, <2>2 DEF ReclaimRestarts, CardInv, Leased, Takes
  <2> QED
    BY <1>7, <2>1, <2>2 DEF ReclaimRestarts
<1>8. ASSUME ~own, own' = own, UNCHANGED <<lease, evicted, verb>>
      PROVE  CardInv'
  BY <1>8 DEF CardInv, PlacesInv, LockFree
<1>9. ASSUME NEW c \in Callers, CallerReserves(c) \/ CallerRestarts(c) \/ CallerFails(c)
      PROVE  CardInv'
  BY <1>8, <1>9 DEF CallerReserves, CallerRestarts, CallerFails, PlacesInv
<1>10. CASE SweepRepairs
  <2>1. PICK m \in sweep.on : docker' \in {docker, Recreate(docker, m),
                                           StartOne(StopOne(docker, m), m)}
    BY <1>10 DEF SweepRepairs
  <2>2. m \in Services /\ m # Resident
    BY ServiceFacts DEF PlacesInv
  <2>3. docker'.up \ {m} = docker.up \ {m}
    BY <2>1, <2>2, RecreateFacts, StopFacts, StartFacts DEF DockerInv
  <2> QED
    BY <1>10, <2>2, <2>3 DEF SweepRepairs, CardInv
<1>11. CASE DaemonRestarts
  <2>1. docker'.up \subseteq docker.up
    BY <1>11 DEF DaemonRestarts, DockerInv, Sane, Containers
  <2> QED
    BY <1>11, <2>1 DEF DaemonRestarts, CardInv, Free
<1>12. CASE ReclaimMeasures \/ SweepLists \/ SweepReserves \/ Tick \/ UNCHANGED vars
  BY <1>12 DEF ReclaimMeasures, SweepLists, SweepReserves, Tick, vars, CardInv
<1>13. CASE Elsewhere
  BY <1>8, <1>13 DEF Elsewhere
<1> QED
  BY <1>1, <1>3, <1>4, <1>5, <1>6, <1>7, <1>9, <1>10, <1>11, <1>12, <1>13 DEF Next, Sweep

-----------------------------------------------------------------------------
\* What a program renews, its first call does or what is left of it.
LEMMA RenewsTail ==
    ASSUME NEW todo \in Seq(DockerCalls), todo # <<>>, NEW m, NEW from \in Nat,
           Renews(todo, m, from)
    PROVE  \/ Renews(Tail(todo), m, from - 1) /\ from > 0
           \/ Renews(Tail(todo), m, 0)
           \/ from = 0 /\ Head(todo)[2] = m /\ Head(todo)[1] \in {"stop", "recreate"}
<1>1. PICK i \in DOMAIN todo : i > from /\ todo[i][2] = m /\ todo[i][1] \in {"stop", "recreate"}
  BY DEF Renews
<1>2. CASE i = 1
  BY <1>1, <1>2
<1>3. CASE i # 1
  <2>1. i - 1 \in DOMAIN Tail(todo) /\ Tail(todo)[i - 1] = todo[i]
    BY <1>3
  <2> QED
    BY <1>1, <1>3, <2>1 DEF Renews
<1> QED
  BY <1>2, <1>3

\* The owner's program keeps its promise to the end.
LEMMA RenewsAllTail ==
    ASSUME NEW todo \in Seq(DockerCalls), todo # <<>>, RenewsAll(todo)
    PROVE  /\ RenewsAll(Tail(todo))
           /\ Head(todo)[2] = Owner => \A m \in Members : Renews(Tail(todo), m, 0)
<1>1. ASSUME NEW i \in DOMAIN Tail(todo), Tail(todo)[i][2] = Owner, NEW m \in Members
      PROVE  Renews(Tail(todo), m, i)
  <2>1. i + 1 \in DOMAIN todo /\ todo[i + 1] = Tail(todo)[i] /\ i \in Nat
    OBVIOUS
  <2>2. PICK j \in DOMAIN todo :
          j > i + 1 /\ todo[j][2] = m /\ todo[j][1] \in {"stop", "recreate"}
    BY <1>1, <2>1 DEF RenewsAll, Renews
  <2>3. j - 1 \in DOMAIN Tail(todo) /\ Tail(todo)[j - 1] = todo[j] /\ j - 1 > i
    BY <2>1, <2>2
  <2> QED
    BY <2>2, <2>3 DEF Renews
<1>2. ASSUME Head(todo)[2] = Owner, NEW m \in Members
      PROVE  Renews(Tail(todo), m, 0)
  <2>1. 1 \in DOMAIN todo /\ todo[1][2] = Owner
    BY <1>2
  <2>2. PICK j \in DOMAIN todo :
          j > 1 /\ todo[j][2] = m /\ todo[j][1] \in {"stop", "recreate"}
    BY <2>1 DEF RenewsAll, Renews
  <2>3. j - 1 \in DOMAIN Tail(todo) /\ Tail(todo)[j - 1] = todo[j] /\ j - 1 > 0
    BY <2>2
  <2> QED
    BY <2>2, <2>3 DEF Renews
<1> QED
  BY <1>1, <1>2 DEF RenewsAll

\* The call the lock's holder makes.
LEMMA HeldCall ==
    ASSUME Shape, ~LockFree
    PROVE  /\ verb.todo \in Seq(DockerCalls) /\ verb.todo # <<>>
           /\ Head(verb.todo) \in DockerCalls
           /\ Head(verb.todo)[2] \in verb.about
           /\ verb.name = "stop" => Head(verb.todo)[1] = "stop"
<1>1. verb.todo \in Seq(DockerCalls) /\ verb.todo # <<>>
  BY DEF Shape, VerbInv
<1>2. 1 \in DOMAIN verb.todo /\ Head(verb.todo) = verb.todo[1]
  BY <1>1
<1> QED
  BY <1>1, <1>2 DEF Shape, VerbInv

\* After it, the members that are up are in the namespace or are still to be
\* renewed.
LEMMA CallKeepsNetwork ==
    ASSUME Shape, NetworkInv, own, ~LockFree, Cycles \/ ~torn,
           Owner \in Did(Head(verb.todo), docker).up,
           NEW m \in Members, m \in Did(Head(verb.todo), docker).up
    PROVE  \/ m \in Did(Head(verb.todo), docker).joined
           \/ Cycles /\ Renews(Tail(verb.todo), m, 0)
<1> DEFINE call == Head(verb.todo)
           e == Did(call, docker)
<1>1. /\ verb.todo \in Seq(DockerCalls) /\ verb.todo # <<>> /\ call \in DockerCalls
      /\ call[2] \in verb.about /\ (verb.name = "stop" => call[1] = "stop")
  BY HeldCall
<1>2. /\ e.up \ {call[2]} = docker.up \ {call[2]}
      /\ call[1] = "stop" => call[2] \notin e.up
      /\ call[2] # Owner => docker.joined \ {call[2]} \subseteq e.joined
      /\ call[2] \in Members /\ call[2] \in e.up
            => call[2] \in e.joined \/ (call[1] = "start" /\ e = docker)
  BY <1>1, CallFacts DEF Shape, DockerInv
<1>3. call[1] # "stop" \/ call[2] # m
  BY <1>2
<1>4. CASE call[2] = Owner
  <2>1. Cycles
    BY <1>1, <1>2, <1>4 DEF Cycles
  <2> QED
    BY <1>1, <1>4, <2>1, RenewsAllTail DEF NetworkInv
<1>5. CASE call[2] # Owner
  <2>1. Owner \in docker.up
    BY <1>2, <1>5
  <2>2. CASE m \notin docker.up
    BY <1>2, <2>2
  <2>3. CASE m \in docker.joined /\ call[2] # m
    BY <1>2, <1>5, <2>3
  <2>4. CASE m \in docker.joined /\ call[2] = m
    BY <1>2, <2>4
  <2>5. CASE m \in docker.up /\ m \notin docker.joined
    <3>1. Cycles /\ Renews(verb.todo, m, 0)
      BY <2>1, <2>5 DEF NetworkInv
    <3>2. \/ Renews(Tail(verb.todo), m, 0)
          \/ call[2] = m /\ call[1] \in {"stop", "recreate"}
      BY <1>1, <3>1, RenewsTail
    <3> QED
      BY <1>2, <3>1, <3>2
  <2> QED
    BY <2>1, <2>2, <2>3, <2>4, <2>5 DEF NetworkInv
<1> QED
  BY <1>4, <1>5

\* Every member that runs beside its owner is in the namespace or waits for
\* the verb to renew it.
LEMMA NetworkStep ==
    ASSUME Shape, NetworkInv, [Next]_vars
    PROVE  NetworkInv'
<1> USE DEF Shape
<1>1. CASE ServiceVerb
  <2>1. PICK name, group, todo : VerbTaken(name, group, todo)
    BY <1>1, ServiceVerbTakes
  <2>2. UNCHANGED <<own, docker, torn>> /\ LockFree
        /\ verb' = [name |-> name, about |-> ToSet(group), todo |-> todo]
    BY <1>1, <2>1 DEF ServiceVerb, VerbTaken, Takes
  <2>3. ~Cycles
    BY <2>2 DEF Cycles, VerbInv
  <2>4. Cycles' => Owner \in ToSet(group) /\ name # "stop"
    BY <2>2 DEF Cycles
  <2>5. Cycles' => RenewsAll(todo) /\ \A m \in Members : Renews(todo, m, 0)
    <3>1. SUFFICES ASSUME Cycles' PROVE RenewsAll(todo) /\ \A m \in Members : Renews(todo, m, 0)
      OBVIOUS
    <3>2. RenewsAll(todo) /\ todo[1][2] = Owner /\ todo \in Seq(DockerCalls) /\ todo # <<>>
      BY <2>1, <2>4, <3>1 DEF VerbTaken
    <3>3. 1 \in DOMAIN todo /\ DOMAIN todo \subseteq Nat
      BY <3>2
    <3>4. \A m \in Members : Renews(todo, m, 1)
      BY <3>2, <3>3 DEF RenewsAll
    <3> QED
      BY <3>2, <3>3, <3>4 DEF Renews
  <2>6. verb'.todo = todo
    BY <2>2
  <2> QED
    BY <2>2, <2>3, <2>5, <2>6 DEF NetworkInv
<1>2. CASE VerbCalls
  <2> DEFINE call == Head(verb.todo)
  <2>1. ~LockFree /\ own' = own /\ docker' = Did(call, docker)
    BY <1>2 DEF VerbCalls
  <2>2. /\ verb.todo \in Seq(DockerCalls) /\ verb.todo # <<>>
    BY <2>1, HeldCall
  <2>3. CASE verb' = Free /\ Cycles /\ ~Failed(call, docker) /\ Tail(verb.todo) = <<>>
    <3>1. \A m : ~Renews(Tail(verb.todo), m, 0)
      BY <2>3 DEF Renews
    <3>2. ~Cycles'
      BY <2>3 DEF Cycles, Free
    <3> QED
      BY <2>1, <2>3, <3>1, <3>2, CallKeepsNetwork DEF NetworkInv
  <2>4. CASE verb' = Free /\ torn'
    <3>1. ~Cycles'
      BY <2>4 DEF Cycles, Free
    <3> QED
      BY <2>4, <3>1 DEF NetworkInv
  <2>5. CASE verb' = Free /\ ~Cycles /\ torn' = torn
    <3>1. ~Cycles'
      BY <2>5 DEF Cycles, Free
    <3> QED
      BY <2>1, <2>5, <3>1, CallKeepsNetwork DEF NetworkInv
  <2>6. CASE verb' = [verb EXCEPT !.todo = Tail(@)] /\ torn' = torn
    <3>1. verb'.todo = Tail(verb.todo) /\ (Cycles' <=> Cycles)
      BY <2>6 DEF VerbInv, Cycles
    <3>2. own /\ Cycles => RenewsAll(Tail(verb.todo))
      BY <2>2, RenewsAllTail DEF NetworkInv
    <3> QED
      BY <2>1, <2>6, <3>1, <3>2, CallKeepsNetwork DEF NetworkInv
  <2>7. torn \in BOOLEAN /\ Failed(call, docker) \in BOOLEAN /\ Cycles \in BOOLEAN
    BY DEF PlacesInv, Failed, Cycles
  <2> QED
    BY <1>2, <2>3, <2>4, <2>5, <2>6, <2>7 DEF VerbCalls
<1>3. CASE VerbRaises
  <2>1. ~LockFree /\ own' = own /\ verb' = Free /\ docker' \in {docker, Did(Head(verb.todo), docker)}
        /\ torn' = (torn \/ (Cycles /\ Owner \in docker'.up))
    BY <1>3 DEF VerbRaises
  <2>2. ~Cycles'
    BY <2>1 DEF Cycles, Free
  <2>3. ~torn' /\ Owner \in docker'.up => ~torn /\ ~Cycles
    BY <2>1
  <2> QED
    BY <2>1, <2>2, <2>3, CallKeepsNetwork DEF NetworkInv
<1>4. CASE Reconcile
  <2>1. ~Cycles /\ LockFree
    BY <1>4 DEF Reconcile, Takes, Cycles, VerbInv
  <2>2. ~Cycles'
    BY <1>4, <2>1, OtherTakes, ServiceFacts DEF Reconcile, Takes, Cycles
  <2> QED
    BY <1>4, <2>1, <2>2 DEF Reconcile, NetworkInv
<1>5. CASE ReclaimRestarts
  <2>1. CASE Takes("reclaim", <<ComfyUI>>, Restarts(<<ComfyUI>>))
    <3>1. ~Cycles /\ ~Cycles'
      BY <2>1, OtherTakes, ServiceFacts DEF Takes, Cycles, VerbInv
    <3> QED
      BY <1>5, <3>1 DEF ReclaimRestarts, NetworkInv
  <2>2. CASE UNCHANGED verb
    BY <1>5, <2>2 DEF ReclaimRestarts, NetworkInv, Cycles
  <2> QED
    BY <1>5, <2>1, <2>2 DEF ReclaimRestarts
<1>6. CASE SweepRepairs
  <2>1. CASE docker' = docker
    BY <1>6, <2>1 DEF SweepRepairs, NetworkInv, Cycles
  <2>2. ASSUME own, NEW m \in sweep.on, docker' = Recreate(docker, m)
        PROVE  NetworkInv'
    <3>1. m \in Services /\ m \in Members /\ m # Owner
      BY ServiceFacts DEF PlacesInv
    <3>2. /\ docker'.up \ {m} = docker.up \ {m} /\ docker.joined \ {m} \subseteq docker'.joined
          /\ m \in docker'.up => m \in docker'.joined
      BY <2>2, <3>1, RecreateFacts DEF DockerInv
    <3>3. UNCHANGED <<own, verb, torn>> /\ (Cycles' <=> Cycles)
      BY <1>6 DEF SweepRepairs, Cycles
    <3> QED
      BY <3>1, <3>2, <3>3 DEF NetworkInv
  <2>3. CASE ~own
    BY <1>6, <2>3 DEF SweepRepairs, NetworkInv
  <2> QED
    BY <1>6, <2>1, <2>2, <2>3 DEF SweepRepairs
<1>7. CASE DaemonRestarts
  <2>1. \A m \in Members : m \in docker'.up => m \in docker'.joined
    BY <1>7 DEF DaemonRestarts, DockerInv, Sane, Containers
  <2>2. ~Cycles'
    BY <1>7 DEF DaemonRestarts, Cycles, Free
  <2> QED
    BY <2>1, <2>2 DEF NetworkInv
<1>8. ASSUME ~own, own' = own PROVE NetworkInv'
  BY <1>8 DEF NetworkInv
<1>9. ASSUME NEW c \in Callers, CallerReserves(c) \/ CallerRestarts(c) \/ CallerFails(c)
      PROVE  NetworkInv'
  BY <1>8, <1>9 DEF CallerReserves, CallerRestarts, CallerFails, PlacesInv
<1>10. CASE Ask \/ Complete \/ ReclaimMeasures \/ SweepLists \/ SweepReserves \/ Tick
             \/ UNCHANGED vars
  BY <1>10 DEF Ask, Complete, ReclaimMeasures, SweepLists, SweepReserves, Tick, vars,
     NetworkInv, Cycles
<1>11. CASE Elsewhere
  BY <1>8, <1>11 DEF Elsewhere
<1> QED
  BY <1>1, <1>2, <1>3, <1>4, <1>5, <1>6, <1>7, <1>9, <1>10, <1>11 DEF Next, Sweep

-----------------------------------------------------------------------------
\* What a reservation, a restart, a refund and time do to the slots of a key.
LEMMA SlotMoves ==
    ASSUME NEW taken, NEW happened, NEW n \in Nat, SlotsAre(taken, happened, n)
    PROVE  /\ Len(taken) < Limit => SlotsAre(Append(taken, 0), happened, n + 1)
           /\ n > 0 => /\ SlotsAre(taken, Append(happened, 0), n - 1)
                       /\ taken # <<>> /\ SlotsAre(Front(taken), happened, n - 1)
           /\ n = 0 => SlotsAre(Older(taken), Older(happened), 0)
<1> DEFINE k == Len(happened)
<1>1. /\ taken \in Seq(Nat) /\ happened \in Seq(Nat) /\ k \in Nat
      /\ Len(taken) = k + n /\ Len(taken) <= Limit /\ Limit \in Nat
      /\ \A i \in 1..Len(taken) : taken[i] = IF i <= k THEN happened[i] ELSE 0
  BY BudgetAssumption DEF SlotsAre
<1>2. ASSUME Len(taken) < Limit
      PROVE  SlotsAre(Append(taken, 0), happened, n + 1)
  <2>1. /\ Append(taken, 0) \in Seq(Nat) /\ Len(Append(taken, 0)) = k + n + 1
        /\ \A i \in 1..(k + n) : Append(taken, 0)[i] = taken[i]
        /\ Append(taken, 0)[k + n + 1] = 0
    <3>1. taken \in Seq(Nat) /\ Len(taken) = k + n /\ k + n \in Nat
      BY <1>1
    <3> QED
      BY <3>1
  <2> QED
    BY <1>1, <1>2, <2>1 DEF SlotsAre
<1>3. ASSUME n > 0
      PROVE  /\ SlotsAre(taken, Append(happened, 0), n - 1)
             /\ taken # <<>> /\ SlotsAre(Front(taken), happened, n - 1)
  <2>1. /\ Append(happened, 0) \in Seq(Nat) /\ Len(Append(happened, 0)) = k + 1
        /\ \A i \in 1..k : Append(happened, 0)[i] = happened[i]
        /\ Append(happened, 0)[k + 1] = 0
    BY <1>1
  <2>2. SlotsAre(taken, Append(happened, 0), n - 1)
    BY <1>1, <1>3, <2>1 DEF SlotsAre
  <2>3. taken # <<>>
    BY <1>1, <1>3
  <2>4. /\ Front(taken) \in Seq(Nat) /\ Len(Front(taken)) = k + n - 1
        /\ \A i \in 1..(k + n - 1) : Front(taken)[i] = taken[i]
    BY <1>1, <1>3 DEF Front
  <2>5. SlotsAre(Front(taken), happened, n - 1)
    BY <1>1, <1>3, <2>4 DEF SlotsAre
  <2> QED
    BY <2>2, <2>3, <2>5
<1>4. ASSUME n = 0
      PROVE  SlotsAre(Older(taken), Older(happened), 0)
  <2>1. taken = happened
    BY <1>1, <1>4
  <2> DEFINE gone == {i \in DOMAIN taken : taken[i] + 1 >= Window}
             g == Cardinality(gone)
  <2>2. IsFiniteSet(1..k) /\ Cardinality(1..k) = k /\ gone \subseteq 1..k
    <3>1. k \in Nat
      BY <1>1
    <3> HIDE DEF k
    <3>2. IsFiniteSet(1..k) /\ Cardinality(1..k) = k
      BY <3>1, FS_Interval
    <3>3. DOMAIN taken = 1..k
      BY <1>1, <1>4
    <3>4. gone \subseteq 1..k
      BY <3>3
    <3> QED
      BY <3>2, <3>4
  <2>3. g \in Nat /\ g <= k
    BY <2>2, FS_Subset, FS_CardinalityType
  <2>4. Older(taken) = [i \in 1..(k - g) |-> taken[g + i] + 1]
    BY <1>1, <1>4 DEF Older
  <2> HIDE DEF g, gone
  <2>5. Older(taken) \in Seq(Nat) /\ Len(Older(taken)) = k - g
    <3>1. k - g \in Nat /\ \A i \in 1..(k - g) : g + i \in 1..k
      BY <1>1, <2>3
    <3>2. \A i \in 1..(k - g) : taken[g + i] + 1 \in Nat
      BY <1>1, <1>4, <3>1
    <3> QED
      BY <2>4, <3>1, <3>2
  <2>6. Older(happened) = Older(taken)
    BY <2>1
  <2> QED
    BY <1>1, <2>3, <2>5, <2>6 DEF SlotsAre
<1> QED
  BY <1>2, <1>3, <1>4

\* They are counted.
LEMMA UnderWayFinite ==
    ASSUME NEW key
    PROVE  IsFiniteSet(UnderWay(key)) /\ Cardinality(UnderWay(key)) \in Nat
<1> DEFINE a == {c \in Callers : \E s \in callers[c] : key = <<"asked", s>>}
           b == {m \in sweep.on : key = <<"repair", m>>}
<1>1. IsFiniteSet(a)
  BY BudgetAssumption, FS_Subset
<1>2. IsFiniteSet(b)
  <2>1. b \subseteq {key[2]}
    OBVIOUS
  <2> QED
    BY <2>1, FS_Singleton, FS_Subset
<1>3. IsFiniteSet(UnderWay(key))
  BY <1>1, <1>2, FS_Union DEF UnderWay
<1> QED
  BY <1>3, FS_CardinalityType

\* A restart begins or ends for one key.
LEMMA OneMore ==
    ASSUME NEW key, NEW x, x \notin UnderWay(key), UnderWay(key)' = UnderWay(key) \cup {x}
    PROVE  Cardinality(UnderWay(key)') = Cardinality(UnderWay(key)) + 1
BY UnderWayFinite, FS_AddElement

\* And ends.
LEMMA OneLess ==
    ASSUME NEW key, NEW x, x \in UnderWay(key), UnderWay(key)' = UnderWay(key) \ {x}
    PROVE  /\ Cardinality(UnderWay(key)) > 0
           /\ Cardinality(UnderWay(key)') = Cardinality(UnderWay(key)) - 1
<1>1. IsFiniteSet(UnderWay(key)) /\ Cardinality(UnderWay(key)) \in Nat
  BY UnderWayFinite
<1>2. Cardinality(UnderWay(key)') = Cardinality(UnderWay(key)) - 1
  BY <1>1, FS_RemoveElement
<1>3. Cardinality(UnderWay(key)) # 0
  BY <1>1, FS_EmptySet
<1> QED
  BY <1>1, <1>2, <1>3

\* What happens to the slots of one key, while the others keep theirs.
BudgetMove(key) ==
    LET n == Cardinality(UnderWay(key)) IN
    /\ \A k \in Keys \ {key} : UnderWay(k)' = UnderWay(k)
    /\ \/ Room(key) /\ slots' = Reserved(key) /\ UNCHANGED restarted
         /\ Cardinality(UnderWay(key)') = n + 1
       \/ n > 0 /\ UNCHANGED slots /\ restarted' = Happened(key)
         /\ Cardinality(UnderWay(key)') = n - 1
       \/ n > 0 /\ slots' = Refunded(key) /\ UNCHANGED restarted
         /\ Cardinality(UnderWay(key)') = n - 1

\* Each of them keeps the account.
LEMMA BudgetMoves ==
    ASSUME BudgetInv, NEW key \in Keys, BudgetMove(key)
    PROVE  BudgetInv'
<1> DEFINE n == Cardinality(UnderWay(key))
<1>1. n \in Nat /\ SlotsAre(slots[key], restarted[key], n)
  BY UnderWayFinite DEF BudgetInv
<1>2. /\ Len(slots[key]) < Limit => SlotsAre(Append(slots[key], 0), restarted[key], n + 1)
      /\ n > 0 => /\ SlotsAre(slots[key], Append(restarted[key], 0), n - 1)
                  /\ slots[key] # <<>> /\ SlotsAre(Front(slots[key]), restarted[key], n - 1)
  BY <1>1, SlotMoves
<1>3. /\ slots' \in [Keys -> Seq(Nat)] /\ restarted' \in [Keys -> Seq(Nat)]
      /\ \A k \in Keys \ {key} : slots'[k] = slots[k] /\ restarted'[k] = restarted[k]
      /\ SlotsAre(slots'[key], restarted'[key], Cardinality(UnderWay(key)'))
  <2>1. CASE Room(key) /\ slots' = Reserved(key) /\ UNCHANGED restarted
               /\ Cardinality(UnderWay(key)') = n + 1
    <3>1. SlotsAre(Append(slots[key], 0), restarted[key], n + 1)
      BY <1>2, <2>1 DEF Room
    <3> QED
      BY <2>1, <3>1 DEF BudgetInv, Reserved
  <2>2. CASE n > 0 /\ UNCHANGED slots /\ restarted' = Happened(key)
               /\ Cardinality(UnderWay(key)') = n - 1
    BY <1>2, <2>2 DEF BudgetInv, Happened
  <2>3. CASE n > 0 /\ slots' = Refunded(key) /\ UNCHANGED restarted
               /\ Cardinality(UnderWay(key)') = n - 1
    <3>1. slots' = [slots EXCEPT ![key] = Front(slots[key])]
      BY <1>2, <2>3 DEF Refunded
    <3>2. Front(slots[key]) \in Seq(Nat)
      BY <1>2, <2>3 DEF SlotsAre
    <3> QED
      BY <1>2, <2>3, <3>1, <3>2 DEF BudgetInv
  <2> QED
    BY <2>1, <2>2, <2>3 DEF BudgetMove
<1>4. \A k \in Keys \ {key} : UnderWay(k)' = UnderWay(k)
  BY DEF BudgetMove
<1> QED
  BY <1>3, <1>4 DEF BudgetInv

\* The slots of a key are those of its restarts, happened or under way.
LEMMA BudgetStep ==
    ASSUME Shape, BudgetInv, [Next]_vars
    PROVE  BudgetInv'
<1> USE DEF Shape
<1>1. ASSUME NEW c \in Callers, CallerReserves(c)
      PROVE  BudgetInv'
  <2>1. PICK s \in Asked :
          /\ Room(<<"asked", s>>) /\ slots' = Reserved(<<"asked", s>>)
          /\ callers' = [callers EXCEPT ![c] = {s}]
    BY <1>1 DEF CallerReserves
  <2>2. callers[c] = {} /\ sweep' = sweep /\ restarted' = restarted
    BY <1>1 DEF CallerReserves
  <2> DEFINE key == <<"asked", s>>
  <2>3. key \in Keys
    BY DEF Keys
  <2>4. c \notin UnderWay(key) /\ UnderWay(key)' = UnderWay(key) \cup {c}
    BY <2>1, <2>2 DEF UnderWay, PlacesInv
  <2>5. \A k \in Keys \ {key} : UnderWay(k)' = UnderWay(k)
    BY <2>1, <2>2 DEF UnderWay, PlacesInv
  <2> HIDE DEF key
  <2>6. BudgetMove(key)
    BY <2>1, <2>2, <2>4, <2>5, OneMore DEF BudgetMove, key
  <2> QED
    BY <2>3, <2>6, BudgetMoves
<1>2. ASSUME NEW c \in Callers, CallerRestarts(c) \/ CallerFails(c)
      PROVE  BudgetInv'
  <2>1. PICK s \in callers[c] :
          \/ slots' = slots /\ restarted' = Happened(<<"asked", s>>)
          \/ slots' = Refunded(<<"asked", s>>) /\ restarted' = restarted
    BY <1>2 DEF CallerRestarts, CallerFails
  <2>2. callers' = [callers EXCEPT ![c] = {}] /\ sweep' = sweep
    BY <1>2 DEF CallerRestarts, CallerFails
  <2> DEFINE key == <<"asked", s>>
  <2>3. key \in Keys /\ callers[c] = {s}
    BY <2>1 DEF Keys, PlacesInv
  <2>4. c \in UnderWay(key)
    BY <2>3 DEF UnderWay
  <2>5. UnderWay(key)' = UnderWay(key) \ {c}
    BY <2>2, <2>3 DEF UnderWay, PlacesInv
  <2>6. \A k \in Keys \ {key} : UnderWay(k)' = UnderWay(k)
    BY <2>2, <2>3 DEF UnderWay, PlacesInv
  <2> HIDE DEF key
  <2>7. BudgetMove(key)
    BY <2>1, <2>4, <2>5, <2>6, OneLess DEF BudgetMove, key
  <2> QED
    BY <2>3, <2>7, BudgetMoves
<1>3. CASE SweepReserves
  <2>1. sweep.on = {} /\ callers' = callers /\ restarted' = restarted
    BY <1>3 DEF SweepReserves
  <2>2. PICK m \in sweep.rows :
          \/ /\ Room(<<"repair", m>>) /\ slots' = Reserved(<<"repair", m>>)
             /\ sweep' = [rows |-> sweep.rows \ {m}, on |-> {m}]
          \/ sweep' = [sweep EXCEPT !.rows = @ \ {m}] /\ UNCHANGED slots
    BY <1>3 DEF SweepReserves
  <2>3. CASE sweep' = [sweep EXCEPT !.rows = @ \ {m}] /\ UNCHANGED slots
    <3>1. sweep'.on = sweep.on
      BY <2>3 DEF PlacesInv
    <3> QED
      BY <2>1, <2>3, <3>1 DEF BudgetInv, UnderWay
  <2>4. CASE /\ Room(<<"repair", m>>) /\ slots' = Reserved(<<"repair", m>>)
             /\ sweep' = [rows |-> sweep.rows \ {m}, on |-> {m}]
    <3> DEFINE key == <<"repair", m>>
    <3>1. key \in Keys /\ sweep'.on = {m}
      BY <2>4 DEF Keys, PlacesInv
    <3>2. m \notin UnderWay(key) /\ UnderWay(key)' = UnderWay(key) \cup {m}
      BY <2>1, <3>1 DEF UnderWay
    <3>3. \A k \in Keys \ {key} : UnderWay(k)' = UnderWay(k)
      BY <2>1, <3>1 DEF UnderWay
    <3> HIDE DEF key
    <3>4. BudgetMove(key)
      BY <2>1, <2>4, <3>2, <3>3, OneMore DEF BudgetMove, key
    <3> QED
      BY <3>1, <3>4, BudgetMoves
  <2> QED
    BY <2>2, <2>3, <2>4
<1>4. CASE SweepRepairs
  <2>1. PICK m \in sweep.on : restarted' = Happened(<<"repair", m>>)
    BY <1>4 DEF SweepRepairs
  <2>2. sweep' = [sweep EXCEPT !.on = {}] /\ callers' = callers /\ slots' = slots
    BY <1>4 DEF SweepRepairs
  <2> DEFINE key == <<"repair", m>>
  <2>3. key \in Keys /\ sweep.on = {m} /\ sweep'.on = {}
    BY <2>1, <2>2 DEF Keys, PlacesInv
  <2>4. m \in UnderWay(key) /\ UnderWay(key)' = UnderWay(key) \ {m}
    BY <2>2, <2>3 DEF UnderWay
  <2>5. \A k \in Keys \ {key} : UnderWay(k)' = UnderWay(k)
    BY <2>2, <2>3 DEF UnderWay
  <2> HIDE DEF key
  <2>6. BudgetMove(key)
    BY <2>1, <2>2, <2>4, <2>5, OneLess DEF BudgetMove, key
  <2> QED
    BY <2>3, <2>6, BudgetMoves
<1>5. CASE Tick
  <2>1. \A k \in Keys : UnderWay(k) = {} /\ UnderWay(k)' = {}
    BY <1>5 DEF Tick, UnderWay
  <2>2. \A k \in Keys : SlotsAre(slots[k], restarted[k], 0)
    BY <2>1, FS_EmptySet DEF BudgetInv
  <2>3. \A k \in Keys : SlotsAre(Older(slots[k]), Older(restarted[k]), 0)
    BY <2>2, SlotMoves
  <2>4. /\ slots' = [k \in Keys |-> Older(slots[k])]
        /\ restarted' = [k \in Keys |-> Older(restarted[k])]
    BY <1>5 DEF Tick
  <2>5. \A k \in Keys : Older(slots[k]) \in Seq(Nat) /\ Older(restarted[k]) \in Seq(Nat)
    BY <2>3 DEF SlotsAre
  <2>6. \A k \in Keys : SlotsAre(slots'[k], restarted'[k], 0)
    BY <2>3, <2>4
  <2> QED
    BY <2>1, <2>4, <2>5, <2>6, FS_EmptySet DEF BudgetInv
<1>6. CASE DaemonRestarts
  <2>1. /\ slots' = [k \in Keys |-> <<>>] /\ restarted' = [k \in Keys |-> <<>>]
        /\ callers' = [c \in Callers |-> {}] /\ sweep'.on = {}
    BY <1>6 DEF DaemonRestarts, SweepIdle
  <2>2. \A k \in Keys : UnderWay(k)' = {}
    BY <2>1 DEF UnderWay
  <2>3. SlotsAre(<<>>, <<>>, 0)
    BY BudgetAssumption DEF SlotsAre
  <2>4. /\ slots' \in [Keys -> Seq(Nat)] /\ restarted' \in [Keys -> Seq(Nat)]
        /\ \A k \in Keys : slots'[k] = <<>> /\ restarted'[k] = <<>>
    BY <2>1
  <2> QED
    BY <2>2, <2>3, <2>4, FS_EmptySet DEF BudgetInv
<1>7. ASSUME UNCHANGED <<slots, restarted, callers>>, sweep'.on = sweep.on
      PROVE  BudgetInv'
  BY <1>7 DEF BudgetInv, UnderWay
<1>8. CASE SweepLists
  BY <1>7, <1>8 DEF SweepLists, SweepIdle
<1>9. ServiceVerb \/ VerbCalls \/ VerbRaises \/ Ask \/ Complete \/ Reconcile
        \/ ReclaimMeasures \/ ReclaimRestarts \/ Elsewhere \/ UNCHANGED vars
        => UNCHANGED <<slots, restarted, callers, sweep>>
  BY DEF ServiceVerb, VerbCalls, VerbRaises, Ask, Complete, Reconcile, ReclaimMeasures,
     ReclaimRestarts, Elsewhere, vars
<1> QED
  BY <1>1, <1>2, <1>3, <1>4, <1>5, <1>6, <1>7, <1>8, <1>9 DEF Next, Sweep

-----------------------------------------------------------------------------
\* Everything together holds at the start and is kept by every step.
LEMMA LifecycleInit == Init => LifecycleInv
<1> SUFFICES ASSUME Init PROVE LifecycleInv
  OBVIOUS
<1> USE DEF Init
<1>1. Shape
  <2>1. DockerInv
    BY ServiceFacts DEF DockerInv, Sane, Containers
  <2>2. VerbInv
    BY DEF VerbInv, Free, LockFree, Names
  <2>3. PlacesInv
    BY DEF PlacesInv, Free, LockFree, SweepIdle
  <2> QED
    BY <2>1, <2>2, <2>3 DEF Shape
<1>2. CardInv /\ NetworkInv
  BY DEF CardInv, NetworkInv, Free, Cycles
<1>3. BudgetInv
  <2>1. \A k \in Keys : UnderWay(k) = {}
    BY DEF UnderWay, SweepIdle
  <2>2. SlotsAre(<<>>, <<>>, 0)
    BY BudgetAssumption DEF SlotsAre
  <2>3. /\ slots \in [Keys -> Seq(Nat)] /\ restarted \in [Keys -> Seq(Nat)]
        /\ \A k \in Keys : slots[k] = <<>> /\ restarted[k] = <<>>
    OBVIOUS
  <2> QED
    BY <2>1, <2>2, <2>3, FS_EmptySet DEF BudgetInv
<1> QED
  BY <1>1, <1>2, <1>3 DEF LifecycleInv, Shape

\* The inductive invariant.
THEOREM LifecycleInvariant == Spec => []LifecycleInv
<1>1. ASSUME LifecycleInv, [Next]_vars PROVE LifecycleInv'
  BY <1>1, DockerStep, VerbStep, PlacesStep, CardStep, NetworkStep, BudgetStep
     DEF LifecycleInv, Shape
<1> QED
  BY <1>1, LifecycleInit, PTL DEF Spec

\* TypeOK: the containers and the threads keep their shape.
THEOREM LifecycleTypeCorrect == Spec => []TypeOK
<1>1. LifecycleInv => TypeOK
  BY DEF LifecycleInv, DockerInv, Sane, Containers, VerbInv, PlacesInv, TypeOK, Leased
<1> QED
  BY <1>1, LifecycleInvariant, PTL

\* NetworkKept: no member is left running in a dead namespace, for any number
\* of members, whatever verbs, sweeps, failures and restarts come together.
THEOREM NobodyIsCutOff == Spec => []NetworkKept
<1>1. LifecycleInv => NetworkKept
  BY DEF LifecycleInv, NetworkInv, NetworkKept, Cycles
<1> QED
  BY <1>1, LifecycleInvariant, PTL

\* NoSecondTenant: the resident stays down while it is evicted for a lease.
THEOREM OneTenant == Spec => []NoSecondTenant
<1>1. LifecycleInv => NoSecondTenant
  BY DEF LifecycleInv, CardInv, NoSecondTenant
<1> QED
  BY <1>1, LifecycleInvariant, PTL

\* RestartsBounded: no container is restarted more often than its budget.
THEOREM BudgetHolds == Spec => []RestartsBounded
<1>1. LifecycleInv => RestartsBounded
  <2> SUFFICES ASSUME BudgetInv, NEW k \in Keys
               PROVE  Len(restarted[k]) <= Limit
    BY DEF LifecycleInv, RestartsBounded
  <2>1. SlotsAre(slots[k], restarted[k], Cardinality(UnderWay(k)))
    BY DEF BudgetInv
  <2>2. Cardinality(UnderWay(k)) \in Nat
    BY UnderWayFinite
  <2> QED
    BY <2>1, <2>2, BudgetAssumption DEF SlotsAre
<1> QED
  BY <1>1, LifecycleInvariant, PTL

\* TenantLeftAlone: the reclaim leaves a running lease its ComfyUI.
THEOREM ReclaimSparesTheTenant == Spec => TenantLeftAlone
<1>1. LifecycleInv
        => [verb.name = "reclaim" /\ ComfyUI \in docker.up \ docker'.up => lease # "running"]_vars
  BY DEF LifecycleInv, CardInv
<1> QED
  BY <1>1, LifecycleInvariant, PTL DEF TenantLeftAlone
=============================================================================
