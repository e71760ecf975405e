---------------------------- MODULE ApplyProofs -----------------------------
(***************************************************************************)
(* For any services, inputs, scopes and mishaps:                           *)
(*   - a checkout edit an apply refused is never deployed by the control   *)
(*     plane (OnlyStandingConfigs);                                        *)
(*   - an undisturbed apply brings every container up to date (UpToDate);  *)
(*   - a switch is carried out or rolled back whole (SwitchKept).          *)
(*                                                                         *)
(* The control plane deploys the digests that lie in out/, and between     *)
(* host commands those stand.  While an apply is under way they may be new *)
(* ones, so the first invariant says what makes it safe to end: as long as *)
(* it may still refuse, the digests it kept stand, and from the bring-up   *)
(* on the ones in out/ do.                                                 *)
(*                                                                         *)
(* The second part rests on what the labels say of the contents: equal for *)
(* what a definition fixes, and for what is mounted never newer than it    *)
(* (ImageInv, SecretInv, ConfInv), so that a service whose labels match    *)
(* the render runs on it.  QuietInv follows an undisturbed apply from step *)
(* to step; SwitchInv says what each step of a switch has yet to align.    *)
(***************************************************************************)
EXTENDS Apply, TLAPS

\* What the steps below need to know of the two records: their fields.
HostShape ==
    host = [pc |-> host.pc, scope |-> host.scope, gpu |-> host.gpu,
            model |-> host.model, code |-> host.code, kept |-> host.kept,
            read |-> host.read, todo |-> host.todo]

OutShape == out = [i \in Inputs |-> out[i]]

Shape == HostShape /\ OutShape

\* Nothing but what stands is in out/.
Settled == out["conf"] \in standing

\* The apply may still refuse, and then puts back what stands.
Revocable == host.scope # {} /\ host.kept \in standing

StandingInv ==
    /\ host.pc \in {"idle", "build", "up"} => Settled
    /\ host.pc = "build" => host.scope # {}
    /\ host.pc \in {"secrets", "files", "digests"} => (Settled /\ host.scope = {}) \/ Revocable
    /\ host.pc \in {"render", "plan", "ops"} => Revocable

Inv == Shape /\ StandingInv

LEMMA InitInv == Init => Inv
BY StackAssumption DEF Init, StackInit, HostIdle, Inv, Shape, HostShape, OutShape,
   StandingInv, Settled, Inputs

\* A refused apply leaves what it kept.
LEMMA RefuseKeeps ==
    ASSUME Inv, Revocable, Refuse, UNCHANGED standing
    PROVE  Inv'
BY DEF Inv, Shape, HostShape, OutShape, StandingInv, Settled, Revocable, Refuse,
   Ends, HostIdle, Inputs

\* The steps of a host command, each with the part of the invariant it needs.
LEMMA HostCommandStep ==
    ASSUME Inv, HostCommand, UNCHANGED standing
    PROVE  Inv'
<1> USE DEF Inv, Shape, HostShape, OutShape, StandingInv, Settled, Revocable, HostAt,
            Inputs
<1>1. ASSUME NEW scope \in Scopes, BeginApply(scope) PROVE Inv'
  <2>1. scope # {}
    BY ApplyAssumption
  <2> QED
    BY <1>1, <2>1 DEF BeginApply, HostIdle, stack
<1>2. CASE Build
  <2>1. host.scope # {} /\ Settled /\ UNCHANGED out
    BY <1>2 DEF Build
  <2>2. CASE host' = [host EXCEPT !.pc = "render", !.kept = out.conf]
    BY <2>1, <2>2
  <2>3. CASE Ends
    BY <2>1, <2>3 DEF Ends, HostIdle
  <2> QED
    BY <1>2, <2>2, <2>3 DEF Build
<1>3. CASE Render
  BY <1>3 DEF Render, HostRender
<1>4. CASE ReadStore
  <2>1. CASE host.scope # {} /\ Refuse
    BY <1>4, <2>1, RefuseKeeps DEF ReadStore
  <2>2. CASE host.scope = {} /\ Ends /\ UNCHANGED out
    <3>1. Settled
      BY <1>4, <2>2 DEF ReadStore
    <3> QED
      BY <2>2, <3>1 DEF Ends, HostIdle
  <2>3. CASE host' = [host EXCEPT !.pc = "files", !.read = asked.secret] /\ UNCHANGED out
    BY <1>4, <2>3 DEF ReadStore
  <2> QED
    BY <1>4, <2>1, <2>2, <2>3 DEF ReadStore
<1>5. CASE WriteFiles
  BY <1>5 DEF WriteFiles, Goes
<1>6. CASE WriteDigests
  BY <1>6 DEF WriteDigests
<1>7. CASE Plan
  <2>1. CASE Refuse
    BY <1>7, <2>1, RefuseKeeps DEF Plan
  <2>2. CASE /\ host' = [host EXCEPT
                   !.todo = Selected, !.gpu = {},
                   !.pc = IF Ops \in Selected THEN "ops"
                          ELSE IF Selected # {} THEN "lease" ELSE "done"]
             /\ UNCHANGED out
    BY <1>7, <2>2 DEF Plan
  <2> QED
    BY <1>7, <2>1, <2>2 DEF Plan
<1>8. CASE Up
  BY <1>8 DEF Up, Goes, Ends, HostIdle
<1> QED
  BY <1>1, <1>2, <1>3, <1>4, <1>5, <1>6, <1>7, <1>8 DEF HostCommand

LEMMA BringUpOpsStep ==
    ASSUME Inv, BringUpOps, UNCHANGED standing
    PROVE  Inv'
<1>1. CASE Refuse
  BY <1>1, RefuseKeeps DEF BringUpOps, Inv, StandingInv, HostAt
<1>2. CASE Goes(IF host.todo \ {Ops} = {} THEN "done" ELSE "lease") /\ UNCHANGED out
  BY <1>2 DEF Goes, Inv, Shape, HostShape, OutShape, StandingInv, Settled, Revocable
<1> QED
  BY <1>1, <1>2 DEF BringUpOps

\* A command that leaves its digests in out/ makes them stand.
LEMMA LeavesDigestsStep ==
    ASSUME Inv, LeavesDigests, standing' = standing \cup {out'["conf"]}
    PROVE  Inv'
<1> USE DEF Inv, Shape, HostShape, OutShape, StandingInv, Settled, Revocable, HostAt,
            Ends, Goes, HostIdle, stack, Inputs
<1>1. CASE Lease
  BY <1>1 DEF Lease
<1>2. CASE Finish
  BY <1>2 DEF Finish
<1>3. CASE HostKilled
  BY <1>3 DEF HostKilled
<1>4. CASE RenderOnly
  BY <1>4 DEF RenderOnly, HostRender
<1> QED
  BY <1>1, <1>2, <1>3, <1>4 DEF LeavesDigests

\* The control plane's renders leave the digests alone, and so does the rest.
LEMMA CpCallStep ==
    ASSUME Inv, CpCall, UNCHANGED <<host, standing>>
    PROVE  Inv'
<1> USE DEF Inv, Shape, HostShape, OutShape, StandingInv, Settled, Revocable, stack,
            Inputs
<1>1. ASSUME NEW model \in {0, 1}, Switch(model) PROVE Inv'
  BY <1>1 DEF Switch
<1>2. CASE CpRender
  BY <1>2 DEF CpRender, ControlRender
<1>3. CASE PostApply
  BY <1>3 DEF PostApply
<1>4. CASE CpPlan
  BY <1>4 DEF CpPlan
<1>5. CASE CpUp
  BY <1>5 DEF CpUp
<1>6. CASE CpDies
  BY <1>6 DEF CpDies
<1> QED
  BY <1>1, <1>2, <1>3, <1>4, <1>5, <1>6 DEF CpCall

LEMMA EditsStep ==
    ASSUME Inv, Edits, UNCHANGED standing
    PROVE  Inv'
<1> USE DEF Inv, Shape, HostShape, OutShape, StandingInv, Settled, Revocable, HostAt,
            Inputs
<1>1. ASSUME NEW i \in {"model", "code", "conf"}, Edit(i), UNCHANGED host PROVE Inv'
  BY <1>1 DEF Edit
<1>2. CASE Rotate
  BY <1>2 DEF Rotate, HostIdle
<1> QED
  BY <1>1, <1>2 DEF Edits

LEMMA NextInv == Inv /\ [Next]_vars => Inv'
<1> SUFFICES ASSUME Inv, [Next]_vars PROVE Inv'
  OBVIOUS
<1>1. CASE HostCommand /\ UNCHANGED standing
  BY <1>1, HostCommandStep
<1>2. CASE BringUpOps /\ UNCHANGED standing
  BY <1>2, BringUpOpsStep
<1>3. CASE LeavesDigests /\ standing' = standing \cup {out'["conf"]}
  BY <1>3, LeavesDigestsStep
<1>4. CASE CpCall /\ UNCHANGED <<host, standing>>
  BY <1>4, CpCallStep
<1>5. CASE (Evict \/ Return) /\ UNCHANGED <<host, standing>>
  BY <1>5 DEF Evict, Return, Start, stack, Inv, Shape, HostShape, OutShape,
     StandingInv, Settled, Revocable
<1>6. CASE Edits /\ UNCHANGED standing
  BY <1>6, EditsStep
<1>7. CASE UNCHANGED vars
  BY <1>7 DEF vars, stack, actors, history, Inv, Shape, HostShape, OutShape,
     StandingInv, Settled, Revocable
<1> QED
  BY <1>1, <1>2, <1>3, <1>4, <1>5, <1>6, <1>7 DEF Next

\* While no host command is under way, only the control plane's bring-up
\* relabels a container, and it relabels it with what is in out/.
LEMMA RelabelsFromOut ==
    ASSUME Next, HostAt("idle"), NEW s \in Services, "conf" \in Reads[s],
           label'[s]["conf"] # label[s]["conf"]
    PROVE  label'[s]["conf"] = out["conf"]
<1>1. ASSUME NEW S, Create(S) PROVE label'[s]["conf"] = out["conf"]
  BY <1>1 DEF Create
<1>2. label' # label
  OBVIOUS
<1>3. ~HostCommand \/ UNCHANGED label
  BY DEF HostCommand, BeginApply, Build, Render, ReadStore, WriteFiles, WriteDigests,
     Plan, Up, HostAt, stack
<1>4. ~LeavesDigests \/ UNCHANGED label
  BY DEF LeavesDigests, Lease, Finish, HostKilled, RenderOnly, stack
<1>5. ~BringUpOps
  BY DEF BringUpOps, HostAt
<1>6. ~(Evict \/ Return) /\ ~Edits
  BY <1>2 DEF Evict, Return, Start, Edits, Edit, Rotate, stack
<1>7. CpCall
  BY <1>2, <1>3, <1>4, <1>5, <1>6 DEF Next
<1>8. CpUp
  BY <1>2, <1>7 DEF CpCall, Switch, CpRender, PostApply, CpPlan, CpDies, stack
<1> QED
  BY <1>1, <1>8 DEF CpUp

\* Whatever was refused, killed, failed or edited, the control plane deploys
\* only config digests that some host command left standing in out/.
THEOREM RefusedEditsStay == Spec => OnlyStandingConfigs
<1>1. Init => Inv
  BY InitInv
<1>2. Inv /\ [Next]_vars => Inv'
  BY NextInv
<1>3. Inv /\ [Next]_vars =>
        [\A s \in Services :
           HostAt("idle") /\ "conf" \in Reads[s] /\ label'[s]["conf"] # label[s]["conf"]
             => label'[s]["conf"] \in standing]_vars
  <2> SUFFICES ASSUME Inv, Next, NEW s \in Services, HostAt("idle"), "conf" \in Reads[s],
                      label'[s]["conf"] # label[s]["conf"]
               PROVE  label'[s]["conf"] \in standing
    OBVIOUS
  <2> QED
    BY RelabelsFromOut DEF Inv, StandingInv, Settled, HostAt
<1> QED
  BY <1>1, <1>2, <1>3, PTL DEF Spec, OnlyStandingConfigs

-----------------------------------------------------------------------------
(* What an apply brings about, and what a switch keeps.                      *)

Values == 0..MaxEdits
HostPoints ==
    {"idle", "build", "render", "secrets", "files", "digests", "plan", "ops", "lease", "up",
     "done"}
Hosts ==
    [pc : HostPoints, scope : SUBSET Services, gpu : SUBSET Services, model : Values,
     code : Values, kept : Values, read : Values, todo : SUBSET Services]
Calls ==
    [pc : {"idle", "render", "plan", "up"}, how : {"apply", "switch", "back"},
     model : Values, before : Values, todo : SUBSET Services]

\* Something for every input a service reads.
Versions(f) ==
    f = [s \in Services |-> f[s]] /\ \A s \in Services : f[s] \in [Reads[s] -> Values]

TypeInv ==
    /\ asked \in [Edited -> Values] /\ out \in [Inputs -> Values]
    /\ images \in Values /\ file \in Values
    /\ Versions(label) /\ Versions(has)
    /\ dead \subseteq Members
    /\ host \in Hosts /\ cp \in Calls
    /\ evicted \subseteq {Tenant} /\ edits \in Values /\ mishaps \in 0..MaxMishaps
    /\ standing \subseteq Values

\* A container that was created from a render runs on it.
ImageInv ==
    \A s \in Services : \A i \in Reads[s] \ {"conf", "secret"} : has[s][i] = label[s][i]

\* A mounted file is never older than the digest that stands for it: at the
\* source, in out/, and in a container, which may have started since it was
\* created.
SecretInv ==
    /\ asked["secret"] <= edits
    /\ out["secret"] <= file /\ file <= asked["secret"]
    /\ host.pc \in {"files", "digests"} => host.read = asked["secret"]
    /\ host.pc = "digests" => file = host.read
    /\ \A s \in Services : "secret" \in Reads[s] =>
         label[s]["secret"] <= has[s]["secret"] /\ has[s]["secret"] <= file

ConfInv ==
    /\ asked["conf"] <= edits
    /\ out["conf"] <= asked["conf"] /\ host.kept <= asked["conf"]
    /\ \A s \in Services : "conf" \in Reads[s] =>
         label[s]["conf"] <= has[s]["conf"] /\ has[s]["conf"] <= asked["conf"]

\* How far an apply has come that nothing disturbed.
Read == host.model = asked["model"] /\ host.code = asked["code"]
Rendered ==
    /\ out["model"] = asked["model"] /\ out["conf"] = asked["conf"]
    /\ out["code"] = asked["code"] /\ out["tag"] = asked["code"]
Materialized == out["secret"] = asked["secret"] /\ file = asked["secret"]

QuietInv ==
    quiet =>
      /\ cp.pc = "idle"
      /\ host.pc \in {"build", "render"} => Read
      /\ host.pc = "render" => images = asked["code"]
      /\ host.scope # {} =>
           /\ host.pc \in {"secrets", "files", "digests", "plan", "ops", "lease", "up", "done"}
                => Rendered
           /\ host.pc \in {"plan", "ops", "lease", "up", "done"} => Materialized
      /\ host.scope = Services =>
           /\ host.pc = "ops" => Changed \subseteq host.todo
           /\ host.pc \in {"lease", "up"} => Changed \subseteq host.todo \ {Ops}
           /\ host.pc = "done" => Changed = {}

\* The model of the source, of the render and of the tenant: what a switch has
\* yet to bring in line when nothing pulled them apart.
Agree == asked["model"] = out["model"] /\ out["model"] = has[Tenant]["model"]

SwitchInv ==
    /\ cp.how # "apply" => cp.pc # "idle"
    /\ ~drift =>
         /\ cp.how = "apply" => Agree
         /\ cp.pc = "render" => cp.how # "apply" /\ cp.model = asked["model"]
         /\ cp.pc \in {"plan", "up"} => out["model"] = asked["model"]
         /\ cp.pc = "up" => Tenant \in cp.todo \/ Agree

ApplyInv == TypeInv /\ ImageInv /\ SecretInv /\ ConfInv /\ QuietInv /\ SwitchInv

-----------------------------------------------------------------------------
(* The containers. *)

LEMMA Groups ==
    ASSUME NEW S \in SUBSET Services
    PROVE  Group(S) \in SUBSET Services /\ S \subseteq Group(S)
BY StackAssumption DEF Group

LEMMA Selections ==
    ASSUME TypeInv
    PROVE  Changed \subseteq Services /\ Selected \subseteq Services
BY StackAssumption DEF Changed, Selected, TypeInv

LEMMA HostFacts ==
    ASSUME TypeInv
    PROVE  /\ host.pc \in HostPoints /\ host.scope \subseteq Services
           /\ host.gpu \subseteq Services /\ host.todo \subseteq Services
           /\ host.model \in Values /\ host.code \in Values
           /\ host.kept \in Values /\ host.read \in Values
BY DEF TypeInv, Hosts

LEMMA CallFacts ==
    ASSUME TypeInv
    PROVE  /\ cp.pc \in {"idle", "render", "plan", "up"}
           /\ cp.how \in {"apply", "switch", "back"}
           /\ cp.model \in Values /\ cp.before \in Values /\ cp.todo \subseteq Services
BY DEF TypeInv, Calls

LEMMA InputFacts ==
    ASSUME TypeInv
    PROVE  /\ \A i \in Inputs : out[i] \in Values /\ Content(i) \in Values
           /\ \A i \in Edited : asked[i] \in Values
           /\ \A s \in Services : \A i \in Reads[s] :
                i \in Inputs /\ label[s][i] \in Values /\ has[s][i] \in Values
           /\ has[Ops]["tag"] \in Values /\ has[Tenant]["model"] \in Values
<1>1. \A s \in Services : Reads[s] \subseteq Inputs
  BY StackAssumption
<1>2. \A s \in Services : \A i \in Reads[s] :
        i \in Inputs /\ label[s][i] \in Values /\ has[s][i] \in Values
  BY <1>1 DEF TypeInv, Versions
<1>3. \A i \in Inputs : out[i] \in Values /\ Content(i) \in Values
  BY DEF TypeInv, Content, Inputs, Edited
<1>4. \A i \in Edited : asked[i] \in Values
  BY DEF TypeInv
<1> QED BY <1>2, <1>3, <1>4, StackAssumption, ApplyAssumption

\* A creation labels what it creates with the render, and leaves the rest.
LEMMA CreateFacts ==
    ASSUME TypeInv, NEW S \in SUBSET Services, Create(S)
    PROVE  /\ Versions(label') /\ Versions(has') /\ dead' \subseteq Members
           /\ dead' \cap S = {}
           /\ \A s \in S :
                /\ label'[s] = [i \in Reads[s] |-> out[i]]
                /\ \A i \in Reads[s] : label'[s][i] = out[i] /\ has'[s][i] = Content(i)
           /\ \A s \in Services \ S : label'[s] = label[s] /\ has'[s] = has[s]
<1>1. \A s \in Services :
        /\ label'[s] = IF s \in S THEN [i \in Reads[s] |-> out[i]] ELSE label[s]
        /\ has'[s] = IF s \in S THEN [i \in Reads[s] |-> Content(i)] ELSE has[s]
  BY DEF Create
<1>2. \A s \in Services : [i \in Reads[s] |-> out[i]] \in [Reads[s] -> Values]
                          /\ [i \in Reads[s] |-> Content(i)] \in [Reads[s] -> Values]
  BY InputFacts
<1>3. \A s \in Services : label'[s] \in [Reads[s] -> Values] /\ has'[s] \in [Reads[s] -> Values]
  BY <1>1, <1>2 DEF TypeInv, Versions
<1>4. label' = [s \in Services |-> label'[s]] /\ has' = [s \in Services |-> has'[s]]
  BY DEF Create
<1>5. dead' \subseteq Members /\ dead' \cap S = {}
  BY DEF Create, TypeInv
<1> QED BY <1>1, <1>3, <1>4, <1>5 DEF Versions

\* A start changes what a container's mounts hold, and no label.
LEMMA StartFacts ==
    ASSUME TypeInv, Start(Tenant)
    PROVE  /\ Versions(has') /\ UNCHANGED <<asked, images, out, file, label, dead>>
           /\ \A s \in Services \ {Tenant} : has'[s] = has[s]
           /\ \A i \in Reads[Tenant] :
                has'[Tenant][i] = IF i \in {"conf", "secret"} THEN Content(i)
                                  ELSE has[Tenant][i]
<1> DEFINE now == [i \in Reads[Tenant] |->
                     IF i \in {"conf", "secret"} THEN Content(i) ELSE has[Tenant][i]]
<1>1. has' = [has EXCEPT ![Tenant] = now]
      /\ UNCHANGED <<asked, images, out, file, label, dead>>
  BY DEF Start
<1>2. now \in [Reads[Tenant] -> Values]
  BY InputFacts, ApplyAssumption
<1>3. \A i \in Reads[Tenant] :
         now[i] = IF i \in {"conf", "secret"} THEN Content(i) ELSE has[Tenant][i]
  OBVIOUS
<1> HIDE DEF now
<1>4. has = [s \in Services |-> has[s]] /\ \A s \in Services : has[s] \in [Reads[s] -> Values]
  BY DEF TypeInv, Versions
<1>5. has' = [s \in Services |-> IF s = Tenant THEN now ELSE has[s]]
  BY <1>1, <1>4
<1>6. has'[Tenant] = now /\ \A s \in Services \ {Tenant} : has'[s] = has[s]
  BY <1>5, ApplyAssumption
<1>7. Versions(has')
  <2>1. has' = [s \in Services |-> has'[s]]
    BY <1>5
  <2>2. \A s \in Services : has'[s] \in [Reads[s] -> Values]
    BY <1>2, <1>4, <1>6
  <2> QED BY <2>1, <2>2 DEF Versions
<1> QED BY <1>1, <1>3, <1>6, <1>7

\* The steps that touch containers.
LEMMA Touches ==
    ASSUME TypeInv, [Next]_vars
    PROVE  \/ UNCHANGED <<label, has, dead>>
           \/ \E S \in SUBSET Services : Create(S) /\ UNCHANGED file
                                         /\ asked' \in {asked, [asked EXCEPT !.model = cp.before]}
           \/ Start(Tenant)
<1>1. HostCommand \/ LeavesDigests => UNCHANGED <<label, has, dead>> \/ Up
  BY DEF HostCommand, BeginApply, Build, Render, ReadStore, WriteFiles, WriteDigests, Plan,
         LeavesDigests, Lease, Finish, HostKilled, RenderOnly, stack
<1>2. CASE Up
  <2>1. UNCHANGED <<asked, file>>
    BY <1>2 DEF Up
  <2>2. \E S \in SUBSET Services : Create(S)
    <3>1. host.todo \ {Ops} \in SUBSET Services
      BY HostFacts
    <3> QED BY <1>2, <3>1, Groups DEF Up
  <2> QED BY <2>1, <2>2
<1>3. CASE BringUpOps
  <2>1. Group({Ops}) \in SUBSET Services
    BY Groups, StackAssumption
  <2> QED BY <1>3, <2>1 DEF BringUpOps
<1>4. CASE CpUp
  <2>1. asked' \in {asked, [asked EXCEPT !.model = cp.before]} /\ UNCHANGED file
    BY <1>4 DEF CpUp, Fails, Undo
  <2>2. \E S \in SUBSET Services : Create(S)
    <3>1. cp.todo \in SUBSET Services
      BY CallFacts
    <3> QED BY <1>4, <3>1, Groups DEF CpUp
  <2> QED BY <2>1, <2>2
<1>5. CpCall /\ ~CpUp => UNCHANGED <<label, has, dead>>
  BY DEF CpCall, Switch, CpRender, PostApply, CpPlan, CpDies, stack
<1>6. Evict \/ Return => UNCHANGED <<label, has, dead>> \/ Start(Tenant)
  BY DEF Evict, Return, stack
<1>7. Edits => UNCHANGED <<label, has, dead>>
  BY DEF Edits, Edit, Rotate
<1>8. UNCHANGED vars => UNCHANGED <<label, has, dead>>
  BY DEF vars, stack
<1> QED BY <1>1, <1>2, <1>3, <1>4, <1>5, <1>6, <1>7, <1>8 DEF Next

-----------------------------------------------------------------------------
(* The types. *)

LEMMA Idles == HostIdle \in Hosts /\ CpIdle \in Calls
BY ApplyAssumption DEF HostIdle, CpIdle, Hosts, Calls, Values, HostPoints

LEMMA ContainersTyped ==
    ASSUME TypeInv, [Next]_vars
    PROVE  Versions(label') /\ Versions(has') /\ dead' \subseteq Members
<1>1. UNCHANGED <<label, has, dead>> => Versions(label') /\ Versions(has') /\ dead' \subseteq Members
  BY DEF TypeInv, Versions
<1> QED BY <1>1, Touches, CreateFacts, StartFacts DEF TypeInv

\* What is asked for, rendered and built.
LEMMA InputsTyped ==
    ASSUME TypeInv, [Next]_vars
    PROVE  /\ asked' \in [Edited -> Values] /\ out' \in [Inputs -> Values]
           /\ images' \in Values /\ file' \in Values /\ edits' \in Values
<1>0. /\ asked \in [Edited -> Values] /\ out \in [Inputs -> Values]
      /\ images \in Values /\ file \in Values /\ edits \in Values
      /\ {0, 1} \subseteq Values
      /\ edits < MaxEdits => edits + 1 \in Values
  BY ApplyAssumption DEF TypeInv, Values
<1>a. \A i, v : v \in Values => [asked EXCEPT ![i] = v] \in [Edited -> Values]
  BY <1>0
<1>1. CASE UNCHANGED <<asked, out, images, file, edits>>
  BY <1>0, <1>1
<1>2. ASSUME Refuse
      PROVE  out' \in [Inputs -> Values]
  BY <1>0, <1>2, HostFacts DEF Refuse
<1>3. ASSUME NEW model \in Values, NEW code \in Values, HostRender(model, code)
      PROVE  out' \in [Inputs -> Values]
  <2>1. asked.conf \in Values
    BY InputFacts DEF Edited, Inputs
  <2> QED BY <1>0, <1>3, <2>1 DEF HostRender
<1>4. CASE HostCommand /\ UNCHANGED edits
  <2>1. CASE Build
    <3>1. asked.code \in Values
      BY InputFacts DEF Edited, Inputs
    <3> QED BY <1>0, <1>4, <2>1, <3>1 DEF Build
  <2>2. CASE Render
    BY <1>0, <1>3, <1>4, <2>2, HostFacts DEF Render
  <2>3. CASE ReadStore \/ Plan
    BY <1>0, <1>2, <1>4, <2>3 DEF ReadStore, Plan
  <2>4. CASE WriteFiles
    BY <1>0, <1>4, <2>4, HostFacts DEF WriteFiles
  <2>5. CASE WriteDigests
    BY <1>0, <1>4, <2>5, HostFacts DEF WriteDigests
  <2>6. CASE (\E scope \in Scopes : BeginApply(scope)) \/ Up
    BY <1>1, <1>4, <2>6 DEF BeginApply, Up, stack
  <2> QED BY <1>4, <2>1, <2>2, <2>3, <2>4, <2>5, <2>6 DEF HostCommand
<1>5. CASE BringUpOps /\ UNCHANGED edits
  BY <1>0, <1>2, <1>5 DEF BringUpOps
<1>6. CASE LeavesDigests /\ UNCHANGED edits
  <2>1. CASE RenderOnly
    <3>1. asked.model \in Values /\ asked.code \in Values
      BY InputFacts DEF Edited, Inputs
    <3> QED BY <1>0, <1>3, <1>6, <2>1, <3>1 DEF RenderOnly
  <2>2. CASE Lease \/ Finish \/ HostKilled
    BY <1>1, <1>6, <2>2 DEF Lease, Finish, HostKilled, stack
  <2> QED BY <1>6, <2>1, <2>2 DEF LeavesDigests
<1>7. CASE CpCall /\ UNCHANGED edits
  <2>1. asked' \in {asked, [asked EXCEPT !.model = cp.before], [asked EXCEPT !.model = 0],
                    [asked EXCEPT !.model = 1]}
    BY <1>7 DEF CpCall, Switch, CpRender, PostApply, CpPlan, CpUp, CpDies, Fails, Undo, stack
  <2>2. UNCHANGED <<images, file>>
    BY <1>7 DEF CpCall, Switch, CpRender, PostApply, CpPlan, CpUp, CpDies, stack
  <2>3. out' = out \/ ControlRender(cp.model)
    BY <1>7 DEF CpCall, Switch, CpRender, PostApply, CpPlan, CpUp, CpDies, stack
  <2>4. out' \in [Inputs -> Values]
    BY <1>0, <2>3, CallFacts, InputFacts DEF ControlRender
  <2>5. asked' \in [Edited -> Values]
    BY <1>0, <1>a, <2>1, CallFacts
  <2> QED BY <1>0, <1>7, <2>2, <2>4, <2>5
<1>8. CASE Edits
  <2>1. edits' \in Values /\ edits + 1 \in Values
    BY <1>0, <1>8 DEF Edits
  <2>2. ASSUME NEW i \in {"model", "code", "conf"}, Edit(i)
        PROVE  asked' \in [Edited -> Values] /\ UNCHANGED <<out, images, file>>
    BY <1>0, <1>a, <2>1, <2>2 DEF Edit
  <2>3. CASE Rotate
    BY <1>0, <1>a, <2>1, <2>3 DEF Rotate
  <2> QED BY <1>0, <1>8, <2>1, <2>2, <2>3 DEF Edits
<1>9. (Evict \/ Return) /\ UNCHANGED edits => UNCHANGED <<asked, out, images, file, edits>>
  BY DEF Evict, Return, Start, stack
<1>10. UNCHANGED vars => UNCHANGED <<asked, out, images, file, edits>>
  BY DEF vars, stack
<1> QED BY <1>1, <1>4, <1>5, <1>6, <1>7, <1>8, <1>9, <1>10 DEF Next

LEMMA HostTyped ==
    ASSUME TypeInv, [Next]_vars
    PROVE  host' \in Hosts
<1>0. host \in Hosts
  BY DEF TypeInv
<1>1. CASE host' \in {host, HostIdle}
  BY <1>0, <1>1, Idles
<1>2. ASSUME NEW pc \in HostPoints, Goes(pc)
      PROVE  host' \in Hosts
  BY <1>0, <1>2 DEF Goes, Hosts
<1>3. ASSUME NEW scope \in Scopes, BeginApply(scope)
      PROVE  host' \in Hosts
  <2>1. scope \in SUBSET Services /\ evicted \in SUBSET Services
        /\ asked.model \in Values /\ asked.code \in Values
    BY ApplyAssumption, InputFacts DEF TypeInv, Edited, Inputs
  <2> QED BY <1>3, <2>1, Idles DEF BeginApply, Hosts, HostPoints
<1>4. CASE Build
  <2>1. out.conf \in Values
    BY InputFacts DEF Inputs
  <2>2. CASE host' = [host EXCEPT !.pc = "render", !.kept = out.conf]
    BY <1>0, <2>1, <2>2 DEF Hosts, HostPoints
  <2> QED BY <1>1, <1>4, <2>2 DEF Build, Ends
<1>5. CASE Render
  <2>1. host' = [host EXCEPT !.pc = "secrets", !.model = 0, !.code = 0] /\ 0 \in Values
    BY <1>5, ApplyAssumption DEF Render, Values
  <2> QED BY <1>0, <2>1 DEF Hosts, HostPoints
<1>6. CASE ReadStore
  <2>1. asked.secret \in Values
    BY InputFacts DEF Edited, Inputs
  <2>2. CASE host' = [host EXCEPT !.pc = "files", !.read = asked.secret]
    BY <1>0, <2>1, <2>2 DEF Hosts, HostPoints
  <2> QED BY <1>1, <1>6, <2>2 DEF ReadStore, Ends, Refuse
<1>7. CASE WriteDigests
  <2>1. PICK pc \in HostPoints : host' = [host EXCEPT !.pc = pc, !.read = 0]
    BY <1>7 DEF WriteDigests, HostPoints
  <2>2. 0 \in Values
    BY ApplyAssumption DEF Values
  <2> QED BY <1>0, <2>1, <2>2 DEF Hosts
<1>8. CASE Plan
  <2>1. CASE Ends
    BY <1>1, <2>1 DEF Ends
  <2>2. CASE ~Ends
    <3>1. PICK pc \in HostPoints, todo \in SUBSET Services :
             host' = [host EXCEPT !.todo = todo, !.gpu = {}, !.pc = pc]
      <4>1. Selected \in SUBSET Services
        BY Selections
      <4> HIDE DEF Selected
      <4> QED BY <1>8, <2>2, <4>1 DEF Plan, Refuse, HostPoints
    <3> QED BY <1>0, <3>1 DEF Hosts
  <2> QED BY <2>1, <2>2
<1>9. CASE WriteFiles \/ Up \/ BringUpOps \/ Lease
  BY <1>1, <1>2, <1>9 DEF WriteFiles, Up, BringUpOps, Lease, Ends, Refuse, HostPoints
<1>10. CASE Finish \/ HostKilled \/ RenderOnly
  BY <1>1, <1>10 DEF Finish, HostKilled, RenderOnly, Ends
<1>11. CASE Rotate
  BY <1>11, Idles DEF Rotate, Hosts, HostPoints
<1>12. CASE Edits
  BY <1>1, <1>11, <1>12 DEF Edits
<1>13. UNCHANGED vars => host' = host
  BY DEF vars, actors
<1> QED BY <1>1, <1>3, <1>4, <1>5, <1>6, <1>7, <1>8, <1>9, <1>10, <1>12, <1>13
        DEF Next, HostCommand, LeavesDigests

LEMMA CallTyped ==
    ASSUME TypeInv, [Next]_vars
    PROVE  cp' \in Calls
<1>0. cp \in Calls
  BY DEF TypeInv
<1>1. CASE cp' \in {cp, CpIdle}
  BY <1>0, <1>1, Idles
<1>2. ASSUME NEW model \in {0, 1}, Switch(model)
      PROVE  cp' \in Calls
  <2>1. model \in Values /\ asked.model \in Values
    BY ApplyAssumption, InputFacts DEF Edited, Inputs, Values
  <2> QED BY <1>2, <2>1, Idles DEF Switch, Calls
<1>3. CASE CpRender
  <2>1. CASE cp' = [cp EXCEPT !.pc = "plan"]
    BY <1>0, <2>1 DEF Calls
  <2> QED BY <1>1, <1>3, <2>1 DEF CpRender, CpEnds
<1>4. CASE PostApply
  BY <1>4, Idles DEF PostApply, Calls
<1>5. ASSUME Fails
      PROVE  cp' \in Calls
  <2>1. Undo => cp' \in Calls
    BY <1>0, CallFacts DEF Undo, Calls
  <2> QED BY <1>1, <1>5, <2>1 DEF Fails, CpEnds
<1>6. CASE CpPlan
  <2>1. PICK todo \in SUBSET Services : todo = Changed \ {Ops}
    BY Selections
  <2>2. [cp EXCEPT !.pc = "up", !.todo = todo] \in Calls
    BY <1>0 DEF Calls
  <2> QED BY <1>5, <1>6, <2>1, <2>2 DEF CpPlan
<1>7. CASE CpUp
  BY <1>1, <1>5, <1>7 DEF CpUp, CpEnds
<1>8. CASE CpDies \/ BringUpOps
  BY <1>1, <1>8 DEF CpDies, BringUpOps, CpEnds
<1>9. UNCHANGED vars => cp' = cp
  BY DEF vars, actors
<1> QED BY <1>1, <1>2, <1>3, <1>4, <1>6, <1>7, <1>8, <1>9 DEF Next, CpCall

LEMMA TypeStep ==
    ASSUME TypeInv, [Next]_vars
    PROVE  TypeInv'
<1>1. evicted' \subseteq {Tenant}
  BY DEF TypeInv, Next, Evict, Return, vars, actors
<1>2. mishaps' \in 0..MaxMishaps
  <2>1. mishaps' \in {mishaps, mishaps + 1} /\ (mishaps' # mishaps => mishaps < MaxMishaps)
    <3>1. HostCommand \/ BringUpOps \/ LeavesDigests
            => mishaps' = mishaps \/ (mishaps < MaxMishaps /\ mishaps' = mishaps + 1)
      BY DEF HostCommand, BeginApply, Build, Render, ReadStore, WriteFiles, WriteDigests, Plan,
             Up, BringUpOps, LeavesDigests, Lease, Finish, HostKilled, RenderOnly, Smoothly,
             Falters, Mishap
    <3>2. CpCall => mishaps' = mishaps \/ (mishaps < MaxMishaps /\ mishaps' = mishaps + 1)
      BY DEF CpCall, Switch, CpRender, PostApply, CpPlan, CpUp, CpDies, Smoothly, Falters, Mishap
    <3>3. Evict \/ Return \/ Edits \/ UNCHANGED vars => mishaps' = mishaps
      BY DEF Evict, Return, Edits, Edit, Rotate, vars
    <3> QED BY <3>1, <3>2, <3>3 DEF Next
  <2> QED BY <2>1, ApplyAssumption DEF TypeInv
<1>3. standing' \subseteq Values
  <2>1. out'["conf"] \in Values
    BY InputsTyped DEF Inputs
  <2>2. standing' = standing \/ standing' = standing \cup {out'["conf"]}
    BY DEF Next, vars, history
  <2> QED BY <2>1, <2>2 DEF TypeInv
<1> QED BY <1>1, <1>2, <1>3, ContainersTyped, InputsTyped, HostTyped, CallTyped DEF TypeInv

-----------------------------------------------------------------------------
(* What containers run on, and the files mounted in them. *)

LEMMA ImageStep ==
    ASSUME TypeInv, ImageInv, [Next]_vars
    PROVE  ImageInv'
<1>1. CASE UNCHANGED <<label, has, dead>>
  BY <1>1 DEF ImageInv
<1>2. ASSUME NEW S \in SUBSET Services, Create(S)
      PROVE  ImageInv'
  <2>0. \A s \in S : \A i \in Reads[s] : label'[s][i] = out[i] /\ has'[s][i] = Content(i)
    BY <1>2, CreateFacts, Zenon
  <2>1. ASSUME NEW s \in Services, NEW i \in Reads[s] \ {"conf", "secret"}
        PROVE  has'[s][i] = label'[s][i]
    <3>1. CASE s \in S
      <4>1. label'[s][i] = out[i] /\ has'[s][i] = Content(i)
        BY <2>0, <3>1
      <4>2. Content(i) = out[i]
        BY DEF Content
      <4> QED BY <4>1, <4>2
    <3>2. CASE s \notin S
      <4>1. label'[s] = label[s] /\ has'[s] = has[s]
        BY <1>2, <3>2, CreateFacts
      <4> QED BY <4>1 DEF ImageInv
    <3> QED BY <3>1, <3>2
  <2> QED BY <2>1 DEF ImageInv
<1>3. CASE Start(Tenant)
  <2>1. ASSUME NEW s \in Services, NEW i \in Reads[s] \ {"conf", "secret"}
        PROVE  has'[s][i] = label'[s][i]
    <3>1. has'[s][i] = has[s][i] /\ label' = label
      BY <1>3, StartFacts
    <3> QED BY <3>1 DEF ImageInv
  <2> QED BY <2>1 DEF ImageInv
<1> QED BY <1>1, <1>2, <1>3, Touches

\* A file mounted in a container is the one there was when it was created or
\* started, and no older than the digest it was labelled with.
LEMMA MountsStep ==
    ASSUME TypeInv, SecretInv, [Next]_vars
    PROVE  \A s \in Services : "secret" \in Reads[s] =>
             label'[s]["secret"] <= has'[s]["secret"] /\ has'[s]["secret"] <= file
<1> SUFFICES ASSUME NEW s \in Services, "secret" \in Reads[s]
             PROVE  label'[s]["secret"] <= has'[s]["secret"] /\ has'[s]["secret"] <= file
  OBVIOUS
<1>1. /\ label[s]["secret"] <= has[s]["secret"] /\ has[s]["secret"] <= file
      /\ out["secret"] <= file
  BY DEF SecretInv
<1>2. /\ label[s]["secret"] \in Int /\ has[s]["secret"] \in Int /\ file \in Int
      /\ out["secret"] \in Int /\ Content("secret") = file
  BY InputFacts DEF TypeInv, Values, Inputs, Content
<1>3. ASSUME NEW S \in SUBSET Services, Create(S)
      PROVE  label'[s]["secret"] <= has'[s]["secret"] /\ has'[s]["secret"] <= file
  <2>0. /\ \A t \in S : \A i \in Reads[t] : label'[t][i] = out[i] /\ has'[t][i] = Content(i)
        /\ \A t \in Services \ S : label'[t] = label[t] /\ has'[t] = has[t]
    BY <1>3, CreateFacts, Zenon
  <2>1. \/ label'[s]["secret"] = out["secret"] /\ has'[s]["secret"] = file
        \/ label'[s] = label[s] /\ has'[s] = has[s]
    BY <1>2, <2>0
  <2> QED BY <1>1, <1>2, <2>1
<1>4. ASSUME Start(Tenant)
      PROVE  label'[s]["secret"] <= has'[s]["secret"] /\ has'[s]["secret"] <= file
  <2>1. label' = label /\ has'[s]["secret"] \in {has[s]["secret"], file}
    BY <1>2, <1>4, StartFacts
  <2>2. label[s]["secret"] <= file
    BY <1>1, <1>2
  <2> QED BY <1>1, <1>2, <2>1, <2>2
<1> QED BY <1>1, <1>3, <1>4, Touches

\* The files are never older than what stands for them.
LEMMA SecretStep ==
    ASSUME TypeInv, SecretInv, [Next]_vars
    PROVE  SecretInv'
<1>0. /\ asked["secret"] \in Int /\ out["secret"] \in Int /\ file \in Int /\ edits \in Int
      /\ host.read \in Int
      /\ asked["secret"] <= edits /\ out["secret"] <= file /\ file <= asked["secret"]
  BY InputFacts, HostFacts DEF SecretInv, TypeInv, Values, Inputs, Edited
<1>1. ASSUME file' \in Int, file <= file'
      PROVE  \A s \in Services : "secret" \in Reads[s] =>
               label'[s]["secret"] <= has'[s]["secret"] /\ has'[s]["secret"] <= file'
  <2> SUFFICES ASSUME NEW s \in Services, "secret" \in Reads[s]
               PROVE  label'[s]["secret"] <= has'[s]["secret"] /\ has'[s]["secret"] <= file'
    OBVIOUS
  <2>1. has'[s]["secret"] \in Int
    BY TypeStep DEF TypeInv, Versions, Values
  <2> QED BY <1>0, <1>1, <2>1, MountsStep
<1>2. CASE /\ file' = file /\ asked'["secret"] = asked["secret"] /\ edits' \in {edits, edits + 1}
           /\ out'["secret"] = out["secret"]
           /\ host'.pc \notin {"files", "digests"}
                \/ (host'.read = host.read /\ host'.pc = host.pc)
  BY <1>0, <1>1, <1>2 DEF SecretInv
<1>3. CASE ReadStore /\ UNCHANGED edits
  <2>1. asked' = asked /\ file' = file /\ out'["secret"] = out["secret"]
    BY <1>3 DEF ReadStore, Refuse, TypeInv, Inputs
  <2>2. CASE host'.pc \notin {"files", "digests"}
    BY <1>2, <1>3, <2>1, <2>2
  <2>3. CASE host' = [host EXCEPT !.pc = "files", !.read = asked.secret]
    <3>1. host'.pc = "files" /\ host'.read = asked["secret"]
      BY <2>3 DEF TypeInv, Hosts
    <3> QED BY <1>0, <1>1, <1>3, <2>1, <3>1 DEF SecretInv
  <2>4. HostIdle.pc = "idle"
    BY DEF HostIdle
  <2> QED BY <1>3, <2>2, <2>3, <2>4 DEF ReadStore, Ends, Refuse
<1>4. CASE WriteFiles /\ UNCHANGED edits
  <2>1. /\ host.read = asked["secret"] /\ file' = host.read /\ UNCHANGED <<asked, out>>
        /\ host'.pc = "digests" /\ host'.read = host.read
    BY <1>4 DEF WriteFiles, HostAt, SecretInv, Goes, TypeInv, Hosts
  <2> QED BY <1>0, <1>1, <1>4, <2>1 DEF SecretInv
<1>5. CASE WriteDigests /\ UNCHANGED edits
  <2>1. /\ host.read = asked["secret"] /\ file = host.read /\ UNCHANGED <<asked, file>>
        /\ out'["secret"] = host.read /\ host'.pc \in {"done", "plan"}
    BY <1>5 DEF WriteDigests, HostAt, SecretInv, TypeInv, Hosts, Inputs
  <2> QED BY <1>0, <1>1, <1>5, <2>1 DEF SecretInv
<1>6. CASE Rotate /\ edits' = edits + 1
  <2>1. /\ asked'["secret"] = edits + 1 /\ UNCHANGED <<out, file>> /\ host'.pc = "secrets"
    BY <1>6, Idles DEF Rotate, TypeInv, Edited, Inputs, Hosts
  <2> QED BY <1>0, <1>1, <1>6, <2>1 DEF SecretInv
<1>7. CASE HostCommand /\ ~ReadStore /\ ~WriteFiles /\ ~WriteDigests /\ UNCHANGED edits
  <2>1. file' = file /\ asked' = asked
    BY <1>7 DEF HostCommand, BeginApply, Build, Render, Plan, Up, stack
  <2>2. out'["secret"] = out["secret"]
    BY <1>7 DEF HostCommand, BeginApply, Build, Render, HostRender, Plan, Up, Refuse, stack,
                TypeInv, Inputs
  <2>3. host'.pc \notin {"files", "digests"}
    <3>1. CASE host' = HostIdle
      BY <3>1 DEF HostIdle
    <3>2. ASSUME NEW scope \in Scopes, BeginApply(scope) PROVE host'.pc = "build"
      BY <3>2, Idles DEF BeginApply, Hosts
    <3>3. Build => host'.pc = "render" \/ host' = HostIdle
      BY DEF Build, Ends, TypeInv, Hosts
    <3>4. Render => host'.pc = "secrets"
      BY DEF Render, TypeInv, Hosts
    <3>5. Plan => host'.pc \in {"ops", "lease", "done"} \/ host' = HostIdle
      BY DEF Plan, Refuse, Ends, TypeInv, Hosts
    <3>6. Up => host'.pc = "done" \/ host' = HostIdle
      BY DEF Up, Goes, Ends, TypeInv, Hosts
    <3> QED BY <1>7, <3>1, <3>2, <3>3, <3>4, <3>5, <3>6 DEF HostCommand
  <2> QED BY <1>2, <1>7, <2>1, <2>2, <2>3
<1>8. CASE BringUpOps /\ UNCHANGED edits
  <2>1. file' = file /\ asked' = asked /\ out'["secret"] = out["secret"]
    BY <1>8 DEF BringUpOps, Refuse, TypeInv, Inputs
  <2>2. host'.pc \notin {"files", "digests"}
    BY <1>8 DEF BringUpOps, Refuse, Goes, Ends, HostIdle, TypeInv, Hosts
  <2> QED BY <1>2, <1>8, <2>1, <2>2
<1>9. CASE LeavesDigests /\ UNCHANGED edits
  <2>1. file' = file /\ asked' = asked
    BY <1>9 DEF LeavesDigests, Lease, Finish, HostKilled, RenderOnly, stack
  <2>2. out'["secret"] = out["secret"]
    BY <1>9 DEF LeavesDigests, Lease, Finish, HostKilled, RenderOnly, HostRender, stack,
                TypeInv, Inputs
  <2>3. host'.pc \notin {"files", "digests"} \/ host' = host
    BY <1>9 DEF LeavesDigests, Lease, Finish, HostKilled, RenderOnly, Goes, Ends, HostIdle,
                TypeInv, Hosts
  <2> QED BY <1>2, <1>9, <2>1, <2>2, <2>3
<1>10. CASE CpCall /\ UNCHANGED <<host, edits>>
  <2>1. file' = file
    BY <1>10 DEF CpCall, Switch, CpRender, PostApply, CpPlan, CpUp, CpDies, stack
  <2>2. asked'["secret"] = asked["secret"]
    BY <1>10 DEF CpCall, Switch, CpRender, PostApply, CpPlan, CpUp, CpDies, Fails, Undo, stack,
                 TypeInv, Edited, Inputs
  <2>3. out'["secret"] = out["secret"]
    BY <1>10 DEF CpCall, Switch, CpRender, ControlRender, PostApply, CpPlan, CpUp, CpDies,
                 stack, TypeInv, Inputs
  <2> QED BY <1>2, <1>10, <2>1, <2>2, <2>3
<1>11. CASE Edits /\ ~Rotate
  <2>1. UNCHANGED <<file, out, host>> /\ edits' = edits + 1
    BY <1>11 DEF Edits, Edit
  <2>2. asked'["secret"] = asked["secret"]
    BY <1>11 DEF Edits, Edit, TypeInv, Edited, Inputs
  <2> QED BY <1>2, <2>1, <2>2
<1>12. CASE ((Evict \/ Return) /\ UNCHANGED <<host, edits>>) \/ UNCHANGED vars
  BY <1>2, <1>12 DEF Evict, Return, Start, vars, actors, stack
<1> QED BY <1>3, <1>4, <1>5, <1>6, <1>7, <1>8, <1>9, <1>10, <1>11, <1>12 DEF Next, Edits

\* The same of a declared config file, which is mounted as it is in the
\* checkout: its digests are those of the last render.
LEMMA BindsStep ==
    ASSUME TypeInv, ConfInv, [Next]_vars
    PROVE  \A s \in Services : "conf" \in Reads[s] =>
             label'[s]["conf"] <= has'[s]["conf"] /\ has'[s]["conf"] <= asked["conf"]
<1> SUFFICES ASSUME NEW s \in Services, "conf" \in Reads[s]
             PROVE  label'[s]["conf"] <= has'[s]["conf"] /\ has'[s]["conf"] <= asked["conf"]
  OBVIOUS
<1>1. /\ label[s]["conf"] <= has[s]["conf"] /\ has[s]["conf"] <= asked["conf"]
      /\ out["conf"] <= asked["conf"]
  BY DEF ConfInv
<1>2. /\ label[s]["conf"] \in Int /\ has[s]["conf"] \in Int /\ asked["conf"] \in Int
      /\ out["conf"] \in Int /\ Content("conf") = asked["conf"]
  BY InputFacts DEF TypeInv, Values, Inputs, Edited, Content
<1>3. ASSUME NEW S \in SUBSET Services, Create(S)
      PROVE  label'[s]["conf"] <= has'[s]["conf"] /\ has'[s]["conf"] <= asked["conf"]
  <2>1. /\ \A t \in S : \A i \in Reads[t] : label'[t][i] = out[i] /\ has'[t][i] = Content(i)
        /\ \A t \in Services \ S : label'[t] = label[t] /\ has'[t] = has[t]
    BY <1>3, CreateFacts, Zenon
  <2>2. \/ label'[s]["conf"] = out["conf"] /\ has'[s]["conf"] = asked["conf"]
        \/ label'[s] = label[s] /\ has'[s] = has[s]
    BY <1>2, <2>1
  <2> QED BY <1>1, <1>2, <2>2
<1>4. ASSUME Start(Tenant)
      PROVE  label'[s]["conf"] <= has'[s]["conf"] /\ has'[s]["conf"] <= asked["conf"]
  <2>1. label' = label /\ has'[s]["conf"] \in {has[s]["conf"], asked["conf"]}
    BY <1>2, <1>4, StartFacts
  <2>2. label[s]["conf"] <= asked["conf"]
    BY <1>1, <1>2
  <2> QED BY <1>1, <1>2, <2>1, <2>2
<1> QED BY <1>1, <1>3, <1>4, Touches

LEMMA ConfStep ==
    ASSUME "conf" \in Fresh, TypeInv, ConfInv, [Next]_vars
    PROVE  ConfInv'
<1>0. /\ asked["conf"] \in Int /\ out["conf"] \in Int /\ edits \in Int /\ host.kept \in Int
      /\ asked["conf"] <= edits /\ out["conf"] <= asked["conf"] /\ host.kept <= asked["conf"]
      /\ 0 <= asked["conf"]
  BY InputFacts, HostFacts DEF ConfInv, TypeInv, Values, Inputs, Edited
<1>1. ASSUME \/ asked'["conf"] = asked["conf"] /\ edits' \in {edits, edits + 1}
             \/ asked'["conf"] = edits + 1 /\ edits' = edits + 1,
             out'["conf"] \in {out["conf"], asked["conf"], host.kept},
             host'.kept \in {host.kept, out["conf"], 0}
      PROVE  ConfInv'
  <2>1. asked'["conf"] \in Int /\ asked["conf"] <= asked'["conf"] /\ asked'["conf"] <= edits'
    BY <1>0, <1>1
  <2>2. out'["conf"] <= asked'["conf"] /\ host'.kept <= asked'["conf"]
    BY <1>0, <1>1, <2>1
  <2>3. ASSUME NEW s \in Services, "conf" \in Reads[s]
        PROVE  label'[s]["conf"] <= has'[s]["conf"] /\ has'[s]["conf"] <= asked'["conf"]
    <3>1. has'[s]["conf"] \in Int
      BY <2>3, TypeStep DEF TypeInv, Versions, Values
    <3> QED BY <1>0, <2>1, <2>3, <3>1, BindsStep
  <2> QED BY <2>1, <2>2, <2>3 DEF ConfInv
<1>2. HostIdle.kept = 0
  BY DEF HostIdle
<1>3. CASE HostCommand /\ UNCHANGED edits
  <2>1. asked' = asked
    BY <1>3 DEF HostCommand, BeginApply, Build, Render, ReadStore, WriteFiles, WriteDigests,
                Plan, Up, stack
  <2>2. out'["conf"] \in {out["conf"], asked["conf"], host.kept}
    BY <1>3 DEF HostCommand, BeginApply, Build, Render, HostRender, ReadStore, WriteFiles,
                WriteDigests, Plan, Up, Refuse, stack, TypeInv, Inputs
  <2>3. host'.kept \in {host.kept, out["conf"], 0}
    <3>1. CASE host' = HostIdle
      BY <1>2, <3>1
    <3>2. ASSUME NEW scope \in Scopes, BeginApply(scope) PROVE host'.kept = 0
      BY <1>2, <3>2, Idles DEF BeginApply, Hosts
    <3>3. Build => host'.kept = out["conf"] \/ host' = HostIdle
      BY DEF Build, Ends, TypeInv, Hosts
    <3>4. Render \/ ReadStore \/ WriteFiles \/ WriteDigests
            => host'.kept = host.kept \/ host' = HostIdle
      BY DEF Render, ReadStore, WriteFiles, WriteDigests, Goes, Refuse, Ends, TypeInv, Hosts
    <3>5. Plan \/ Up => host'.kept = host.kept \/ host' = HostIdle
      BY DEF Plan, Up, Goes, Refuse, Ends, TypeInv, Hosts
    <3> QED BY <1>3, <3>1, <3>2, <3>3, <3>4, <3>5 DEF HostCommand
  <2> QED BY <1>1, <1>3, <2>1, <2>2, <2>3
<1>4. CASE BringUpOps /\ UNCHANGED edits
  <2>1. asked' = asked /\ out'["conf"] \in {out["conf"], host.kept}
    BY <1>4 DEF BringUpOps, Refuse, TypeInv, Inputs
  <2>2. host'.kept \in {host.kept, 0}
    BY <1>2, <1>4 DEF BringUpOps, Refuse, Goes, Ends, TypeInv, Hosts
  <2> QED BY <1>1, <1>4, <2>1, <2>2
<1>5. CASE LeavesDigests /\ UNCHANGED edits
  <2>1. asked' = asked /\ out'["conf"] \in {out["conf"], asked["conf"]}
    BY <1>5 DEF LeavesDigests, Lease, Finish, HostKilled, RenderOnly, HostRender, stack,
                TypeInv, Inputs
  <2>2. host'.kept \in {host.kept, 0}
    BY <1>2, <1>5 DEF LeavesDigests, Lease, Finish, HostKilled, RenderOnly, Goes, Ends,
                      TypeInv, Hosts
  <2> QED BY <1>1, <1>5, <2>1, <2>2
<1>6. CASE CpCall /\ UNCHANGED <<host, edits>>
  <2>1. asked'["conf"] = asked["conf"]
    BY <1>6 DEF CpCall, Switch, CpRender, PostApply, CpPlan, CpUp, CpDies, Fails, Undo, stack,
                TypeInv, Edited, Inputs
  <2>2. out'["conf"] = out["conf"]
    BY <1>6 DEF CpCall, Switch, CpRender, ControlRender, PostApply, CpPlan, CpUp, CpDies,
                stack, TypeInv, Inputs
  <2> QED BY <1>1, <1>6, <2>1, <2>2
<1>7. CASE Edits
  <2>1. UNCHANGED out /\ edits' = edits + 1
    BY <1>7 DEF Edits, Edit, Rotate
  <2>2. asked'["conf"] \in {asked["conf"], edits + 1}
    BY <1>7 DEF Edits, Edit, Rotate, TypeInv, Edited, Inputs
  <2>3. host'.kept \in {host.kept, 0}
    BY <1>2, <1>7, Idles DEF Edits, Rotate, Hosts
  <2> QED BY <1>1, <2>1, <2>2, <2>3
<1>8. CASE ((Evict \/ Return) /\ UNCHANGED <<host, edits>>) \/ UNCHANGED vars
  BY <1>1, <1>8 DEF Evict, Return, Start, vars, actors, stack
<1> QED BY <1>3, <1>4, <1>5, <1>6, <1>7, <1>8 DEF Next

-----------------------------------------------------------------------------
(* An apply nothing disturbs. *)

\* What is created with its members is not of the changed set any more, and
\* nothing else comes to it.
LEMMA CreateSettles ==
    ASSUME TypeInv, NEW X \in SUBSET Services, Create(Group(X)), UNCHANGED out
    PROVE  Changed' \subseteq Changed \ X
<1>1. Group(X) \in SUBSET Services /\ X \subseteq Group(X)
  BY Groups
<1>2. /\ \A s \in Group(X) : label'[s] = [i \in Reads[s] |-> out[i]]
      /\ \A s \in Services \ Group(X) : label'[s] = label[s]
      /\ dead' \subseteq Members /\ dead' \cap Group(X) = {}
  BY <1>1, CreateFacts, Zenon
<1>3. dead' \subseteq dead
  <2>1. ASSUME NEW m \in Members, Owner[m] \in Group(X)
        PROVE  m \in Group(X)
    BY <2>1, StackAssumption DEF Group
  <2> QED BY <2>1 DEF Create
<1>4. ASSUME NEW s \in Changed'
      PROVE  s \in Changed \ X
  <2>1. s \notin Group(X)
    <3>1. ASSUME s \in Group(X) PROVE FALSE
      <4>1. label'[s] = [i \in Reads[s] |-> out'[i]] /\ s \notin dead'
        BY <1>2, <3>1
      <4> QED BY <1>4, <4>1 DEF Changed
    <3> QED BY <3>1
  <2>2. CASE s \in dead'
    BY <1>1, <1>3, <2>1, <2>2 DEF Changed
  <2>3. CASE s \in Services /\ label'[s] # [i \in Reads[s] |-> out'[i]]
    <3>1. label[s] # [i \in Reads[s] |-> out[i]]
      BY <1>2, <2>1, <2>3
    <3> QED BY <1>1, <2>1, <2>3, <3>1 DEF Changed
  <2> QED BY <1>4, <2>2, <2>3 DEF Changed
<1> QED BY <1>4

LEMMA QuietStep ==
    ASSUME TypeInv, SecretInv, QuietInv, [Next]_vars
    PROVE  QuietInv'
<1> SUFFICES ASSUME quiet' PROVE QuietInv'
  BY DEF QuietInv
<1>1. CASE UNCHANGED vars
  BY <1>1 DEF QuietInv, Read, Rendered, Materialized, Changed, vars, stack, actors, history
<1>2. CASE Next
  <2>1. host' # host /\ host' # HostIdle /\ (IF HostAt("idle") THEN CpAt("idle") ELSE quiet)
    BY <1>2 DEF Next, Quiet
  <2>2. ASSUME NEW scope \in Scopes, BeginApply(scope), UNCHANGED cp
        PROVE  QuietInv'
    <3>1. /\ host'.pc = "build" /\ host'.model = asked.model /\ host'.code = asked.code
          /\ cp.pc = "idle" /\ UNCHANGED asked
      BY <2>1, <2>2, Idles DEF BeginApply, Hosts, CpAt, stack
    <3> QED BY <2>2, <3>1 DEF QuietInv, Read
  <2>3. ASSUME ~HostAt("idle")
        PROVE  quiet /\ cp.pc = "idle"
    BY <2>1, <2>3 DEF QuietInv
  <2>4. CASE Build /\ UNCHANGED cp
    <3>1. /\ host.pc = "build" /\ host' = [host EXCEPT !.pc = "render", !.kept = out.conf]
          /\ images' = asked.code /\ UNCHANGED asked
      BY <2>1, <2>4 DEF Build, HostAt, Ends
    <3>2. host'.pc = "render" /\ host'.model = host.model /\ host'.code = host.code
      BY <3>1 DEF TypeInv, Hosts
    <3>3. quiet /\ cp.pc = "idle" /\ Read
      BY <2>3, <3>1 DEF HostAt, QuietInv
    <3> QED BY <2>4, <3>1, <3>2, <3>3 DEF QuietInv, Read
  <2>5. CASE Render /\ UNCHANGED cp
    <3>1. /\ host.pc = "render" /\ HostRender(host.model, host.code)
          /\ host' = [host EXCEPT !.pc = "secrets", !.model = 0, !.code = 0]
          /\ UNCHANGED asked
      BY <2>5 DEF Render, HostAt
    <3>2. host'.pc = "secrets"
      BY <3>1 DEF TypeInv, Hosts
    <3>3. quiet /\ cp.pc = "idle" /\ Read /\ images = asked["code"]
      BY <2>3, <3>1 DEF HostAt, QuietInv
    <3>4. Rendered'
      BY <3>1, <3>3 DEF HostRender, Read, Rendered, TypeInv, Inputs
    <3> QED BY <2>5, <3>2, <3>3, <3>4 DEF QuietInv
  <2>6. CASE (ReadStore \/ WriteFiles) /\ UNCHANGED cp
    <3>1. /\ host.pc \in {"secrets", "files"} /\ UNCHANGED <<asked, out>>
          /\ host'.pc \in {"files", "digests"} /\ host'.scope = host.scope
      BY <2>1, <2>6 DEF ReadStore, WriteFiles, HostAt, Ends, Refuse, Goes, TypeInv, Hosts
    <3>2. quiet /\ cp.pc = "idle"
      BY <2>3, <3>1 DEF HostAt
    <3>3. host.scope # {} => Rendered'
      BY <3>1, <3>2 DEF QuietInv, Rendered
    <3> QED BY <2>6, <3>1, <3>2, <3>3 DEF QuietInv
  <2>7. CASE WriteDigests /\ UNCHANGED cp
    <3>1. /\ host.pc = "digests" /\ UNCHANGED <<asked, file>>
          /\ out' = [out EXCEPT !.secret = host.read]
          /\ host'.pc = (IF host.scope = {} THEN "done" ELSE "plan")
          /\ host'.scope = host.scope
      BY <2>7 DEF WriteDigests, HostAt, TypeInv, Hosts
    <3>2. quiet /\ cp.pc = "idle"
      BY <2>3, <3>1 DEF HostAt
    <3>3. host.read = asked["secret"] /\ file = host.read
      BY <3>1 DEF SecretInv
    <3>4. Materialized' /\ (host.scope # {} => Rendered')
      BY <3>1, <3>2, <3>3 DEF QuietInv, Rendered, Materialized, TypeInv, Inputs
    <3>5. Services # {}
      BY StackAssumption
    <3> QED BY <2>7, <3>1, <3>2, <3>4, <3>5 DEF QuietInv
  <2>8. CASE Plan /\ UNCHANGED cp
    <3>1. PICK selected \in SUBSET Services : selected = Selected
      BY Selections
    <3>2. /\ host.pc = "plan" /\ UNCHANGED <<asked, out, file, label, dead>>
          /\ host' = [host EXCEPT
                !.todo = selected, !.gpu = {},
                !.pc = IF Ops \in selected THEN "ops"
                       ELSE IF selected # {} THEN "lease" ELSE "done"]
      BY <2>1, <2>8, <3>1 DEF Plan, HostAt, Refuse, Ends
    <3>3. /\ host'.todo = selected /\ host'.scope = host.scope
          /\ host'.pc = IF Ops \in selected THEN "ops"
                        ELSE IF selected # {} THEN "lease" ELSE "done"
      BY <3>2 DEF TypeInv, Hosts
    <3>4. quiet /\ cp.pc = "idle"
      BY <2>3, <3>2 DEF HostAt
    <3>5. host.scope # {} => Rendered' /\ Materialized'
      BY <3>2, <3>4 DEF QuietInv, Rendered, Materialized
    <3>6. host.scope = Services => Changed' \subseteq selected
      <4>1. Changed' = Changed
        BY <3>2 DEF Changed
      <4>2. host.scope = Services => Changed \subseteq Selected
        BY Selections DEF Selected
      <4> QED BY <3>1, <4>1, <4>2
    <3> QED BY <2>8, <3>3, <3>4, <3>5, <3>6 DEF QuietInv
  <2>9. CASE BringUpOps
    <3>1. /\ host.pc = "ops" /\ UNCHANGED <<asked, out, file>> /\ Create(Group({Ops}))
          /\ cp' = CpIdle
          /\ Goes(IF host.todo \ {Ops} = {} THEN "done" ELSE "lease")
      BY <2>1, <2>9 DEF BringUpOps, HostAt, Refuse, Ends
    <3>2. /\ host'.todo = host.todo /\ host'.scope = host.scope
          /\ host'.pc = IF host.todo \ {Ops} = {} THEN "done" ELSE "lease"
      BY <3>1 DEF Goes, TypeInv, Hosts
    <3>3. quiet /\ cp'.pc = "idle"
      BY <2>3, <3>1 DEF HostAt, CpIdle
    <3>4. host.scope # {} => Rendered' /\ Materialized'
      BY <3>1, <3>3 DEF QuietInv, Rendered, Materialized
    <3>5. host.scope = Services => Changed' \subseteq host.todo \ {Ops}
      <4>1. Changed' \subseteq Changed \ {Ops}
        BY <3>1, CreateSettles, StackAssumption
      <4>2. host.scope = Services => Changed \subseteq host.todo
        BY <3>1, <3>3 DEF QuietInv
      <4> QED BY <4>1, <4>2
    <3> QED BY <3>2, <3>3, <3>4, <3>5 DEF QuietInv
  <2>10. CASE Lease /\ UNCHANGED cp
    <3>1. host.pc = "lease" /\ UNCHANGED stack /\ Goes("up")
      BY <2>1, <2>10 DEF Lease, HostAt, Ends
    <3>2. host'.pc = "up" /\ host'.todo = host.todo /\ host'.scope = host.scope
      BY <3>1 DEF Goes, TypeInv, Hosts
    <3>3. quiet /\ cp.pc = "idle"
      BY <2>3, <3>1 DEF HostAt
    <3> QED BY <2>10, <3>1, <3>2, <3>3
            DEF QuietInv, Rendered, Materialized, Changed, stack
  <2>11. CASE Up /\ UNCHANGED cp
    <3>1. /\ host.pc = "up" /\ UNCHANGED <<asked, out, file>>
          /\ Create(Group(host.todo \ {Ops})) /\ Goes("done")
      BY <2>1, <2>11 DEF Up, HostAt, Ends
    <3>2. host'.pc = "done" /\ host'.scope = host.scope
      BY <3>1 DEF Goes, TypeInv, Hosts
    <3>3. quiet /\ cp.pc = "idle"
      BY <2>3, <3>1 DEF HostAt
    <3>4. host.scope # {} => Rendered' /\ Materialized'
      BY <3>1, <3>3 DEF QuietInv, Rendered, Materialized
    <3>5. host.scope = Services => Changed' = {}
      <4>1. PICK X \in SUBSET Services : X = host.todo \ {Ops}
        BY HostFacts
      <4>2. Changed' \subseteq Changed \ X
        BY <3>1, <4>1, CreateSettles
      <4>3. host.scope = Services => Changed \subseteq X
        BY <3>1, <3>3, <4>1 DEF QuietInv
      <4> QED BY <4>2, <4>3
    <3> QED BY <2>11, <3>2, <3>3, <3>4, <3>5 DEF QuietInv
  <2>12. CASE Edits /\ UNCHANGED cp
    <3>1. Rotate
      BY <2>1, <2>12 DEF Edits
    <3>2. host'.pc = "secrets" /\ host'.scope = {} /\ cp.pc = "idle"
      BY <2>1, <3>1, Idles DEF Rotate, Hosts, HostIdle, HostAt, CpAt
    <3>3. Services # {}
      BY StackAssumption
    <3> QED BY <2>12, <3>2, <3>3 DEF QuietInv
  <2>13. ~Finish /\ ~HostKilled /\ ~RenderOnly
    BY <2>1 DEF Finish, HostKilled, RenderOnly, Ends
  <2> QED BY <1>2, <2>1, <2>2, <2>4, <2>5, <2>6, <2>7, <2>8, <2>9, <2>10, <2>11, <2>12, <2>13
          DEF Next, HostCommand, LeavesDigests
<1> QED BY <1>1, <1>2

-----------------------------------------------------------------------------
(* A switch. *)

\* The tenant runs on the render's model if it is not of the changed set.
LEMMA TenantOnRender ==
    ASSUME TypeInv, ImageInv, Tenant \notin Changed
    PROVE  has[Tenant]["model"] = out["model"]
<1>1. label[Tenant] = [i \in Reads[Tenant] |-> out[i]]
  BY ApplyAssumption DEF Changed
<1>2. label[Tenant]["model"] = out["model"]
  BY <1>1, ApplyAssumption
<1>3. has[Tenant]["model"] = label[Tenant]["model"]
  BY ApplyAssumption DEF ImageInv
<1> QED BY <1>2, <1>3

LEMMA TenantCreated ==
    ASSUME TypeInv, NEW S \in SUBSET Services, Create(S)
    PROVE  /\ has'[Tenant]["model"] \in {has[Tenant]["model"], out["model"]}
           /\ Tenant \in S => has'[Tenant]["model"] = out["model"]
<1>1. /\ \A s \in S : \A i \in Reads[s] : label'[s][i] = out[i] /\ has'[s][i] = Content(i)
      /\ \A s \in Services \ S : label'[s] = label[s] /\ has'[s] = has[s]
  BY CreateFacts, Zenon
<1>2. Content("model") = out["model"]
  BY DEF Content
<1> QED BY <1>1, <1>2, ApplyAssumption

\* What the host does to the containers and to the source's model.
LEMMA HostKeeps ==
    ASSUME TypeInv, HostCommand \/ BringUpOps \/ LeavesDigests
    PROVE  /\ has'[Tenant]["model"] \in {has[Tenant]["model"], out["model"]}
           /\ asked' = asked
           /\ \/ out'["model"] = out["model"]
              \/ out'["model"] = asked["model"]
              \/ HostAt("render") /\ host'.pc = "secrets" /\ out'["model"] = host.model
<1>1. has'[Tenant]["model"] \in {has[Tenant]["model"], out["model"]}
  <2>1. has' = has \/ \E S \in SUBSET Services : Create(S)
    <3>1. CASE Up
      <4>1. host.todo \ {Ops} \in SUBSET Services
        BY HostFacts
      <4> QED BY <3>1, <4>1, Groups DEF Up
    <3>2. CASE BringUpOps
      <4>1. Group({Ops}) \in SUBSET Services
        BY Groups, StackAssumption
      <4> QED BY <3>2, <4>1 DEF BringUpOps
    <3>3. CASE ~Up /\ ~BringUpOps
      BY <3>3 DEF HostCommand, BeginApply, Build, Render, ReadStore, WriteFiles, WriteDigests,
                  Plan, LeavesDigests, Lease, Finish, HostKilled, RenderOnly, stack
    <3> QED BY <3>1, <3>2, <3>3
  <2> QED BY <2>1, TenantCreated
<1>2. asked' = asked
  BY DEF HostCommand, BeginApply, Build, Render, ReadStore, WriteFiles, WriteDigests, Plan, Up,
         BringUpOps, LeavesDigests, Lease, Finish, HostKilled, RenderOnly, stack
<1>3. CASE Render
  BY <1>3 DEF Render, HostRender, TypeInv, Hosts, Inputs
<1>4. CASE RenderOnly
  BY <1>4 DEF RenderOnly, HostRender, TypeInv, Inputs
<1>5. CASE ~Render /\ ~RenderOnly
  <2>1. out'["model"] = out["model"]
    BY <1>5 DEF HostCommand, BeginApply, Build, ReadStore, WriteFiles, WriteDigests, Plan, Up,
                BringUpOps, LeavesDigests, Lease, Finish, HostKilled, Refuse, stack, TypeInv,
                Inputs
  <2> QED BY <1>1, <1>2, <2>1
<1> QED BY <1>1, <1>2, <1>3, <1>4, <1>5

LEMMA SwitchStep ==
    ASSUME TypeInv, ImageInv, QuietInv, SwitchInv, [Next]_vars
    PROVE  SwitchInv'
<1>0. CASE UNCHANGED vars
  BY <1>0 DEF SwitchInv, Agree, vars, stack, actors, history
<1>1. CASE Next
  <2>1. CpIdle.how = "apply" /\ CpIdle.pc = "idle"
    BY DEF CpIdle
  <2>2. cp'.how # "apply" => cp'.pc # "idle"
    <3>1. CASE cp' \in {cp, CpIdle}
      BY <2>1, <3>1 DEF SwitchInv
    <3>2. ASSUME NEW model \in {0, 1}, Switch(model) PROVE cp'.pc = "render"
      BY <3>2, Idles DEF Switch, Calls
    <3>3. CpRender => cp'.pc = "plan" \/ cp' = CpIdle
      BY DEF CpRender, CpEnds, TypeInv, Calls
    <3>4. PostApply => cp'.pc = "plan"
      BY Idles DEF PostApply, Calls
    <3>5. Fails => cp'.pc = "render" \/ cp' = CpIdle
      BY DEF Fails, Undo, CpEnds, TypeInv, Calls
    <3>6. CpPlan => cp'.pc \in {"up", "render"} \/ cp' = CpIdle
      BY <3>5 DEF CpPlan, TypeInv, Calls
    <3>7. CpUp => cp'.pc = "render" \/ cp' = CpIdle
      BY <3>5 DEF CpUp, CpEnds
    <3>8. CpDies \/ BringUpOps => cp' \in {cp, CpIdle}
      BY DEF CpDies, BringUpOps, CpEnds
    <3> QED BY <1>1, <3>1, <3>2, <3>3, <3>4, <3>6, <3>7, <3>8 DEF Next, CpCall
  <2> SUFFICES ASSUME ~drift'
               PROVE  /\ cp'.how = "apply" => Agree'
                      /\ cp'.pc = "render" => cp'.how # "apply" /\ cp'.model = asked'["model"]
                      /\ cp'.pc \in {"plan", "up"} => out'["model"] = asked'["model"]
                      /\ cp'.pc = "up" => Tenant \in cp'.todo \/ Agree'
    BY <2>2 DEF SwitchInv
  <2>3. ~Drifts /\ (~drift \/ (HostAt("done") /\ host' = HostIdle /\ quiet
                                /\ host.scope = Services))
    BY <1>1 DEF Next, Drift
  <2>4. CASE drift
    <3>1. HostAt("done") /\ host' = HostIdle /\ quiet /\ host.scope = Services
      BY <2>3, <2>4
    <3>2. host' # host
      BY <3>1 DEF HostAt, HostIdle
    <3>3. UNCHANGED <<stack, cp>>
      BY <1>1, <3>1, <3>2 DEF Next, HostCommand, BeginApply, Build, Render, ReadStore,
         WriteFiles, WriteDigests, Plan, Up, BringUpOps, LeavesDigests, Lease, Finish,
         HostKilled, RenderOnly, Edits, Rotate, HostAt
    <3>4. cp.pc = "idle" /\ Rendered /\ Changed = {}
      BY <3>1, StackAssumption DEF QuietInv, HostAt
    <3>5. Agree
      BY <3>4, TenantOnRender DEF Agree, Rendered
    <3> QED BY <3>3, <3>4, <3>5 DEF Agree, stack
  <2>5. CASE ~drift
    <3>0. /\ cp.how = "apply" => Agree
          /\ cp.pc = "render" => cp.how # "apply" /\ cp.model = asked["model"]
          /\ cp.pc \in {"plan", "up"} => out["model"] = asked["model"]
          /\ cp.pc = "up" => Tenant \in cp.todo \/ Agree
          /\ cp.how # "apply" => cp.pc # "idle"
      BY <2>5 DEF SwitchInv
    <3>1. CASE (HostCommand \/ LeavesDigests) /\ UNCHANGED cp
      <4>1. out'["model"] \in {out["model"], asked["model"]}
        BY <2>3, <3>1, HostKeeps DEF Drifts
      <4>2. /\ has'[Tenant]["model"] \in {has[Tenant]["model"], out["model"]}
            /\ asked' = asked
        BY <3>1, HostKeeps
      <4>3. Agree => Agree'
        BY <4>1, <4>2 DEF Agree
      <4> QED BY <3>0, <3>1, <4>1, <4>2, <4>3
    <3>2. CASE BringUpOps
      <4>1. cp' \in {cp, CpIdle} /\ host.pc = "ops"
        BY <3>2 DEF BringUpOps, HostAt, CpEnds
      <4>2. host' # host
        BY <3>2, <4>1 DEF BringUpOps, Goes, Refuse, Ends, HostIdle, TypeInv, Hosts
      <4>3. cp' = cp \/ cp.how = "apply"
        BY <2>3, <4>1, <4>2 DEF Drifts
      <4>4. out'["model"] \in {out["model"], asked["model"]}
        BY <3>2, <4>1, HostKeeps DEF HostAt
      <4>5. /\ has'[Tenant]["model"] \in {has[Tenant]["model"], out["model"]}
            /\ asked' = asked
        BY <3>2, HostKeeps
      <4>6. Agree => Agree'
        BY <4>4, <4>5 DEF Agree
      <4>7. CASE cp' = cp
        BY <3>0, <4>4, <4>5, <4>6, <4>7
      <4>8. CASE cp' # cp
        BY <2>1, <3>0, <4>1, <4>3, <4>6, <4>8
      <4> QED BY <4>7, <4>8
    <3>3. ASSUME NEW model \in {0, 1}, Switch(model)
          PROVE  cp'.how = "switch" /\ cp'.pc = "render" /\ cp'.model = asked'["model"]
      BY <3>3 DEF Switch, CpIdle, TypeInv, Edited, Inputs
    <3>4. CASE CpRender /\ UNCHANGED host
      <4>1. CASE ControlRender(cp.model) /\ cp' = [cp EXCEPT !.pc = "plan"]
        <5>1. out'["model"] = cp.model /\ asked' = asked /\ cp.pc = "render"
          BY <3>4, <4>1 DEF CpRender, CpAt, ControlRender, TypeInv, Inputs
        <5>2. cp'.how = cp.how /\ cp'.pc = "plan"
          BY <4>1 DEF TypeInv, Calls
        <5> QED BY <3>0, <5>1, <5>2
      <4>2. CASE CpEnds
        BY <2>3, <3>0, <3>4, <4>2 DEF Drifts, CpEnds, CpRender, CpAt
      <4> QED BY <3>4, <4>1, <4>2 DEF CpRender
    <3>5. CASE PostApply
      <4>1. cp.pc = "idle" /\ cp'.pc = "plan" /\ UNCHANGED stack
        BY <3>5, Idles DEF PostApply, CpAt, Calls
      <4>2. Agree /\ Agree'
        BY <3>0, <4>1 DEF Agree, stack
      <4> QED BY <4>1, <4>2 DEF Agree
    <3>6. ASSUME Fails, out' = out,
                 has'[Tenant]["model"] \in {has[Tenant]["model"], out["model"]},
                 ~(cp.how # "apply" /\ cp' = CpIdle)
          PROVE  /\ cp'.how = "apply" => Agree'
                 /\ cp'.pc = "render" => cp'.how # "apply" /\ cp'.model = asked'["model"]
                 /\ cp'.pc \notin {"plan", "up"}
      <4>1. CASE cp.how = "switch"
        <5>1. cp'.how = "back" /\ cp'.pc = "render" /\ cp'.model = cp.before
          BY <3>6, <4>1 DEF Fails, Undo, TypeInv, Calls
        <5>2. asked'["model"] = cp.before
          BY <3>6, <4>1 DEF Fails, Undo, TypeInv, Edited, Inputs
        <5> QED BY <5>1, <5>2
      <4>2. CASE cp.how # "switch"
        <5>1. cp' = CpIdle /\ asked' = asked /\ cp.how = "apply"
          BY <3>6, <4>2 DEF Fails, CpEnds
        <5> QED BY <2>1, <3>0, <3>6, <5>1 DEF Agree
      <4> QED BY <4>1, <4>2
    <3>7. CASE CpPlan /\ UNCHANGED host
      <4>1. cp.pc = "plan" /\ out' = out /\ has' = has
        BY <3>7 DEF CpPlan, CpAt
      <4>2. CASE Fails
        BY <2>3, <3>6, <4>1, <4>2 DEF Drifts, CpAt
      <4>3. CASE cp' = [cp EXCEPT !.pc = "up", !.todo = Changed \ {Ops}] /\ asked' = asked
        <5>1. PICK todo \in SUBSET Services : todo = Changed \ {Ops}
          BY Selections
        <5>2. cp'.pc = "up" /\ cp'.how = cp.how /\ cp'.todo = todo
          BY <4>3, <5>1 DEF TypeInv, Calls
        <5>3. Tenant \in todo \/ Agree
          BY <3>0, <4>1, <5>1, TenantOnRender, ApplyAssumption DEF Agree
        <5> QED BY <3>0, <4>1, <4>3, <5>2, <5>3 DEF Agree
      <4> QED BY <3>7, <4>2, <4>3 DEF CpPlan
    <3>8. CASE CpUp /\ UNCHANGED host
      <4>1. cp.pc = "up" /\ out' = out /\ cp.todo \in SUBSET Services
        BY <3>8, CallFacts DEF CpUp, CpAt
      <4>2. CASE Create(Group(cp.todo)) /\ CpEnds /\ Smoothly /\ UNCHANGED asked
        <5>1. Group(cp.todo) \in SUBSET Services /\ cp.todo \subseteq Group(cp.todo)
          BY <4>1, Groups
        <5>2. /\ has'[Tenant]["model"] \in {has[Tenant]["model"], out["model"]}
              /\ Tenant \in cp.todo => has'[Tenant]["model"] = out["model"]
          BY <4>2, <5>1, TenantCreated
        <5>3. Agree'
          BY <3>0, <4>1, <4>2, <5>2 DEF Agree
        <5> QED BY <2>1, <4>2, <5>3 DEF CpEnds
      <4>3. CASE (\E part \in SUBSET Group(cp.todo) : Create(part)) /\ Fails /\ Falters
        <5>1. \E part \in SUBSET Services : Create(part)
          BY <4>1, <4>3, Groups
        <5>2. has'[Tenant]["model"] \in {has[Tenant]["model"], out["model"]}
          BY <5>1, TenantCreated
        <5>3. mishaps' # mishaps
          BY <4>3, ApplyAssumption DEF Falters, Mishap, TypeInv
        <5> QED BY <2>3, <3>6, <4>1, <4>3, <5>2, <5>3 DEF Drifts
      <4> QED BY <3>8, <4>2, <4>3 DEF CpUp
    <3>9. CASE CpDies /\ UNCHANGED host
      <4>1. cp' = CpIdle /\ UNCHANGED stack /\ mishaps' # mishaps
        BY <3>9, ApplyAssumption DEF CpDies, CpEnds, Mishap, TypeInv
      <4>2. cp.how = "apply"
        BY <2>3, <4>1 DEF Drifts
      <4> QED BY <2>1, <3>0, <4>1, <4>2 DEF Agree, stack
    <3>10. CASE (Evict \/ Return) /\ UNCHANGED cp
      <4>1. UNCHANGED <<asked, out>>
        BY <3>10 DEF Evict, Return, Start, stack
      <4>2. has'[Tenant]["model"] = has[Tenant]["model"]
        <5>1. Start(Tenant) => has'[Tenant]["model"] = has[Tenant]["model"]
          BY StartFacts, ApplyAssumption
        <5> QED BY <3>10, <5>1 DEF Evict, Return, stack
      <4> QED BY <3>0, <3>10, <4>1, <4>2 DEF Agree
    <3>11. CASE Edits /\ UNCHANGED cp
      <4>1. UNCHANGED <<out, has>>
        BY <3>11 DEF Edits, Edit, Rotate
      <4>2. asked'["model"] = asked["model"]
        BY <2>3, <3>11 DEF Drifts
      <4> QED BY <3>0, <3>11, <4>1, <4>2 DEF Agree
    <3>12. CASE CpCall /\ UNCHANGED host
      <4>1. (\E model \in {0, 1} : Switch(model)) \/ CpRender \/ PostApply \/ CpPlan \/ CpUp
              \/ CpDies
        BY <3>12 DEF CpCall
      <4> QED BY <3>3, <3>4, <3>5, <3>7, <3>8, <3>9, <3>12, <4>1
    <3> QED BY <1>1, <3>1, <3>2, <3>10, <3>11, <3>12 DEF Next
  <2> QED BY <2>4, <2>5
<1> QED BY <1>0, <1>1

-----------------------------------------------------------------------------
(* The theorems. *)

LEMMA InitHolds == Init => ApplyInv
<1> SUFFICES ASSUME Init PROVE ApplyInv
  OBVIOUS
<1> USE DEF Init, StackInit
<1>1. 0 \in Values /\ 0 \in 0..MaxMishaps
  BY ApplyAssumption DEF Values
<1>2. \A s \in Services : label[s] = [i \in Reads[s] |-> 0] /\ has[s] = [i \in Reads[s] |-> 0]
  OBVIOUS
<1>3. /\ \A i \in Edited : asked[i] = 0
      /\ \A i \in Inputs : out[i] = 0
  OBVIOUS
<1>4. TypeInv
  <2>1. asked \in [Edited -> Values] /\ out \in [Inputs -> Values]
    BY <1>1
  <2>2. Versions(label) /\ Versions(has)
    BY <1>1 DEF Versions
  <2>3. standing \subseteq Values
    BY <1>1 DEF Inputs
  <2> QED BY <1>1, <2>1, <2>2, <2>3, Idles DEF TypeInv
<1>5. ImageInv
  BY <1>2 DEF ImageInv
<1>6. "secret" \in Edited /\ "conf" \in Edited /\ "secret" \in Inputs /\ "conf" \in Inputs
      /\ "model" \in Edited /\ "model" \in Inputs
  BY DEF Edited, Inputs
<1>7. SecretInv
  BY <1>2, <1>3, <1>6 DEF SecretInv, HostIdle
<1>8. ConfInv
  BY <1>2, <1>3, <1>6 DEF ConfInv, HostIdle
<1>9. QuietInv
  BY DEF QuietInv
<1>10. has[Tenant]["model"] = 0
  BY <1>2, ApplyAssumption
<1>11. SwitchInv
  BY <1>3, <1>6, <1>10 DEF SwitchInv, Agree, CpIdle
<1> QED BY <1>4, <1>5, <1>7, <1>8, <1>9, <1>11 DEF ApplyInv

\* The invariant without the part about config binds, which needs inputs that
\* never return to an earlier value.
LEMMA CommonInvariant == Spec => [](TypeInv /\ ImageInv /\ SecretInv /\ QuietInv /\ SwitchInv)
<1> DEFINE Common == TypeInv /\ ImageInv /\ SecretInv /\ QuietInv /\ SwitchInv
<1>1. Init => Common
  BY InitHolds DEF ApplyInv
<1>2. Common /\ [Next]_vars => Common'
  BY TypeStep, ImageStep, SecretStep, QuietStep, SwitchStep
<1> QED BY <1>1, <1>2, PTL DEF Spec

\* Every version in the files, the render and the containers is one an edit
\* has made, and the two callers are at points of their code.
THEOREM ApplyTypeCorrect == Spec => []TypeOK
<1>1. TypeInv => TypeOK
  <2> SUFFICES ASSUME TypeInv PROVE TypeOK
    OBVIOUS
  <2>1. \A s \in Services : label[s] \in [Reads[s] -> Values] /\ has[s] \in [Reads[s] -> Values]
    BY DEF TypeInv, Versions
  <2>2. host.todo \subseteq Services /\ cp.todo \subseteq Services
    BY HostFacts, CallFacts
  <2> QED BY <2>1, <2>2 DEF TypeInv, TypeOK, Values
<1> QED BY <1>1, CommonInvariant, PTL

\* Between its calls the control plane leaves the source, the render and the
\* tenant on one model, unless one of the things that pull them apart has
\* happened since the last undisturbed apply: a commit that fails at any step
\* is rolled back all the way.
THEOREM SwitchesAreKept == Spec => []SwitchKept
<1>1. TypeInv /\ SwitchInv => SwitchKept
  BY DEF SwitchInv, SwitchKept, CpAt, Agree
<1> QED BY <1>1, CommonInvariant, PTL

\* When an apply of the whole stack has ended well and nothing else acted
\* meanwhile, every container runs on what is asked for and no member is left
\* in a dead namespace, whatever was killed, refused or failed half way before;
\* a declared config is taken never to return to an earlier content.
THEOREM AppliesBringUpToDate ==
    ASSUME "conf" \in Fresh
    PROVE  Spec => []UpToDate
<1>1. ConfInv /\ TypeInv /\ [Next]_vars => ConfInv'
  BY ConfStep
<1>2. Init => ConfInv
  BY InitHolds DEF ApplyInv
<1>3. TypeInv /\ ImageInv /\ SecretInv /\ ConfInv /\ QuietInv => UpToDate
  <2> SUFFICES ASSUME TypeInv, ImageInv, SecretInv, ConfInv, QuietInv,
                      host.pc = "done", quiet, host.scope = Services
               PROVE  /\ \A s \in Services : has[s] = [i \in Reads[s] |-> Want(i)]
                      /\ dead = {}
    BY DEF UpToDate, HostAt
  <2>1. Rendered /\ Materialized /\ Changed = {}
    BY StackAssumption DEF QuietInv
  <2>2. dead = {} /\ \A s \in Services : label[s] = [i \in Reads[s] |-> out[i]]
    BY <2>1 DEF Changed
  <2>3. ASSUME NEW s \in Services PROVE has[s] = [i \in Reads[s] |-> Want(i)]
    <3>1. \A i \in Reads[s] : label[s][i] = out[i]
      BY <2>2
    <3>2. \A i \in Reads[s] : has[s][i] = Want(i)
      <4> SUFFICES ASSUME NEW i \in Reads[s] PROVE has[s][i] = Want(i)
        OBVIOUS
      <4>1. i \in Inputs /\ has[s][i] \in Values /\ label[s][i] = out[i]
        BY <3>1, InputFacts
      <4>2. CASE i \in {"model", "code", "tag"}
        <5>1. has[s][i] = out[i]
          BY <4>1, <4>2 DEF ImageInv
        <5> QED BY <2>1, <4>2, <5>1 DEF Want, Rendered
      <4>3. CASE i = "conf"
        <5>1. asked["conf"] <= has[s]["conf"] /\ has[s]["conf"] <= asked["conf"]
          BY <2>1, <4>1, <4>3 DEF ConfInv, Rendered
        <5>2. asked["conf"] \in Values
          BY InputFacts DEF Edited, Inputs
        <5> QED BY <4>1, <4>3, <5>1, <5>2 DEF Want, Values
      <4>4. CASE i = "secret"
        <5>1. asked["secret"] <= has[s]["secret"] /\ has[s]["secret"] <= asked["secret"]
          BY <2>1, <4>1, <4>4 DEF SecretInv, Materialized
        <5>2. asked["secret"] \in Values
          BY InputFacts DEF Edited, Inputs
        <5> QED BY <4>1, <4>4, <5>1, <5>2 DEF Want, Values
      <4> QED BY <4>1, <4>2, <4>3, <4>4 DEF Inputs
    <3>3. has[s] \in [Reads[s] -> Values]
      BY DEF TypeInv, Versions
    <3> QED BY <3>2, <3>3
  <2> QED BY <2>2, <2>3
<1> QED BY <1>1, <1>2, <1>3, CommonInvariant, PTL DEF Spec
=============================================================================
