------------------------------- MODULE Apply --------------------------------
(***************************************************************************)
(* The two writers of the running stack.  The host: `ordo apply`           *)
(* (ordo/host/apply.py), `ordo secrets set|rotate` and `ordo render`, one  *)
(* command at a time.  The control plane: a model switch through           *)
(* RenderApply.commit and POST /apply (ordo/control/apply.py), one at a    *)
(* time under the operation lock.  No lock is shared between the two.      *)
(***************************************************************************)
EXTENDS Stack

CONSTANTS
    Tenant,       \* the GPU resident the scheduler may evict
    Scopes,       \* what --only may name, the whole stack included
    Fresh,        \* the inputs that are never put back to an earlier value
    Mishaps,      \* what may go wrong
    MaxEdits, MaxMishaps

ASSUME ApplyAssumption ==
    /\ Tenant \in Services \ {Ops} /\ "model" \in Reads[Tenant]
    /\ \A S \in Scopes : Ops \in S /\ S \subseteq Services
    /\ MaxEdits \in Nat \ {0}
    /\ MaxMishaps \in Nat

VARIABLES
    host,         \* the host command under way
    cp,           \* the control plane's call under way
    evicted,      \* the scheduler's evicted residents
    edits, mishaps,   \* counters of the bounds
    quiet,        \* history: nobody else has acted since this apply began
    drift,        \* history: source and model are apart, and an answer says so
    standing      \* history: the config digests host commands left in out/

actors == <<host, cp, evicted>>
history == <<quiet, drift, standing>>
vars == <<stack, actors, edits, mishaps, history>>

HostIdle == [pc |-> "idle", scope |-> {}, gpu |-> {}, model |-> 0, code |-> 0,
             kept |-> 0, read |-> 0, todo |-> {}]
CpIdle == [pc |-> "idle", how |-> "apply", model |-> 0, before |-> 0, todo |-> {}]

HostAt(pc) == host.pc = pc
CpAt(pc) == cp.pc = pc

Mishap(kind) ==
    /\ kind \in Mishaps
    /\ mishaps < MaxMishaps
    /\ mishaps' = mishaps + 1

\* A step fails, and may have done part of its work.
Falters == Mishap("fail")
Smoothly == UNCHANGED mishaps

-----------------------------------------------------------------------------
(* `ordo apply`. *)

Goes(pc) == host' = [host EXCEPT !.pc = pc]
Ends == host' = HostIdle

\* Mutant of Refuse: the new digests stay.
RefuseForgets == Ends /\ UNCHANGED out

\* recreated_nothing: the digests of before this render go back.
Refuse ==
    /\ Ends
    /\ out' = [out EXCEPT !.conf = host.kept]

\* gpu_status, then the one render (rendered_doc): the source and the
\* manifests are read here and not again.
BeginApply(scope) ==
    /\ HostAt("idle")
    /\ host' = [HostIdle EXCEPT !.pc = "build", !.scope = scope, !.gpu = evicted,
                                !.model = asked.model, !.code = asked.code]
    /\ UNCHANGED <<stack, mishaps>>

\* host.build and read_bind_configs.
Build ==
    /\ HostAt("build")
    /\ \/ /\ images' = asked.code
          /\ host' = [host EXCEPT !.pc = "render", !.kept = out.conf]
          /\ Smoothly
       \/ Ends /\ Falters /\ UNCHANGED images
    /\ UNCHANGED <<asked, out, file, label, has, dead>>

Render ==
    /\ HostAt("render")
    /\ HostRender(host.model, host.code)
    /\ host' = [host EXCEPT !.pc = "secrets", !.model = 0, !.code = 0]
    /\ UNCHANGED <<asked, images, file, label, has, dead, mishaps>>

\* materialize, in its order: the store is read, then each file is replaced,
\* then the digests.
ReadStore ==
    /\ HostAt("secrets")
    /\ \/ /\ host' = [host EXCEPT !.pc = "files", !.read = asked.secret]
          /\ Smoothly
          /\ UNCHANGED out
       \/ /\ Falters
          /\ IF host.scope = {} THEN Ends /\ UNCHANGED out ELSE Refuse
    /\ UNCHANGED <<asked, images, file, label, has, dead>>

\* Each file is replaced before the digests that stand for the files.
WriteFiles ==
    /\ HostAt("files")
    /\ file' = host.read
    /\ Goes("digests")
    /\ UNCHANGED <<asked, images, out, label, has, dead, mishaps>>

WriteDigests ==
    /\ HostAt("digests")
    /\ out' = [out EXCEPT !.secret = host.read]
    /\ host' = [host EXCEPT !.pc = IF host.scope = {} THEN "done" ELSE "plan", !.read = 0]
    /\ UNCHANGED <<asked, images, file, label, has, dead, mishaps>>

\* _plan: the changed set, and the running substrate against the checkout's.
Selected ==
    (Changed \cup {s \in {Ops} : has[Ops]["tag"] # asked.code}) \cap host.scope

\* Plan, against the lease read at the start, and the preflight.
Plan ==
    /\ HostAt("plan")
    /\ \/ /\ Group(Selected) \cap host.gpu = {}
          /\ host' = [host EXCEPT
                !.todo = Selected, !.gpu = {},
                !.pc = IF Ops \in Selected THEN "ops"
                       ELSE IF Selected # {} THEN "lease" ELSE "done"]
          /\ Smoothly
          /\ UNCHANGED out
       \/ Group(Selected) \cap host.gpu # {} /\ Refuse /\ Smoothly
       \/ Refuse /\ Falters
    /\ UNCHANGED <<asked, images, file, label, has, dead>>

\* bring_up of the ops-controller and wait_for_ops_controller: the recreate
\* ends whatever call the old container was serving.
BringUpOps ==
    /\ HostAt("ops")
    /\ \/ /\ Create(Group({Ops}))
          /\ cp' = CpIdle
          /\ \/ /\ Goes(IF host.todo \ {Ops} = {} THEN "done" ELSE "lease")
                /\ Smoothly
                /\ UNCHANGED out
             \/ Refuse /\ Falters
       \/ Refuse /\ Falters /\ UNCHANGED <<label, has, dead, cp>>
    /\ UNCHANGED <<asked, images, file>>

\* bring_up of the rest: the lease is read again.  A refusal here, a failed
\* build or a failed fetch of a model file keeps the new digests.
Lease ==
    /\ HostAt("lease")
    /\ \/ /\ Group(host.todo \ {Ops}) \cap evicted = {}
          /\ Goes("up")
          /\ Smoothly
       \/ Group(host.todo \ {Ops}) \cap evicted # {} /\ Ends /\ Smoothly
       \/ Ends /\ Falters
    /\ UNCHANGED stack

Up ==
    /\ HostAt("up")
    /\ \/ Create(Group(host.todo \ {Ops})) /\ Goes("done") /\ Smoothly
       \/ /\ \E part \in SUBSET Group(host.todo \ {Ops}) : Create(part)
          /\ Ends
          /\ Falters
    /\ UNCHANGED <<asked, images, out, file>>

Finish == HostAt("done") /\ Ends /\ UNCHANGED <<stack, mishaps>>

\* Ctrl-C, a reboot.
HostKilled ==
    /\ ~HostAt("idle")
    /\ Mishap("kill")
    /\ Ends
    /\ UNCHANGED stack

\* `ordo secrets rotate`: the store first, then the same materialize.
Rotate ==
    /\ HostAt("idle")
    /\ asked' = [asked EXCEPT !.secret = edits + 1]
    /\ host' = [HostIdle EXCEPT !.pc = "secrets"]
    /\ UNCHANGED <<images, out, file, label, has, dead, mishaps>>

\* `ordo render`.
RenderOnly ==
    /\ HostAt("idle")
    /\ HostRender(asked.model, asked.code)
    /\ UNCHANGED <<asked, images, file, label, has, dead, host, mishaps>>

-----------------------------------------------------------------------------
(* The control plane. *)

CpEnds == cp' = CpIdle

\* ModelConfig.set and RenderApply.commit up to the write of the source.
Switch(model) ==
    /\ CpAt("idle")
    /\ out.code = has[Ops]["tag"]
    /\ model # asked.model
    /\ cp' = [CpIdle EXCEPT !.pc = "render", !.how = "switch", !.model = model,
                            !.before = asked.model]
    /\ asked' = [asked EXCEPT !.model = model]
    /\ UNCHANGED <<images, out, file, label, has, dead, mishaps>>

\* A write to out/ that raises ends the call where it is.
CpRender ==
    /\ CpAt("render")
    /\ \/ /\ ControlRender(cp.model)
          /\ cp' = [cp EXCEPT !.pc = "plan"]
          /\ Smoothly
       \/ CpEnds /\ Falters /\ UNCHANGED out
    /\ UNCHANGED <<asked, images, file, label, has, dead>>

\* POST /apply.
PostApply ==
    /\ CpAt("idle")
    /\ cp' = [CpIdle EXCEPT !.pc = "plan", !.how = "apply"]
    /\ UNCHANGED <<stack, mishaps>>

\* Mutant of Undo: the source is put back, what was rendered from it is not.
UndoSourceOnly ==
    /\ cp' = [cp EXCEPT !.pc = "plan", !.how = "back"]
    /\ asked' = [asked EXCEPT !.model = cp.before]

\* commit's rollback: the previous source, to be rendered and applied again.
Undo ==
    /\ cp' = [cp EXCEPT !.pc = "render", !.how = "back", !.model = cp.before]
    /\ asked' = [asked EXCEPT !.model = cp.before]

Fails ==
    IF cp.how = "switch" THEN Undo ELSE CpEnds /\ UNCHANGED asked

\* apply_render: the control plane never recreates its own container.
CpPlan ==
    /\ CpAt("plan")
    /\ \/ /\ Group(Changed \ {Ops}) \cap evicted = {}
          /\ cp' = [cp EXCEPT !.pc = "up", !.todo = Changed \ {Ops}]
          /\ Smoothly
          /\ UNCHANGED asked
       \/ Group(Changed \ {Ops}) \cap evicted # {} /\ Fails /\ Smoothly
       \/ Fails /\ Falters
    /\ UNCHANGED <<images, out, file, label, has, dead>>

CpUp ==
    /\ CpAt("up")
    /\ \/ Create(Group(cp.todo)) /\ CpEnds /\ Smoothly /\ UNCHANGED asked
       \/ /\ \E part \in SUBSET Group(cp.todo) : Create(part)
          /\ Fails
          /\ Falters
    /\ UNCHANGED <<images, out, file>>

CpDies ==
    /\ ~CpAt("idle")
    /\ Mishap("die")
    /\ CpEnds
    /\ UNCHANGED stack

\* The scheduler takes the tenant's GPU, and starts it again under the lock
\* of the calls above.
Evict ==
    /\ evicted = {}
    /\ evicted' = {Tenant}
    /\ UNCHANGED <<stack, mishaps>>

Return ==
    /\ evicted # {}
    /\ CpAt("idle")
    /\ evicted' = {}
    /\ Start(Tenant)
    /\ UNCHANGED mishaps

-----------------------------------------------------------------------------
(* The operator, and the steps together. *)

\* An edit of ordo.yaml, the checkout's code or a declared config file.
Edit(i) ==
    /\ \E v \in (IF i \in Fresh THEN {edits + 1} ELSE {0, 1}) \ {asked[i]} :
          asked' = [asked EXCEPT ![i] = v]
    /\ UNCHANGED <<images, out, file, label, has, dead, mishaps>>

Edits ==
    /\ edits < MaxEdits
    /\ edits' = edits + 1
    /\ \/ \E i \in {"model", "code", "conf"} : Edit(i) /\ UNCHANGED host
       \/ Rotate

HostCommand ==
    \/ \E scope \in Scopes : BeginApply(scope)
    \/ Build \/ Render \/ ReadStore \/ WriteFiles \/ WriteDigests \/ Plan \/ Up

\* A command that goes on to bring services up, ends well or is killed leaves
\* its digests standing, and so does a plain render; a refused apply does not.
LeavesDigests == Lease \/ Finish \/ HostKilled \/ RenderOnly

CpCall ==
    \/ \E model \in {0, 1} : Switch(model)
    \/ CpRender \/ PostApply \/ CpPlan \/ CpUp \/ CpDies

-----------------------------------------------------------------------------
(* The history variables, and the whole. *)

\* Nobody but the command itself has acted since it began.
Quiet ==
    quiet' = /\ host' \notin {host, HostIdle}
             /\ IF HostAt("idle") THEN CpAt("idle") ELSE quiet

\* A model the operator edited in, one a host command renders although the
\* source has moved on, and a commit that was cut short or could not roll back.
Drifts ==
    \/ asked'["model"] # asked["model"] /\ cp' = cp
    \/ HostAt("render") /\ host'.pc = "secrets" /\ host.model # asked.model
    \/ /\ cp.how # "apply" /\ cp' = CpIdle
       /\ ~(CpAt("up") /\ host' = host /\ mishaps' = mishaps)

Drift ==
    LET reconciled == HostAt("done") /\ host' = HostIdle /\ quiet /\ host.scope = Services
    IN drift' = (Drifts \/ (drift /\ ~reconciled))

Init ==
    /\ StackInit
    /\ host = HostIdle
    /\ cp = CpIdle
    /\ evicted = {}
    /\ edits = 0
    /\ mishaps = 0
    /\ quiet = FALSE
    /\ drift = FALSE
    /\ standing = {out.conf}

Next ==
    /\ \/ HostCommand /\ UNCHANGED <<cp, evicted, edits, standing>>
       \/ BringUpOps /\ UNCHANGED <<evicted, edits, standing>>
       \/ /\ LeavesDigests
          /\ standing' = standing \cup {out'["conf"]}
          /\ UNCHANGED <<cp, evicted, edits>>
       \/ CpCall /\ UNCHANGED <<host, evicted, edits, standing>>
       \/ (Evict \/ Return) /\ UNCHANGED <<host, cp, edits, standing>>
       \/ Edits /\ UNCHANGED <<cp, evicted, standing>>
    /\ Quiet
    /\ Drift

Spec == Init /\ [][Next]_vars

-----------------------------------------------------------------------------
(* Properties. *)

TypeOK ==
    /\ asked \in [Edited -> 0..MaxEdits]
    /\ out \in [Inputs -> 0..MaxEdits]
    /\ images \in 0..MaxEdits /\ file \in 0..MaxEdits
    /\ \A s \in Services : {label[s], has[s]} \subseteq [Reads[s] -> 0..MaxEdits]
    /\ dead \subseteq Members
    /\ host.todo \subseteq Services /\ cp.todo \subseteq Services
    /\ evicted \subseteq {Tenant}
    /\ edits \in 0..MaxEdits /\ mishaps \in 0..MaxMishaps
    /\ standing \subseteq 0..MaxEdits

\* What an apply is for ("a deploy never needs the affected services worked out
\* by hand", apply.py:3): when an apply of the whole stack has ended well and
\* nothing else acted meanwhile, every container runs on what is asked for and
\* no member is left in a dead namespace, whatever earlier commands of either
\* side were killed, failed half way or refused.
UpToDate ==
    HostAt("done") /\ quiet /\ host.scope = Services
        => /\ \A s \in Services : has[s] = [i \in Reads[s] |-> Want(i)]
           /\ dead = {}

\* RenderApply.commit (control/apply.py:45): "the source never names a config
\* the stack is not running".  Between its calls the source, the render and
\* the tenant agree on the model, unless one of the things that pull them
\* apart has happened since the last undisturbed apply.
SwitchKept ==
    CpAt("idle") /\ ~drift
        => asked.model = has[Tenant]["model"] /\ (HostAt("idle") => out.model = asked.model)

\* bind_configs.py:24: the control plane never deploys a checkout edit that an
\* apply refused.  A container's digests change, when no host command is under
\* way, only to ones such a command left standing.
OnlyStandingConfigs ==
    [][\A s \in Services :
         HostAt("idle") /\ "conf" \in Reads[s] /\ label'[s]["conf"] # label[s]["conf"]
             => label'[s]["conf"] \in standing]_vars
=============================================================================
