------------------------------- MODULE Stack --------------------------------
(***************************************************************************)
(* What the operator asks for, what is rendered in out/, and the           *)
(* containers: the changed set (ordo/render/changed_set.py), the digests   *)
(* that stand for mounted files (bind_configs.py, secret_files.py) and the *)
(* effect of a compose bring-up (stack.py).                                *)
(*                                                                         *)
(* A value is a version.  A container is compared by its labels (config    *)
(* hash, image, digests) and runs on its contents; for a mounted file the  *)
(* two are written by different hands at different times.                  *)
(***************************************************************************)
EXTENDS Integers, FiniteSets

CONSTANTS
    Services,     \* the rendered services
    Ops,          \* the ops-controller, which runs the control plane
    Reads,        \* service -> the inputs its definition and mounts depend on
    Owner         \* netns member -> the service whose namespace it joins

\* model: ordo.yaml.  code: the render substrate.  tag: the image built from
\* it.  conf: a declared config bind.  secret: a file-delivered secret.
Inputs == {"model", "code", "tag", "conf", "secret"}
Edited == Inputs \ {"tag"}
Members == DOMAIN Owner

ASSUME StackAssumption ==
    /\ Ops \in Services
    /\ Reads \in [Services -> SUBSET Inputs]
    /\ "tag" \in Reads[Ops]
    /\ Members \subseteq Services
    /\ \A m \in Members : Owner[m] \in Services \ Members

VARIABLES
    asked,        \* the source, the checkout and the secret store
    images,       \* out/images.json: the tag of the image built last
    out,          \* the rendered compose and its env files
    file,         \* out/secrets/<file>
    label,        \* what each container is compared by
    has,          \* what each container runs on
    dead          \* members left in the namespace of a replaced owner

stack == <<asked, images, out, file, label, has, dead>>

Want(i) == asked[IF i = "tag" THEN "code" ELSE i]

\* What a container created or started now finds: its definition is the
\* rendered one, a bind is live and a secret file is what was materialized.
Content(i) ==
    CASE i = "conf" -> asked.conf
      [] i = "secret" -> file
      [] OTHER -> out[i]

Group(S) == S \cup {m \in Members : Owner[m] \in S}

\* Mutant of Changed: a member is compared with its owner unresolved.
ChangedByHash == {s \in Services : label[s] # [i \in Reads[s] |-> out[i]]}

\* diff_services: the services whose hash, digests or image differ from their
\* container's; a member's hash names its owner's container.
Changed ==
    {s \in Services : label[s] # [i \in Reads[s] |-> out[i]]} \cup dead

\* `up -d --no-deps --force-recreate` of S, or the part of it that was done.
Create(S) ==
    /\ label' = [s \in Services |->
                   IF s \in S THEN [i \in Reads[s] |-> out[i]] ELSE label[s]]
    /\ has' = [s \in Services |->
                   IF s \in S THEN [i \in Reads[s] |-> Content(i)] ELSE has[s]]
    /\ dead' = (dead \ S) \cup {m \in Members \ S : Owner[m] \in S}

\* A stopped container is started: it reads its mounts again.
Start(s) ==
    /\ has' = [has EXCEPT ![s] = [i \in Reads[s] |->
                 IF i \in {"conf", "secret"} THEN Content(i) ELSE has[s][i]]]
    /\ UNCHANGED <<asked, images, out, file, label, dead>>

\* RenderConfig.write by a host command (its digests read from the checkout).
HostRender(model, code) ==
    out' = [out EXCEPT !.model = model, !.code = code, !.tag = images,
                       !.conf = asked.conf]

\* The same by the control plane, from its baked substrate: the digests the
\* host last wrote stay.
ControlRender(model) ==
    out' = [out EXCEPT !.model = model, !.code = has[Ops]["tag"], !.tag = images]

StackInit ==
    /\ asked = [i \in Edited |-> 0]
    /\ images = 0
    /\ out = [i \in Inputs |-> 0]
    /\ file = 0
    /\ label = [s \in Services |-> [i \in Reads[s] |-> 0]]
    /\ has = label
    /\ dead = {}
=============================================================================
