------------------------------- MODULE Deploy -------------------------------
(***************************************************************************)
(* `ordo deploy`: a pass every few minutes that deploys origin/main when   *)
(* it moved and nothing holds it.  One pass runs at a time (acquire_lock)  *)
(* and may be killed anywhere; what it knows is state.json, which is saved *)
(* after every change, so the fields and the file differ only at the       *)
(* points of a pass between an effect and its save.                        *)
(***************************************************************************)
EXTENDS Rescue, Drain

CONSTANTS
    Mishaps,        \* what may go wrong, as often as it likes
    Counted,        \* the mishaps that are counted, and
    MaxMishaps      \* how many of those there may be

ASSUME MishapsAssumption ==
    Mishaps \subseteq {"unknown", "killed", "lost", "fails", "lease", "operator", "down"}

VARIABLES
    deployed,   \* the last commit deployed, 0 for none
    failed,     \* the last commit whose deploy failed, 0 for none
    mishaps     \* how much of what is counted went wrong

passVars == <<pc, target, why>>
resultVars == <<deployed, failed>>
vars == <<rescueVars, drainVars, passVars, resultVars, mishaps>>

Init ==
    /\ RescueInit /\ DrainInit
    /\ pc = "idle" /\ target = 0 /\ why = "none"
    /\ deployed = 0 /\ failed = 0 /\ mishaps = 0

Mishap(kind) ==
    /\ kind \in Mishaps
    /\ IF kind \in Counted THEN mishaps < MaxMishaps /\ mishaps' = mishaps + 1
       ELSE UNCHANGED mishaps

\* The end of a pass: what it read is gone.
Ends == pc' = "idle" /\ target' = 0 /\ why' = "none" /\ plan' = NoPlan
Goes(from, to) == pc = from /\ pc' = to /\ UNCHANGED <<target, why, plan>>

\* _release_drain, which may find the agent unreadable.
Releases(abandoned) ==
    \/ ReleaseDrain(abandoned) /\ UNCHANGED mishaps
    \/ KeepDrain(abandoned) /\ Mishap("unknown")

gitVars == <<main, checkout, prs, rescue>>
agentVars == <<work, up, leased>>

-----------------------------------------------------------------------------
(* A pass. *)

\* fetch; a commit that was deployed, or whose deploy failed, leaves nothing to
\* do.
Fetch ==
    /\ pc \in {"idle", "later"}
    /\ target' = Len(main)
    /\ pc' = IF Len(main) \in {deployed, failed} THEN "lift" ELSE "look"
    /\ UNCHANGED <<gitVars, plan, drainVars, why, resultVars, mishaps>>

\* Mutant: a pass with nothing to do does nothing.
LiftNothing ==
    /\ pc = "lift"
    /\ behind' = 0
    /\ Ends
    /\ UNCHANGED <<gitVars, agentVars, pause, drain, resultVars, mishaps>>

Lift ==
    /\ pc = "lift"
    /\ Releases(drain.abandoned)
    /\ behind' = 0
    /\ Ends
    /\ UNCHANGED <<gitVars, agentVars, resultVars>>

\* blocking_gate, before anything is done.
Gates ==
    /\ pc = "gates"
    /\ IF GateReason = "none" THEN pc' = "forward" /\ UNCHANGED why ELSE Hold(GateReason)
    /\ UNCHANGED <<gitVars, plan, drainVars, target, resultVars, mishaps>>

\* The pass waits: behind_since, then _drain, then _wait.
Waits == behind' = IF behind = 0 THEN 1 ELSE behind

Held ==
    /\ pc = "held"
    /\ Waits /\ Ends
    /\ \/ ~MayDrain(target, why) /\ Draining(target, why) /\ UNCHANGED mishaps
       \/ DrainingUnread(target, why) /\ Mishap("unknown")
    /\ UNCHANGED <<gitVars, up, leased, resultVars>>

\* The agent is paused, and then the drain is recorded.
PauseAgent ==
    /\ pc = "held" /\ MayDrain(target, why)
    /\ pause' = "deploy"
    /\ pc' = "pausing"
    /\ UNCHANGED <<gitVars, plan, agentVars, drain, behind, target, why, resultVars, mishaps>>

RecordDrain ==
    /\ pc = "pausing"
    /\ drain' = [drain EXCEPT !.since = 1]
    /\ Ends
    /\ UNCHANGED <<gitVars, agentVars, pause, behind, resultVars, mishaps>>

\* merge --ff-only, which fails on local commits.
FastForward ==
    /\ IF checkout.local = {}
       THEN Goes("forward", "build") /\ checkout' = [checkout EXCEPT !.base = target]
       ELSE Goes("forward", "failed") /\ UNCHANGED checkout
    /\ UNCHANGED <<main, prs, rescue, drainVars, resultVars, mishaps>>

Build ==
    /\ Goes("build", "recheck")
    /\ UNCHANGED <<gitVars, drainVars, resultVars, mishaps>>

\* The build took minutes: the runtime gates are read again.  This wait does
\* not count as time behind, and starts no drain.
Recheck ==
    /\ pc = "recheck"
    /\ IF GateReason = "none" THEN Goes("recheck", "apply") ELSE Ends
    /\ UNCHANGED <<gitVars, drainVars, resultVars, mishaps>>

\* `ordo apply` refuses under a lease; else it recreates what changed, the
\* agent perhaps with its work.
Apply ==
    /\ pc = "apply"
    /\ IF leased THEN Ends /\ UNCHANGED work
       ELSE Goes("apply", "done") /\ work' \in {work, {}}
    /\ UNCHANGED <<gitVars, up, pause, leased, drain, behind, resultVars, mishaps>>

\* `ordo build` or `ordo apply` fails.
Fails ==
    /\ Mishap("fails")
    /\ \E at \in {"build", "apply"} : Goes(at, "failed")
    /\ UNCHANGED <<gitVars, drainVars, resultVars>>

Finish ==
    /\ pc \in {"done", "failed"}
    /\ Releases(0)
    /\ behind' = 0
    /\ deployed' = IF pc = "done" THEN target ELSE deployed
    /\ failed' = IF pc = "done" THEN 0 ELSE target
    /\ Ends
    /\ UNCHANGED <<gitVars, agentVars>>

\* A git, gh or docker call raises GateUnknown, which holds the pass; what the
\* call did may be done all the same.
Unknown ==
    /\ pc \in RescuePoints \cup {"gates"}
    /\ Mishap("unknown")
    /\ Hold("unread")
    /\ UNCHANGED <<gitVars, plan, drainVars, target, resultVars>>

\* The scheduler ends a pass at its time limit, or the host goes down.  At the
\* one point where an effect is not found again by the next pass, the agent
\* paused and not yet recorded, the same comes of an answer that is lost.
Killed ==
    /\ pc \notin {"idle", "later"}
    /\ Mishap(IF pc = "pausing" THEN "lost" ELSE "killed")
    /\ Ends
    /\ UNCHANGED <<gitVars, drainVars, resultVars>>

-----------------------------------------------------------------------------
(* Between passes and beside them. *)

\* The next of a drain's or of a wait's times comes; each is many passes long.
\* A turn takes less time than a drain.
Later ==
    /\ pc = "idle" /\ pc' = "later"
    /\ \/ behind \in 1..(DrainAfter - 1) /\ behind' = behind + 1 /\ UNCHANGED drain
       \/ /\ drain.since \in {1, 2}
          /\ drain.since = 2 => "turn" \notin work
          /\ drain' = [drain EXCEPT !.since = @ + 1]
          /\ UNCHANGED behind
    /\ UNCHANGED <<gitVars, plan, agentVars, pause, target, why, resultVars, mishaps>>

Outside(action) == action /\ UNCHANGED <<rescueVars, passVars, resultVars>>

AgentWorks == NewWork \/ \E kind \in work : EndWork(kind)
OthersAct ==
    \/ Outside(AgentWorks) /\ UNCHANGED mishaps
    \/ Outside(OperatorPauses) /\ Mishap("operator")
    \/ Outside(Lease) /\ (IF leased THEN UNCHANGED mishaps ELSE Mishap("lease"))
    \/ Outside(AgentStops) /\ Mishap("down")
    \/ Outside(AgentStarts) /\ UNCHANGED mishaps

Git(action) == action /\ UNCHANGED <<drainVars, resultVars, mishaps>>

Pass ==
    \/ Fetch \/ Lift \/ Git(RescuePass) \/ Gates
    \/ Held \/ PauseAgent \/ RecordDrain
    \/ FastForward \/ Build \/ Recheck \/ Apply \/ Finish

Next ==
    \/ Pass \/ Unknown \/ Killed \/ Fails
    \/ Later \/ OthersAct \/ Git(Settle) \/ Git(People) \/ Git(World)

\* Passes come every few minutes and go on; the times pass between them.  The
\* agent's turns end, and a container that stopped is started again.  People,
\* kanban workers, and everything that goes wrong do as they like.
Fairness ==
    /\ WF_vars(Pass)
    /\ SF_vars(Later)
    /\ SF_vars(Git(Settle))
    /\ WF_vars(Outside(EndWork("turn")) /\ UNCHANGED mishaps)
    /\ WF_vars(Outside(AgentStarts) /\ UNCHANGED mishaps)

Spec == Init /\ [][Next]_vars /\ Fairness

-----------------------------------------------------------------------------
(* Properties. *)

\* The shape of state.json and of what a pass carries, and that the pull
\* request recorded is one that exists.
TypeOK ==
    /\ Len(main) \in 1..MaxMain /\ Len(prs) \in 0..MaxPrs
    /\ checkout.base \in DOMAIN main
    /\ {deployed, failed, target} \subseteq {0} \cup DOMAIN main
    /\ rescue.pr \in {0, rescue.branch} \cup 1..rescue.branch
    /\ rescue.branch \in {0} \cup DOMAIN prs
    /\ rescue.branch # 0 => rescue.commit \in Commit /\ rescue.kept # NoTree
    /\ pc \in {"pushed", "open", "opened"} => rescue.tree # NoTree
    /\ pause \in {"none", "deploy", "operator"} /\ drain.since \in 0..3

\* "rescued, never discarded" (deploy.py:12): when a pass is about to reset the
\* checkout, every change on it is in the history of origin/main or of a pull
\* request, whatever was edited, pushed, merged, closed, reverted or rewritten
\* since it was saved, and wherever an earlier pass was killed (_rescue).
NothingDiscarded ==
    pc = "reset" =>
        \A e \in Changes :
            \/ \E i \in 1..target : e \in main[i]
            \/ \E n \in DOMAIN prs : prs[n].status # "none" /\ e \in Keeps(n)

\* Nothing is applied but what was merged: the checkout a deploy applies is the
\* commit it deploys, whatever earlier passes left half done (run_once).
AppliedIsMerged ==
    pc = "apply" => checkout.onMain /\ Changes = {} /\ checkout.base = target

\* A review round is never pushed over: once someone pushed to a pull request,
\* no pass moves its branch, even if they push between the pass's look at it
\* and its own push (the reuse check and --force-with-lease).
ReviewKept ==
    [][Git(Push) => \A n \in DOMAIN prs : prs[n].head # "pushed" => prs'[n] = prs[n]]_vars

\* No change the scanner flags is published by a pass (secret_findings).
OnlyScannedIsPushed ==
    \A n \in DOMAIN prs : prs[n].kind = "rescue" => prs[n].commit.adds \cap Secrets = {}

\* A busy agent does not starve a deploy: as long as nothing goes wrong and
\* nobody works on the checkout, a deploy is not held by the agent at its first
\* check for ever, although new work comes around the clock and a worker may
\* never end (_drain).
DeployNotStarved ==
    [](mishaps = 0 /\ ~CheckoutProblem) => <>[](~(pc = "held" /\ why = "agent"))

\* A drain that was recorded is lifted, whoever holds the deploy by then, and
\* although calls fail and passes are killed (_drain, _release_drain).
DrainIsLifted == (drain.since # 0 /\ pause = "deploy") ~> pause # "deploy"

\* "A drain that has not emptied the agent within DRAIN_MAX_SECONDS is lifted
\* and reported" (deploy.py:39): whatever pause a drain set is lifted.
PauseIsLifted == pause = "deploy" ~> pause # "deploy"

\* A change that stays on the checkout is not forgotten: once it settled it is
\* in an open pull request's branch that is recorded, or blocked and reported,
\* or its pull request was decided, unless it changes again or another branch
\* is checked out, and until the bound on pull requests is reached (_rescue).
ChangesAreSaved ==
    LET pushed == rescue.branch # 0 /\ rescue.kept = rescue.tree
        decided == pushed /\ prs[rescue.branch].status \in {"CLOSED", "MERGED"}
    IN  rescue.settled ~>
            \/ ~rescue.settled \/ ~checkout.onMain
            \/ pushed /\ rescue.pr # 0
            \/ Len(prs) = MaxPrs /\ (~pushed \/ decided)
            \/ rescue.blocked[1] = rescue.tree \/ Owners # {}
=============================================================================
