------------------------------- MODULE Rescue -------------------------------
(***************************************************************************)
(* What a pass of `ordo deploy` does about changes made on the deploy      *)
(* checkout outside a pull request: it saves them as one, holds while that *)
(* pull request is open, and puts the checkout back on origin/main         *)
(* afterwards.  People work on the checkout and on GitHub meanwhile.       *)
(*                                                                         *)
(* A tree is the set of edits it contains.  A commit is what it is put on  *)
(* (the index of a content of origin/main) and the edits it adds.          *)
(***************************************************************************)
EXTENDS Naturals, Sequences, FiniteSets

CONSTANTS
    Edits,      \* changes to tracked files
    Secrets,    \* the edits the secret scanner flags
    Reverts,    \* the edits that may be reverted on origin/main
    Clashes,    \* pairs of edits a three-way merge cannot combine
    MaxMain,    \* bound on the contents of origin/main
    MaxPrs,     \* bound on the pull requests
    PeopleAt    \* the points of a pass at which people may touch anything

ASSUME EditsAssumption ==
    /\ Secrets \subseteq Edits /\ Reverts \subseteq Edits
    /\ MaxMain \in Nat \ {0} /\ MaxPrs \in Nat

\* Nobody works on the checkout from a pass's last look at the changes until it
\* acts on what it saw, nor while it deploys: git locks nothing across commands,
\* and an edit made in between is lost by the reset.
ASSUME PeopleAssumption == PeopleAt \subseteq {"idle", "compare", "push", "open"}

VARIABLES
    main,       \* the contents origin/main had, the latest last
    checkout,   \* base, local commits, uncommitted changes, main checked out?
    prs,        \* pull requests, and branches that have none yet
    rescue,     \* state.json: the rescue's part
    plan,       \* the pass: what it read of the checkout
    pc,         \* the pass: where it is
    target,     \* the pass: the commit of origin/main it deploys
    why         \* the pass: what it waits for

rescueVars == <<main, checkout, prs, rescue, plan>>

Commit == [onto : 1..MaxMain, adds : SUBSET Edits]
NoTree == {<<>>}                     \* the empty string where a tree is kept
ASSUME TreesAssumption == NoTree \notin SUBSET Edits
NoCommit == [onto |-> 0, adds |-> {}]
NoPlan == [clash |-> FALSE, tree |-> {}, reuse |-> FALSE, branch |-> 0]

\* _clear_rescue
NoRescue == [tree |-> NoTree, settled |-> FALSE, pr |-> 0, branch |-> 0,
             commit |-> NoCommit, kept |-> NoTree, blocked |-> <<NoTree, 0>>]

RescueInit ==
    /\ main = <<{}>>
    /\ checkout = [base |-> 1, local |-> {}, dirty |-> {}, onMain |-> TRUE]
    /\ prs = <<>>
    /\ rescue = NoRescue
    /\ plan = NoPlan

-----------------------------------------------------------------------------
(* The checkout, as git sees it. *)

Changes == checkout.local \cup checkout.dirty
LocalTree == main[checkout.base] \cup Changes
HeadCommit == [onto |-> checkout.base, adds |-> checkout.local]

CheckoutProblem == ~checkout.onMain \/ Changes # {}
HasLocalChanges == checkout.onMain /\ Changes # {}

\* The changes put on the target: origin/main moved by `moved` meanwhile.
ReplayClashes ==
    LET moved == (main[target] \ main[checkout.base])
                 \cup (main[checkout.base] \ main[target])
    IN  \E e \in Changes, f \in moved : {e, f} \in Clashes
ReplayedTree == main[target] \cup Changes

-----------------------------------------------------------------------------
(* Pull requests.  A push on top of a commit keeps it in the history; a     *)
(* force-push by someone does not.                                          *)

PullRequest(kind, commit, status) ==
    [kind |-> kind, commit |-> commit, status |-> status, head |-> "pushed"]

\* head == sha, and pr_contains
HeadIs(n, commit) == prs[n].head = "pushed" /\ prs[n].commit = commit
Contains(n, commit) == prs[n].head # "rewritten" /\ prs[n].commit = commit

\* What pull request n keeps reachable on GitHub.
Keeps(n) ==
    IF prs[n].head = "rewritten" THEN {}
    ELSE main[prs[n].commit.onto] \cup prs[n].commit.adds

\* pr_for_commit
Owners ==
    {n \in DOMAIN prs : prs[n].status # "none" /\ Contains(n, HeadCommit)}

-----------------------------------------------------------------------------
(* The pass. *)

Hold(reason) == pc' = "held" /\ why' = reason

\* Mutant: any branch without changes is deployed from.
LookOnlyAtChanges ==
    /\ pc = "look"
    /\ rescue' = IF Changes = {} THEN NoRescue ELSE rescue
    /\ IF HasLocalChanges THEN pc' = "compare" ELSE pc' = "gates"
    /\ UNCHANGED <<main, checkout, prs, plan, target, why>>

\* Clean on main: whatever the rescue remembered is over.  Another branch
\* checked out holds the deploy and keeps the rescue for when main is back.
Look ==
    /\ pc = "look"
    /\ rescue' = IF checkout.onMain /\ Changes = {} THEN NoRescue ELSE rescue
    /\ CASE HasLocalChanges -> pc' = "compare" /\ UNCHANGED why
         [] ~checkout.onMain -> Hold("checkout")
         [] OTHER -> pc' = "gates" /\ UNCHANGED why
    /\ UNCHANGED <<main, checkout, prs, plan, target>>

\* The replay is computed here and used for the push; changes origin/main
\* already holds need no rescue.
Compare ==
    /\ pc = "compare"
    /\ plan' = [NoPlan EXCEPT !.clash = ReplayClashes, !.tree = ReplayedTree]
    /\ pc' = IF ~ReplayClashes /\ ReplayedTree = main[target]
             THEN "reset" ELSE "judge"
    /\ UNCHANGED <<main, checkout, prs, rescue, target, why>>

\* Local commits a pull request holds already: that one decides.
Owned ==
    /\ checkout.dirty = {} /\ rescue.branch = 0
    /\ \E n \in Owners :
          IF prs[n].status = "OPEN" THEN Hold("checkout")
          ELSE pc' = "reset" /\ UNCHANGED why
    /\ UNCHANGED <<rescue, plan>>

\* The tree as this pass sees it: one not seen before has to settle.
SeenTree == [rescue EXCEPT !.tree = LocalTree,
                           !.settled = @ /\ rescue.tree = LocalTree]

\* Mutant: a pushed tree is held for its pull request before it has one.
KeptAsHeld ==
    /\ rescue.branch # 0 /\ rescue.kept = LocalTree
    /\ IF rescue.pr = 0 \/ prs[rescue.pr].status = "OPEN"
                       \/ ~Contains(rescue.pr, rescue.commit)
       THEN Hold("checkout") ELSE pc' = "reset" /\ UNCHANGED why
    /\ rescue' = SeenTree
    /\ UNCHANGED plan

\* The tree is the one that was pushed: its pull request decides, as long as
\* the commit is still in its history.
Kept ==
    /\ rescue.branch # 0 /\ rescue.kept = LocalTree
    /\ CASE rescue.pr = 0 -> pc' = "open" /\ UNCHANGED why
         [] rescue.pr # 0 /\ (prs[rescue.pr].status = "OPEN"
                              \/ ~Contains(rescue.pr, rescue.commit)) -> Hold("checkout")
         [] OTHER -> pc' = "reset" /\ UNCHANGED why
    /\ rescue' = SeenTree
    /\ UNCHANGED plan

\* Mutant: only the uncommitted changes are scanned.
BlockedIfDirty ==
    \/ SeenTree.blocked = <<LocalTree, target>>
    \/ plan.clash
    \/ checkout.dirty \cap Secrets # {}

\* _blocked: reported once for this tree against this origin/main.
Blocked ==
    \/ SeenTree.blocked = <<LocalTree, target>>
    \/ plan.clash
    \/ (plan.tree \ main[target]) \cap Secrets # {}

\* The tree is new: it settles, or is blocked, or is pushed; over the commit
\* the rescue pushed before if nobody pushed since, else as a new branch.
New ==
    /\ ~(rescue.branch # 0 /\ rescue.kept = LocalTree)
    /\ IF SeenTree.settled /\ ~Blocked
       THEN /\ pc' = "push"
            /\ plan' = [plan EXCEPT !.reuse =
                  rescue.pr # 0 /\ prs[rescue.pr].status = "OPEN"
                                /\ HeadIs(rescue.pr, rescue.commit)]
            /\ rescue' = SeenTree
            /\ UNCHANGED why
       ELSE /\ Hold("checkout")
            /\ rescue' = IF SeenTree.settled
                         THEN [SeenTree EXCEPT !.blocked = <<LocalTree, target>>]
                         ELSE SeenTree
            /\ UNCHANGED plan

Judge ==
    /\ pc = "judge"
    /\ \/ Owned
       \/ /\ checkout.dirty = {} /\ rescue.branch = 0 => Owners = {}
          /\ Kept \/ New
    /\ UNCHANGED <<main, checkout, prs, target>>

PlannedCommit == [onto |-> target, adds |-> plan.tree \ main[target]]

\* Mutant: the branch is pushed over whatever it holds.
PushForces ==
    /\ pc = "push"
    /\ IF plan.reuse
       THEN /\ prs' = [prs EXCEPT ![rescue.branch].commit = PlannedCommit,
                                 ![rescue.branch].head = "pushed"]
            /\ plan' = [plan EXCEPT !.branch = rescue.branch]
       ELSE /\ Len(prs) < MaxPrs
            /\ prs' = Append(prs, PullRequest("rescue", PlannedCommit, "none"))
            /\ plan' = [plan EXCEPT !.branch = Len(prs) + 1]
    /\ pc' = "pushed"
    /\ UNCHANGED <<main, checkout, rescue, target, why>>

\* push_branch: over the commit the rescue pushed (--force-with-lease), or to
\* a branch that does not exist yet.  A branch whose pull request was merged or
\* closed meanwhile takes the push, and that pull request keeps what it had.
Push ==
    /\ pc = "push"
    /\ plan.reuse => HeadIs(rescue.branch, rescue.commit)
    /\ IF plan.reuse /\ prs[rescue.branch].status = "OPEN"
       THEN /\ prs' = [prs EXCEPT ![rescue.branch].commit = PlannedCommit]
            /\ plan' = [plan EXCEPT !.branch = rescue.branch]
       ELSE /\ Len(prs) < MaxPrs
            /\ prs' = Append(prs, PullRequest("rescue", PlannedCommit, "none"))
            /\ plan' = [plan EXCEPT !.branch = Len(prs) + 1]
    /\ pc' = "pushed"
    /\ UNCHANGED <<main, checkout, rescue, target, why>>

\* Mutants: the tree recorded as pushed is read again, or not recorded.
RecordRereads ==
    /\ pc = "pushed"
    /\ rescue' = [rescue EXCEPT !.branch = plan.branch, !.commit = PlannedCommit,
                                !.kept = LocalTree,
                                !.pr = IF plan.reuse THEN @ ELSE 0]
    /\ pc' = "open"
    /\ UNCHANGED <<main, checkout, prs, plan, target, why>>

\* Recorded before the pull request is opened.
Record ==
    /\ pc = "pushed"
    /\ rescue' = [rescue EXCEPT !.branch = plan.branch, !.commit = PlannedCommit,
                                !.kept = rescue.tree,
                                !.pr = IF plan.reuse THEN @ ELSE 0]
    /\ pc' = "open"
    /\ UNCHANGED <<main, checkout, prs, plan, target, why>>

\* open_pr: the open pull request of the branch, or a new one.
Open ==
    /\ pc = "open"
    /\ \/ /\ prs[rescue.branch].status \in {"none", "OPEN"}
          /\ prs' = [prs EXCEPT ![rescue.branch].status = "OPEN"]
          /\ UNCHANGED rescue
       \/ /\ prs[rescue.branch].status \in {"CLOSED", "MERGED"} /\ Len(prs) < MaxPrs
          /\ prs' = Append(prs, [prs[rescue.branch] EXCEPT !.status = "OPEN"])
          /\ rescue' = [rescue EXCEPT !.branch = Len(prs) + 1]
    /\ pc' = "opened"
    /\ UNCHANGED <<main, checkout, plan, target, why>>

SavePr ==
    /\ pc = "opened"
    /\ rescue' = [rescue EXCEPT !.pr = rescue.branch]
    /\ Hold("checkout")
    /\ UNCHANGED <<main, checkout, prs, plan, target>>

\* _back_on_target: reset --hard, and then the rescue is forgotten.
Reset ==
    /\ pc = "reset"
    /\ checkout' = [checkout EXCEPT !.base = target, !.local = {}, !.dirty = {}]
    /\ pc' = "clear"
    /\ UNCHANGED <<main, prs, rescue, plan, target, why>>

Clear ==
    /\ pc = "clear"
    /\ rescue' = NoRescue
    /\ IF CheckoutProblem THEN Hold("checkout") ELSE pc' = "gates" /\ UNCHANGED why
    /\ UNCHANGED <<main, checkout, prs, plan, target>>

RescuePass ==
    \/ Look \/ Compare \/ Judge \/ Push \/ Record
    \/ Open \/ SavePr \/ Reset \/ Clear

\* Where a git or gh call may raise GateUnknown, or refuse the push.
RescuePoints ==
    {"look", "compare", "judge", "push", "pushed", "open", "opened", "reset", "clear"}

\* RESCUE_SETTLE_SECONDS pass between two passes.
Settle ==
    /\ pc = "idle" /\ rescue.tree # NoTree /\ ~rescue.settled
    /\ rescue' = [rescue EXCEPT !.settled = TRUE]
    /\ UNCHANGED <<main, checkout, prs, plan, pc, target, why>>

-----------------------------------------------------------------------------
(* People: the operator and the agents on the checkout, reviewers on GitHub. *)

Work(c) == checkout' = c /\ UNCHANGED <<main, prs>>
MainMoves(to) == main' = Append(main, to) /\ UNCHANGED <<checkout, prs>>
Review(n, pr) == prs' = [prs EXCEPT ![n] = pr] /\ UNCHANGED <<main, checkout>>

Edit(e) == e \notin LocalTree /\ Work([checkout EXCEPT !.dirty = @ \cup {e}])
CommitLocally ==
    /\ checkout.dirty # {}
    /\ Work([checkout EXCEPT !.local = Changes, !.dirty = {}])

\* Undone, cleaned up by hand, or parked while another branch is worked on.
Undo(e) == e \in checkout.dirty /\ Work([checkout EXCEPT !.dirty = @ \ {e}])
CleanUp ==
    Work([checkout EXCEPT !.base = Len(main), !.local = {}, !.dirty = {}])
SwitchBranch ==
    checkout.dirty = {} /\ Work([checkout EXCEPT !.onMain = ~@])

\* A pull request opened from the checkout's own commits.
OpenFromHere ==
    /\ checkout.local # {} /\ Len(prs) < MaxPrs /\ Owners = {}
    /\ prs' = Append(prs, PullRequest("people", HeadCommit, "OPEN"))
    /\ UNCHANGED <<main, checkout>>

\* A change merged by way of some other pull request, and a revert.
Upstream(e) ==
    /\ Len(main) < MaxMain
    /\ \/ e \notin main[Len(main)] /\ MainMoves(main[Len(main)] \cup {e})
       \/ e \in main[Len(main)] \cap Reverts /\ MainMoves(main[Len(main)] \ {e})

Merge(n) ==
    /\ prs[n].status = "OPEN" /\ Len(main) < MaxMain
    /\ prs' = [prs EXCEPT ![n].status = "MERGED"]
    /\ main' = Append(main, main[Len(main)] \cup prs[n].commit.adds)
    /\ UNCHANGED checkout
Close(n) ==
    prs[n].status = "OPEN" /\ Review(n, [prs[n] EXCEPT !.status = "CLOSED"])
PushFix(n) ==
    /\ prs[n].kind = "rescue" /\ prs[n].status = "OPEN" /\ prs[n].head = "pushed"
    /\ Review(n, [prs[n] EXCEPT !.head = "fixed"])
Rewrite(n) ==
    /\ prs[n].status = "OPEN" /\ prs[n].head # "rewritten"
    /\ Review(n, [prs[n] EXCEPT !.head = "rewritten"])

\* Within a pass people add to what they do; what they take back, they take
\* back between passes.
People ==
    /\ pc \in PeopleAt
    /\ \/ \E e \in Edits : Edit(e)
       \/ CommitLocally \/ OpenFromHere
       \/ \E n \in DOMAIN prs : Merge(n) \/ Close(n) \/ PushFix(n) \/ Rewrite(n)
       \/ /\ pc = "idle"
          /\ (\E e \in Edits : Undo(e)) \/ CleanUp \/ SwitchBranch
    /\ UNCHANGED <<rescue, plan, pc, target, why>>

\* The rest of the world merges between passes: a pass sees origin/main only
\* when it fetches.
World ==
    /\ pc = "idle" /\ \E e \in Edits : Upstream(e)
    /\ UNCHANGED <<rescue, plan, pc, target, why>>
=============================================================================
