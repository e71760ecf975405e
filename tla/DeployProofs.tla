---------------------------- MODULE DeployProofs ----------------------------
(***************************************************************************)
(* Four of Deploy's properties for any edits, secrets, reverts and bounds, *)
(* with people at the checkout wherever PeopleAssumption has them.         *)
(*                                                                         *)
(* That nothing is discarded is not inductive.  A reset is decided before  *)
(* it is done, from what was saved passes ago: the argument is that what   *)
(* was recorded as pushed is in the history or in the commit recorded with *)
(* it, that this commit never leaves a pull request that still contains    *)
(* it, and that what a pass planned is what it pushed (SavedInv).          *)
(***************************************************************************)
EXTENDS Deploy, TLAPS

Trees == (SUBSET Edits) \cup {NoTree}
AnyCommit == [onto : Nat, adds : SUBSET Edits]
PullRequests ==
    [kind : {"rescue", "people"}, commit : AnyCommit,
     status : {"none", "OPEN", "CLOSED", "MERGED"}, head : {"pushed", "fixed", "rewritten"}]
Checkouts == [base : Nat, local : SUBSET Edits, dirty : SUBSET Edits, onMain : BOOLEAN]
Rescues ==
    [tree : Trees, settled : BOOLEAN, pr : Nat, branch : Nat, commit : AnyCommit,
     kept : Trees, blocked : Trees \X Nat]
Plans == [clash : BOOLEAN, tree : SUBSET Edits, reuse : BOOLEAN, branch : Nat]
Points ==
    RescuePoints \cup
      {"idle", "later", "lift", "gates", "held", "pausing", "forward", "build", "recheck",
       "apply", "done", "failed"}

\* No pass runs; where a deploy works on the checkout it looked at; and where
\* a pass acts on what it planned.
Between == pc \in {"idle", "later"}
Deploying == {"gates", "forward", "build", "recheck", "apply"}
Planned == {"judge", "push", "pushed", "open", "opened", "reset"}

\* Git: the contents of origin/main, the checkout and the pull requests.
GitInv ==
    /\ main \in Seq(SUBSET Edits) /\ Len(main) >= 1
    /\ checkout \in Checkouts
    /\ prs \in Seq(PullRequests)

\* What the pass and state.json refer to exists.
StateInv ==
    /\ rescue \in Rescues
    /\ rescue.pr <= rescue.branch /\ rescue.branch <= Len(prs)
    /\ plan \in Plans /\ plan.branch <= Len(prs)
    /\ pc \in Points /\ target \in 0..Len(main)
    /\ Between <=> target = 0

\* How far origin/main is known, and what is in its history so far.
Fetched == IF Between THEN Len(main) ELSE target
Known(e) == \E i \in 1..Fetched : e \in main[i]

\* What a point of the pass relies on.
PassInv ==
    /\ checkout.base \in 1..Fetched
    /\ pc \in Deploying => checkout.onMain /\ Changes = {}
    /\ pc \in {"build", "recheck", "apply"} => checkout.base = target
    /\ pc = "judge" => plan.tree = ReplayedTree
    /\ pc = "push" /\ plan.reuse => rescue.branch # 0
    /\ pc = "pushed" => plan.branch # 0 /\ rescue.pr <= plan.branch
    /\ pc \in {"open", "opened"} => rescue.branch # 0

\* What was pushed is what is recorded: a change on the recorded tree is in the
\* commit or in the history.
SavedInv ==
    /\ pc \in {"push", "pushed"} => \A e \in rescue.tree : Known(e) \/ e \in plan.tree
    /\ rescue.branch # 0 => \A e \in rescue.kept : Known(e) \/ e \in rescue.commit.adds
    /\ rescue.pr # 0 => prs[rescue.pr].status # "none"
    /\ pc = "opened" => prs[rescue.branch].status # "none"
    /\ NothingDiscarded

\* What the pass is about to push was scanned.
ScannedInv ==
    /\ pc \in {"push", "pushed"} => PlannedCommit.adds \cap Secrets = {}
    /\ OnlyScannedIsPushed

DeployInv == GitInv /\ StateInv /\ PassInv /\ SavedInv /\ ScannedInv

-----------------------------------------------------------------------------
(* What the operators yield. *)

LEMMA PointsAre ==
    Points = {"look", "compare", "judge", "push", "pushed", "open", "opened", "reset",
              "clear", "idle", "later", "lift", "gates", "held", "pausing", "forward",
              "build", "recheck", "apply", "done", "failed"}
BY DEF Points, RescuePoints

\* The checkout is on a content of origin/main that exists, and what is on it
\* is edits.
LEMMA CheckoutFacts ==
    ASSUME DeployInv
    PROVE  /\ checkout.base \in 1..Len(main) /\ checkout.base \in DOMAIN main
           /\ checkout.local \subseteq Edits /\ checkout.dirty \subseteq Edits
           /\ checkout.onMain \in BOOLEAN
           /\ main[checkout.base] \subseteq Edits
           /\ Changes \subseteq Edits /\ LocalTree \subseteq Edits
           /\ LocalTree # NoTree
<1>1. checkout.base \in Nat /\ checkout.local \subseteq Edits
      /\ checkout.dirty \subseteq Edits /\ checkout.onMain \in BOOLEAN
  BY DEF DeployInv, GitInv, Checkouts
<1>2. checkout.base \in 1..Len(main) /\ checkout.base \in DOMAIN main
  BY DEF DeployInv, GitInv, StateInv, PassInv, Fetched
<1>3. main[checkout.base] \subseteq Edits
  BY <1>2 DEF DeployInv, GitInv
<1>4. Changes \subseteq Edits /\ LocalTree \subseteq Edits
  BY <1>1, <1>3 DEF Changes, LocalTree
<1>5. LocalTree # NoTree
  BY <1>4, TreesAssumption
<1> QED BY <1>1, <1>2, <1>3, <1>4, <1>5

\* A pass has a target, which exists.
LEMMA TargetFacts ==
    ASSUME DeployInv, ~Between
    PROVE  /\ target \in 1..Len(main) /\ target \in DOMAIN main
           /\ main[target] \subseteq Edits /\ Fetched = target
           /\ \A e \in main[target] : Known(e)
<1>1. target \in 1..Len(main) /\ target \in DOMAIN main /\ Fetched = target
  BY DEF DeployInv, GitInv, StateInv, Fetched
<1>2. main[target] \subseteq Edits
  BY <1>1 DEF DeployInv, GitInv
<1>3. \A e \in main[target] : Known(e)
  BY <1>1 DEF Known
<1> QED BY <1>1, <1>2, <1>3

\* A pull request's number is an index.
LEMMA PullRequestFacts ==
    ASSUME DeployInv, NEW n \in 1..Len(prs)
    PROVE  /\ n \in DOMAIN prs /\ prs[n] \in PullRequests
           /\ prs[n].kind \in {"rescue", "people"} /\ prs[n].commit \in AnyCommit
           /\ prs[n].status \in {"none", "OPEN", "CLOSED", "MERGED"}
           /\ prs[n].head \in {"pushed", "fixed", "rewritten"}
<1>1. n \in DOMAIN prs /\ prs[n] \in PullRequests
  BY DEF DeployInv, GitInv
<1> QED BY <1>1 DEF PullRequests

LEMMA RescueFacts ==
    ASSUME DeployInv
    PROVE  /\ rescue.tree \in Trees /\ rescue.settled \in BOOLEAN
           /\ rescue.pr \in Nat /\ rescue.branch \in Nat
           /\ rescue.commit \in AnyCommit /\ rescue.kept \in Trees
           /\ rescue.blocked \in Trees \X Nat
           /\ rescue.pr \in 0..Len(prs) /\ rescue.branch \in 0..Len(prs)
           /\ Len(prs) \in Nat
<1>1. /\ rescue.tree \in Trees /\ rescue.settled \in BOOLEAN
      /\ rescue.pr \in Nat /\ rescue.branch \in Nat
      /\ rescue.commit \in AnyCommit /\ rescue.kept \in Trees
      /\ rescue.blocked \in Trees \X Nat
  BY DEF DeployInv, StateInv, Rescues
<1>2. Len(prs) \in Nat
  BY DEF DeployInv, GitInv
<1> QED BY <1>1, <1>2 DEF DeployInv, StateInv

LEMMA PlanFacts ==
    ASSUME DeployInv
    PROVE  /\ plan.clash \in BOOLEAN /\ plan.tree \subseteq Edits
           /\ plan.reuse \in BOOLEAN /\ plan.branch \in Nat
BY DEF DeployInv, StateInv, Plans

LEMMA Defaults ==
    /\ NoRescue \in Rescues /\ NoRescue.pr = 0 /\ NoRescue.branch = 0
    /\ NoPlan \in Plans /\ NoPlan.branch = 0
<1>1. NoCommit \in AnyCommit
  BY DEF NoCommit, AnyCommit
<1>2. NoTree \in Trees
  BY DEF Trees
<1>3. NoRescue \in Rescues /\ NoRescue.pr = 0 /\ NoRescue.branch = 0
  BY <1>1, <1>2 DEF NoRescue, Rescues
<1>4. NoPlan \in Plans /\ NoPlan.branch = 0
  BY DEF NoPlan, Plans
<1> QED BY <1>3, <1>4

-----------------------------------------------------------------------------
(* The steps. *)

\* A step that moves the pass on, or ends it, and does nothing else: it may
\* forget the rescue and the plan.
LEMMA OnlyMoves ==
    ASSUME DeployInv,
           UNCHANGED <<main, checkout, prs>>,
           rescue' \in {rescue, NoRescue}, plan' \in {plan, NoPlan},
           pc' \in Points \ Planned,
           pc' \in {"idle", "later"} => target' = 0,
           pc' \notin {"idle", "later"} =>
               target' = (IF Between THEN Len(main) ELSE target),
           pc' \in Deploying => checkout.onMain /\ Changes = {},
           pc' \in {"build", "recheck", "apply"} => checkout.base = target'
    PROVE  DeployInv'
<1>1. GitInv'
  BY DEF DeployInv, GitInv
<1>2. StateInv'
  <2>1. rescue' \in Rescues /\ rescue'.pr <= rescue'.branch /\ rescue'.branch <= Len(prs)
    BY RescueFacts, Defaults DEF DeployInv, StateInv
  <2>2. plan' \in Plans /\ plan'.branch <= Len(prs)
    BY RescueFacts, Defaults DEF DeployInv, StateInv
  <2>3. pc' \in Points /\ target' \in 0..Len(main) /\ (Between' <=> target' = 0)
    BY DEF DeployInv, GitInv, StateInv, Between
  <2> QED BY <2>1, <2>2, <2>3 DEF StateInv
<1>3. Fetched' \in Nat /\ Fetched' >= Fetched
  BY DEF Fetched, Between, DeployInv, GitInv, StateInv
<1>4. \A e : Known(e) => Known(e)'
  BY <1>3 DEF Known, Fetched, DeployInv, GitInv, StateInv
<1>5. Changes' = Changes
  BY DEF Changes
<1>6. PassInv'
  <2>1. checkout.base' \in 1..Fetched'
    <3>1. checkout.base \in 1..Fetched /\ Fetched \in Nat
      BY DEF DeployInv, GitInv, StateInv, PassInv, Fetched
    <3> QED BY <1>3, <3>1
  <2>2. /\ pc' \in Deploying => checkout.onMain' /\ Changes' = {}
        /\ pc' \in {"build", "recheck", "apply"} => checkout.base' = target'
    BY <1>5
  <2> QED BY <2>1, <2>2 DEF PassInv, Planned
<1>7. SavedInv'
  <2>1. rescue'.branch # 0 => \A e \in rescue'.kept : Known(e)' \/ e \in rescue'.commit.adds
    BY <1>4, Defaults DEF DeployInv, SavedInv
  <2>2. rescue'.pr # 0 => prs[rescue'.pr].status # "none"
    BY Defaults DEF DeployInv, SavedInv
  <2> QED BY <2>1, <2>2 DEF SavedInv, NothingDiscarded, Planned
<1>8. ScannedInv'
  BY DEF ScannedInv, OnlyScannedIsPushed, DeployInv, Planned
<1> QED BY <1>1, <1>2, <1>6, <1>7, <1>8 DEF DeployInv

\* A step of other people, who move nothing of the pass: pull requests keep
\* their numbers and origin/main its history.
LEMMA OnlyOthers ==
    ASSUME DeployInv, UNCHANGED <<rescue, plan, pc, target>>,
           pc \in {"idle", "compare", "push", "open"},
           main' \in Seq(SUBSET Edits), Len(main') >= Len(main),
           \A i \in 1..Len(main) : main'[i] = main[i],
           checkout' \in Checkouts, checkout'.base \in 1..Fetched',
           prs' \in Seq(PullRequests), Len(prs') >= Len(prs),
           \A n \in 1..Len(prs) : prs[n].status # "none" => prs'[n].status # "none",
           OnlyScannedIsPushed'
    PROVE  DeployInv'
<1>0. Len(main) \in Nat /\ Len(main') \in Nat /\ Len(prs) \in Nat /\ Len(prs') \in Nat
      /\ target \in 0..Len(main) /\ Len(main) >= 1
  BY DEF DeployInv, GitInv, StateInv
<1>1. GitInv'
  BY <1>0 DEF GitInv
<1>2. StateInv'
  <2>1. rescue.branch <= Len(prs') /\ plan.branch <= Len(prs')
    BY <1>0, RescueFacts, PlanFacts DEF DeployInv, StateInv
  <2>2. target \in 0..Len(main')
    BY <1>0
  <2> QED BY <2>1, <2>2 DEF StateInv, Between, DeployInv
<1>3. \A e : Known(e) => Known(e)'
  <2>1. Fetched \in Nat /\ Fetched' \in Nat /\ Fetched <= Fetched' /\ Fetched <= Len(main)
    BY <1>0 DEF Fetched, Between
  <2>2. \A i \in 1..Fetched : i \in 1..Fetched' /\ main'[i] = main[i]
    BY <1>0, <2>1
  <2> QED BY <2>2 DEF Known
<1>4. PassInv'
  BY DEF DeployInv, PassInv, Deploying
<1>5. SavedInv'
  <2>1. pc' \in {"push", "pushed"} => \A e \in rescue'.tree : Known(e)' \/ e \in plan'.tree
    BY <1>3 DEF DeployInv, SavedInv
  <2>2. rescue'.branch # 0 => \A e \in rescue'.kept : Known(e)' \/ e \in rescue'.commit.adds
    BY <1>3 DEF DeployInv, SavedInv
  <2>3. rescue'.pr # 0 => prs'[rescue'.pr].status # "none"
    BY RescueFacts DEF DeployInv, SavedInv
  <2> QED BY <2>1, <2>2, <2>3 DEF SavedInv, NothingDiscarded
<1>6. ScannedInv'
  <2>1. pc = "push" => target \in 1..Len(main)
    BY TargetFacts DEF Between
  <2>2. pc = "push" => PlannedCommit' = PlannedCommit
    BY <2>1 DEF PlannedCommit
  <2> QED BY <2>2 DEF DeployInv, ScannedInv
<1> QED BY <1>1, <1>2, <1>4, <1>5, <1>6 DEF DeployInv

\* A step of the rescue that leaves the checkout and origin/main alone.
LEMMA OnlyRescues ==
    ASSUME DeployInv, UNCHANGED <<main, checkout, target>>,
           rescue' \in Rescues, rescue'.pr <= rescue'.branch, rescue'.branch <= Len(prs'),
           plan' \in Plans, plan'.branch <= Len(prs'),
           prs' \in Seq(PullRequests),
           pc' \in Points \ Deploying, Between' <=> Between,
           pc' = "judge" => plan'.tree = ReplayedTree,
           pc' = "push" /\ plan'.reuse => rescue'.branch # 0,
           pc' = "pushed" => plan'.branch # 0 /\ rescue'.pr <= plan'.branch,
           pc' \in {"open", "opened"} => rescue'.branch # 0,
           SavedInv', ScannedInv'
    PROVE  DeployInv'
<1>1. GitInv'
  BY DEF DeployInv, GitInv
<1>2. StateInv'
  BY DEF DeployInv, StateInv
<1>3. PassInv'
  BY DEF DeployInv, PassInv, Fetched, Deploying, ReplayedTree, Changes
<1> QED BY <1>1, <1>2, <1>3 DEF DeployInv

LEMMA SettlePreserves ==
    ASSUME DeployInv, Settle
    PROVE  DeployInv'
<1>1. rescue' \in Rescues /\ rescue'.pr = rescue.pr /\ rescue'.branch = rescue.branch
      /\ rescue'.kept = rescue.kept /\ rescue'.commit = rescue.commit
      /\ rescue'.tree = rescue.tree
  BY DEF DeployInv, StateInv, Rescues, Settle
<1>2. pc = "idle" /\ UNCHANGED <<main, checkout, prs, plan, pc, target>>
  BY DEF Settle
<1>3. SavedInv'
  BY <1>1, <1>2 DEF DeployInv, SavedInv, NothingDiscarded, Known, Fetched, Between
<1>4. ScannedInv'
  BY <1>2 DEF DeployInv, ScannedInv, OnlyScannedIsPushed
<1>5. pc' \in Points \ Deploying /\ (Between' <=> Between)
  BY <1>2, PointsAre DEF Deploying, Between
<1> QED BY <1>1, <1>2, <1>3, <1>4, <1>5, OnlyRescues DEF DeployInv, GitInv, StateInv

LEMMA ComparePreserves ==
    ASSUME DeployInv, Compare
    PROVE  DeployInv'
<1>1. pc = "compare" /\ UNCHANGED <<main, checkout, prs, rescue, target>>
      /\ pc' \in {"judge", "reset"}
  BY DEF Compare
<1>2. ~Between
  BY <1>1 DEF Between
<1>3. plan' \in Plans /\ plan'.tree = ReplayedTree /\ plan'.branch = 0
  <2>1. ReplayedTree \subseteq Edits
    BY <1>2, CheckoutFacts, TargetFacts DEF ReplayedTree
  <2>2. ReplayClashes \in BOOLEAN
    BY DEF ReplayClashes
  <2>3. plan' = [NoPlan EXCEPT !.clash = ReplayClashes, !.tree = ReplayedTree]
    BY DEF Compare
  <2> HIDE DEF ReplayClashes, ReplayedTree
  <2> QED BY <2>1, <2>2, <2>3 DEF NoPlan, Plans
<1>4. SavedInv'
  <2>1. NothingDiscarded'
    <3> SUFFICES ASSUME pc' = "reset", NEW e \in Changes'
                 PROVE  \E i \in 1..target' : e \in main'[i]
      BY DEF NothingDiscarded
    <3>1. ReplayedTree = main[target]
      BY DEF Compare
    <3>2. e \in main[target]
      BY <1>1, <3>1 DEF ReplayedTree, Changes
    <3> QED BY <1>1, <1>2, <3>2, TargetFacts
  <2>2. \A e : Known(e)' = Known(e)
    BY <1>1, <1>2 DEF Known, Fetched, Between
  <2> QED BY <1>1, <2>1, <2>2 DEF DeployInv, SavedInv
<1>5. ScannedInv'
  BY <1>1 DEF DeployInv, ScannedInv, OnlyScannedIsPushed
<1>6. pc' \in Points \ Deploying /\ (Between' <=> Between)
  BY <1>1, PointsAre DEF Deploying, Between
<1>7. plan'.branch <= Len(prs')
  BY <1>1, <1>3, RescueFacts
<1> QED BY <1>1, <1>3, <1>4, <1>5, <1>6, <1>7, OnlyRescues DEF DeployInv, GitInv, StateInv

\* What a pass remembers of the tree it sees.
LEMMA SeenFacts ==
    ASSUME DeployInv
    PROVE  /\ SeenTree \in Rescues
           /\ SeenTree.tree = LocalTree
           /\ SeenTree.pr = rescue.pr /\ SeenTree.branch = rescue.branch
           /\ SeenTree.kept = rescue.kept /\ SeenTree.commit = rescue.commit
           /\ \A b \in Trees \X Nat :
                LET seen == [SeenTree EXCEPT !.blocked = b]
                IN  /\ seen \in Rescues
                    /\ seen.tree = LocalTree /\ seen.pr = rescue.pr
                    /\ seen.branch = rescue.branch
                    /\ seen.kept = rescue.kept /\ seen.commit = rescue.commit
<1> DEFINE tree == LocalTree
           settled == rescue.settled /\ rescue.tree = LocalTree
<1>1. tree \in Trees /\ settled \in BOOLEAN
  BY CheckoutFacts, RescueFacts DEF Trees
<1>2. SeenTree = [rescue EXCEPT !.tree = tree, !.settled = settled]
  BY DEF SeenTree
<1>3. rescue \in Rescues
  BY DEF DeployInv, StateInv
<1>4. LocalTree = tree
  OBVIOUS
<1> HIDE DEF tree, settled
<1>5. /\ SeenTree \in Rescues /\ SeenTree.tree = tree
      /\ SeenTree.pr = rescue.pr /\ SeenTree.branch = rescue.branch
      /\ SeenTree.kept = rescue.kept /\ SeenTree.commit = rescue.commit
  BY <1>1, <1>2, <1>3 DEF Rescues
<1>6. ASSUME NEW b \in Trees \X Nat
      PROVE  LET seen == [SeenTree EXCEPT !.blocked = b]
             IN  /\ seen \in Rescues
                 /\ seen.tree = SeenTree.tree /\ seen.pr = SeenTree.pr
                 /\ seen.branch = SeenTree.branch
                 /\ seen.kept = SeenTree.kept /\ seen.commit = SeenTree.commit
  BY <1>5 DEF Rescues
<1> QED BY <1>4, <1>5, <1>6

\* A judgment changes only what is remembered of the tree.  The first of a
\* pull request's or the record's lines that keeps a change is what a reset
\* relies on.
LEMMA JudgePreserves ==
    ASSUME DeployInv, Judge
    PROVE  DeployInv'
<1>1. pc = "judge" /\ UNCHANGED <<main, checkout, prs, target>>
  BY DEF Judge
<1>2. ~Between /\ target \in 1..Len(main) /\ plan.tree = ReplayedTree
  BY <1>1, TargetFacts DEF Between, DeployInv, PassInv
<1>3. \A e : Known(e)' = Known(e)
  <2>1. ASSUME ~Between' PROVE \A e : Known(e)' = Known(e)
    BY <1>1, <1>2, <2>1 DEF Known, Fetched
  <2>2. pc' \in {"held", "reset", "open", "push"}
    BY DEF Judge, Owned, Kept, New, Hold
  <2> QED BY <2>1, <2>2 DEF Between
<1>4. CASE Owned
  <2>1. UNCHANGED <<rescue, plan>> /\ pc' \in {"held", "reset"}
    BY <1>4 DEF Owned, Hold
  <2>2. NothingDiscarded'
    <3> SUFFICES ASSUME pc' = "reset", NEW e \in Changes'
                 PROVE  \E n \in DOMAIN prs' : prs'[n].status # "none" /\ e \in Keeps(n)'
      BY DEF NothingDiscarded
    <3>1. PICK n \in Owners : TRUE
      BY <1>4 DEF Owned
    <3>2. n \in DOMAIN prs /\ prs[n].status # "none"
          /\ prs[n].head # "rewritten" /\ prs[n].commit = HeadCommit
      BY <3>1 DEF Owners, Contains
    <3>3. e \in HeadCommit.adds
      BY <1>1, <1>4 DEF Owned, Changes, HeadCommit
    <3>4. e \in Keeps(n)'
      BY <1>1, <3>2, <3>3 DEF Keeps
    <3> QED BY <1>1, <3>2, <3>4
  <2>3. SavedInv'
    BY <1>1, <1>3, <2>1, <2>2 DEF DeployInv, SavedInv
  <2>4. ScannedInv'
    BY <1>1, <2>1 DEF DeployInv, ScannedInv, OnlyScannedIsPushed
  <2>5. pc' \in Points \ Deploying /\ (Between' <=> Between)
    BY <1>1, <2>1, PointsAre DEF Deploying, Between
  <2> QED BY <1>1, <2>1, <2>3, <2>4, <2>5, OnlyRescues DEF DeployInv, GitInv, StateInv
<1>5. CASE Kept
  <2>1. rescue' = SeenTree /\ plan' = plan /\ pc' \in {"held", "reset", "open"}
    BY <1>5 DEF Kept, Hold
  <2>2. NothingDiscarded'
    <3> SUFFICES ASSUME pc' = "reset", NEW e \in Changes'
                 PROVE  \/ \E i \in 1..target' : e \in main'[i]
                        \/ \E n \in DOMAIN prs' : prs'[n].status # "none" /\ e \in Keeps(n)'
      BY DEF NothingDiscarded
    <3>1. e \in rescue.kept /\ rescue.branch # 0
      BY <1>1, <1>5 DEF Kept, Changes, LocalTree
    <3>2. rescue.pr # 0 /\ Contains(rescue.pr, rescue.commit)
      BY <1>5 DEF Kept, Hold
    <3>3. CASE Known(e)
      BY <1>1, <1>2, <3>3, TargetFacts DEF Known
    <3>4. CASE e \in rescue.commit.adds
      <4>1. rescue.pr \in DOMAIN prs
        BY <3>2, RescueFacts, PullRequestFacts
      <4>2. prs[rescue.pr].status # "none"
        BY <3>2 DEF DeployInv, SavedInv
      <4>3. e \in Keeps(rescue.pr)
        BY <3>2, <3>4 DEF Contains, Keeps
      <4> QED BY <1>1, <4>1, <4>2, <4>3 DEF Keeps
    <3> QED BY <3>1, <3>3, <3>4 DEF DeployInv, SavedInv
  <2>3. SavedInv'
    BY <1>1, <1>3, <2>1, <2>2, SeenFacts DEF DeployInv, SavedInv
  <2>4. ScannedInv'
    BY <1>1, <2>1 DEF DeployInv, ScannedInv, OnlyScannedIsPushed
  <2>5. pc' \in Points \ Deploying /\ (Between' <=> Between)
    BY <1>1, <2>1, PointsAre DEF Deploying, Between
  <2>6. pc' = "open" => rescue'.branch # 0
    BY <1>5, <2>1, SeenFacts DEF Kept
  <2> QED BY <1>1, <2>1, <2>3, <2>4, <2>5, <2>6, SeenFacts, OnlyRescues
          DEF DeployInv, GitInv, StateInv
<1>6. CASE New
  <2>1. pc' \in {"held", "push"}
    BY <1>6 DEF New, Hold
  <2>2. /\ rescue' \in Rescues /\ rescue'.tree = LocalTree /\ rescue'.pr = rescue.pr
        /\ rescue'.branch = rescue.branch /\ rescue'.kept = rescue.kept
        /\ rescue'.commit = rescue.commit
    <3>1. <<LocalTree, target>> \in Trees \X Nat
      BY <1>2, CheckoutFacts DEF Trees
    <3>2. \/ rescue' = SeenTree
          \/ rescue' = [SeenTree EXCEPT !.blocked = <<LocalTree, target>>]
      BY <1>6 DEF New
    <3> QED BY <3>1, <3>2, SeenFacts
  <2>3. plan' \in Plans /\ plan'.branch = plan.branch /\ plan'.tree = plan.tree
    <3> DEFINE reuse == rescue.pr # 0 /\ prs[rescue.pr].status = "OPEN"
                                      /\ HeadIs(rescue.pr, rescue.commit)
    <3>1. plan' = [plan EXCEPT !.reuse = reuse] \/ plan' = plan
      BY <1>6 DEF New
    <3>2. reuse \in BOOLEAN
      BY DEF HeadIs
    <3> HIDE DEF reuse
    <3> QED BY <3>1, <3>2 DEF DeployInv, StateInv, Plans
  <2>4. pc' = "push" => (plan.tree \ main[target]) \cap Secrets = {}
    BY <1>6 DEF New, Blocked, Hold
  <2>5. \A e \in LocalTree : Known(e) \/ e \in plan.tree
    <3>1. \A e \in main[checkout.base] : Known(e)
      BY DEF Known, DeployInv, PassInv
    <3> QED BY <1>2, <3>1 DEF LocalTree, ReplayedTree
  <2>6. SavedInv'
    BY <1>1, <1>3, <2>1, <2>2, <2>3, <2>5 DEF DeployInv, SavedInv, NothingDiscarded
  <2>7. ScannedInv'
    BY <1>1, <2>1, <2>3, <2>4
       DEF DeployInv, ScannedInv, OnlyScannedIsPushed, PlannedCommit
  <2>8. pc' \in Points \ Deploying /\ (Between' <=> Between)
    BY <1>1, <2>1, PointsAre DEF Deploying, Between
  <2>9. pc' = "push" /\ plan'.reuse => rescue'.branch # 0
    <3>1. ASSUME pc' = "push", plan'.reuse PROVE rescue.pr # 0
      BY <1>6, <3>1 DEF New, Hold, DeployInv, StateInv, Plans
    <3> QED BY <2>2, <3>1, RescueFacts DEF DeployInv, StateInv
  <2> QED BY <1>1, <2>1, <2>2, <2>3, <2>6, <2>7, <2>8, <2>9, OnlyRescues
          DEF DeployInv, GitInv, StateInv
<1> QED BY <1>4, <1>5, <1>6 DEF Judge

\* The commit a pass pushes adds edits, on a content of origin/main.
LEMMA PlannedFacts ==
    ASSUME DeployInv, ~Between
    PROVE  /\ PlannedCommit \in AnyCommit
           /\ PlannedCommit.onto = target
           /\ \A e \in plan.tree : Known(e) \/ e \in PlannedCommit.adds
<1>1. target \in Nat /\ plan.tree \subseteq Edits
  BY TargetFacts, PlanFacts
<1>2. PlannedCommit \in AnyCommit
  BY <1>1 DEF PlannedCommit, AnyCommit
<1>3. \A e \in plan.tree : Known(e) \/ e \in PlannedCommit.adds
  BY TargetFacts DEF PlannedCommit
<1> QED BY <1>2, <1>3 DEF PlannedCommit

\* A push adds a branch, or moves the one the rescue pushed; a pull request
\* that has one keeps its status.
LEMMA PushedRequests ==
    ASSUME DeployInv, Push
    PROVE  /\ prs' \in Seq(PullRequests) /\ Len(prs') >= Len(prs)
           /\ \A n \in 1..Len(prs) :
                prs'[n].status = prs[n].status /\ prs'[n].kind = prs[n].kind
           /\ \A n \in 1..Len(prs') :
                \/ n \in 1..Len(prs) /\ prs'[n] = prs[n]
                \/ prs'[n].commit = PlannedCommit
           /\ plan' \in Plans /\ plan'.branch # 0 /\ plan'.branch <= Len(prs')
           /\ plan'.tree = plan.tree /\ rescue.pr <= plan'.branch
<1>1. pc = "push" /\ ~Between
  BY DEF Push, Between
<1>2. PlannedCommit \in AnyCommit
  BY <1>1, PlannedFacts
<1>3. prs \in Seq(PullRequests) /\ Len(prs) \in Nat /\ plan \in Plans
  BY DEF DeployInv, GitInv, StateInv
<1>4. CASE plan.reuse /\ prs[rescue.branch].status = "OPEN"
  <2>1. prs' = [prs EXCEPT ![rescue.branch].commit = PlannedCommit]
        /\ plan' = [plan EXCEPT !.branch = rescue.branch]
    BY <1>4 DEF Push
  <2>2. HeadIs(rescue.branch, rescue.commit)
    BY <1>4 DEF Push
  <2>3. rescue.branch \in 1..Len(prs)
    BY <1>1, <1>4, RescueFacts DEF DeployInv, PassInv
  <2>4. PICK n \in 1..Len(prs) : n = rescue.branch
    BY <2>3
  <2>5. prs[n] \in PullRequests
    BY PullRequestFacts
  <2>6. PICK commit \in AnyCommit : commit = PlannedCommit
    BY <1>2
  <2>7. PICK pr \in PullRequests : pr = [prs[n] EXCEPT !.commit = commit]
    BY <2>5 DEF PullRequests
  <2>8. pr.status = prs[n].status /\ pr.kind = prs[n].kind /\ pr.commit = commit
    BY <2>5, <2>7 DEF PullRequests
  <2>9. prs' = [prs EXCEPT ![n] = pr]
    BY <2>1, <2>4, <2>6, <2>7
  <2>10. /\ prs' \in Seq(PullRequests) /\ Len(prs') = Len(prs)
         /\ \A k \in 1..Len(prs) : prs'[k] = IF k = n THEN pr ELSE prs[k]
    BY <1>3, <2>9
  <2>11. plan' \in Plans /\ plan'.branch = n /\ plan'.tree = plan.tree
    BY <1>3, <2>1, <2>4 DEF Plans
  <2>12. rescue.pr <= n
    BY <2>4 DEF DeployInv, StateInv
  <2>13. \A k \in 1..Len(prs) :
           /\ prs'[k].status = prs[k].status /\ prs'[k].kind = prs[k].kind
           /\ prs'[k] = prs[k] \/ prs'[k].commit = PlannedCommit
    BY <2>6, <2>8, <2>10
  <2>14. n # 0 /\ n <= Len(prs)
    OBVIOUS
  <2> QED BY <1>3, <2>10, <2>11, <2>12, <2>13, <2>14
<1>5. CASE ~(plan.reuse /\ prs[rescue.branch].status = "OPEN")
  <2>1. PICK pr \in PullRequests :
          pr = PullRequest("rescue", PlannedCommit, "none")
    BY <1>2 DEF PullRequest, PullRequests
  <2>2. pr.commit = PlannedCommit
    BY <2>1 DEF PullRequest
  <2>3. prs' = Append(prs, pr) /\ plan' = [plan EXCEPT !.branch = Len(prs) + 1]
    BY <1>5, <2>1 DEF Push
  <2>4. /\ prs' \in Seq(PullRequests) /\ Len(prs') = Len(prs) + 1
        /\ \A k \in 1..Len(prs) : prs'[k] = prs[k]
        /\ prs'[Len(prs) + 1] = pr
    BY <1>3, <2>3
  <2>5. plan' \in Plans /\ plan'.branch = Len(prs) + 1 /\ plan'.tree = plan.tree
    BY <1>3, <2>3 DEF Plans
  <2>6. rescue.pr <= Len(prs) + 1
    BY RescueFacts
  <2> QED BY <1>3, <2>2, <2>4, <2>5, <2>6
<1> QED BY <1>4, <1>5

LEMMA PushPreserves ==
    ASSUME DeployInv, Push
    PROVE  DeployInv'
<1>1. pc = "push" /\ pc' = "pushed" /\ UNCHANGED <<main, checkout, rescue, target>>
  BY DEF Push
<1>2. ~Between /\ ~Between' /\ Fetched' = Fetched /\ Fetched = target
  BY <1>1 DEF Between, Fetched
<1>3. \A e : Known(e)' = Known(e)
  BY <1>1, <1>2 DEF Known
<1>4. PlannedCommit' = PlannedCommit
  BY <1>1, PushedRequests DEF PlannedCommit
<1>5. SavedInv'
  <2>1. rescue'.pr # 0 => prs'[rescue'.pr].status # "none"
    BY <1>1, PushedRequests, RescueFacts DEF DeployInv, SavedInv
  <2> QED BY <1>1, <1>3, <2>1, PushedRequests DEF DeployInv, SavedInv, NothingDiscarded
<1>6. ScannedInv'
  <2>1. PlannedCommit.adds \cap Secrets = {}
    BY <1>1 DEF DeployInv, ScannedInv
  <2>2. ASSUME NEW n \in 1..Len(prs'), prs'[n].kind = "rescue"
        PROVE  prs'[n].commit.adds \cap Secrets = {}
    <3>1. CASE prs'[n].commit = PlannedCommit
      BY <2>1, <3>1
    <3>2. CASE n \in 1..Len(prs) /\ prs'[n] = prs[n]
      BY <2>2, <3>2, PullRequestFacts DEF DeployInv, ScannedInv, OnlyScannedIsPushed
    <3> QED BY <3>1, <3>2, PushedRequests
  <2>3. DOMAIN prs' = 1..Len(prs')
    BY PushedRequests
  <2> QED BY <1>4, <2>1, <2>2, <2>3 DEF ScannedInv, OnlyScannedIsPushed
<1>7. pc' \in Points \ Deploying
  BY <1>1, PointsAre DEF Deploying
<1>8. rescue'.branch <= Len(prs')
  BY <1>1, PushedRequests, RescueFacts
<1> QED BY <1>1, <1>2, <1>5, <1>6, <1>7, <1>8, PushedRequests, OnlyRescues
        DEF DeployInv, StateInv

LEMMA RecordPreserves ==
    ASSUME DeployInv, Record
    PROVE  DeployInv'
<1>1. pc = "pushed" /\ pc' = "open" /\ UNCHANGED <<main, checkout, prs, plan, target>>
  BY DEF Record
<1>2. ~Between /\ ~Between' /\ Fetched' = Fetched
  BY <1>1 DEF Between, Fetched
<1>3. \A e : Known(e)' = Known(e)
  BY <1>1, <1>2 DEF Known
<1>4. PICK commit \in AnyCommit : commit = PlannedCommit
  BY <1>2, PlannedFacts
<1>5. PICK pr \in {0, rescue.pr} : pr = IF plan.reuse THEN rescue.pr ELSE 0
  OBVIOUS
<1>6. rescue' = [rescue EXCEPT !.branch = plan.branch, !.commit = commit,
                               !.kept = rescue.tree, !.pr = pr]
  BY <1>4, <1>5 DEF Record
<1>7. /\ rescue' \in Rescues /\ rescue'.branch = plan.branch /\ rescue'.commit = commit
      /\ rescue'.kept = rescue.tree /\ rescue'.pr = pr
  <2>1. rescue \in Rescues /\ plan.branch \in Nat /\ rescue.tree \in Trees /\ pr \in Nat
    BY PlanFacts, RescueFacts DEF DeployInv, StateInv
  <2> QED BY <1>6, <2>1 DEF Rescues
<1>8. SavedInv'
  <2>1. \A e \in rescue'.kept : Known(e)' \/ e \in rescue'.commit.adds
    BY <1>1, <1>2, <1>3, <1>4, <1>7, PlannedFacts DEF DeployInv, SavedInv
  <2>2. rescue'.pr # 0 => prs'[rescue'.pr].status # "none"
    BY <1>1, <1>7 DEF DeployInv, SavedInv
  <2> QED BY <1>1, <2>1, <2>2 DEF SavedInv, NothingDiscarded
<1>9. ScannedInv'
  BY <1>1 DEF DeployInv, ScannedInv, OnlyScannedIsPushed
<1>10. pc' \in Points \ Deploying /\ (Between' <=> Between)
  BY <1>1, <1>2, PointsAre DEF Deploying
<1>11. /\ rescue'.branch # 0 /\ rescue'.branch <= Len(prs')
       /\ rescue'.pr <= rescue'.branch
  BY <1>1, <1>7, PlanFacts DEF DeployInv, StateInv, PassInv
<1> QED BY <1>1, <1>7, <1>8, <1>9, <1>10, <1>11, OnlyRescues
        DEF DeployInv, GitInv, StateInv

LEMMA SavePrPreserves ==
    ASSUME DeployInv, SavePr
    PROVE  DeployInv'
<1>1. pc = "opened" /\ pc' = "held" /\ UNCHANGED <<main, checkout, prs, plan, target>>
  BY DEF SavePr, Hold
<1>2. ~Between /\ ~Between' /\ Fetched' = Fetched
  BY <1>1 DEF Between, Fetched
<1>3. \A e : Known(e)' = Known(e)
  BY <1>1, <1>2 DEF Known
<1>4. /\ rescue' \in Rescues /\ rescue'.branch = rescue.branch
      /\ rescue'.commit = rescue.commit /\ rescue'.kept = rescue.kept
      /\ rescue'.pr = rescue.branch
  BY RescueFacts DEF SavePr, DeployInv, StateInv, Rescues
<1>5. SavedInv'
  BY <1>1, <1>3, <1>4 DEF DeployInv, SavedInv, NothingDiscarded
<1>6. ScannedInv'
  BY <1>1 DEF DeployInv, ScannedInv, OnlyScannedIsPushed
<1>7. pc' \in Points \ Deploying
  BY <1>1, PointsAre DEF Deploying
<1> QED BY <1>1, <1>2, <1>4, <1>5, <1>6, <1>7, RescueFacts, OnlyRescues
        DEF DeployInv, GitInv, StateInv

LEMMA OpenPreserves ==
    ASSUME DeployInv, Open
    PROVE  DeployInv'
<1>1. pc = "open" /\ pc' = "opened" /\ UNCHANGED <<main, checkout, plan, target>>
  BY DEF Open
<1>2. ~Between /\ ~Between' /\ Fetched' = Fetched
  BY <1>1 DEF Between, Fetched
<1>3. \A e : Known(e)' = Known(e)
  BY <1>1, <1>2 DEF Known
<1>4. prs \in Seq(PullRequests) /\ Len(prs) \in Nat /\ rescue \in Rescues
  BY DEF DeployInv, GitInv, StateInv
<1>5. PICK n \in 1..Len(prs) : n = rescue.branch
  BY <1>1, RescueFacts DEF DeployInv, PassInv
<1>6. prs[n] \in PullRequests
  BY PullRequestFacts
<1>7. PICK pr \in PullRequests : pr = [prs[n] EXCEPT !.status = "OPEN"]
  BY <1>6 DEF PullRequests
<1>8. pr.status = "OPEN" /\ pr.kind = prs[n].kind /\ pr.commit = prs[n].commit
  BY <1>6, <1>7 DEF PullRequests
<1>9. /\ prs' \in Seq(PullRequests) /\ Len(prs') \in Nat /\ Len(prs') >= Len(prs)
      /\ \A k \in 1..Len(prs) : prs'[k] = prs[k] \/ prs'[k] = pr
      /\ \A k \in 1..Len(prs') : (k \in 1..Len(prs) /\ prs'[k] = prs[k]) \/ prs'[k] = pr
      /\ rescue' \in Rescues /\ rescue'.branch \in 1..Len(prs')
      /\ rescue'.branch >= rescue.branch /\ prs'[rescue'.branch] = pr
      /\ rescue'.pr = rescue.pr /\ rescue'.kept = rescue.kept
      /\ rescue'.commit = rescue.commit
  <2>1. CASE prs[rescue.branch].status \in {"none", "OPEN"}
    <3>1. prs' = [prs EXCEPT ![n] = pr] /\ rescue' = rescue
      BY <1>5, <1>7, <2>1 DEF Open
    <3>2. /\ prs' \in Seq(PullRequests) /\ Len(prs') = Len(prs)
          /\ \A k \in 1..Len(prs) : prs'[k] = IF k = n THEN pr ELSE prs[k]
      BY <1>4, <3>1
    <3> QED BY <1>4, <1>5, <3>1, <3>2
  <2>2. CASE prs[rescue.branch].status \in {"CLOSED", "MERGED"}
    <3>1. prs' = Append(prs, pr) /\ rescue' = [rescue EXCEPT !.branch = Len(prs) + 1]
      BY <1>5, <1>7, <2>2 DEF Open
    <3>2. /\ prs' \in Seq(PullRequests) /\ Len(prs') = Len(prs) + 1
          /\ \A k \in 1..Len(prs) : prs'[k] = prs[k]
          /\ prs'[Len(prs) + 1] = pr
      BY <1>4, <3>1
    <3>3. /\ rescue' \in Rescues /\ rescue'.branch = Len(prs) + 1
          /\ rescue'.pr = rescue.pr /\ rescue'.kept = rescue.kept
          /\ rescue'.commit = rescue.commit
      BY <1>4, <3>1 DEF Rescues
    <3> QED BY <1>4, <1>5, <3>2, <3>3
  <2> QED BY <1>5, <2>1, <2>2, PullRequestFacts
<1>10. SavedInv'
  <2>1. rescue'.pr # 0 => prs'[rescue'.pr].status # "none"
    BY <1>8, <1>9, RescueFacts DEF DeployInv, SavedInv
  <2>2. prs'[rescue'.branch].status # "none"
    BY <1>8, <1>9
  <2>3. \A e \in rescue'.kept : Known(e)' \/ e \in rescue'.commit.adds
    BY <1>1, <1>3, <1>9 DEF DeployInv, SavedInv, PassInv
  <2> QED BY <1>1, <2>1, <2>2, <2>3 DEF SavedInv, NothingDiscarded
<1>11. ScannedInv'
  <2>1. ASSUME NEW k \in 1..Len(prs'), prs'[k].kind = "rescue"
        PROVE  prs'[k].commit.adds \cap Secrets = {}
    <3>1. \E j \in 1..Len(prs) :
             prs'[k].kind = prs[j].kind /\ prs'[k].commit = prs[j].commit
      BY <1>8, <1>9
    <3> QED BY <2>1, <3>1, PullRequestFacts DEF DeployInv, ScannedInv, OnlyScannedIsPushed
  <2>2. DOMAIN prs' = 1..Len(prs')
    BY <1>9
  <2> QED BY <1>1, <2>1, <2>2 DEF ScannedInv, OnlyScannedIsPushed
<1>12. pc' \in Points \ Deploying
  BY <1>1, PointsAre DEF Deploying
<1>13. rescue'.pr <= rescue'.branch /\ rescue'.branch <= Len(prs') /\ rescue'.branch # 0
       /\ plan'.branch <= Len(prs')
  BY <1>1, <1>5, <1>9, RescueFacts, PlanFacts DEF DeployInv, StateInv
<1> QED BY <1>1, <1>2, <1>9, <1>10, <1>11, <1>12, <1>13, OnlyRescues
        DEF DeployInv, StateInv

\* A pass puts the checkout on its target: by a reset, or forward.
LEMMA OnlyCheckout ==
    ASSUME DeployInv, UNCHANGED <<main, prs, rescue, plan, target>>,
           checkout' \in Checkouts, checkout'.base \in 1..target,
           ~Between, pc' \in Points \ (Planned \cup {"idle", "later"}),
           pc' \in Deploying => checkout'.onMain /\ Changes' = {} /\ checkout'.base = target
    PROVE  DeployInv'
<1>1. ~Between' /\ Fetched' = target /\ Fetched = target
  BY DEF Between, Fetched
<1>2. \A e : Known(e)' = Known(e)
  BY <1>1 DEF Known
<1>3. GitInv' /\ StateInv'
  BY <1>1 DEF DeployInv, GitInv, StateInv
<1>4. PassInv'
  BY <1>1 DEF PassInv, Planned, Deploying
<1>5. SavedInv'
  BY <1>2 DEF DeployInv, SavedInv, NothingDiscarded, Planned
<1>6. ScannedInv'
  BY DEF DeployInv, ScannedInv, OnlyScannedIsPushed, Planned
<1> QED BY <1>3, <1>4, <1>5, <1>6 DEF DeployInv

LEMMA ResetPreserves ==
    ASSUME DeployInv, Reset
    PROVE  DeployInv'
<1>1. ~Between /\ target \in 1..Len(main)
  BY TargetFacts DEF Reset, Between
<1>2. checkout' \in Checkouts /\ checkout'.base = target
  <2>1. checkout' = [checkout EXCEPT !.base = target, !.local = {}, !.dirty = {}]
    BY DEF Reset
  <2>2. checkout \in Checkouts /\ target \in Nat /\ {} \in SUBSET Edits
    BY <1>1 DEF DeployInv, GitInv, StateInv
  <2> QED BY <2>1, <2>2 DEF Checkouts
<1>3. pc' \in Points \ (Planned \cup {"idle", "later"} \cup Deploying)
  BY PointsAre DEF Reset, Planned, Deploying
<1> QED BY <1>1, <1>2, <1>3, OnlyCheckout DEF Reset

LEMMA FastForwardPreserves ==
    ASSUME DeployInv, FastForward
    PROVE  DeployInv'
<1>1. pc = "forward" /\ UNCHANGED <<main, prs, rescue, plan, target>>
  BY DEF FastForward, Goes
<1>2. ~Between /\ target \in 1..Len(main) /\ Fetched = target
  BY <1>1, TargetFacts DEF Between
<1>3. CASE checkout.local = {}
  <2>1. pc' = "build" /\ checkout' = [checkout EXCEPT !.base = target]
    BY <1>3 DEF FastForward, Goes
  <2>2. /\ checkout' \in Checkouts /\ checkout'.base = target
        /\ checkout'.onMain = checkout.onMain
        /\ checkout'.local = checkout.local /\ checkout'.dirty = checkout.dirty
    BY <1>2, <2>1 DEF DeployInv, GitInv, Checkouts
  <2>3. checkout'.onMain /\ Changes' = {}
    BY <1>1, <2>2 DEF DeployInv, PassInv, Deploying, Changes
  <2>4. pc' \in Points \ (Planned \cup {"idle", "later"})
    BY <2>1, PointsAre DEF Planned
  <2> QED BY <1>1, <1>2, <2>2, <2>3, <2>4, OnlyCheckout
<1>4. CASE checkout.local # {}
  <2>1. pc' = "failed" /\ checkout' = checkout
    BY <1>4 DEF FastForward, Goes
  <2>2. pc' \in Points \ (Planned \cup {"idle", "later"}) /\ pc' \notin Deploying
    BY <2>1, PointsAre DEF Planned, Deploying
  <2> QED BY <1>1, <1>2, <2>1, <2>2, OnlyCheckout DEF DeployInv, GitInv, PassInv
<1> QED BY <1>3, <1>4

-----------------------------------------------------------------------------
(* People and the world. *)

\* Work on the checkout that stays on a content origin/main has.
LEMMA OnlyWorks ==
    ASSUME DeployInv, UNCHANGED <<rescue, plan, pc, target>>,
           pc \in {"idle", "compare", "push", "open"},
           NEW c \in Checkouts, Work(c),
           c.base = checkout.base \/ (pc = "idle" /\ c.base = Len(main))
    PROVE  DeployInv'
<1>1. checkout' = c /\ UNCHANGED <<main, prs>>
  BY DEF Work
<1>2. checkout'.base \in 1..Fetched'
  BY <1>1 DEF DeployInv, GitInv, StateInv, PassInv, Fetched, Between
<1>3. OnlyScannedIsPushed'
  BY <1>1 DEF DeployInv, ScannedInv, OnlyScannedIsPushed
<1> QED BY <1>1, <1>2, <1>3, OnlyOthers DEF DeployInv, GitInv

\* Pull requests that are reviewed, or opened, by people: what a pass pushed
\* stays what it pushed.
LEMMA OnlyReviews ==
    ASSUME DeployInv, UNCHANGED <<rescue, plan, pc, target, checkout>>,
           pc \in {"idle", "compare", "push", "open"},
           main' \in Seq(SUBSET Edits), Len(main') >= Len(main),
           \A i \in 1..Len(main) : main'[i] = main[i],
           NEW n \in 1..Len(prs), NEW pr \in PullRequests,
           pr.kind = prs[n].kind, pr.commit = prs[n].commit, pr.status # "none",
           prs' = [prs EXCEPT ![n] = pr]
    PROVE  DeployInv'
<1>1. prs \in Seq(PullRequests) /\ Len(prs) \in Nat
  BY DEF DeployInv, GitInv
<1>2. /\ prs' \in Seq(PullRequests) /\ Len(prs') = Len(prs)
      /\ \A k \in 1..Len(prs) : prs'[k] = IF k = n THEN pr ELSE prs[k]
  BY <1>1
<1>3. \A k \in 1..Len(prs) : prs[k].status # "none" => prs'[k].status # "none"
  BY <1>2
<1>4. OnlyScannedIsPushed'
  BY <1>1, <1>2 DEF DeployInv, ScannedInv, OnlyScannedIsPushed
<1>5. checkout'.base \in 1..Fetched'
  <2>1. Fetched \in Nat /\ Fetched' \in Nat /\ Fetched <= Fetched'
    BY DEF DeployInv, GitInv, StateInv, Fetched, Between
  <2>2. checkout.base \in 1..Fetched
    BY DEF DeployInv, PassInv
  <2> QED BY <2>1, <2>2
<1> QED BY <1>1, <1>2, <1>3, <1>4, <1>5, OnlyOthers DEF DeployInv, GitInv

\* origin/main moves on.
LEMMA OneMore ==
    ASSUME DeployInv, NEW to \in SUBSET Edits
    PROVE  LET more == Append(main, to)
           IN  /\ more \in Seq(SUBSET Edits) /\ Len(more) = Len(main) + 1
               /\ Len(more) >= Len(main)
               /\ \A i \in 1..Len(main) : more[i] = main[i]
BY DEF DeployInv, GitInv

LEMMA PeoplePreserve ==
    ASSUME DeployInv, People
    PROVE  DeployInv'
<1>1. pc \in {"idle", "compare", "push", "open"} /\ UNCHANGED <<rescue, plan, pc, target>>
  BY PeopleAssumption DEF People
<1>2. checkout \in Checkouts /\ Changes \subseteq Edits
  BY CheckoutFacts DEF DeployInv, GitInv
<1>3. ASSUME NEW e \in Edits, Edit(e)
      PROVE  DeployInv'
  <2>1. PICK c \in Checkouts : c = [checkout EXCEPT !.dirty = @ \cup {e}]
    BY <1>2 DEF Checkouts
  <2>2. c.base = checkout.base
    BY <1>2, <2>1 DEF Checkouts
  <2> QED BY <1>1, <1>3, <2>1, <2>2, OnlyWorks DEF Edit
<1>4. CASE CommitLocally
  <2>1. PICK c \in Checkouts : c = [checkout EXCEPT !.local = Changes, !.dirty = {}]
    BY <1>2 DEF Checkouts
  <2>2. c.base = checkout.base
    BY <1>2, <2>1 DEF Checkouts
  <2> QED BY <1>1, <1>4, <2>1, <2>2, OnlyWorks DEF CommitLocally
<1>5. CASE OpenFromHere
  <2>1. HeadCommit \in AnyCommit
    BY <1>2 DEF HeadCommit, AnyCommit, Checkouts
  <2>2. PICK pr \in PullRequests : pr = PullRequest("people", HeadCommit, "OPEN")
    BY <2>1 DEF PullRequest, PullRequests
  <2>3. pr.kind = "people"
    BY <2>2 DEF PullRequest
  <2>4. prs' = Append(prs, pr) /\ UNCHANGED <<main, checkout>>
    BY <1>5, <2>2 DEF OpenFromHere
  <2>5. prs \in Seq(PullRequests) /\ Len(prs) \in Nat
    BY DEF DeployInv, GitInv
  <2>6. /\ prs' \in Seq(PullRequests) /\ Len(prs') = Len(prs) + 1
        /\ \A k \in 1..Len(prs) : prs'[k] = prs[k]
        /\ prs'[Len(prs) + 1] = pr
    BY <2>4, <2>5
  <2>7. OnlyScannedIsPushed'
    BY <2>3, <2>5, <2>6 DEF DeployInv, ScannedInv, OnlyScannedIsPushed
  <2>8. checkout'.base \in 1..Fetched'
    BY <1>1, <2>4 DEF DeployInv, PassInv, Fetched, Between
  <2> QED BY <1>1, <1>2, <2>4, <2>5, <2>6, <2>7, <2>8, OnlyOthers DEF DeployInv, GitInv
<1>6. ASSUME NEW n \in DOMAIN prs, Merge(n) \/ Close(n) \/ PushFix(n) \/ Rewrite(n)
      PROVE  DeployInv'
  <2>1. n \in 1..Len(prs) /\ prs[n] \in PullRequests /\ UNCHANGED checkout
    BY <1>6, PullRequestFacts DEF DeployInv, GitInv, Merge, Close, PushFix, Rewrite, Review
  <2>2. prs[n].status = "OPEN"
    BY <1>6 DEF Merge, Close, PushFix, Rewrite
  <2>3. CASE Merge(n)
    <3>1. PICK pr \in PullRequests : pr = [prs[n] EXCEPT !.status = "MERGED"]
      BY <2>1 DEF PullRequests
    <3>2. pr.kind = prs[n].kind /\ pr.commit = prs[n].commit /\ pr.status = "MERGED"
      BY <2>1, <3>1 DEF PullRequests
    <3>3. PICK to \in SUBSET Edits : to = main[Len(main)] \cup prs[n].commit.adds
      <4>1. prs[n].commit.adds \subseteq Edits
        BY <2>1, PullRequestFacts DEF AnyCommit
      <4>2. main[Len(main)] \subseteq Edits
        BY DEF DeployInv, GitInv
      <4> QED BY <4>1, <4>2
    <3>4. prs' = [prs EXCEPT ![n] = pr] /\ main' = Append(main, to)
      BY <2>3, <3>1, <3>3 DEF Merge
    <3> QED BY <1>1, <2>1, <3>2, <3>4, OneMore, OnlyReviews
  <2>4. CASE Close(n)
    <3>1. PICK pr \in PullRequests : pr = [prs[n] EXCEPT !.status = "CLOSED"]
      BY <2>1 DEF PullRequests
    <3>2. pr.kind = prs[n].kind /\ pr.commit = prs[n].commit /\ pr.status = "CLOSED"
      BY <2>1, <3>1 DEF PullRequests
    <3>3. main' = main /\ prs' = [prs EXCEPT ![n] = pr]
      BY <2>4, <3>1 DEF Close, Review
    <3>4. main' \in Seq(SUBSET Edits) /\ Len(main') >= Len(main)
          /\ \A i \in 1..Len(main) : main'[i] = main[i]
      BY <3>3 DEF DeployInv, GitInv
    <3> QED BY <1>1, <2>1, <3>2, <3>3, <3>4, OnlyReviews
  <2>5. ASSUME NEW head \in {"fixed", "rewritten"},
               Review(n, [prs[n] EXCEPT !.head = head])
        PROVE  DeployInv'
    <3>1. PICK pr \in PullRequests : pr = [prs[n] EXCEPT !.head = head]
      BY <2>1 DEF PullRequests
    <3>2. pr.kind = prs[n].kind /\ pr.commit = prs[n].commit /\ pr.status = prs[n].status
      BY <2>1, <3>1 DEF PullRequests
    <3>3. main' = main /\ prs' = [prs EXCEPT ![n] = pr]
      BY <2>5, <3>1 DEF Review
    <3>4. main' \in Seq(SUBSET Edits) /\ Len(main') >= Len(main)
          /\ \A i \in 1..Len(main) : main'[i] = main[i]
      BY <3>3 DEF DeployInv, GitInv
    <3> QED BY <1>1, <2>1, <2>2, <3>2, <3>3, <3>4, OnlyReviews
  <2> QED BY <1>6, <2>3, <2>4, <2>5 DEF PushFix, Rewrite
<1>7. ASSUME pc = "idle", (\E e \in Edits : Undo(e)) \/ CleanUp \/ SwitchBranch
      PROVE  DeployInv'
  <2>1. ASSUME NEW e \in Edits, Undo(e)
        PROVE  DeployInv'
    <3>1. PICK c \in Checkouts : c = [checkout EXCEPT !.dirty = @ \ {e}]
      BY <1>2 DEF Checkouts
    <3>2. c.base = checkout.base
      BY <1>2, <3>1 DEF Checkouts
    <3> QED BY <1>1, <2>1, <3>1, <3>2, OnlyWorks DEF Undo
  <2>2. CASE CleanUp
    <3>1. Len(main) \in Nat /\ {} \in SUBSET Edits
      BY DEF DeployInv, GitInv
    <3>2. PICK c \in Checkouts :
             c = [checkout EXCEPT !.base = Len(main), !.local = {}, !.dirty = {}]
      BY <1>2, <3>1 DEF Checkouts
    <3>3. c.base = Len(main)
      BY <1>2, <3>2 DEF Checkouts
    <3> QED BY <1>1, <1>7, <2>2, <3>2, <3>3, OnlyWorks DEF CleanUp
  <2>3. CASE SwitchBranch
    <3>1. PICK c \in Checkouts : c = [checkout EXCEPT !.onMain = ~@]
      BY <1>2 DEF Checkouts
    <3>2. c.base = checkout.base
      BY <1>2, <3>1 DEF Checkouts
    <3> QED BY <1>1, <2>3, <3>1, <3>2, OnlyWorks DEF SwitchBranch
  <2> QED BY <1>7, <2>1, <2>2, <2>3
<1> QED BY <1>3, <1>4, <1>5, <1>6, <1>7 DEF People

LEMMA WorldPreserves ==
    ASSUME DeployInv, World
    PROVE  DeployInv'
<1>1. pc = "idle" /\ UNCHANGED <<rescue, plan, pc, target, checkout, prs>>
  BY DEF World, Upstream, MainMoves
<1>2. PICK to \in SUBSET Edits : main' = Append(main, to)
  <2>1. main[Len(main)] \subseteq Edits
    BY DEF DeployInv, GitInv
  <2> QED BY <2>1 DEF World, Upstream, MainMoves
<1>3. checkout'.base \in 1..Fetched'
  <2>1. Fetched \in Nat /\ Fetched' \in Nat /\ Fetched <= Fetched'
    BY <1>1, <1>2, OneMore DEF DeployInv, GitInv, StateInv, Fetched, Between
  <2>2. checkout.base \in 1..Fetched
    BY DEF DeployInv, PassInv
  <2> QED BY <1>1, <2>1, <2>2
<1>4. OnlyScannedIsPushed'
  BY <1>1 DEF DeployInv, ScannedInv, OnlyScannedIsPushed
<1> QED BY <1>1, <1>2, <1>3, <1>4, OneMore, OnlyOthers DEF DeployInv, GitInv

-----------------------------------------------------------------------------
(* The pass's other steps, which leave git alone. *)

LEMMA LookPreserves ==
    ASSUME DeployInv, Look
    PROVE  DeployInv'
<1>1. pc = "look" /\ UNCHANGED <<main, checkout, prs, plan, target>>
      /\ rescue' \in {rescue, NoRescue}
  BY DEF Look
<1>2. ~Between
  BY <1>1 DEF Between
<1>3. /\ pc' \in {"compare", "held", "gates"}
      /\ pc' = "gates" => checkout.onMain /\ Changes = {}
  BY DEF Look, Hold, HasLocalChanges
<1>4. pc' \in Points \ Planned
  BY <1>3, PointsAre DEF Planned
<1> QED BY <1>1, <1>2, <1>3, <1>4, OnlyMoves DEF Deploying

LEMMA ClearPreserves ==
    ASSUME DeployInv, Clear
    PROVE  DeployInv'
<1>1. pc = "clear" /\ UNCHANGED <<main, checkout, prs, plan, target>> /\ rescue' = NoRescue
  BY DEF Clear
<1>2. ~Between
  BY <1>1 DEF Between
<1>3. /\ pc' \in {"held", "gates"}
      /\ pc' = "gates" => checkout.onMain /\ Changes = {}
  BY DEF Clear, Hold, CheckoutProblem
<1>4. pc' \in Points \ Planned
  BY <1>3, PointsAre DEF Planned
<1> QED BY <1>1, <1>2, <1>3, <1>4, OnlyMoves DEF Deploying

\* What a pass does besides its rescue: it goes on from where it relies on the
\* checkout, or holds, or ends.
LEMMA PassMoves ==
    ASSUME DeployInv,
           Fetch \/ Lift \/ Gates \/ Held \/ PauseAgent \/ RecordDrain \/ Build \/ Recheck
             \/ Apply \/ Fails \/ Finish \/ Unknown \/ Killed \/ Later
    PROVE  DeployInv'
<1>1. UNCHANGED gitVars
  BY DEF Fetch, Lift, Gates, Held, PauseAgent, RecordDrain, Build, Recheck, Apply, Fails,
         Finish, Unknown, Killed, Later
<1>2. CASE Ends
  <2>1. pc' \in Points \ Planned /\ pc' = "idle" /\ target' = 0 /\ plan' = NoPlan
    BY <1>2, PointsAre DEF Ends, Planned
  <2> QED BY <1>1, <2>1, OnlyMoves DEF gitVars, Deploying
<1>3. CASE Fetch
  <2>1. pc' \in {"lift", "look"} /\ Between /\ target' = Len(main) /\ plan' = plan
    BY <1>3 DEF Fetch, Between
  <2>2. pc' \in Points \ Planned
    BY <2>1, PointsAre DEF Planned
  <2> QED BY <1>1, <2>1, <2>2, OnlyMoves DEF gitVars, Deploying
<1>4. CASE Later
  <2>1. pc = "idle" /\ pc' = "later" /\ target' = target /\ plan' = plan
    BY <1>4 DEF Later
  <2>2. target = 0
    BY <2>1 DEF DeployInv, StateInv, Between
  <2>3. pc' \in Points \ Planned
    BY <2>1, PointsAre DEF Planned
  <2> QED BY <1>1, <2>1, <2>2, <2>3, OnlyMoves DEF gitVars, Deploying
<1>5. ASSUME ~Between, UNCHANGED <<target, plan>>,
             pc' \in {"held", "failed", "pausing", "forward", "recheck", "apply", "done"},
             pc' = "forward" => pc \in Deploying,
             pc' \in {"recheck", "apply"} => pc \in {"build", "recheck"}
      PROVE  DeployInv'
  <2>1. pc' \in Points \ Planned
    BY <1>5, PointsAre DEF Planned
  <2>2. pc' \in Deploying => checkout.onMain /\ Changes = {}
    BY <1>5 DEF DeployInv, PassInv, Deploying
  <2>3. pc' \in {"build", "recheck", "apply"} => checkout.base = target'
    BY <1>5 DEF DeployInv, PassInv
  <2> QED BY <1>1, <1>5, <2>1, <2>2, <2>3, OnlyMoves DEF gitVars
<1>6. CASE Gates
  <2>1. pc = "gates" /\ pc' \in {"forward", "held"} /\ UNCHANGED <<target, plan>>
    BY <1>6 DEF Gates, Hold
  <2> QED BY <1>5, <2>1 DEF Between, Deploying
<1>7. CASE PauseAgent
  <2>1. pc = "held" /\ pc' = "pausing" /\ UNCHANGED <<target, plan>>
    BY <1>7 DEF PauseAgent
  <2> QED BY <1>5, <2>1 DEF Between
<1>8. CASE Build \/ Recheck
  <2>1. CASE Ends
    BY <1>2, <2>1
  <2>2. CASE ~Ends
    <3>1. pc \in {"build", "recheck"} /\ pc' \in {"recheck", "apply"}
          /\ UNCHANGED <<target, plan>>
      BY <1>8, <2>2 DEF Build, Recheck, Goes
    <3> QED BY <1>5, <3>1 DEF Between
  <2> QED BY <2>1, <2>2
<1>9. CASE Apply \/ Fails
  <2>1. CASE Ends
    BY <1>2, <2>1
  <2>2. CASE ~Ends
    <3>1. pc \in {"build", "apply"} /\ pc' \in {"done", "failed"} /\ UNCHANGED <<target, plan>>
      BY <1>9, <2>2 DEF Apply, Fails, Goes
    <3> QED BY <1>5, <3>1 DEF Between
  <2> QED BY <2>1, <2>2
<1>10. CASE Unknown
  <2>1. pc \in RescuePoints \cup {"gates"} /\ pc' = "held" /\ UNCHANGED <<target, plan>>
    BY <1>10 DEF Unknown, Hold
  <2> QED BY <1>5, <2>1 DEF Between, RescuePoints
<1>11. CASE Lift \/ Held \/ RecordDrain \/ Finish \/ Killed
  BY <1>2, <1>11 DEF Lift, Held, RecordDrain, Finish, Killed
<1> QED BY <1>3, <1>4, <1>6, <1>7, <1>8, <1>9, <1>10, <1>11

-----------------------------------------------------------------------------
(* The theorems. *)

LEMMA InitHolds ==
    Init => DeployInv
<1> SUFFICES ASSUME Init PROVE DeployInv
  OBVIOUS
<1>1. main = <<{}>> /\ Len(main) = 1 /\ main \in Seq(SUBSET Edits) /\ prs = <<>>
      /\ Len(prs) = 0 /\ prs \in Seq(PullRequests)
  BY DEF Init, RescueInit
<1>2. /\ checkout = [base |-> 1, local |-> {}, dirty |-> {}, onMain |-> TRUE]
      /\ rescue = NoRescue /\ plan = NoPlan /\ pc = "idle" /\ target = 0
  BY DEF Init, RescueInit
<1>3. checkout \in Checkouts /\ checkout.base = 1
  BY <1>2 DEF Checkouts
<1>4. StateInv
  BY <1>1, <1>2, Defaults, PointsAre DEF StateInv, Between
<1>5. PassInv
  BY <1>1, <1>2, <1>3 DEF PassInv, Deploying, Fetched, Between
<1>6. SavedInv
  BY <1>2, Defaults DEF SavedInv, NothingDiscarded
<1>7. ScannedInv
  BY <1>1, <1>2 DEF ScannedInv, OnlyScannedIsPushed
<1> QED BY <1>1, <1>3, <1>4, <1>5, <1>6, <1>7 DEF DeployInv, GitInv

LEMMA StepHolds ==
    DeployInv /\ [Next]_vars => DeployInv'
<1> SUFFICES ASSUME DeployInv, [Next]_vars PROVE DeployInv'
  OBVIOUS
<1>1. CASE UNCHANGED <<rescueVars, passVars>>
  BY <1>1 DEF DeployInv, GitInv, StateInv, PassInv, SavedInv, ScannedInv, Between, Fetched,
              Known, Changes, ReplayedTree, PlannedCommit, NothingDiscarded, Keeps,
              OnlyScannedIsPushed, rescueVars, passVars
<1>2. UNCHANGED vars => UNCHANGED <<rescueVars, passVars>>
  BY DEF vars
<1>3. OthersAct => UNCHANGED <<rescueVars, passVars>>
  BY DEF OthersAct, Outside
<1>4. RescuePass => DeployInv'
  BY LookPreserves, ComparePreserves, JudgePreserves, PushPreserves, RecordPreserves,
     OpenPreserves, SavePrPreserves, ResetPreserves, ClearPreserves DEF RescuePass
<1>5. Pass \/ Unknown \/ Killed \/ Fails \/ Later => DeployInv'
  BY <1>4, PassMoves, FastForwardPreserves DEF Pass, Git
<1>6. Git(Settle) \/ Git(People) \/ Git(World) => DeployInv'
  BY SettlePreserves, PeoplePreserve, WorldPreserves DEF Git
<1> QED BY <1>1, <1>2, <1>3, <1>5, <1>6 DEF Next

\* Whatever a pass relies on at a point of it holds there.
THEOREM DeployInvariant == Spec => []DeployInv
BY InitHolds, StepHolds, PTL DEF Spec

\* Whatever a pass resets away is in the history of origin/main or of a pull
\* request (_rescue, _back_on_target).
THEOREM RescuedNeverDiscarded == Spec => []NothingDiscarded
<1>1. DeployInv => NothingDiscarded
  BY DEF DeployInv, SavedInv
<1> QED BY <1>1, DeployInvariant, PTL

\* What a deploy applies is the commit it deploys (run_once).
THEOREM MergedIsApplied == Spec => []AppliedIsMerged
<1>1. DeployInv => AppliedIsMerged
  BY DEF DeployInv, PassInv, Deploying, AppliedIsMerged
<1> QED BY <1>1, DeployInvariant, PTL

\* Nothing the scanner flags is in a branch a pass pushed (secret_findings).
THEOREM SecretsStay == Spec => []OnlyScannedIsPushed
<1>1. DeployInv => OnlyScannedIsPushed
  BY DEF DeployInv, ScannedInv
<1> QED BY <1>1, DeployInvariant, PTL

\* No push of a pass moves a branch someone else pushed to (push_branch).
THEOREM ReviewRoundsAreKept == Spec => ReviewKept
<1>1. ASSUME DeployInv, [Next]_vars
      PROVE  [Git(Push) => \A n \in DOMAIN prs : prs[n].head # "pushed" => prs'[n] = prs[n]]_vars
  <2> SUFFICES ASSUME Push, NEW n \in DOMAIN prs, prs[n].head # "pushed"
               PROVE  prs'[n] = prs[n]
    BY DEF Git
  <2>1. prs \in Seq(PullRequests)
    BY <1>1 DEF DeployInv, GitInv
  <2>2. CASE plan.reuse /\ prs[rescue.branch].status = "OPEN"
    <3>1. n # rescue.branch
      BY <2>2 DEF Push, HeadIs
    <3> QED BY <2>1, <2>2, <3>1 DEF Push
  <2>3. CASE ~(plan.reuse /\ prs[rescue.branch].status = "OPEN")
    <3>1. \E pr : prs' = Append(prs, pr)
      BY <2>3 DEF Push
    <3> QED BY <2>1, <3>1
  <2> QED BY <2>2, <2>3
<1> QED BY <1>1, DeployInvariant, PTL DEF Spec, ReviewKept

-----------------------------------------------------------------------------
(* The type invariant.  That a recorded branch comes with a recorded tree    *)
(* holds since a pass has seen a tree before it pushes it.                   *)

BoundsInv ==
    /\ Len(main) <= MaxMain /\ Len(prs) <= MaxPrs
    /\ deployed \in 0..Len(main) /\ failed \in 0..Len(main)

RecordedInv ==
    /\ rescue.branch # 0 => rescue.commit \in Commit /\ rescue.kept # NoTree
    /\ pc \in {"push", "pushed", "open", "opened"} => rescue.tree # NoTree

Drains == [since : 0..3, reclaimed : BOOLEAN, abandoned : Nat]
DrainInv == pause \in {"none", "deploy", "operator"} /\ drain \in Drains

TypeInv == BoundsInv /\ RecordedInv /\ DrainInv

\* Every step that adds to origin/main or to the pull requests is bounded.
LEMMA SizesStep ==
    ASSUME DeployInv, [Next]_vars
    PROVE  /\ main' = main \/ (Len(main') = Len(main) + 1 /\ Len(main) < MaxMain)
           /\ Len(prs') = Len(prs) \/ (Len(prs') = Len(prs) + 1 /\ Len(prs) < MaxPrs)
<1> DEFINE MainGrows == main' = main \/ (Len(main') = Len(main) + 1 /\ Len(main) < MaxMain)
           PrsGrow == Len(prs') = Len(prs) \/ (Len(prs') = Len(prs) + 1 /\ Len(prs) < MaxPrs)
<1> SUFFICES MainGrows /\ PrsGrow
  OBVIOUS
<1>1. main \in Seq(SUBSET Edits) /\ prs \in Seq(PullRequests)
  BY DEF DeployInv, GitInv
<1>2. \A n, pr : prs' = [prs EXCEPT ![n] = pr] => PrsGrow
  BY <1>1
<1>3. \A pr : prs' = Append(prs, pr) /\ Len(prs) < MaxPrs => PrsGrow
  BY <1>1
<1>4. \A to : main' = Append(main, to) /\ Len(main) < MaxMain => MainGrows
  BY <1>1
<1>5. prs' = prs => PrsGrow
  OBVIOUS
<1>6. main' = main => MainGrows
  OBVIOUS
<1> HIDE DEF MainGrows, PrsGrow
<1>7. CASE UNCHANGED <<main, prs>>
  BY <1>5, <1>6, <1>7
<1>8. CASE Push
  BY <1>2, <1>3, <1>6, <1>8 DEF Push
<1>9. CASE Open
  BY <1>2, <1>3, <1>6, <1>9 DEF Open
<1>10. CASE People
  <2>1. CASE OpenFromHere
    BY <1>3, <1>6, <2>1 DEF OpenFromHere
  <2>2. CASE \E n \in DOMAIN prs : Merge(n)
    BY <1>2, <1>4, <2>2 DEF Merge
  <2>3. CASE \E n \in DOMAIN prs : Close(n) \/ PushFix(n) \/ Rewrite(n)
    BY <1>2, <1>6, <2>3 DEF Close, PushFix, Rewrite, Review
  <2>4. CASE ~OpenFromHere /\ ~\E n \in DOMAIN prs : Merge(n) \/ Close(n) \/ PushFix(n)
                                                     \/ Rewrite(n)
    <3>1. UNCHANGED <<main, prs>>
      BY <1>10, <2>4 DEF People, Edit, CommitLocally, Undo, CleanUp, SwitchBranch, Work
    <3> QED BY <1>7, <3>1
  <2> QED BY <2>1, <2>2, <2>3, <2>4
<1>11. CASE World
  BY <1>4, <1>5, <1>11 DEF World, Upstream, MainMoves
<1>12. CASE Pass /\ ~Git(RescuePass)
  BY <1>7, <1>12 DEF Pass, Fetch, Lift, Gates, Held, PauseAgent, RecordDrain, FastForward,
                     Build, Recheck, Apply, Finish, gitVars
<1>13. CASE RescuePass /\ ~Push /\ ~Open
  BY <1>7, <1>13 DEF RescuePass, Look, Compare, Judge, Record, SavePr, Reset, Clear
<1>14. CASE Unknown \/ Killed \/ Fails \/ Later \/ OthersAct \/ UNCHANGED vars
  BY <1>7, <1>14 DEF Unknown, Killed, Fails, Later, OthersAct, Outside, gitVars, vars,
                     rescueVars
<1>15. CASE Settle
  BY <1>7, <1>15 DEF Settle
<1>16. Git(RescuePass) \/ Git(Settle) \/ Git(People) \/ Git(World) => MainGrows /\ PrsGrow
  BY <1>8, <1>9, <1>10, <1>11, <1>13, <1>15 DEF Git
<1> QED BY <1>12, <1>14, <1>16 DEF Next

LEMMA BoundsStep ==
    ASSUME DeployInv, BoundsInv, [Next]_vars
    PROVE  BoundsInv'
<1>1. Len(main) \in Nat /\ Len(prs) \in Nat /\ target \in 0..Len(main)
  BY DEF DeployInv, GitInv, StateInv
<1>2. /\ Len(main') \in Nat /\ Len(main) <= Len(main') /\ Len(main') <= MaxMain
      /\ Len(prs') <= MaxPrs
  BY <1>1, SizesStep, EditsAssumption DEF BoundsInv
<1>3. deployed' \in {0, deployed, target} /\ failed' \in {0, failed, target}
  <2>1. CASE Finish
    BY <2>1 DEF Finish
  <2>2. CASE ~Finish
    <3>1. UNCHANGED resultVars
      BY <2>2 DEF Next, Pass, Fetch, Lift, Gates, Held, PauseAgent, RecordDrain, FastForward,
                  Build, Recheck, Apply, Unknown, Killed, Fails, Later, OthersAct, Outside,
                  Git, vars
    <3> QED BY <3>1 DEF resultVars
  <2> QED BY <2>1, <2>2
<1> QED BY <1>1, <1>2, <1>3 DEF BoundsInv

LEMMA RecordedStep ==
    ASSUME DeployInv, BoundsInv, RecordedInv, [Next]_vars
    PROVE  RecordedInv'
<1>1. LocalTree # NoTree
  BY CheckoutFacts
<1>2. CASE UNCHANGED rescue /\ (pc' \notin {"push", "pushed", "open", "opened"} \/ pc' = pc
                                \/ (pc \in {"push", "open"} /\ pc' \in {"pushed", "opened"}))
  BY <1>2 DEF RecordedInv
<1>3. CASE rescue' = NoRescue /\ pc' \notin {"push", "pushed", "open", "opened"}
  BY <1>3, Defaults DEF RecordedInv
<1>4. CASE Judge
  <2>1. /\ rescue'.branch = rescue.branch /\ rescue'.commit = rescue.commit
        /\ rescue'.kept = rescue.kept
        /\ pc' \in {"push", "pushed", "open", "opened"} => rescue'.tree = LocalTree
    <3>1. CASE Owned
      BY <3>1 DEF Owned, Hold
    <3>2. CASE Kept
      BY <3>2, SeenFacts DEF Kept
    <3>3. CASE New
      <4>1. <<LocalTree, target>> \in Trees \X Nat
        BY CheckoutFacts DEF Trees, DeployInv, GitInv, StateInv
      <4> QED BY <3>3, <4>1, SeenFacts DEF New
    <3> QED BY <1>4, <3>1, <3>2, <3>3 DEF Judge
  <2> QED BY <1>1, <2>1 DEF RecordedInv
<1>5. CASE Record
  <2>1. target \in 1..Len(main) /\ plan.tree \subseteq Edits /\ pc = "pushed"
    BY <1>5, TargetFacts, PlanFacts DEF Record, Between
  <2>2. PlannedCommit \in Commit
    BY <2>1, EditsAssumption DEF PlannedCommit, Commit, BoundsInv, DeployInv, GitInv
  <2>3. rescue.tree # NoTree
    BY <2>1 DEF RecordedInv
  <2>4. /\ rescue'.commit = PlannedCommit /\ rescue'.kept = rescue.tree
        /\ rescue'.tree = rescue.tree
    BY <1>5 DEF Record, DeployInv, StateInv, Rescues
  <2> QED BY <2>2, <2>3, <2>4 DEF RecordedInv
<1>6. CASE Open
  <2>1. /\ pc = "open" /\ rescue'.commit = rescue.commit /\ rescue'.kept = rescue.kept
        /\ rescue'.tree = rescue.tree
    BY <1>6 DEF Open, DeployInv, StateInv, Rescues
  <2>2. rescue.branch # 0
    BY <2>1 DEF DeployInv, PassInv
  <2> QED BY <2>1, <2>2 DEF RecordedInv
<1>7. CASE SavePr \/ Settle
  <2>1. /\ rescue'.commit = rescue.commit /\ rescue'.kept = rescue.kept
        /\ rescue'.branch = rescue.branch
        /\ pc' \in {"held", "idle"}
    BY <1>7 DEF SavePr, Settle, Hold, DeployInv, StateInv, Rescues
  <2> QED BY <2>1 DEF RecordedInv
<1>8. CASE Look \/ Compare \/ Push \/ Reset \/ Clear
  BY <1>2, <1>3, <1>8 DEF Look, Compare, Push, Reset, Clear, Hold
<1>9. CASE Pass /\ ~Git(RescuePass)
  BY <1>2, <1>9 DEF Pass, Fetch, Lift, Gates, Held, PauseAgent, RecordDrain, FastForward,
                     Build, Recheck, Apply, Finish, gitVars, Goes, Ends, Hold
<1>10. CASE Unknown \/ Killed \/ Fails \/ Later \/ OthersAct \/ UNCHANGED vars
  BY <1>2, <1>10 DEF Unknown, Killed, Fails, Later, OthersAct, Outside, gitVars, vars,
                     rescueVars, passVars, Goes, Ends, Hold
<1>11. CASE People \/ World
  BY <1>2, <1>11 DEF People, World
<1> QED BY <1>4, <1>5, <1>6, <1>7, <1>8, <1>9, <1>10, <1>11 DEF Next, Git, Pass, RescuePass

LEMMA DrainStep ==
    ASSUME DeployInv, DrainInv, [Next]_vars
    PROVE  DrainInv'
<1>1. CASE UNCHANGED <<pause, drain>>
  BY <1>1 DEF DrainInv
<1>2. ASSUME NEW tip \in Nat, ReleaseDrain(tip) \/ KeepDrain(tip)
      PROVE  DrainInv'
  <2>1. CASE ReleaseDrain(tip)
    <3>1. drain' = [since |-> 0, reclaimed |-> FALSE, abandoned |-> tip]
      BY <2>1 DEF ReleaseDrain, Undrained, NoDrain
    <3>2. drain' \in Drains
      BY <3>1 DEF Drains
    <3> QED BY <2>1, <3>2 DEF DrainInv, ReleaseDrain, Lifted
  <2>2. CASE KeepDrain(tip)
    <3>1. drain' = [drain EXCEPT !.abandoned = tip] /\ pause' = pause /\ drain \in Drains
      BY <2>2 DEF DrainInv, KeepDrain
    <3>2. drain' \in Drains
      BY <3>1 DEF Drains
    <3> QED BY <3>1, <3>2 DEF DrainInv
  <2> QED BY <1>2, <2>1, <2>2
<1>3. target \in Nat /\ drain.abandoned \in Nat
  BY DEF DeployInv, GitInv, StateInv, DrainInv, Drains
<1>4. CASE Lift \/ Finish
  BY <1>2, <1>3, <1>4 DEF Lift, Finish, Releases
<1>5. CASE Held
  <2>1. CASE ReleaseDrain(target) \/ KeepDrain(target)
    BY <1>2, <1>3, <2>1
  <2>2. CASE Reclaim
    BY <2>2 DEF Reclaim, DrainInv, Drains
  <2> QED BY <1>1, <1>5, <2>1, <2>2 DEF Held, Draining, DrainingUnread
<1>6. CASE PauseAgent
  BY <1>6 DEF PauseAgent, DrainInv
<1>7. CASE RecordDrain
  BY <1>7 DEF RecordDrain, DrainInv, Drains
<1>8. CASE Later
  <2>1. CASE drain.since \in {1, 2} /\ drain' = [drain EXCEPT !.since = @ + 1]
    <3>1. drain.since + 1 \in 0..3 /\ drain \in Drains
      BY <2>1 DEF DrainInv
    <3>2. drain' \in Drains
      BY <2>1, <3>1 DEF Drains
    <3> QED BY <1>8, <3>2 DEF DrainInv, Later
  <2> QED BY <1>1, <1>8, <2>1 DEF Later
<1>9. CASE OthersAct
  <2>1. CASE Outside(OperatorPauses)
    BY <2>1 DEF Outside, OperatorPauses, DrainInv
  <2>2. CASE ~Outside(OperatorPauses)
    BY <1>1, <1>9, <2>2 DEF OthersAct, Outside, AgentWorks, NewWork, EndWork, Lease,
                            AgentStops, AgentStarts
  <2> QED BY <2>1, <2>2
<1>10. CASE Git(RescuePass) \/ Git(Settle) \/ Git(People) \/ Git(World)
  BY <1>1, <1>10 DEF Git, drainVars
<1>11. CASE Fetch \/ Gates \/ FastForward \/ Build \/ Recheck \/ Apply \/ Unknown \/ Killed
            \/ Fails \/ UNCHANGED vars
  BY <1>1, <1>11 DEF Fetch, Gates, FastForward, Build, Recheck, Apply, Unknown, Killed,
                     Fails, vars, drainVars
<1> QED BY <1>4, <1>5, <1>6, <1>7, <1>8, <1>9, <1>10, <1>11 DEF Next, Pass

\* state.json and what a pass carries have their types, and the pull request
\* recorded is one that exists.
THEOREM DeployTypeCorrect == Spec => []TypeOK
<1>1. Init => TypeInv
  <2> SUFFICES ASSUME Init PROVE TypeInv
    OBVIOUS
  <2>1. main = <<{}>> /\ prs = <<>> /\ rescue = NoRescue /\ deployed = 0 /\ failed = 0
        /\ pc = "idle" /\ pause = "none" /\ drain = NoDrain
    BY DEF Init, RescueInit, DrainInit
  <2>2. BoundsInv
    BY <2>1, EditsAssumption DEF BoundsInv
  <2>3. RecordedInv
    BY <2>1, Defaults DEF RecordedInv
  <2>4. DrainInv
    BY <2>1 DEF DrainInv, NoDrain, Drains
  <2> QED BY <2>2, <2>3, <2>4 DEF TypeInv
<1>2. DeployInv /\ TypeInv /\ [Next]_vars => TypeInv'
  BY BoundsStep, RecordedStep, DrainStep DEF TypeInv
<1>3. DeployInv /\ TypeInv => TypeOK
  <2> SUFFICES ASSUME DeployInv, TypeInv PROVE TypeOK
    OBVIOUS
  <2>1. Len(main) \in 1..MaxMain /\ Len(prs) \in 0..MaxPrs /\ DOMAIN main = 1..Len(main)
        /\ DOMAIN prs = 1..Len(prs)
    BY EditsAssumption DEF TypeInv, BoundsInv, DeployInv, GitInv
  <2>2. {deployed, failed, target} \subseteq {0} \cup DOMAIN main
    BY <2>1 DEF TypeInv, BoundsInv, DeployInv, StateInv
  <2>3. rescue.pr \in {0, rescue.branch} \cup 1..rescue.branch
        /\ rescue.branch \in {0} \cup DOMAIN prs
    BY <2>1, RescueFacts DEF DeployInv, StateInv
  <2>4. pause \in {"none", "deploy", "operator"} /\ drain.since \in 0..3
    BY DEF TypeInv, DrainInv, Drains
  <2> QED BY <2>1, <2>2, <2>3, <2>4, CheckoutFacts DEF TypeOK, TypeInv, RecordedInv
<1> QED BY <1>1, <1>2, <1>3, DeployInvariant, PTL DEF Spec
=============================================================================
