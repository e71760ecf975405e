---------------------------- MODULE MCScheduler -----------------------------
(***************************************************************************)
(* Scheduler on a small card: the values of its constants.                 *)
(* MCSchedulerLive runs the decisions of one process on it; Spec, under    *)
(* one render, adds saves and restarts.                                    *)
(***************************************************************************)
EXTENDS SchedulerLoops, TLC

CONSTANTS chat, render, train, huge, llm, embed

MCJobs == {chat, render, train, huge}
MCVram == [j \in {chat, render, train, huge} |->
             CASE j = chat -> 1 [] j = render -> 2 [] j = train -> 3 [] OTHER -> 5]
MCVramJobs == [j \in MCJobs |-> MCVram[j]]
MCEst == [j \in MCJobs |-> IF j = chat THEN 1 ELSE 0]
MCResidents == {llm, embed}
\* The first render, one that drops the embedder and grows the model past what a
\* running job leaves free, and one that shrinks the model.
MCRenders == {(llm :> 2) @@ (embed :> 1), (llm :> 3), (llm :> 1) @@ (embed :> 1)}

\* The instance with restarts: one render that fits the card.
MCFewJobs == {chat, render, train}
MCFewVram == [j \in MCFewJobs |-> MCVram[j]]
MCFewEst == [j \in MCFewJobs |-> IF j = chat THEN 1 ELSE 0]
MCOneRender == {(llm :> 2) @@ (embed :> 1)}
=============================================================================
