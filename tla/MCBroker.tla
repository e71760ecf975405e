------------------------------ MODULE MCBroker -------------------------------
(***************************************************************************)
(* TLC instances of Broker: two API workers or one beside the lease loop   *)
(* and a verb, two residents on a card of three units, one request that    *)
(* evicts the smaller resident and one that evicts both.                   *)
(***************************************************************************)
EXTENDS Broker, TLC

CONSTANTS chat, voice, small, large, huge

MCResidents == {chat, voice}
MCJobs == {small, large, huge}
MCVram == [j \in MCJobs |-> CASE j = small -> 1 [] j = large -> 3 [] j = huge -> 4]
MCEst == [j \in MCJobs |-> 0]
MCRenders == {[r \in MCResidents |-> IF r = chat THEN 2 ELSE 1],
              [r \in MCResidents |-> 1]}

\* The instance for liveness: the request that evicts both residents.
MCOneJob == {large}
MCOneVram == [j \in MCOneJob |-> MCVram[j]]
MCOneEst == [j \in MCOneJob |-> 0]

Workers == Permutations(Api)
=============================================================================
