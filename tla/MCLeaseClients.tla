--------------------------- MODULE MCLeaseClients ---------------------------
(***************************************************************************)
(* One gate, one wrapped run and one resident, each of which needs more    *)
(* than half of the card.                                                  *)
(***************************************************************************)
EXTENDS LeaseClients, TLC

CONSTANTS comfyui, lora, llm, first, second

MCJobs == {comfyui, lora}
MCVram == (comfyui :> 2) @@ (lora :> 2)
Symmetry == Permutations({first, second})

\* The resident's size does not change here.
MCInit == size = (llm :> 2) /\ Init
MCSpec == MCInit /\ [][Next]_vars /\ Fairness
=============================================================================
