------------------------------ MODULE MCDeploy ------------------------------
(* Instances of Deploy for TLC. *)
EXTENDS Deploy, TLC

CONSTANTS a, b

Nothing == {}
Clashing == {{a, b}}
\* Between passes, and in a pass until it has looked at the checkout, and from
\* then on as long as it only works on GitHub.
Anytime == {"idle", "compare", "push", "open"}
Never == {}

Symmetry == Permutations({a, b})
=============================================================================
