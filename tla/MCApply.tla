------------------------------ MODULE MCApply -------------------------------
\* Four services for TLC: the ops-controller, the GPU tenant with a declared
\* config bind, an edge service with a secret file and a member of its netns.
EXTENDS Apply

MCServices == {"ops", "chat", "edge", "side"}
MCReads == [s \in MCServices |->
    CASE s = "ops" -> {"tag"}
      [] s = "chat" -> {"model", "conf"}
      [] s = "edge" -> {"code", "secret"}
      [] OTHER -> {}]
MCOwner == [s \in {"side"} |-> "edge"]
MCScopes == {MCServices, {"ops", "edge"}}
=============================================================================
