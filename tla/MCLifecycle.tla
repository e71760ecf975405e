---------------------------- MODULE MCLifecycle ----------------------------
(* An instance of Lifecycle for TLC. *)
EXTENDS Lifecycle

CONSTANTS side, vpn, owner

MCMembers == <<side, vpn>>
OneMember == <<side>>
=============================================================================
