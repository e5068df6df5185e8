-------------------------- MODULE MCLibrespotClient --------------------------
(* One mode stands for both: each has its own event and its own button, and  *)
(* the replies carry the two together.                                       *)
EXTENDS LibrespotClient
=============================================================================
