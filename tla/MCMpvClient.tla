----------------------------- MODULE MCMpvClient -----------------------------
(* Two Stations, and calls and exits enough for a call to be under way when  *)
(* mpv exits, the next one to fall into the gap, and mpv to exit again.      *)
EXTENDS MpvClient
=============================================================================
