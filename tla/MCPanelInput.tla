---------------------------- MODULE MCPanelInput ----------------------------
(* Two buttons: one bounces while the other moves.  One LED.                 *)
EXTENDS PanelInput
=============================================================================
