-------------------------------- MODULE MCPanel --------------------------------
(* A background panel, one in the foreground, and two --stop commands: enough    *)
(* for a crash, a clash over the port, a successor, and a stop racing a stop.    *)
EXTENDS Panel

CONSTANTS back, front

MCPanels == {back, front}
================================================================================
