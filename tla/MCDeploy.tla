------------------------------ MODULE MCDeploy ------------------------------
(* Deploy with one engine of somebody else, three attempts or rounds and two  *)
(* polls each: a verdict of either kind, every reason for a retry, a slow      *)
(* engine that outlasts its wait and is met by the next stop.                  *)
EXTENDS Deploy
=============================================================================
