------------------------------- MODULE MCSampler -------------------------------
(* One page with room for two chains of polls; a time line of two rows, so that  *)
(* rows are dropped; samples and tokens enough for a restart between two rows.   *)
EXTENDS Sampler

MCPollers == {"p1", "p2"}

================================================================================
