---------------------------- MODULE MCContextTtft ----------------------------
(* Two requests of up to two tokens, made one by one or at once; the window      *)
(* begins at the first; a crash at any time.  Two samples: enough to take a      *)
(* difference of.                                                                *)
EXTENDS ContextTtft
==============================================================================
