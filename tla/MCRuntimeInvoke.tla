-------------------------- MODULE MCRuntimeInvoke --------------------------
(* Model-checking instance of RuntimeInvoke.                                *)
EXTENDS RuntimeInvoke
=============================================================================
