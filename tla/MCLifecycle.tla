---------------------------- MODULE MCLifecycle ----------------------------
(***************************************************************************)
(* Lifecycle with every command line; the bounds are in the cfg.           *)
(***************************************************************************)
EXTENDS Lifecycle
=============================================================================
