---------------------------- MODULE MCDecisions ----------------------------
(* The decision rules have no parameters: this is the run's root module.    *)
EXTENDS Decisions
=============================================================================
