-------------------------- MODULE MCAsyncPipeline --------------------------
(* Model of AsyncPipeline for TLC. *)
EXTENDS AsyncPipeline
=============================================================================
