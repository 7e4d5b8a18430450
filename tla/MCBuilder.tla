----------------------------- MODULE MCBuilder -----------------------------
(* Builder with every object alike: one payload, a bounded heap. *)
EXTENDS BuilderRefinement
=============================================================================
