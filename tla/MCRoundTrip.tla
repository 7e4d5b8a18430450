---------------------------- MODULE MCRoundTrip ----------------------------
(* RoundTrip for 298 small values. *)
EXTENDS RoundTrip, RoundTripDocuments
=============================================================================
