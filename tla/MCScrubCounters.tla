-------------------------- MODULE MCScrubCounters --------------------------
(* A small instance of ScrubCounters: one kind of error, for the kinds     *)
(* share no more than NE, and a field of three values, so that the counter *)
(* wraps twice within the error bound.                                     *)
EXTENDS ScrubCounters

MCKinds == {"ce"}
MCWidth == [k \in MCKinds |-> 3]

=============================================================================
