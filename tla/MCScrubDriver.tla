--------------------------- MODULE MCScrubDriver ---------------------------
(* A small instance of ScrubDriver.                                        *)
EXTENDS ScrubDriver

MCThreshold == {1}

=============================================================================
