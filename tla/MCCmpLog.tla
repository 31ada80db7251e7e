------------------------------ MODULE MCCmpLog ------------------------------
(* A small ring: it fills, overflows and empties across its end.           *)
EXTENDS CmpLog

CONSTANTS a, b, c
MCWord == {a, b, c}

=============================================================================
