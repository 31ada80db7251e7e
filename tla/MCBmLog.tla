------------------------------ MODULE MCBmLog ------------------------------
(* Small powers of two for the three widths; the clock wraps each of them. *)
EXTENDS BmLog

=============================================================================
