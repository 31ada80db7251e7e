------------------------------ MODULE MCBcList ------------------------------
(* Small instances of BcList: the terminals, and who gives the trigger.    *)
EXTENDS BcList

CONSTANTS r1, r2

OneRT == {r1}
TwoRTs == {r1, r2}

Soft == {TRUE}
EitherTrigger == BOOLEAN

=============================================================================
