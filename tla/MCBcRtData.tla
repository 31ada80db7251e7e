----------------------------- MODULE MCBcRtData -----------------------------
(* Instances of BcRtData.                                                  *)
EXTENDS BcRtData
=============================================================================
