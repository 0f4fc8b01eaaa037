------------------------- MODULE MCIoServiceProvide -------------------------
(* IoServiceProvide for TLC.                                                *)
EXTENDS IoServiceProvide
=============================================================================
