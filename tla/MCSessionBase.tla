--------------------------- MODULE MCSessionBase ---------------------------
(* SessionBase for TLC: three writes of two pieces each reach every way in  *)
(* which two frames and a failure can meet; two inbound frames, of any      *)
(* kinds, reach every pair of handlers of the read chain.                   *)
EXTENDS SessionBase
=============================================================================
