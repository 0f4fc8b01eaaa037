------------------------ MODULE MCPeerHandleServer ------------------------
(* PeerHandleServer with two accept threads, two io_services, one address   *)
(* that two connections come from.                                          *)
EXTENDS PeerHandleServer
===========================================================================
