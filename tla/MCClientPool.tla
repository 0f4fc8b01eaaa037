---------------------------- MODULE MCClientPool ----------------------------
(* ClientPool for TLC.  NSessions is chosen in each configuration so that a *)
(* free object is left in every reachable state: orphans and sessions with  *)
(* outstanding operations never hold up a connect.                          *)
EXTENDS ClientPool

\* No id of a server is part of an id of another.
SameServer == {<<s, s>> : s \in Servers}

\* Servers 0 and 1 have one address and the ports 80 and 8080.
PortPrefix == SameServer \cup {<<0, 1>>}
=============================================================================
