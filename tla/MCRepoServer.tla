----------------------------- MODULE MCRepoServer -----------------------------
(***************************************************************************)
(* RepoServer for TLC: a client that is heard directly, with and without a  *)
(* header of its own, and through the proxy on the machine.                 *)
(***************************************************************************)
EXTENDS RepoServer

CONSTANTS client, proxy, noHeader
Both == {client, proxy}
Proxy == {proxy}
ClientOnly == {<<client, noHeader>>, <<client, proxy>>, <<proxy, client>>}
=============================================================================
