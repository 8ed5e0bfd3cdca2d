------------------------------ MODULE MCVolumes ------------------------------
(* Volumes on a small instance: the constants' values.                     *)
EXTENDS Volumes

MCCaddyfile == <<"etc", "caddy", "Caddyfile">>

\* Every directory over the Caddyfile, the Caddyfile, and one elsewhere.
MCPaths == {SubSeq(MCCaddyfile, 1, n) : n \in 0 .. 3} \cup {<<"data">>}
=============================================================================
