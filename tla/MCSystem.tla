------------------------------ MODULE MCSystem ------------------------------
(* System on a small instance: the constants' values are in the .cfg.      *)
EXTENDS System

\* A Caddyfile that is empty is accepted by Caddy, a torn one is not.
MCValid == (Contents \ {"bad"}) \cup {Empty}

\* Bound of the run system_skip: deployments do not overlap, and no result is left
\* unread when a rendering is looked at.  What is skipped then is skipped under a
\* deployment that is alive.
SkipsInFlight ==
    /\ \A j, k \in Jobs : R!Live(j) /\ R!Live(k) => j = k
    /\ todo # {} => done = <<>>
=============================================================================
