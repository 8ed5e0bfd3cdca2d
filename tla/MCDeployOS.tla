----------------------------- MODULE MCDeployOS -----------------------------
(* DeployOS on a small instance: the constants' values are in the .cfg.    *)
EXTENDS DeployOS

\* A Caddyfile that is empty is accepted by Caddy, a torn one is not.
MCValid == (Contents \ {"bad"}) \cup {Empty}
=============================================================================
