------------------------------ MODULE MCDeploy ------------------------------
(* Deploy on a small instance: the values of the constants are in the .cfg. *)
EXTENDS DeployProofs

\* A Caddyfile that is empty is accepted by Caddy, a torn one is not.
MCValid == (Contents \ {"bad"}) \cup {Empty}
=============================================================================
