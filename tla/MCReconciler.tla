---------------------------- MODULE MCReconciler ----------------------------
(* Reconciler on a small instance: the constants' values are in the .cfg.  *)
EXTENDS Reconciler

\* An instance and a path on this host: each target has a key of its own.
MCKey == [t \in Targets |-> t]

\* The labels of one of them change, the other's do not.
MCRenderings == [t \in Targets |-> IF t = "os:caddy" THEN {"a"} ELSE {"a", "b"}]
=============================================================================
