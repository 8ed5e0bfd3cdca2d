---------------------------- MODULE MCLifecycle ----------------------------
(* Lifecycle on a small instance: the constants' values are in the .cfg.   *)
EXTENDS Lifecycle

\* Every position of the chain may be excluded, the plugin itself by mistake.
MCExcludes == {{}, {"http"}, {"debounce", "log"}, {"caddy"}}
=============================================================================
