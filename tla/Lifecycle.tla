------------------------------ MODULE Lifecycle ------------------------------
(***************************************************************************)
(* cmd/caddy-config: run of main.go around the event plugin (Plugin.tla).  *)
(* It assembles the chain, connects, starts the source and the plugins in  *)
(* goroutines of their own and waits for a signal, or for one of them to   *)
(* fail; then it stops the source, has the chain drained, cancels the      *)
(* context, and returns when the plugins have.                             *)
(*                                                                         *)
(* The source and the other plugins are outside this repository: a source  *)
(* that is told to stop does, a drain is answered when the plugin has      *)
(* handed the command over or has finished, a plugin ends when its context *)
(* is done, and any of them may fail at any time.                          *)
(***************************************************************************)
EXTENDS Plugin

CONSTANTS
    Optional,     \* positions of the chain that may be excluded
    OtherRunners, \* the other plugins with a Run of their own
    Excludes,     \* what the configuration may exclude: sets of positions
    Buffered      \* the channel behind commandOut has room for the command

LifecycleAssumption == Buffered \in BOOLEAN

ASSUME LifecycleAssumption

VARIABLES
    main,      \* where run is; "refused" is a return with an error
    ctxDone,   \* the context of the plugins, and of the source, is done
    others,    \* the other plugins that run
    failed,    \* history: the source or a plugin has failed
    timedOut   \* history: the drain was given up

processVars == <<main, ctxDone, others, failed, timedOut>>
lifecycleVars == <<vars, processVars>>

Started == main \in {"serving", "stopping", "draining", "joining"}

LifecycleTypeOK ==
    /\ TypeOK
    /\ main \in {"assembling", "connecting", "serving", "stopping", "draining",
                 "joining", "returned", "refused"}
    /\ others \subseteq OtherRunners
    /\ {ctxDone, failed, timedOut} \subseteq BOOLEAN

-----------------------------------------------------------------------------
(* The main goroutine.                                                     *)

\* assemble: what is excluded must be optional.
Assemble(excluded) ==
    /\ main = "assembling"
    /\ \/ excluded \subseteq Optional /\ main' = "connecting" /\ others' = OtherRunners \ excluded
       \/ ~(excluded \subseteq Optional) /\ main' = "refused" /\ UNCHANGED others
    /\ UNCHANGED <<vars, ctxDone, failed, timedOut>>

\* Without credentials run gives up; any other error is tried again a second later.
ConnectToIncus ==
    /\ main = "connecting"
    /\ main' \in {"serving", "refused"}
    /\ UNCHANGED <<vars, ctxDone, others, failed, timedOut>>

\* A signal, or the end of the context: the source is told to stop.
WakeUp ==
    /\ main = "serving"
    /\ main' = "stopping"
    /\ UNCHANGED <<vars, ctxDone, others, failed, timedOut>>

\* Mutant: the context is cancelled before the drain.
StartDrainCancelling ==
    /\ main = "stopping"
    /\ source = "stopped"
    /\ main' = "draining"
    /\ ctxDone' = TRUE
    /\ UNCHANGED <<vars, others, failed, timedOut>>

\* The source has ended: the drain command is sent down the chain.
StartDrain ==
    /\ main = "stopping"
    /\ source = "stopped"
    /\ main' = "draining"
    /\ UNCHANGED <<vars, ctxDone, others, failed, timedOut>>

\* Mutant: the context is not cancelled.
EndDrainUncancelled ==
    /\ main = "draining"
    /\ main' = "joining"
    /\ timedOut' \in {loop # "exited", TRUE}
    /\ UNCHANGED <<vars, ctxDone, others, failed>>

\* The drain is answered, or its time is up; then the context is cancelled.
EndDrain ==
    /\ main = "draining"
    /\ main' = "joining"
    /\ timedOut' \in {loop # "exited", TRUE}
    /\ ctxDone' = TRUE
    /\ UNCHANGED <<vars, others, failed>>

Join ==
    /\ main = "joining"
    /\ loop = "exited" /\ others = {}
    /\ main' = "returned"
    /\ UNCHANGED <<vars, ctxDone, others, failed, timedOut>>

-----------------------------------------------------------------------------
(* The source and the plugins.                                             *)

\* The chain lives while the process does; its sweeps end with the source.
ChainStep ==
    /\ Started
    /\ \/ \E n \in Names, old \in Names \cup {None} : Deliver(n, old)
       \/ (\E n \in Names : Sweep(n)) \/ Connect \/ EndSweep \/ Disconnect
    /\ UNCHANGED processVars

SourceEnds ==
    /\ main = "stopping" \/ ctxDone
    /\ StopSource
    /\ UNCHANGED processVars

\* An error cancels the context of all.
SourceFails ==
    /\ Started
    /\ StopSource
    /\ ctxDone' = TRUE /\ failed' = TRUE
    /\ UNCHANGED <<main, others, timedOut>>

RunnerFails(r) ==
    /\ Started
    /\ r \in others
    /\ others' = others \ {r}
    /\ ctxDone' = TRUE /\ failed' = TRUE
    /\ UNCHANGED <<vars, main, timedOut>>

RunnerEnds(r) ==
    /\ ctxDone
    /\ r \in others
    /\ others' = others \ {r}
    /\ UNCHANGED <<vars, main, ctxDone, failed, timedOut>>

LoopProcesses == Process /\ UNCHANGED processVars

\* The command may reach the plugin after main has given it up.
LoopDrains ==
    /\ main \in {"draining", "joining"}
    /\ Drain
    /\ UNCHANGED processVars

\* Mutant: the command needs a receiver.
LoopHandsOverUnbuffered ==
    /\ main = "draining"
    /\ HandOver
    /\ UNCHANGED processVars

\* commandOut <- cmd does not look at the context.
LoopHandsOver ==
    /\ Buffered \/ main = "draining"
    /\ HandOver
    /\ UNCHANGED processVars

LoopLeaves ==
    /\ ctxDone
    /\ Leave
    /\ UNCHANGED processVars

FleetStep ==
    /\ \/ \E n \in Names, to \in Routes \cup {None, Gone} : Change(n, to)
       \/ \E n, m \in Names : Rename(n, m)
    /\ UNCHANGED processVars

-----------------------------------------------------------------------------
LifecycleInit ==
    /\ Init
    /\ main = "assembling"
    /\ ctxDone = FALSE /\ failed = FALSE /\ timedOut = FALSE
    /\ others = {}

LifecycleNext ==
    \/ \E excluded \in Excludes : Assemble(excluded)
    \/ ConnectToIncus \/ WakeUp \/ StartDrain \/ EndDrain \/ Join
    \/ ChainStep \/ SourceEnds \/ SourceFails
    \/ \E r \in OtherRunners : RunnerFails(r) \/ RunnerEnds(r)
    \/ LoopProcesses \/ LoopDrains \/ LoopHandsOver \/ LoopLeaves
    \/ FleetStep

\* Goroutines run, the chain delivers what it knows, what is cancelled ends, the
\* drain's time is up at last.  No signal, failure or connection must ever come.
LifecycleFairness ==
    /\ \A n \in Names, m \in Names \cup {None} :
            WF_lifecycleVars(Started /\ Deliver(n, m) /\ UNCHANGED processVars)
    /\ \A n \in Names : WF_lifecycleVars(Started /\ Sweep(n) /\ UNCHANGED processVars)
    /\ WF_lifecycleVars(Started /\ EndSweep /\ UNCHANGED processVars)
    /\ WF_lifecycleVars(SourceEnds)
    /\ \A r \in OtherRunners : WF_lifecycleVars(RunnerEnds(r))
    /\ WF_lifecycleVars(LoopProcesses) /\ WF_lifecycleVars(LoopLeaves)
    /\ WF_lifecycleVars(LoopHandsOver)
    /\ WF_lifecycleVars(ctxDone /\ WakeUp)
    /\ WF_lifecycleVars(StartDrain \/ EndDrain \/ Join)

LifecycleSpec == LifecycleInit /\ [][LifecycleNext]_lifecycleVars /\ LifecycleFairness

-----------------------------------------------------------------------------
(* Properties.                                                             *)

\* What run started has ended when it returns.  Unless something failed or the
\* drain was given up, the events that were on their way got into the last
\* reconcile: no instance of which they told is left out.
ReturnsDrained ==
    main = "returned" =>
        /\ source = "stopped" /\ loop = "exited" /\ others = {}
        /\ ~failed /\ ~timedOut =>
              /\ inbox = <<>> /\ dirty = {}
              /\ \A n \in Names \ lost : instances[n] = Shown(n)
              /\ chain = "warm" /\ ~sweepEndLost =>
                    \A n \in Names \ (lost \cup renamedAway) : reconciled[n] = Shown(n)

\* run returns after a signal, and after the source or a plugin has failed.
RunReturns == main = "stopping" \/ (main = "serving" /\ ctxDone) ~> main = "returned"

\* A change of an instance is reconciled, unless it changes again, the change is
\* lost, or the connection or the loop ends.
ChangeReconciled ==
    \A n \in Names, r \in Routes :
        fleet[n] = r /\ source = "warm"
            ~> \/ reconciled[n] = r \/ fleet[n] # r \/ n \in lost
               \/ source # "warm" \/ sweepEndLost \/ loop # "running"

\* A drain ends, also one that main has given up.
DrainEnds == loop = "draining" ~> loop = "exited"
=============================================================================
