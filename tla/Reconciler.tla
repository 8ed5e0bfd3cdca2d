----------------------------- MODULE Reconciler -----------------------------
(***************************************************************************)
(* caddy/deployer.go and the part of Plugin.Run that serves it: whenever   *)
(* the fleet changes the loop renders the Caddyfile of every target,       *)
(* compares it with what it last deployed there, and starts a deployment   *)
(* in a goroutine of its own, after cancelling the previous one.  A        *)
(* deployment that succeeds reports on the channel done, which the same    *)
(* loop reads.                                                             *)
(*                                                                         *)
(* A rendering stands for its hash.  A target is known to the state by its *)
(* key: project and instance, or the label and the path on this host.  Two *)
(* targets may have one key.  What a deployment does is one step here,     *)
(* Settle; System.tla has Deploy.tla's steps in its place.                 *)
(***************************************************************************)
EXTENDS Naturals, Sequences, FiniteSets

CONSTANTS
    Targets,      \* cfg.Targets and cfg.OSTargets
    Key,          \* targetKey of each
    Jobs,         \* the goroutines that may be alive at the same time
    Contents,     \* the Caddyfiles that can be rendered
    Renderings,   \* those that can be rendered for a target
    Absent,       \* none of them, and no target
    DoneCap       \* capacity of state.done: 32 in the code

Keys == {Key[t] : t \in Targets}

ReconcilerAssumption ==
    /\ Absent \notin Contents \cup Targets
    /\ \A t \in Targets : Renderings[t] \subseteq Contents
    /\ DoneCap \in Nat \ {0}

ASSUME ReconcilerAssumption

VARIABLES
    pc,           \* "idle", "begin" (deploying), "ok" or "failed"
    content,      \* the rendering a job deploys; Absent in an idle slot
    cancelled,    \* the job's context is done
    owner,        \* the target a job deploys to; Absent in an idle slot
    loop,         \* Plugin.Run: "running" or "exited"
    ctxDone,      \* the context of Run, parent of every deployment's, is done
    todo,         \* the targets reconcileDeployments has still to look at
    rendering,    \* what was rendered last for a target; Absent: nothing yet
    lastDeployed, \* state.lastDeployed of a key; Absent when there is none
    cancels,      \* the jobs whose cancel function is in state.cancels
    done,         \* the channel state.done: a key and a rendering each
    lastFailed    \* history: the deployment a target has seen last has failed

jobVars == <<pc, content, cancelled, owner>>
recordVars == <<rendering, lastDeployed, cancels, done, lastFailed>>
loopVars == <<loop, ctxDone, todo, recordVars>>
vars == <<jobVars, loopVars>>

LoopTypeOK ==
    /\ owner \in [Jobs -> Targets \cup {Absent}]
    /\ loop \in {"running", "exited"}
    /\ ctxDone \in BOOLEAN
    /\ todo \subseteq Targets
    /\ rendering \in [Targets -> Contents \cup {Absent}]
    /\ lastDeployed \in [Keys -> Contents \cup {Absent}]
    /\ cancels \subseteq Jobs
    /\ done \in Seq(Keys \X Contents) /\ Len(done) <= DoneCap
    /\ lastFailed \in [Targets -> BOOLEAN]

TypeOK ==
    /\ pc \in [Jobs -> {"idle", "begin", "ok", "failed"}]
    /\ content \in [Jobs -> Contents \cup {Absent}]
    /\ cancelled \in [Jobs -> BOOLEAN]
    /\ LoopTypeOK

Live(j) == pc[j] # "idle"
AllIdle == \A j \in Jobs : ~Live(j)

-----------------------------------------------------------------------------
(* reconcileDeployments, target by target; nothing else is received        *)
(* meanwhile.  Of their order, which is the configuration's, nothing here  *)
(* depends.                                                                *)

\* The fleet has changed.  Bound: there is a slot for every deployment.
StartReconcile ==
    /\ loop = "running" /\ todo = {}
    /\ Cardinality({j \in Jobs : ~Live(j)}) >= Cardinality(Targets)
    /\ todo' = Targets
    /\ UNCHANGED <<jobVars, loop, ctxDone, recordVars>>

LookAt(t) ==
    /\ t \in todo
    /\ todo' = todo \ {t}
    /\ UNCHANGED <<loop, ctxDone>>

\* A template cannot be read or fails: the target stays as it is.
RenderFails(t) ==
    /\ LookAt(t)
    /\ UNCHANGED <<jobVars, recordVars>>

\* The hash is the one deployed last: nothing else is looked at.
Skip(t, c) ==
    /\ LookAt(t)
    /\ c = lastDeployed[Key[t]]
    /\ rendering' = [rendering EXCEPT ![t] = c]
    /\ UNCHANGED <<jobVars, lastDeployed, cancels, done, lastFailed>>

\* The jobs with a cancel function under the key.
Cancellable(key) == {j \in cancels : key = Key[owner[j]]}

\* Slots are alike: the next goroutine gets any that is free.
NextSlot == CHOOSE j \in Jobs : ~Live(j)

Launch(t, c, j) ==
    /\ LookAt(t)
    /\ c # lastDeployed[Key[t]]
    /\ rendering' = [rendering EXCEPT ![t] = c]
    /\ j = NextSlot /\ pc[j] = "idle"
    /\ pc' = [pc EXCEPT ![j] = "begin"]
    /\ content' = [content EXCEPT ![j] = c]
    /\ owner' = [owner EXCEPT ![j] = t]
    /\ cancels' = (cancels \ Cancellable(Key[t])) \cup {j}
    /\ lastFailed' = [lastFailed EXCEPT ![t] = FALSE]
    /\ UNCHANGED <<lastDeployed, done>>

\* Mutant: the deployments of all targets are cancelled.
RedeployCancellingAll(t, c, j) ==
    /\ Launch(t, c, j)
    /\ cancelled' = [k \in Jobs |-> IF k = j THEN ctxDone ELSE cancelled[k] \/ k \in cancels]

\* Cancel the deployment whose cancel function is there, start a new one with
\* a context derived from Run's.
Redeploy(t, c, j) ==
    /\ Launch(t, c, j)
    /\ cancelled' = [k \in Jobs |-> IF k = j THEN ctxDone
                                    ELSE cancelled[k] \/ k \in Cancellable(Key[t])]

Turn ==
    \E t \in Targets :
        \/ RenderFails(t)
        \/ \E c \in Renderings[t] : Skip(t, c) \/ \E j \in Jobs : Redeploy(t, c, j)

-----------------------------------------------------------------------------
(* A deployment's goroutine.                                               *)

\* deploy returns; cancelling it hurries it but decides nothing.
Settle(j) ==
    /\ pc[j] = "begin"
    /\ \E result \in {"ok", "failed"} : pc' = [pc EXCEPT ![j] = result]
    /\ UNCHANGED <<content, cancelled, owner, loopVars>>

\* The goroutine ends.  The cancel function that may stay in state.cancels is
\* of no effect any more.
Finish(j) ==
    /\ pc' = [pc EXCEPT ![j] = "idle"]
    /\ content' = [content EXCEPT ![j] = Absent]
    /\ cancelled' = [cancelled EXCEPT ![j] = FALSE]
    /\ owner' = [owner EXCEPT ![j] = Absent]
    /\ cancels' = cancels \ {j}
    /\ UNCHANGED <<loop, ctxDone, todo, rendering, lastDeployed>>

ReportFailure(j) ==
    /\ pc[j] = "failed"
    /\ Finish(j)
    /\ lastFailed' = [lastFailed EXCEPT ![owner[j]] = @ \/ ~cancelled[j]]
    /\ UNCHANGED done

Result(j) == <<Key[owner[j]], content[j]>>

\* Mutants: the send is given up when the channel is full; one result more than
\* there is room for.
ReportSuccessDropping(j) ==
    /\ pc[j] = "ok"
    /\ Finish(j)
    /\ \/ Len(done) < DoneCap /\ done' = Append(done, Result(j))
       \/ Len(done) >= DoneCap /\ done' = done
    /\ UNCHANGED lastFailed
ReportSuccessOver(j) ==
    /\ pc[j] = "ok"
    /\ Finish(j)
    /\ \/ Len(done) <= DoneCap /\ done' = Append(done, Result(j))
       \/ cancelled[j] /\ done' = done
    /\ UNCHANGED lastFailed

\* select: both cases may be ready, then either is taken.
ReportSuccess(j) ==
    /\ pc[j] = "ok"
    /\ Finish(j)
    /\ \/ Len(done) < DoneCap /\ done' = Append(done, Result(j))
       \/ cancelled[j] /\ done' = done
    /\ UNCHANGED lastFailed

Record ==
    /\ loop = "running" /\ todo = {}
    /\ done # <<>>
    /\ lastDeployed' = [lastDeployed EXCEPT ![Head(done)[1]] = Head(done)[2]]
    /\ done' = Tail(done)
    /\ UNCHANGED <<jobVars, loop, ctxDone, todo, rendering, lastFailed>>

\* Mutant: the cancel function stays.
ReceiveDoneKeeping == Record /\ UNCHANGED cancels

\* Run receives from done: the record, and no cancel function any more.
ReceiveDone == Record /\ cancels' = cancels \ Cancellable(Head(done)[1])

-----------------------------------------------------------------------------
(* The end of Run and of the process.                                      *)

\* Mutant: deployments have contexts of their own.
CancelContextAlone ==
    /\ ~ctxDone
    /\ ctxDone' = TRUE
    /\ UNCHANGED <<jobVars, loop, todo, recordVars>>

\* main cancels the context, and with it the context of every deployment.
CancelContext ==
    /\ ~ctxDone
    /\ ctxDone' = TRUE
    /\ cancelled' = [j \in Jobs |-> Live(j)]
    /\ UNCHANGED <<pc, content, owner, loop, todo, recordVars>>

\* The context is done, or the chain has drained: Run returns, cancelAll runs.
ExitRun ==
    /\ loop = "running" /\ todo = {}
    /\ loop' = "exited"
    /\ cancelled' = [j \in Jobs |-> cancelled[j] \/ j \in cancels]
    /\ UNCHANGED <<pc, content, owner, ctxDone, todo, recordVars>>

\* The process dies, at the end of main or before, and is started again: what
\* was deployed is not known any more.
Restart ==
    /\ pc' = [j \in Jobs |-> "idle"]
    /\ content' = [j \in Jobs |-> Absent]
    /\ cancelled' = [j \in Jobs |-> FALSE]
    /\ owner' = [j \in Jobs |-> Absent]
    /\ loop' = "running"
    /\ ctxDone' = FALSE
    /\ todo' = {}
    /\ rendering' = [t \in Targets |-> Absent]
    /\ lastDeployed' = [k \in Keys |-> Absent]
    /\ cancels' = {}
    /\ done' = <<>>
    /\ lastFailed' = [t \in Targets |-> FALSE]

-----------------------------------------------------------------------------
Init ==
    /\ pc = [j \in Jobs |-> "idle"]
    /\ content = [j \in Jobs |-> Absent]
    /\ cancelled = [j \in Jobs |-> FALSE]
    /\ owner = [j \in Jobs |-> Absent]
    /\ loop = "running"
    /\ ctxDone = FALSE
    /\ todo = {}
    /\ rendering = [t \in Targets |-> Absent]
    /\ lastDeployed = [k \in Keys |-> Absent]
    /\ cancels = {}
    /\ done = <<>>
    /\ lastFailed = [t \in Targets |-> FALSE]

Step ==
    \/ StartReconcile \/ Turn
    \/ \E j \in Jobs : Settle(j) \/ ReportFailure(j) \/ ReportSuccess(j)
    \/ ReceiveDone \/ CancelContext \/ ExitRun

Next == Step \/ Restart

\* Goroutines run, calls return, select does not ignore for ever that the context
\* is done, and once Run has returned main cancels the context.
Fairness ==
    /\ WF_vars(Turn) /\ WF_vars(ReceiveDone)
    /\ \A j \in Jobs : WF_vars(Settle(j) \/ ReportFailure(j) \/ ReportSuccess(j))
    /\ SF_vars(ctxDone /\ ExitRun)
    /\ WF_vars(loop = "exited" /\ CancelContext)

Spec == Init /\ [][Next]_vars

\* One life of the process.
LifeSpec == Init /\ [][Step]_vars /\ Fairness

-----------------------------------------------------------------------------
(* Properties.                                                             *)

\* The deployment the loop can still cancel is one of the current rendering of
\* its target; or that is back at what was deployed last, which does not start
\* another.
CancellableIsCurrent ==
    \A j \in cancels :
        LET t == owner[j]
        IN  t \in Targets /\ (content[j] = rendering[t] \/ rendering[t] = lastDeployed[Key[t]])

\* While the program runs a deployment is cancelled on behalf of its own key
\* only: a change for one target leaves those of the others alone.
Isolated ==
    [][\A j \in Jobs :
        Live(j) /\ ~cancelled[j] /\ cancelled'[j] =>
            \/ ctxDone' \/ loop' = "exited"
            \/ \E t \in todo \ todo' : Key[t] = Key[owner[j]]]_vars

\* A deployment of the current rendering is recorded, unless it fails, the fleet
\* changes again or the process ends.  Of two targets that share a key this is
\* not so: the one deploys over the other.  Nor does the record stay: a cancelled
\* deployment that has succeeded may report behind the one that replaced it.
RecordFollows ==
    \A t \in Targets :
        (\E j \in Jobs : owner[j] = t /\ content[j] = rendering[t] /\ ~cancelled[j])
        ~> \/ lastDeployed[Key[t]] = rendering[t] \/ todo # {}
           \/ lastFailed[t] \/ ctxDone \/ loop = "exited"

\* Once the context is done no deployment stays, nor is one started for ever:
\* also one that has succeeded ends when nobody reads the channel any more.
ShutdownEnds == ctxDone ~> AllIdle
=============================================================================
