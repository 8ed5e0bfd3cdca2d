------------------------------- MODULE System -------------------------------
(***************************************************************************)
(* The reconciler and its deployments together: Reconciler.tla decides     *)
(* when a deployment of one remote target starts and is cancelled,         *)
(* Deploy.tla says what it does to the files and the instance.  CalmSpec   *)
(* is a fleet that changes only when nothing is in flight, BusySpec one    *)
(* that changes at any time.                                               *)
(***************************************************************************)
EXTENDS Deploy, Sequences

CONSTANTS
    DoneCap,
    Sole          \* the only target, which is its own key

SystemAssumption == Sole # Absent /\ DoneCap \in Nat \ {0}

ASSUME SystemAssumption

VARIABLES
    \* of Reconciler:
    owner, loop, ctxDone, todo, rendering, lastDeployed, cancels, done, lastFailed

Targets == {Sole}
Key == [t \in Targets |-> t]
Renderings == [t \in Targets |-> Contents]

R == INSTANCE Reconciler

\* What Reconciler leaves to Deploy.
inside == <<fileVars, attempt, handle, deployVars>>
loopVars == <<owner, loop, ctxDone, todo, rendering, lastDeployed, cancels, done, lastFailed>>
systemVars == <<vars, loopVars>>

SystemTypeOK == TypeOK /\ R!LoopTypeOK

-----------------------------------------------------------------------------
StartReconcile == R!StartReconcile /\ UNCHANGED inside

Turn == R!Turn /\ UNCHANGED inside

\* A step of a deployment, in Reconciler's place of Settle.
Work(j) ==
    /\ Step(j)
    /\ UNCHANGED loopVars

Returned(j) ==
    /\ attempt' = [attempt EXCEPT ![j] = 1]
    /\ Forget(j)
    /\ UNCHANGED <<fileVars, handle, running, serving, coldStaged>>

\* Mutant: a failure is reported like a success.
ReportAny(j) ==
    /\ pc[j] \in {"ok", "failed"}
    /\ R!Finish(j)
    /\ \/ Len(done) < DoneCap /\ done' = Append(done, R!Result(j))
       \/ cancelled[j] /\ done' = done
    /\ UNCHANGED lastFailed
    /\ Returned(j)

Report(j) == (R!ReportFailure(j) \/ R!ReportSuccess(j)) /\ Returned(j)

LoopStep ==
    /\ R!ReceiveDone \/ R!CancelContext \/ R!ExitRun
    /\ UNCHANGED inside

Restart ==
    /\ R!Restart
    /\ KillJobs
    /\ sawRunning' = [j \in Jobs |-> FALSE]
    /\ UNCHANGED <<running, serving, coldStaged>>

InstanceStep ==
    /\ StartInstance \/ StopInstance
    /\ UNCHANGED loopVars

SystemInit ==
    /\ Init
    /\ R!Init

Around ==
    \/ InstanceStep \/ Turn \/ LoopStep \/ Restart
    \/ \E j \in Jobs : Work(j) \/ Report(j)

\* Nothing of an earlier deployment is left, and the next change is dealt with.
Quiet == AllIdle /\ done = <<>> /\ todo = {} /\ loop = "running" /\ ~ctxDone

CalmNext == Around \/ (Quiet /\ StartReconcile)
BusyNext == Around \/ StartReconcile

\* As in Reconciler: goroutines run, calls return, select is fair.
SystemFairness ==
    /\ \A j \in Jobs : WF_systemVars(Work(j)) /\ SF_systemVars(Report(j))
    /\ WF_systemVars(Turn) /\ WF_systemVars(R!ReceiveDone /\ LoopStep)

CalmSpec == SystemInit /\ [][CalmNext]_systemVars /\ SystemFairness
BusySpec == SystemInit /\ [][BusyNext]_systemVars /\ SystemFairness

-----------------------------------------------------------------------------
(* Properties.                                                             *)

\* When nothing is in flight the Caddyfile is the current rendering, unless the
\* deployment started last failed: docs/root/labels.md:195 says of an instance
\* that comes back that it "is automatically restored to the pool".
QuietIsPublished == Quiet /\ rendering[Sole] # Absent /\ ~lastFailed[Sole] => target = rendering[Sole]

\* A change of the fleet gets into the Caddyfile, unless its deployment fails,
\* another change comes first or the process ends.
ChangeArrives ==
    \A c \in Contents :
        rendering[Sole] = c
            ~> target = c \/ rendering[Sole] # c \/ lastFailed[Sole] \/ ctxDone \/ loop = "exited"

\* Whatever Deploy does, the loop sees what Reconciler's Settle has it see.
Abstract == INSTANCE Reconciler WITH
    pc <- [j \in Jobs |-> IF pc[j] \in Attempting \cup {"backoff"} THEN "begin" ELSE pc[j]]

ReconcilesAsSpecified == Abstract!Spec
=============================================================================
