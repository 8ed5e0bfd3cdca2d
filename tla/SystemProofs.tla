---------------------------- MODULE SystemProofs ----------------------------
(***************************************************************************)
(* What System.tla guarantees, proved: with Deploy's steps in the place of *)
(* Settle the loop behaves as Reconciler has it, whenever the fleet        *)
(* changes; and while it changes only when nothing is in flight, a quiet   *)
(* program has published what it rendered last.                            *)
(***************************************************************************)
EXTENDS System, DeployProofs

\* A goroutine deploys a rendering to the target.
Deploying == \A j \in Jobs : Live(j) => owner[j] = Sole /\ content[j] \in Contents

\* SystemTypeOK with what keeps the attempts and the results in their types.
Typed == SystemTypeOK /\ Counted /\ Deploying

Results == R!Keys \X Contents

-----------------------------------------------------------------------------
(* Type correctness.                                                       *)

\* The channel state.done.
LEMMA Sent ==
    ASSUME NEW s \in Seq(Results), NEW r \in Results
    PROVE  /\ Append(s, r) \in Seq(Results)
           /\ Len(s) \in Nat /\ Len(Append(s, r)) = Len(s) + 1
OBVIOUS

LEMMA Received ==
    ASSUME NEW s \in Seq(Results), s # <<>>
    PROVE  /\ Tail(s) \in Seq(Results) /\ Head(s) \in Results
           /\ Len(Tail(s)) = Len(s) - 1 /\ Len(s) \in Nat
OBVIOUS

LEMMA TypedInit == SystemInit => Typed
<1> SUFFICES ASSUME SystemInit
             PROVE  Typed
    OBVIOUS
<1>1. TypeOK /\ Counted
    BY TypeInit DEF SystemInit
<1>2. R!LoopTypeOK
    <2>1. <<>> \in Seq(Results) /\ Len(<<>>) <= DoneCap
        BY SystemAssumption DEF SystemAssumption
    <2> QED
        BY <2>1 DEF SystemInit, R!Init, R!LoopTypeOK, Results
<1>3. Deploying
    BY DEF SystemInit, R!Init, Deploying, Live
<1> QED
    BY <1>1, <1>2, <1>3 DEF Typed, SystemTypeOK

\* Ending the goroutine is what Deploy calls returning.
LEMMA ReportIsReturn ==
    ASSUME NEW j \in Jobs, Report(j)
    PROVE  Return(j)
BY DEF Report, R!ReportFailure, R!ReportSuccess, R!Finish, Returned, Return, Leave, Forget

\* What the goroutines do is a step of Deploy, and so is what the instance does.
LEMMA DeployStep ==
    ASSUME InstanceStep \/ \E j \in Jobs : Work(j) \/ Report(j)
    PROVE  Next
BY ReportIsReturn DEF InstanceStep, Work, Next

\* A step of the loop or a restart of the process.
LoopNext == StartReconcile \/ Turn \/ LoopStep \/ Restart

LEMMA BusyCases ==
    ASSUME [BusyNext]_systemVars
    PROVE  \/ LoopNext \/ InstanceStep \/ UNCHANGED systemVars
           \/ \E j \in Jobs : Work(j) \/ Report(j)
BY DEF BusyNext, Around, LoopNext

\* A deployment that is working stays the same job's, of the same rendering.
LEMMA WorkKeeps ==
    ASSUME TypeOK, NEW j \in Jobs, Step(j)
    PROVE  /\ pc[j] \in Attempting \cup {"backoff"}
           /\ \E stage \in Stages \ {"idle"} : pc' = [pc EXCEPT ![j] = stage]
           /\ content' = content /\ cancelled' = cancelled
<1> USE DEF Advance, Attempting, Stages
<1>1. CASE Begin(j) \/ CreateStaging(j) \/ WriteStaging(j)
    BY <1>1 DEF Begin, CreateStaging, Create, WriteStaging, Write
<1>2. CASE Fmt(j) \/ Validate(j) \/ Reload(j)
    BY <1>2 DEF Fmt, Validate, Reload, Exec
<1>3. CASE Swap(j)
    BY <1>3 DEF Swap, Rename
<1>4. CASE ReloadUnanswered(j) \/ AttemptFails(j)
    BY <1>4 DEF ReloadUnanswered, AttemptFails, Fail, FailWrite, FailAttempt
<1>5. CASE Wait(j)
    BY <1>5 DEF Wait, Retry, GiveUp
<1> QED
    BY <1>1, <1>2, <1>3, <1>4, <1>5 DEF Step

\* The files, the attempts and the instance are Deploy's alone.
LEMMA LoopInside ==
    ASSUME TypeOK, Counted, StartReconcile \/ Turn \/ LoopStep,
           pc' \in [Jobs -> Stages], content' \in [Jobs -> Contents \cup {Absent}],
           cancelled' \in [Jobs -> BOOLEAN],
           \A j \in Jobs : pc'[j] # pc[j] => pc'[j] = "begin"
    PROVE  TypeOK' /\ Counted'
<1>1. UNCHANGED inside
    BY DEF StartReconcile, Turn, LoopStep
<1> QED
    BY <1>1 DEF TypeOK, FileTypeOK, Counted, inside, fileVars, deployVars

\* One target is looked at.
LEMMA TurnTyped ==
    ASSUME Typed, Turn
    PROVE  Typed'
<1> USE DEF Typed, SystemTypeOK, R!LoopTypeOK, Targets, Key, Renderings, R!Keys, R!LookAt
<1>1. ASSUME NEW t \in Targets, R!RenderFails(t)
      PROVE  Typed'
    <2>1. /\ UNCHANGED <<pc, content, cancelled, owner>>
          /\ R!LoopTypeOK'
        BY <1>1 DEF R!RenderFails, R!jobVars, R!recordVars
    <2> QED
        BY <2>1, LoopInside DEF Deploying, Live, TypeOK, FileTypeOK
<1>2. ASSUME NEW t \in Targets, NEW c \in Contents, R!Skip(t, c)
      PROVE  Typed'
    <2>1. /\ UNCHANGED <<pc, content, cancelled, owner>>
          /\ R!LoopTypeOK'
        BY <1>2 DEF R!Skip, R!jobVars
    <2> QED
        BY <2>1, LoopInside DEF Deploying, Live, TypeOK, FileTypeOK
<1>3. ASSUME NEW t \in Targets, NEW c \in Contents, NEW j \in Jobs, R!Redeploy(t, c, j)
      PROVE  Typed'
    <2>1. /\ pc' = [pc EXCEPT ![j] = "begin"]
          /\ content' = [content EXCEPT ![j] = c]
          /\ owner' = [owner EXCEPT ![j] = Sole]
          /\ cancelled' = [k \in Jobs |-> IF k = j THEN ctxDone
                                          ELSE cancelled[k] \/ k \in R!Cancellable(Key[t])]
        BY <1>3 DEF R!Redeploy, R!Launch
    <2>2. R!LoopTypeOK'
        <3>1. cancels' \subseteq Jobs
            BY <1>3 DEF R!Redeploy, R!Launch, R!Cancellable
        <3> QED
            BY <1>3, <2>1, <3>1 DEF R!Redeploy, R!Launch
    <2>3. cancelled' \in [Jobs -> BOOLEAN]
        BY <2>1 DEF TypeOK, FileTypeOK
    <2>4. TypeOK' /\ Counted'
        BY <2>1, <2>3, LoopInside DEF TypeOK, FileTypeOK, Stages, Attempting
    <2>5. Deploying'
        BY <2>1 DEF Deploying, Live, TypeOK, FileTypeOK
    <2> QED
        BY <2>2, <2>4, <2>5
<1> QED
    BY <1>1, <1>2, <1>3 DEF Turn, R!Turn

LEMMA LoopTyped ==
    ASSUME Typed, StartReconcile \/ LoopStep \/ Restart
    PROVE  Typed'
<1> USE DEF Typed, SystemTypeOK, R!LoopTypeOK
<1>1. CASE StartReconcile
    <2>1. UNCHANGED <<pc, content, cancelled, owner>> /\ R!LoopTypeOK'
        BY <1>1 DEF StartReconcile, R!StartReconcile, R!jobVars, R!recordVars
    <2> QED
        BY <1>1, <2>1, LoopInside DEF Deploying, Live, TypeOK, FileTypeOK
<1>2. CASE LoopStep /\ R!ReceiveDone
    <2>1. /\ Head(done) \in Results /\ Tail(done) \in Seq(Results)
          /\ Len(Tail(done)) <= DoneCap
        BY <1>2, Received, SystemAssumption DEF R!ReceiveDone, R!Record, Results, SystemAssumption
    <2>2. /\ UNCHANGED <<pc, content, cancelled, owner>>
          /\ done' = Tail(done) /\ cancels' \subseteq Jobs
          /\ lastDeployed' \in [R!Keys -> Contents \cup {Absent}]
        BY <1>2, <2>1 DEF R!ReceiveDone, R!Record, R!jobVars, Results
    <2>3. R!LoopTypeOK'
        BY <1>2, <2>1, <2>2 DEF R!ReceiveDone, R!Record, Results
    <2> QED
        BY <1>2, <2>2, <2>3, LoopInside DEF Deploying, Live, TypeOK, FileTypeOK
<1>3. CASE LoopStep /\ (R!CancelContext \/ R!ExitRun)
    <2>1. UNCHANGED <<pc, content, owner>> /\ R!LoopTypeOK'
        BY <1>3 DEF R!CancelContext, R!ExitRun, R!recordVars
    <2>2. cancelled' \in [Jobs -> BOOLEAN]
        BY <1>3 DEF R!CancelContext, R!ExitRun, R!Live, TypeOK, FileTypeOK
    <2> QED
        BY <1>3, <2>1, <2>2, LoopInside DEF Deploying, Live, TypeOK, FileTypeOK
<1>4. CASE Restart
    <2>1. TypeOK' /\ Counted' /\ Deploying'
        <3>1. 1 \in 1 .. MaxAttempts
            BY FileAssumption DEF FileAssumption
        <3>2. TypeOK'
            BY <1>4, <3>1 DEF Restart, KillJobs, TypeOK, FileTypeOK, Stages, Handles, fileVars
        <3> QED
            BY <1>4, <3>2 DEF Restart, KillJobs, Counted, Deploying, Live
    <2>2. done' \in Seq(R!Keys \X Contents) /\ Len(done') <= DoneCap
        BY <1>4, SystemAssumption DEF Restart, R!Restart, SystemAssumption
    <2>3. /\ owner' \in [Jobs -> Targets \cup {Absent}]
          /\ rendering' \in [Targets -> Contents \cup {Absent}]
          /\ lastDeployed' \in [R!Keys -> Contents \cup {Absent}]
          /\ lastFailed' \in [Targets -> BOOLEAN]
        BY <1>4 DEF Restart, R!Restart
    <2>4. R!LoopTypeOK'
        BY <1>4, <2>2, <2>3 DEF Restart, R!Restart
    <2> QED
        BY <2>1, <2>4
<1> QED
    BY <1>1, <1>2, <1>3, <1>4 DEF LoopStep

LEMMA ReportTyped ==
    ASSUME Typed, NEW j \in Jobs, Report(j)
    PROVE  Typed'
<1> USE DEF Typed, SystemTypeOK
<1>1. TypeOK' /\ Counted'
    BY DeployStep, TypeStep, CountedStep
<1>2. pc[j] \in {"ok", "failed"} /\ R!Finish(j)
    BY DEF Report, R!ReportFailure, R!ReportSuccess
<1>3. R!Result(j) \in Results
    BY <1>2 DEF Deploying, Live, R!Result, Results, R!Keys, Targets, Key
<1>4. done' \in Seq(Results) /\ Len(done') <= DoneCap
    <2>1. CASE done' = done
        BY <2>1 DEF R!LoopTypeOK, Results
    <2>2. CASE Len(done) < DoneCap /\ done' = Append(done, R!Result(j))
        BY <1>3, <2>2, Sent, SystemAssumption DEF R!LoopTypeOK, Results, SystemAssumption
    <2> QED
        BY <2>1, <2>2 DEF Report, R!ReportFailure, R!ReportSuccess
<1>5. lastFailed' \in [Targets -> BOOLEAN]
    BY DEF Report, R!ReportFailure, R!ReportSuccess, R!LoopTypeOK
<1>6. R!LoopTypeOK'
    BY <1>2, <1>4, <1>5 DEF R!Finish, R!LoopTypeOK, Results
<1>7. Deploying'
    BY <1>2 DEF R!Finish, Deploying, Live, TypeOK, FileTypeOK, R!LoopTypeOK
<1> QED
    BY <1>1, <1>6, <1>7

LEMMA TypedStep ==
    ASSUME Typed, [BusyNext]_systemVars
    PROVE  Typed'
<1>1. CASE LoopNext
    BY <1>1, TurnTyped, LoopTyped DEF LoopNext
<1>2. ASSUME InstanceStep \/ (\E j \in Jobs : Work(j)) \/ UNCHANGED systemVars
      PROVE  Typed'
    <2>1. TypeOK' /\ Counted'
        <3>1. [Next]_vars
            BY <1>2, DeployStep DEF systemVars
        <3> QED
            BY <3>1, TypeStep, CountedStep DEF Typed, SystemTypeOK
    <2>2. UNCHANGED loopVars
        BY <1>2 DEF InstanceStep, Work, systemVars
    <2>3. content' = content /\ \A j \in Jobs : Live(j)' => Live(j)
        <3>1. CASE InstanceStep \/ UNCHANGED systemVars
            BY <3>1 DEF InstanceStep, StartInstance, StopInstance, systemVars, vars, jobVars, Live
        <3>2. ASSUME NEW j \in Jobs, Work(j)
              PROVE  content' = content /\ \A k \in Jobs : Live(k)' => Live(k)
            BY <3>2, WorkKeeps DEF Work, Typed, SystemTypeOK, Live, Attempting, TypeOK, FileTypeOK
        <3> QED
            BY <1>2, <3>1, <3>2
    <2> QED
        BY <2>1, <2>2, <2>3 DEF Typed, SystemTypeOK, R!LoopTypeOK, loopVars, Deploying
<1>3. ASSUME NEW j \in Jobs, Report(j)
      PROVE  Typed'
    BY <1>3, ReportTyped
<1> QED
    BY <1>1, <1>2, <1>3, BusyCases

LEMMA CalmIsBusy == CalmNext => BusyNext
BY DEF CalmNext, BusyNext

LEMMA TypedAlways == BusySpec \/ CalmSpec => []Typed
<1>1. Typed /\ [BusyNext]_systemVars => Typed'
    BY TypedStep
<1>2. [CalmNext]_systemVars => [BusyNext]_systemVars
    BY CalmIsBusy
<1> QED
    BY <1>1, <1>2, TypedInit, PTL DEF BusySpec, CalmSpec

\* However often the fleet changes while deployments are in flight, the loop and
\* the goroutines keep to their types and the channel to its capacity.
THEOREM SystemTypeCorrect == BusySpec \/ CalmSpec => []SystemTypeOK
<1>1. Typed => SystemTypeOK
    BY DEF Typed
<1> QED
    BY <1>1, TypedAlways, PTL

-----------------------------------------------------------------------------
(* Refinement: the loop behaves as Reconciler has it, with the steps of a  *)
(* deployment for its Settle.                                              *)

\* What Reconciler sees of the stage of a job.
Seen(stage) == IF stage \in Attempting \cup {"backoff"} THEN "begin" ELSE stage

SeenStages == [j \in Jobs |-> Seen(pc[j])]

\* A job that changes its stage changes what is seen of it, and no other one's.
LEMMA SeenOfOne ==
    ASSUME TypeOK, NEW j \in Jobs, NEW stage, pc' = [pc EXCEPT ![j] = stage]
    PROVE  SeenStages' = [SeenStages EXCEPT ![j] = Seen(stage)]
BY DEF TypeOK, FileTypeOK, SeenStages

LEMMA SeenOfNone ==
    ASSUME pc' = pc
    PROVE  SeenStages' = SeenStages
BY DEF SeenStages

\* A slot is free to Reconciler when it is free.
LEMMA SameSlots ==
    ASSUME TypeOK
    PROVE  /\ \A j \in Jobs : /\ Abstract!Live(j) <=> R!Live(j)
                              /\ pc[j] \in {"idle", "ok", "failed"} => SeenStages[j] = pc[j]
           /\ {j \in Jobs : ~Abstract!Live(j)} = {j \in Jobs : ~R!Live(j)}
           /\ Abstract!NextSlot = R!NextSlot
<1>1. \A j \in Jobs : /\ Abstract!Live(j) <=> R!Live(j)
                      /\ pc[j] \in {"idle", "ok", "failed"} => SeenStages[j] = pc[j]
    BY DEF Abstract!Live, R!Live, SeenStages, Seen, Attempting
<1>2. {j \in Jobs : ~Abstract!Live(j)} = {j \in Jobs : ~R!Live(j)}
    BY <1>1
<1>3. Abstract!NextSlot = R!NextSlot
    BY <1>1, Zenon DEF Abstract!NextSlot, R!NextSlot
<1> QED
    BY <1>1, <1>2, <1>3

\* Looking at a target is the same for both.
LEMMA TurnRefines ==
    ASSUME TypeOK, Turn
    PROVE  Abstract!Turn
<1> USE DEF R!LookAt, Abstract!LookAt, R!jobVars, Abstract!jobVars, R!recordVars, Abstract!recordVars,
            R!Cancellable, Abstract!Cancellable, SeenStages, Seen
<1>1. ASSUME NEW t \in Targets, R!RenderFails(t)
      PROVE  Abstract!RenderFails(t)
    BY <1>1, SeenOfNone DEF R!RenderFails, Abstract!RenderFails
<1>2. ASSUME NEW t \in Targets, NEW c \in Renderings[t], R!Skip(t, c)
      PROVE  Abstract!Skip(t, c)
    BY <1>2, SeenOfNone DEF R!Skip, Abstract!Skip
<1>3. ASSUME NEW t \in Targets, NEW c \in Renderings[t], NEW j \in Jobs, R!Redeploy(t, c, j)
      PROVE  Abstract!Redeploy(t, c, j)
    <2>1. SeenStages' = [SeenStages EXCEPT ![j] = "begin"]
        BY <1>3, SeenOfOne DEF R!Redeploy, R!Launch, Attempting
    <2>2. SeenStages[j] = "idle" /\ j = Abstract!NextSlot
        BY <1>3, SameSlots DEF R!Redeploy, R!Launch
    <2>3. Abstract!Launch(t, c, j)
        BY <1>3, <2>1, <2>2 DEF R!Redeploy, R!Launch, Abstract!Launch
    <2> QED
        BY <1>3, <2>3 DEF R!Redeploy, Abstract!Redeploy
<1> QED
    BY <1>1, <1>2, <1>3 DEF Turn, R!Turn, Abstract!Turn

LEMMA LoopRefines ==
    ASSUME TypeOK, LoopNext
    PROVE  Abstract!Next
<1> USE DEF R!jobVars, Abstract!jobVars, R!recordVars, Abstract!recordVars,
            R!Cancellable, Abstract!Cancellable, SeenStages, Seen
<1>1. CASE StartReconcile
    <2>1. /\ Abstract!Cardinality({j \in Jobs : ~Abstract!Live(j)})
                = R!Cardinality({j \in Jobs : ~R!Live(j)})
          /\ Abstract!Cardinality(Targets) = R!Cardinality(Targets)
        BY SameSlots DEF Abstract!Cardinality, R!Cardinality
    <2>2. Abstract!StartReconcile
        BY <1>1, <2>1, SeenOfNone DEF StartReconcile, R!StartReconcile, Abstract!StartReconcile
    <2> QED
        BY <2>2 DEF Abstract!Next, Abstract!Step
<1>2. CASE Turn
    BY <1>2, TurnRefines DEF Abstract!Next, Abstract!Step
<1>3. CASE LoopStep /\ R!ReceiveDone
    <2>1. Abstract!ReceiveDone
        BY <1>3, SeenOfNone DEF R!ReceiveDone, Abstract!ReceiveDone, R!Record, Abstract!Record
    <2> QED
        BY <2>1 DEF Abstract!Next, Abstract!Step
<1>4. CASE LoopStep /\ R!CancelContext
    <2>1. [j \in Jobs |-> Abstract!Live(j)] = [j \in Jobs |-> R!Live(j)]
        BY SameSlots DEF Abstract!Live, R!Live
    <2>2. Abstract!CancelContext
        BY <1>4, <2>1, SeenOfNone DEF R!CancelContext, Abstract!CancelContext
    <2> QED
        BY <2>2 DEF Abstract!Next, Abstract!Step
<1>5. CASE LoopStep /\ R!ExitRun
    <2>1. Abstract!ExitRun
        BY <1>5, SeenOfNone DEF R!ExitRun, Abstract!ExitRun
    <2> QED
        BY <2>1 DEF Abstract!Next, Abstract!Step
<1>6. CASE Restart
    <2>1. SeenStages' = [j \in Jobs |-> "idle"]
        BY <1>6 DEF Restart, R!Restart, Attempting
    <2>2. Abstract!Restart
        BY <1>6, <2>1 DEF Restart, R!Restart, Abstract!Restart, R!Keys, Abstract!Keys
    <2> QED
        BY <2>2 DEF Abstract!Next
<1> QED
    BY <1>1, <1>2, <1>3, <1>4, <1>5, <1>6 DEF LoopNext, LoopStep

\* Most steps of a deployment are not seen; the last one is Settle.
LEMMA WorkRefines ==
    ASSUME TypeOK, NEW j \in Jobs, Work(j)
    PROVE  [Abstract!Next]_(Abstract!vars)
<1>1. PICK stage \in Stages \ {"idle"} : pc' = [pc EXCEPT ![j] = stage]
    BY WorkKeeps DEF Work
<1>2. /\ UNCHANGED <<content, cancelled, loopVars>>
      /\ SeenStages[j] = "begin"
      /\ SeenStages' = [SeenStages EXCEPT ![j] = Seen(stage)]
    BY <1>1, WorkKeeps, SeenOfOne DEF Work, SeenStages, Seen
<1>3. CASE stage \in Attempting \cup {"backoff"}
    <2>1. SeenStages' = SeenStages
        BY <1>2, <1>3 DEF Seen, SeenStages
    <2> QED
        BY <1>2, <2>1 DEF loopVars, Abstract!vars, Abstract!jobVars, Abstract!loopVars,
            Abstract!recordVars, SeenStages, Seen
<1>4. CASE stage \in {"ok", "failed"}
    <2>1. SeenStages' = [SeenStages EXCEPT ![j] = stage]
        BY <1>2, <1>4 DEF Seen, Attempting
    <2>2. Abstract!Settle(j)
        BY <1>2, <1>4, <2>1 DEF loopVars, Abstract!Settle, Abstract!loopVars, Abstract!recordVars,
            SeenStages, Seen
    <2> QED
        BY <2>2 DEF Abstract!Next, Abstract!Step
<1> QED
    BY <1>3, <1>4 DEF Stages

LEMMA ReportRefines ==
    ASSUME TypeOK, NEW j \in Jobs, Report(j)
    PROVE  Abstract!Next
<1>1. /\ pc[j] \in {"ok", "failed"} /\ SeenStages[j] = pc[j]
      /\ R!Finish(j)
    BY SameSlots DEF Report, R!ReportFailure, R!ReportSuccess
<1>2. SeenStages' = [SeenStages EXCEPT ![j] = "idle"]
    BY <1>1, SeenOfOne DEF R!Finish, Seen, Attempting
<1>3. Abstract!Finish(j)
    BY <1>1, <1>2 DEF R!Finish, Abstract!Finish, SeenStages, Seen
<1>4. Abstract!ReportFailure(j) \/ Abstract!ReportSuccess(j)
    BY <1>1, <1>3 DEF Report, R!ReportFailure, R!ReportSuccess, Abstract!ReportFailure,
        Abstract!ReportSuccess, R!Result, Abstract!Result, SeenStages, Seen
<1> QED
    BY <1>4 DEF Abstract!Next, Abstract!Step

LEMMA SystemRefines ==
    ASSUME TypeOK, [BusyNext]_systemVars
    PROVE  [Abstract!Next]_(Abstract!vars)
<1>1. CASE InstanceStep \/ UNCHANGED systemVars
    BY <1>1 DEF InstanceStep, StartInstance, StopInstance, systemVars, vars, jobVars, loopVars,
        Abstract!vars, Abstract!jobVars, Abstract!loopVars, Abstract!recordVars
<1> QED
    BY <1>1, BusyCases, LoopRefines, WorkRefines, ReportRefines

\* Whatever the calls of a deployment do, the loop sees a deployment that ends
\* with success or with an error: all that is proved of Reconciler holds of the
\* loop with the deployments of the code.
THEOREM ReconcileCorrect == BusySpec \/ CalmSpec => ReconcilesAsSpecified
<1>1. SystemInit => Abstract!Init
    BY DEF SystemInit, R!Init, Abstract!Init, R!Keys, Abstract!Keys, Attempting
<1>2. TypeOK /\ [BusyNext]_systemVars => [Abstract!Next]_(Abstract!vars)
    BY SystemRefines
<1>3. [CalmNext]_systemVars => [BusyNext]_systemVars
    BY CalmIsBusy
<1>4. Typed => TypeOK
    BY DEF Typed, SystemTypeOK
<1> QED
    BY <1>1, <1>2, <1>3, <1>4, TypedAlways, PTL DEF BusySpec, CalmSpec, ReconcilesAsSpecified, Abstract!Spec

-----------------------------------------------------------------------------
(* A calm fleet.  QuietIsPublished says nothing of the time in which       *)
(* something is in flight, so it is not inductive: Current adds what the   *)
(* deployment in flight and the result on its way are about.               *)

\* The loop looks at the target when nothing of the last deployment is left.
InTurn == todo # {} => AllIdle /\ done = <<>>

\* Wherever the last rendering is, in a deployment, in the channel or in the
\* record, it is on the way to the Caddyfile or there.
Current ==
    loop = "running" /\ ~ctxDone =>
        /\ \A j \in Jobs : Live(j) =>
               content[j] = rendering[Sole] /\ ~cancelled[j] /\ done = <<>>
        /\ done # <<>> => done = <<<<Sole, rendering[Sole]>>>> /\ target = rendering[Sole]
        /\ AllIdle /\ done = <<>> /\ ~lastFailed[Sole] =>
               /\ lastDeployed[Sole] \in {Absent, target}
               /\ rendering[Sole] \in {Absent, lastDeployed[Sole]}

\* The inductive invariant of the two together, while changes keep their
\* distance.
CalmInductive == Typed /\ Inductive /\ InTurn /\ Current

LEMMA CalmInit == SystemInit => CalmInductive
<1> SUFFICES ASSUME SystemInit
             PROVE  CalmInductive
    OBVIOUS
<1>1. Typed /\ Inductive
    BY TypedInit, InductiveInit DEF SystemInit
<1>2. InTurn
    BY DEF SystemInit, R!Init, InTurn
<1>3. Current
    BY DEF SystemInit, R!Init, Targets, Key, R!Keys, Live, Current
<1> QED
    BY <1>1, <1>2, <1>3 DEF CalmInductive

LEMMA CalmCases ==
    ASSUME [CalmNext]_systemVars
    PROVE  \/ Quiet /\ StartReconcile
           \/ Turn \/ LoopStep \/ Restart \/ InstanceStep \/ UNCHANGED systemVars
           \/ \E j \in Jobs : Work(j) \/ Report(j)
BY DEF CalmNext, Around

\* A turn of the loop starts a deployment beside no other, and nothing else the
\* loop does touches what a deployment relies on.
LEMMA LoopOwned ==
    ASSUME CalmInductive, Typed', Turn \/ StartReconcile \/ LoopStep \/ Restart
    PROVE  Inductive'
<1> USE DEF CalmInductive, Inductive, inside, fileVars, deployVars
<1> SUFFICES Serial' /\ (\A j \in Jobs : Owned(j)') /\ OnlyVettedReplaces'
    BY DEF Typed, SystemTypeOK
<1>1. ASSUME UNCHANGED <<inside, pc, content>>
      PROVE  Serial' /\ (\A j \in Jobs : Owned(j)') /\ OnlyVettedReplaces'
    BY <1>1 DEF Serial, Live, Owned, OnlyVettedReplaces
<1>2. CASE StartReconcile \/ LoopStep
    BY <1>1, <1>2 DEF StartReconcile, R!StartReconcile, LoopStep, R!ReceiveDone, R!Record,
        R!CancelContext, R!ExitRun, R!jobVars
<1>3. ASSUME NEW t \in Targets, UNCHANGED inside,
             R!RenderFails(t) \/ \E c \in Renderings[t] : R!Skip(t, c)
      PROVE  Serial' /\ (\A j \in Jobs : Owned(j)') /\ OnlyVettedReplaces'
    BY <1>1, <1>3 DEF R!RenderFails, R!Skip, R!jobVars
<1>4. ASSUME NEW t \in Targets, UNCHANGED inside,
             NEW c \in Renderings[t], NEW j \in Jobs, R!Redeploy(t, c, j)
      PROVE  Serial' /\ (\A k \in Jobs : Owned(k)') /\ OnlyVettedReplaces'
    <2>1. \A k \in Jobs : pc[k] = "idle" /\ handle[k] = "none"
        BY <1>4 DEF R!Redeploy, R!Launch, R!LookAt, InTurn, AllIdle, Live, Owned
    <2>2. /\ pc' = [pc EXCEPT ![j] = "begin"]
          /\ content' = [content EXCEPT ![j] = c]
          /\ c \in Contents
        BY <1>4 DEF R!Redeploy, R!Launch, Targets, Renderings
    <2> QED
        BY <1>4, <2>1, <2>2 DEF TypeOK, FileTypeOK, Serial, Live, Owned, OnlyVettedReplaces
<1>5. CASE Restart
    BY <1>5 DEF Restart, KillJobs, Serial, Live, Owned, OnlyVettedReplaces
<1> QED
    BY <1>2, <1>3, <1>4, <1>5 DEF Turn, R!Turn

LEMMA InductiveKept ==
    ASSUME CalmInductive, Typed', [CalmNext]_systemVars
    PROVE  Inductive'
<1>1. CASE [Next]_vars
    BY <1>1, InductiveStep DEF CalmInductive
<1> QED
    BY <1>1, CalmCases, LoopOwned, DeployStep DEF systemVars

\* The loop makes the rendering current by starting its deployment or by finding
\* it in the record.
LEMMA TurnCurrent ==
    ASSUME CalmInductive, Turn
    PROVE  InTurn' /\ Current'
<1> USE DEF CalmInductive, Typed, SystemTypeOK, R!LoopTypeOK, Targets, Key, R!Keys, R!LookAt
<1>0. /\ AllIdle /\ done = <<>> /\ todo = {Sole} /\ todo' = {}
      /\ loop' = loop /\ ctxDone' = ctxDone
      /\ target' = target
    BY DEF Turn, R!Turn, R!RenderFails, R!Skip, R!Redeploy, R!Launch, InTurn, inside, fileVars
<1>1. InTurn'
    BY <1>0 DEF InTurn
<1>2. ASSUME NEW t \in Targets, R!RenderFails(t)
      PROVE  Current'
    BY <1>0, <1>2 DEF R!RenderFails, R!jobVars, R!recordVars, AllIdle, Live, Current
<1>3. ASSUME NEW t \in Targets, NEW c \in Renderings[t], R!Skip(t, c)
      PROVE  Current'
    BY <1>0, <1>3 DEF R!Skip, R!jobVars, AllIdle, Live, Current
<1>4. ASSUME NEW t \in Targets, NEW c \in Renderings[t], NEW j \in Jobs, R!Redeploy(t, c, j)
      PROVE  Current'
    <2>1. /\ pc' = [pc EXCEPT ![j] = "begin"]
          /\ content' = [content EXCEPT ![j] = c]
          /\ rendering'[Sole] = c /\ done' = <<>>
          /\ cancelled'[j] = ctxDone
        BY <1>0, <1>4 DEF R!Redeploy, R!Launch
    <2>2. \A k \in Jobs : Live(k)' => k = j
        BY <1>0, <2>1 DEF AllIdle, Live, TypeOK, FileTypeOK
    <2>3. Live(j)' /\ content'[j] = c
        BY <2>1 DEF Live, TypeOK, FileTypeOK
    <2> QED
        BY <1>0, <2>1, <2>2, <2>3 DEF AllIdle, Current
<1> QED
    BY <1>1, <1>2, <1>3, <1>4 DEF Turn, R!Turn

LEMMA LoopCurrent ==
    ASSUME CalmInductive, (Quiet /\ StartReconcile) \/ LoopStep \/ Restart
    PROVE  InTurn' /\ Current'
<1> USE DEF CalmInductive, Typed, SystemTypeOK, R!LoopTypeOK, Targets, Key, R!Keys
<1>1. CASE Quiet /\ StartReconcile
    BY <1>1 DEF Quiet, StartReconcile, R!StartReconcile, R!jobVars, R!recordVars, inside,
        fileVars, AllIdle, Live, InTurn, Current
<1>2. CASE LoopStep /\ R!ReceiveDone
    <2>1. /\ UNCHANGED <<pc, content, cancelled, target, rendering, lastFailed, loop, ctxDone>>
          /\ loop = "running" /\ todo' = {} /\ done # <<>> /\ done' = Tail(done)
          /\ lastDeployed' = [lastDeployed EXCEPT ![Head(done)[1]] = Head(done)[2]]
        BY <1>2 DEF LoopStep, R!ReceiveDone, R!Record, R!jobVars, inside, fileVars
    <2>2. ASSUME ~ctxDone
          PROVE  /\ AllIdle' /\ done' = <<>>
                 /\ target = rendering[Sole] /\ lastDeployed'[Sole] = rendering[Sole]
        <3>1. done = <<<<Sole, rendering[Sole]>>>> /\ target = rendering[Sole]
            BY <2>1, <2>2 DEF Current
        <3>2. Head(done) = <<Sole, rendering[Sole]>> /\ Tail(done) = <<>>
            BY <3>1
        <3>3. \A j \in Jobs : ~Live(j)
            BY <2>1, <2>2 DEF Current
        <3> QED
            BY <2>1, <3>1, <3>2, <3>3 DEF AllIdle, Live
    <2> QED
        BY <2>1, <2>2 DEF InTurn, Current, AllIdle
<1>3. CASE LoopStep /\ (R!CancelContext \/ R!ExitRun)
    BY <1>3 DEF LoopStep, R!CancelContext, R!ExitRun, R!recordVars, AllIdle, Live, InTurn, Current
<1>4. CASE Restart
    BY <1>4 DEF Restart, R!Restart, InTurn, Current, Live
<1> QED
    BY <1>1, <1>2, <1>3, <1>4 DEF LoopStep

\* A deployment works on the current rendering, and nobody else does.
LEMMA WorkCurrent ==
    ASSUME CalmInductive, NEW j \in Jobs, Work(j)
    PROVE  InTurn' /\ Current'
<1> USE DEF CalmInductive
<1>1. /\ Live(j) /\ Live(j)'
      /\ UNCHANGED <<content, cancelled, loopVars>>
      /\ \A k \in Jobs \ {j} : Live(k)' => Live(k)
    BY WorkKeeps DEF Work, Inductive, Live, Attempting, TypeOK, FileTypeOK
<1>2. todo = {}
    BY <1>1 DEF InTurn, AllIdle
<1> QED
    BY <1>1, <1>2 DEF loopVars, InTurn, AllIdle, Current

\* A deployment that succeeds has put the current rendering in place.
LEMMA ReportCurrent ==
    ASSUME CalmInductive, NEW j \in Jobs, Report(j)
    PROVE  InTurn' /\ Current'
<1> USE DEF CalmInductive, Typed, SystemTypeOK, R!LoopTypeOK
<1>1. /\ pc[j] \in {"ok", "failed"} /\ R!Finish(j) /\ target' = target
    BY DEF Report, R!ReportFailure, R!ReportSuccess, Returned, fileVars
<1>2. todo = {} /\ todo' = {}
    BY <1>1 DEF R!Finish, InTurn, AllIdle, Live
<1>3. AllIdle'
    BY <1>1 DEF R!Finish, Inductive, Serial, AllIdle, Live, TypeOK, FileTypeOK
<1>4. ASSUME loop' = "running", ~ctxDone'
      PROVE  /\ done' # <<>> => done' = <<<<Sole, rendering'[Sole]>>>> /\ target' = rendering'[Sole]
             /\ done' = <<>> => lastFailed'[Sole]
    <2>1. /\ owner[j] = Sole /\ content[j] = rendering[Sole] /\ ~cancelled[j] /\ done = <<>>
          /\ rendering' = rendering
        BY <1>1, <1>4 DEF R!Finish, Current, Deploying, Live
    <2>2. CASE R!ReportFailure(j)
        BY <2>1, <2>2 DEF R!ReportFailure, Targets
    <2>3. CASE R!ReportSuccess(j)
        <3>1. target = content[j]
            BY <2>3 DEF R!ReportSuccess, Inductive, Owned
        <3>2. R!Result(j) = <<Sole, rendering[Sole]>>
            BY <2>1 DEF R!Result, Targets, Key
        <3>3. done' = <<<<Sole, rendering[Sole]>>>>
            BY <2>1, <2>3, <3>2 DEF R!ReportSuccess
        <3> QED
            BY <1>1, <2>1, <3>1, <3>3
    <2> QED
        BY <2>2, <2>3 DEF Report
<1> QED
    BY <1>2, <1>3, <1>4 DEF InTurn, AllIdle, Current

LEMMA CalmStep ==
    ASSUME CalmInductive, [CalmNext]_systemVars
    PROVE  CalmInductive'
<1>1. Typed'
    BY CalmIsBusy, TypedStep DEF CalmInductive
<1>2. Inductive'
    BY <1>1, InductiveKept
<1>3. CASE InstanceStep \/ UNCHANGED systemVars
    <2>1. UNCHANGED <<pc, content, cancelled, target, loopVars>>
        BY <1>3 DEF InstanceStep, StartInstance, StopInstance, systemVars, vars, fileVars, jobVars
    <2>2. InTurn' /\ Current'
        BY <2>1 DEF CalmInductive, loopVars, AllIdle, Live, InTurn, Current
    <2> QED
        BY <1>1, <1>2, <2>2 DEF CalmInductive
<1> QED
    BY <1>1, <1>2, <1>3, CalmCases, TurnCurrent, LoopCurrent, WorkCurrent, ReportCurrent DEF CalmInductive

LEMMA CalmAlways == CalmSpec => []CalmInductive
<1>1. CalmInductive /\ [CalmNext]_systemVars => CalmInductive'
    BY CalmStep
<1> QED
    BY <1>1, CalmInit, PTL DEF CalmSpec

\* While changes keep their distance the Caddyfile is a whole rendering, vetted
\* unless it was staged for a stopped instance: the loop starts deployments the
\* way Deploy assumes.
THEOREM CalmVettedCorrect == CalmSpec => []OnlyVettedReplaces
<1>1. CalmInductive => OnlyVettedReplaces
    BY DEF CalmInductive, Inductive
<1> QED
    BY <1>1, CalmAlways, PTL

\* When nothing is in flight any more, what was rendered last is published,
\* unless its deployment failed: no skip, no late result and no restart of the
\* process or of the instance leaves the Caddyfile behind.
THEOREM QuietCorrect == CalmSpec => []QuietIsPublished
<1>1. CalmInductive => QuietIsPublished
    BY DEF CalmInductive, Current, Quiet, QuietIsPublished
<1> QED
    BY <1>1, CalmAlways, PTL
=============================================================================
