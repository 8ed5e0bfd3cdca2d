---------------------------- MODULE DeployProofs ----------------------------
(***************************************************************************)
(* What Deploy.tla guarantees for any set of goroutines, any renderings    *)
(* and any number of attempts, proved.                                     *)
(*                                                                         *)
(* OnlyVettedReplaces and SuccessIsServed are not inductive: they say      *)
(* nothing of the staging file a rename makes the Caddyfile.  Inductive    *)
(* adds what a deployment owns at each of its stages.                      *)
(***************************************************************************)
EXTENDS Deploy, TLAPS

\* A job waits for another attempt only when there is one left.
Counted == \A j \in Jobs : pc[j] = "backoff" => attempt[j] < MaxAttempts

\* Deployments come one after the other.
Serial == \A j, k \in Jobs : Live(j) /\ Live(k) => j = k

\* What job j has brought about when it is at its stage.
Owned(j) ==
    /\ Live(j) => content[j] \in Contents
    /\ handle[j] = IF pc[j] = "write" THEN "staging" ELSE "none"
    /\ pc[j] = "write" => staging = Empty
    /\ pc[j] \in {"fmt", "validate", "rename"} => staging = content[j]
    /\ pc[j] \in {"fmt", "validate", "reload"} => sawRunning[j]
    /\ pc[j] \in {"rename", "reload", "ok"} /\ sawRunning[j] => content[j] \in Valid
    /\ pc[j] \in {"reload", "ok"} => target = content[j]
    /\ pc[j] = "reload" => ~coldStaged
    /\ pc[j] = "ok" /\ sawRunning[j] /\ running => serving = content[j]

\* The inductive invariant of deploy: from the moment a deployment truncates the
\* staging file to its last reload, what is staged, published and served is what
\* its own goroutine put there, and nobody publishes anything unvetted.
Inductive ==
    /\ TypeOK
    /\ Counted
    /\ Serial
    /\ \A j \in Jobs : Owned(j)
    /\ OnlyVettedReplaces

-----------------------------------------------------------------------------
(* Type correctness.  The attempts are counted up to MaxAttempts and not   *)
(* further because only an attempt that is not the last one is retried.    *)

LEMMA TypeInit == Init => TypeOK /\ Counted
<1> SUFFICES ASSUME Init
             PROVE  TypeOK /\ Counted
    OBVIOUS
<1> USE DEF Init, FileInit, NoJobs, Stages, Attempting, Handles, Files
<1>1. 1 \in 1 .. MaxAttempts
    BY FileAssumption DEF FileAssumption
<1>2. FileTypeOK
    BY <1>1 DEF FileTypeOK
<1>3. serving \in Files
    OBVIOUS
<1> QED
    BY <1>2, <1>3 DEF TypeOK, Counted

\* A step puts values of their types into the variables.
LEMMA TypeStep ==
    ASSUME TypeOK, Counted, [Next]_vars
    PROVE  TypeOK'
<1> USE FileAssumption
    DEF FileAssumption, TypeOK, FileTypeOK, Files, Stages, Attempting, Handles, fileVars, jobVars, deployVars
<1>0. 1 \in 1 .. MaxAttempts
    OBVIOUS
<1>1. CASE StartInstance
    BY <1>1 DEF StartInstance, Bootable
<1>2. CASE StopInstance
    BY <1>2 DEF StopInstance
<1>3. CASE Crash
    BY <1>0, <1>3 DEF Crash, KillJobs
<1>4. ASSUME NEW j \in Jobs, Step(j)
      PROVE  TypeOK'
    <2>1. CASE Begin(j)
        BY <2>1 DEF Begin, Advance
    <2>2. CASE CreateStaging(j)
        BY <2>2 DEF CreateStaging, Create, Advance
    <2>3. CASE WriteStaging(j)
        BY <2>3 DEF WriteStaging, Write, Put, Overwritten, Opened, Advance
    <2>4. CASE Fmt(j)
        BY <2>4 DEF Fmt, Exec, Advance
    <2>5. CASE Validate(j)
        BY <2>5 DEF Validate, Exec, Advance
    <2>6. CASE Swap(j)
        <3>1. handle' \in [Jobs -> Handles]
            BY <2>6 DEF Swap, Rename
        <3> QED
            BY <2>6, <3>1 DEF Swap, Rename, Advance
    <2>7. CASE Reload(j)
        BY <2>7 DEF Reload, Exec, Advance
    <2>8. CASE ReloadUnanswered(j)
        BY <2>8 DEF ReloadUnanswered, Fail, FailAttempt
    <2>9. CASE AttemptFails(j)
        BY <2>9 DEF AttemptFails, Fail, FailWrite, FailAttempt, Put, Damaged, Opened
    <2>10. CASE Wait(j)
        <3>1. CASE Retry(j)
            <4>1. attempt[j] + 1 \in 1 .. MaxAttempts
                BY <3>1 DEF Retry, Advance, Counted
            <4> QED
                BY <2>10, <3>1, <4>1 DEF Wait, Retry, Advance
        <3>2. CASE GiveUp(j)
            BY <2>10, <3>2 DEF Wait, GiveUp, Advance
        <3> QED
            BY <2>10, <3>1, <3>2 DEF Wait
    <2> QED
        BY <1>4, <2>1, <2>2, <2>3, <2>4, <2>5, <2>6, <2>7, <2>8, <2>9, <2>10 DEF Step
<1>5. ASSUME NEW j \in Jobs, CancelJob(j)
      PROVE  TypeOK'
    BY <1>5 DEF CancelJob, Cancel
<1>6. ASSUME NEW j \in Jobs, Return(j)
      PROVE  TypeOK'
    BY <1>0, <1>6 DEF Return, Leave, Forget
<1>7. ASSUME NEW j \in Jobs, NEW c \in Contents, Start(j, c)
      PROVE  TypeOK'
    BY <1>0, <1>7 DEF Start, Launch
<1>8. CASE UNCHANGED vars
    BY <1>8 DEF vars
<1> QED
    BY <1>1, <1>2, <1>3, <1>4, <1>5, <1>6, <1>7, <1>8 DEF Next

\* Only an attempt that fails lets a job wait, and the last one does not.
LEMMA CountedStep ==
    ASSUME TypeOK, Counted, [Next]_vars
    PROVE  Counted'
<1> USE FileAssumption
    DEF FileAssumption, TypeOK, FileTypeOK, Stages, Attempting, Counted, fileVars, jobVars, deployVars
<1>1. CASE StartInstance \/ StopInstance \/ Crash
    BY <1>1 DEF StartInstance, StopInstance, Crash, KillJobs
<1>2. ASSUME NEW j \in Jobs, FailAttempt(j)
      PROVE  Counted'
    BY <1>2 DEF FailAttempt
<1>3. ASSUME NEW j \in Jobs, Step(j)
      PROVE  Counted'
    <2>1. CASE Begin(j) \/ CreateStaging(j) \/ WriteStaging(j) \/ Swap(j)
        BY <2>1 DEF Begin, CreateStaging, Create, WriteStaging, Write, Swap, Rename, Advance
    <2>2. CASE Fmt(j) \/ Validate(j) \/ Reload(j)
        BY <2>2 DEF Fmt, Validate, Reload, Exec, Advance
    <2>3. CASE ReloadUnanswered(j) \/ AttemptFails(j)
        BY <1>2, <2>3 DEF ReloadUnanswered, AttemptFails, Fail, FailWrite
    <2>4. CASE Wait(j)
        BY <2>4 DEF Wait, Retry, GiveUp, Advance
    <2> QED
        BY <1>3, <2>1, <2>2, <2>3, <2>4 DEF Step
<1>4. ASSUME NEW j \in Jobs, CancelJob(j) \/ Return(j)
      PROVE  Counted'
    BY <1>4 DEF CancelJob, Cancel, Return, Leave
<1>5. ASSUME NEW j \in Jobs, NEW c \in Contents, Start(j, c)
      PROVE  Counted'
    BY <1>5 DEF Start, Launch
<1>6. CASE UNCHANGED vars
    BY <1>6 DEF vars
<1> QED
    BY <1>1, <1>3, <1>4, <1>5, <1>6 DEF Next

\* Every variable of a deployment keeps its type; in particular no job makes
\* more than MaxAttempts attempts.
THEOREM TypeCorrect == Spec => []TypeOK
<1>1. Init => TypeOK /\ Counted
    BY TypeInit
<1>2. TypeOK /\ Counted /\ [Next]_vars => (TypeOK /\ Counted)'
    BY TypeStep, CountedStep
<1> QED
    BY <1>1, <1>2, PTL DEF Spec

-----------------------------------------------------------------------------
(* Safety.                                                                 *)

\* A job that makes a step has the files to itself.
LEMMA OthersIdle ==
    ASSUME Inductive, NEW j \in Jobs, Live(j)
    PROVE  \A k \in Jobs \ {j} : pc[k] = "idle" /\ handle[k] = "none"
BY DEF Inductive, Serial, Live, Owned

\* A job's step concerns no other job, and keeps it alive.
LEMMA StepOfOne ==
    ASSUME Inductive, NEW j \in Jobs, Step(j)
    PROVE  /\ Live(j)
           /\ content' = content
           /\ \A k \in Jobs \ {j} : pc'[k] = "idle" /\ handle'[k] = "none"
<1> USE DEF Inductive, TypeOK, FileTypeOK, Live, Advance
<1>1. Live(j)
    BY DEF Step, Begin, CreateStaging, Create, WriteStaging, Write, Fmt, Validate, Exec, Swap,
        Rename, Reload, ReloadUnanswered, AttemptFails, Fail, FailWrite, FailAttempt,
        Attempting, Wait, Retry, GiveUp
<1>2. \A k \in Jobs \ {j} : pc[k] = "idle" /\ handle[k] = "none"
    BY <1>1, OthersIdle
<1>3. CASE Begin(j) \/ CreateStaging(j) \/ WriteStaging(j)
    BY <1>1, <1>2, <1>3 DEF Begin, CreateStaging, Create, WriteStaging, Write
<1>4. CASE Fmt(j) \/ Validate(j) \/ Reload(j)
    BY <1>1, <1>2, <1>4 DEF Fmt, Validate, Reload, Exec
<1>5. CASE Swap(j)
    BY <1>1, <1>2, <1>5 DEF Swap, Rename
<1>6. CASE ReloadUnanswered(j) \/ AttemptFails(j)
    BY <1>1, <1>2, <1>6 DEF ReloadUnanswered, AttemptFails, Fail, FailWrite, FailAttempt
<1>7. CASE Wait(j)
    BY <1>1, <1>2, <1>7 DEF Wait, Retry, GiveUp
<1> QED
    BY <1>3, <1>4, <1>5, <1>6, <1>7 DEF Step

\* Every step of a job hands on what its next stage relies on: the staging file
\* it wrote, the verdict on it, and the file the rename left.
LEMMA OwnStep ==
    ASSUME Inductive, NEW j \in Jobs, Step(j)
    PROVE  Owned(j)' /\ OnlyVettedReplaces'
<1> USE FileAssumption
    DEF FileAssumption, Inductive, TypeOK, FileTypeOK, Live, Advance, OnlyVettedReplaces,
        fileVars, deployVars
<1>0. Owned(j) /\ Live(j) /\ content' = content /\ content[j] \in Contents
    BY StepOfOne DEF Owned
<1>1. CASE Begin(j)
    BY <1>0, <1>1 DEF Begin, Owned
<1>2. CASE CreateStaging(j)
    BY <1>0, <1>2 DEF CreateStaging, Create, Owned
<1>3. CASE WriteStaging(j)
    <2>1. staging = Empty /\ handle[j] = "staging"
        BY <1>0, <1>3 DEF WriteStaging, Write, Owned
    <2>2. staging' = content[j] /\ target' = target
        BY <1>3, <2>1 DEF WriteStaging, Write, Put, Overwritten, Opened
    <2> QED
        BY <1>0, <1>3, <2>2 DEF WriteStaging, Write, Owned
<1>4. CASE Fmt(j)
    BY <1>0, <1>4 DEF Fmt, Exec, Owned
<1>5. CASE Validate(j)
    BY <1>0, <1>5 DEF Validate, Exec, Owned
<1>6. CASE Swap(j)
    <2>1. target' = content[j] /\ (sawRunning[j] => content[j] \in Valid)
        BY <1>0, <1>6 DEF Swap, Rename, Owned
    <2>2. pc'[j] = (IF sawRunning[j] THEN "reload" ELSE "ok") /\ sawRunning' = sawRunning
        BY <1>6 DEF Swap, Rename
    <2>3. handle'[j] = "none"
        BY <1>0, <1>6 DEF Swap, Rename, Owned
    <2>4. coldStaged' = ~sawRunning[j]
        BY <1>6 DEF Swap
    <2>5. OnlyVettedReplaces'
        BY <1>0, <2>1, <2>4
    <2> QED
        BY <1>0, <2>1, <2>2, <2>3, <2>4, <2>5 DEF Owned
<1>7. CASE Reload(j)
    BY <1>0, <1>7 DEF Reload, Exec, Owned
<1>8. CASE ReloadUnanswered(j)
    BY <1>0, <1>8 DEF ReloadUnanswered, Fail, FailAttempt, Owned
<1>9. CASE AttemptFails(j)
    <2>1. target' = target
        BY <1>0, <1>9 DEF AttemptFails, Fail, FailWrite, Put, Owned
    <2>2. pc'[j] \in {"failed", "backoff"} /\ handle'[j] = "none"
        BY <1>9 DEF AttemptFails, Fail, FailWrite, FailAttempt
    <2> QED
        BY <1>0, <1>9, <2>1, <2>2 DEF AttemptFails, Owned
<1>10. CASE Wait(j)
    BY <1>0, <1>10 DEF Wait, Retry, GiveUp, Owned
<1> QED
    BY <1>1, <1>2, <1>3, <1>4, <1>5, <1>6, <1>7, <1>8, <1>9, <1>10 DEF Step

LEMMA InductiveInit == Init => Inductive
<1> SUFFICES ASSUME Init
             PROVE  Inductive
    OBVIOUS
<1>1. \A j \in Jobs : Owned(j)
    BY DEF Init, FileInit, NoJobs, Owned, Live
<1>2. Serial /\ OnlyVettedReplaces
    BY DEF Init, FileInit, NoJobs, Serial, Live, OnlyVettedReplaces
<1> QED
    BY <1>1, <1>2, TypeInit DEF Inductive

LEMMA InductiveStep ==
    ASSUME Inductive, [Next]_vars
    PROVE  Inductive'
<1>0. TypeOK' /\ Counted'
    BY TypeStep, CountedStep DEF Inductive
<1> SUFFICES Serial' /\ (\A k \in Jobs : Owned(k)') /\ OnlyVettedReplaces'
    BY <1>0 DEF Inductive
<1> USE FileAssumption DEF FileAssumption, Inductive, TypeOK, FileTypeOK, Live, fileVars, jobVars, deployVars
<1>1. CASE StartInstance
    BY <1>1 DEF StartInstance, Bootable, Serial, Owned, OnlyVettedReplaces
<1>2. CASE StopInstance
    BY <1>2 DEF StopInstance, Serial, Owned, OnlyVettedReplaces
<1>3. CASE Crash
    BY <1>3 DEF Crash, KillJobs, Serial, Owned, OnlyVettedReplaces
<1>4. ASSUME NEW j \in Jobs, Step(j)
      PROVE  Serial' /\ (\A k \in Jobs : Owned(k)') /\ OnlyVettedReplaces'
    <2>1. \A k \in Jobs \ {j} : pc'[k] = "idle" /\ handle'[k] = "none"
        BY <1>4, StepOfOne
    <2>2. \A k \in Jobs \ {j} : Owned(k)'
        BY <2>1 DEF Owned
    <2>3. Serial'
        BY <2>1 DEF Serial
    <2> QED
        BY <1>4, <2>2, <2>3, OwnStep
<1>5. ASSUME NEW j \in Jobs, CancelJob(j)
      PROVE  Serial' /\ (\A k \in Jobs : Owned(k)') /\ OnlyVettedReplaces'
    BY <1>5 DEF CancelJob, Cancel, Serial, Owned, OnlyVettedReplaces
<1>6. ASSUME NEW j \in Jobs, Return(j)
      PROVE  Serial' /\ (\A k \in Jobs : Owned(k)') /\ OnlyVettedReplaces'
    BY <1>6 DEF Return, Leave, Forget, Serial, Owned, OnlyVettedReplaces
<1>7. ASSUME NEW j \in Jobs, NEW c \in Contents, AllIdle, Start(j, c)
      PROVE  Serial' /\ (\A k \in Jobs : Owned(k)') /\ OnlyVettedReplaces'
    BY <1>7 DEF AllIdle, Start, Launch, Serial, Owned, OnlyVettedReplaces
<1>8. CASE UNCHANGED vars
    BY <1>8 DEF vars, Serial, Owned, OnlyVettedReplaces
<1> QED
    BY <1>1, <1>2, <1>3, <1>4, <1>5, <1>6, <1>7, <1>8 DEF Next

\* At every moment of every deployment the staging file, the verdict and the
\* Caddyfile are those of the goroutine that made them, and no two goroutines of
\* a target deploy at once: what the theorems below rest on.
THEOREM InductiveCorrect == Spec => []Inductive
<1>1. Inductive /\ [Next]_vars => Inductive'
    BY InductiveStep
<1> QED
    BY <1>1, InductiveInit, PTL DEF Spec

\* Whatever fails, is cancelled or crashes, the Caddyfile is one whole rendering
\* and, unless it was staged for a stopped instance, one Caddy has accepted.
THEOREM VettedCorrect == Spec => []OnlyVettedReplaces
<1>1. Inductive => OnlyVettedReplaces
    BY DEF Inductive
<1> QED
    BY <1>1, InductiveCorrect, PTL

\* A deployment that returns nil has put its rendering in place, and the
\* instance that reloaded it serves it, also after it went down and up again.
THEOREM SuccessCorrect == Spec => []SuccessIsServed
<1>1. Inductive => SuccessIsServed
    BY DEF Inductive, Owned, SuccessIsServed
<1> QED
    BY <1>1, InductiveCorrect, PTL

-----------------------------------------------------------------------------
(* Refinement: a deployment publishes as Publish.tla promises.             *)

\* What Publish sees of the stage of a job.
Phase(stage) == CASE stage = "idle" -> "out"
                  [] stage = "ok" -> "done"
                  [] stage = "failed" -> "failed"
                  [] OTHER -> "working"

Phases == [j \in Jobs |-> Phase(pc[j])]

\* A job that changes its stage changes its phase, and no other one's.
LEMMA PhaseOfOne ==
    ASSUME TypeOK, NEW j \in Jobs, NEW stage, pc' = [pc EXCEPT ![j] = stage]
    PROVE  Phases' = [Phases EXCEPT ![j] = Phase(stage)]
BY DEF TypeOK, FileTypeOK, Phases

LEMMA PublishStep ==
    ASSUME Inductive, Inductive', [Next]_vars
    PROVE  [Promise!Next]_(Promise!vars)
<1>0. TypeOK
    BY DEF Inductive
<1> DEFINE Same == target' = target /\ coldStaged' = coldStaged /\ content' = content
<1>1. ASSUME Same, Phases' = Phases
      PROVE  UNCHANGED Promise!vars
    BY <1>1 DEF Promise!vars, Phases, Phase
<1>2. ASSUME NEW j \in Jobs, Same, NEW stage \in Attempting \cup {"backoff"},
             pc[j] \in Attempting \cup {"backoff"}, pc' = [pc EXCEPT ![j] = stage]
      PROVE  UNCHANGED Promise!vars
    <2>1. Phases' = Phases
        BY <1>0, <1>2, PhaseOfOne DEF Attempting, Phase, Phases
    <2> QED
        BY <1>1, <1>2, <2>1
<1>3. CASE StartInstance \/ StopInstance \/ UNCHANGED vars \/ \E j \in Jobs : CancelJob(j)
    <2>1. Same /\ pc' = pc
        BY <1>3 DEF StartInstance, StopInstance, CancelJob, Cancel, vars, fileVars, jobVars, deployVars
    <2> QED
        BY <1>1, <2>1 DEF Phases
<1>4. CASE Crash
    <2>1. target' = target /\ coldStaged' = coldStaged /\ content' = [j \in Jobs |-> Absent]
        BY <1>4 DEF Crash, KillJobs, fileVars
    <2>2. Phases' = [j \in Jobs |-> "out"]
        BY <1>4 DEF Crash, KillJobs, Phases, Phase
    <2>3. Promise!Abandon
        BY <2>1, <2>2 DEF Promise!Abandon, Phases, Phase
    <2> QED
        BY <2>3 DEF Promise!Next
<1>5. ASSUME NEW j \in Jobs, Step(j)
      PROVE  [Promise!Next]_(Promise!vars)
    <2>0. /\ Owned(j) /\ content' = content /\ pc[j] # "idle" /\ content[j] \in Contents
        BY <1>5, StepOfOne DEF Inductive, Owned, Live
    <2>1. CASE Begin(j) \/ CreateStaging(j) \/ Fmt(j) \/ Validate(j)
        BY <1>2, <2>0, <2>1 DEF Begin, CreateStaging, Create, Fmt, Validate, Exec, Advance,
            fileVars, deployVars, Attempting
    <2>2. CASE WriteStaging(j)
        <3>1. Same
            BY <2>0, <2>2 DEF WriteStaging, Write, Put, Owned, deployVars
        <3>2. pc[j] = "write" /\ pc' = [pc EXCEPT ![j] = IF sawRunning[j] THEN "fmt" ELSE "rename"]
            BY <2>2 DEF WriteStaging, Write, Advance
        <3> QED
            BY <1>2, <3>1, <3>2 DEF Attempting
    <2>3. CASE Swap(j)
        <3>1. /\ target' = content[j] /\ coldStaged' = ~sawRunning[j]
              /\ pc[j] = "rename"
              /\ pc' = [pc EXCEPT ![j] = IF sawRunning[j] THEN "reload" ELSE "ok"]
            BY <2>0, <2>3 DEF Swap, Rename, Advance, Owned
        <3>2. Phases' = [Phases EXCEPT ![j] = IF sawRunning[j] THEN "working" ELSE "done"]
            <4>0. Phase("reload") = "working" /\ Phase("ok") = "done"
                BY DEF Phase
            <4>1. CASE sawRunning[j]
                BY <1>0, <3>1, <4>0, <4>1, PhaseOfOne
            <4>2. CASE ~sawRunning[j]
                BY <1>0, <3>1, <4>0, <4>2, PhaseOfOne
            <4> QED
                BY <4>1, <4>2
        <3>3. Phases[j] = "working"
            BY <3>1 DEF Phases, Phase
        <3>4. CASE sawRunning[j]
            <4>1. content[j] \in Valid
                BY <2>0, <3>1, <3>4 DEF Owned
            <4>2. Promise!Replace(j)
                BY <2>0, <3>1, <3>2, <3>3, <3>4, <4>1
                DEF Promise!Replace, Promise!Become, Phases, Phase
            <4> QED
                BY <4>2 DEF Promise!Next
        <3>5. CASE ~sawRunning[j]
            <4>1. Promise!ReplaceUnvetted(j)
                BY <2>0, <3>1, <3>2, <3>3, <3>5
                DEF Promise!ReplaceUnvetted, Promise!Become, Phases, Phase
            <4> QED
                BY <4>1 DEF Promise!Next
        <3> QED
            BY <3>4, <3>5
    <2>4. CASE Reload(j)
        <3>1. Same /\ pc[j] = "reload" /\ pc' = [pc EXCEPT ![j] = "ok"]
            BY <2>0, <2>4 DEF Reload, Exec, Advance, fileVars
        <3>2. Phases' = [Phases EXCEPT ![j] = "done"] /\ Phases[j] = "working"
            BY <1>0, <3>1, PhaseOfOne DEF Phases, Phase
        <3>3. target = content[j] /\ ~coldStaged
            BY <2>0, <3>1 DEF Owned
        <3>4. Promise!Succeed(j)
            BY <3>1, <3>2, <3>3 DEF Promise!Succeed, Promise!Become, Phases, Phase
        <3> QED
            BY <3>4 DEF Promise!Next
    <2>5. ASSUME Same, pc[j] \in Attempting \cup {"backoff"},
                 pc' = [pc EXCEPT ![j] = "failed"]
          PROVE  Promise!Next
        <3>1. Phases' = [Phases EXCEPT ![j] = "failed"] /\ Phases[j] = "working"
            BY <1>0, <2>5, PhaseOfOne DEF Phases, Phase, Attempting
        <3>2. Promise!Fail(j)
            BY <2>5, <3>1 DEF Promise!Fail, Promise!Become, Phases, Phase
        <3> QED
            BY <3>2 DEF Promise!Next
    <2>6. CASE ReloadUnanswered(j) \/ AttemptFails(j)
        <3>1. Same
            BY <2>0, <2>6 DEF ReloadUnanswered, AttemptFails, Fail, FailWrite, Put, Owned,
                fileVars, deployVars
        <3>2. /\ pc[j] \in Attempting
              /\ \/ pc' = [pc EXCEPT ![j] = "failed"]
                 \/ pc' = [pc EXCEPT ![j] = "backoff"]
            BY <2>6 DEF ReloadUnanswered, AttemptFails, Fail, FailWrite, FailAttempt
        <3> QED
            BY <1>2, <2>5, <3>1, <3>2
    <2>7. CASE Wait(j)
        <3>1. CASE Retry(j)
            <4>1. Same /\ pc[j] = "backoff" /\ pc' = [pc EXCEPT ![j] = "begin"]
                BY <2>7, <3>1 DEF Wait, Retry, Advance, fileVars, deployVars
            <4> QED
                BY <1>2, <4>1 DEF Attempting
        <3>2. CASE GiveUp(j)
            <4>1. Same /\ pc[j] = "backoff" /\ pc' = [pc EXCEPT ![j] = "failed"]
                BY <2>7, <3>2 DEF Wait, GiveUp, Advance, fileVars, deployVars
            <4> QED
                BY <2>5, <4>1
        <3> QED
            BY <2>7, <3>1, <3>2 DEF Wait
    <2> QED
        BY <1>5, <2>1, <2>2, <2>3, <2>4, <2>6, <2>7 DEF Step
<1>6. ASSUME NEW j \in Jobs, Return(j)
      PROVE  Promise!Next
    <2>1. /\ target' = target /\ coldStaged' = coldStaged
          /\ content' = [content EXCEPT ![j] = Absent]
          /\ pc[j] \in {"ok", "failed"} /\ pc' = [pc EXCEPT ![j] = "idle"]
        BY <1>6 DEF Return, Leave, fileVars
    <2>2. Phases' = [Phases EXCEPT ![j] = "out"] /\ Phases[j] \in {"done", "failed"}
        BY <1>0, <2>1, PhaseOfOne DEF Phases, Phase
    <2>3. Promise!Leave(j)
        BY <2>1, <2>2 DEF Promise!Leave, Promise!Become, Phases, Phase
    <2> QED
        BY <2>3 DEF Promise!Next
<1>7. ASSUME NEW j \in Jobs, NEW c \in Contents, AllIdle, Start(j, c)
      PROVE  Promise!Next
    <2>1. /\ target' = target /\ coldStaged' = coldStaged
          /\ content' = [content EXCEPT ![j] = c]
          /\ pc' = [pc EXCEPT ![j] = "begin"]
        BY <1>7 DEF Start, Launch, fileVars, deployVars
    <2>2. Phases' = [Phases EXCEPT ![j] = "working"]
        <3>1. Phase("begin") = "working"
            BY DEF Phase
        <3> QED
            BY <1>0, <2>1, <3>1, PhaseOfOne
    <2>3. \A k \in Jobs : Phases[k] = "out"
        BY <1>7 DEF AllIdle, Live, Phases, Phase
    <2>4. Promise!Ask(j, c)
        BY <2>1, <2>2, <2>3 DEF Promise!Ask, Promise!Become, Phases, Phase
    <2> QED
        BY <2>4 DEF Promise!Next
<1> QED
    BY <1>3, <1>4, <1>5, <1>6, <1>7 DEF Next

\* To whoever looks at the Caddyfile and at what deployments return, deploying
\* is publishing as a whole, vetted, and with an honest result.
THEOREM PublishCorrect == Spec => Publishes
<1>1. Init => Promise!Init
    BY DEF Init, FileInit, NoJobs, Promise!Init
<1>2. Inductive /\ Inductive' /\ [Next]_vars => [Promise!Next]_(Promise!vars)
    BY PublishStep
<1> QED
    BY <1>1, <1>2, InductiveCorrect, PTL DEF Spec, Publishes, Promise!Safety
=============================================================================
