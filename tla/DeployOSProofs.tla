--------------------------- MODULE DeployOSProofs ---------------------------
(***************************************************************************)
(* What DeployOS.tla guarantees for any set of goroutines, any renderings  *)
(* and any number of attempts, proved.                                     *)
(*                                                                         *)
(* As in DeployProofs the properties are not inductive; Inductive adds     *)
(* what a deployment owns at each of its stages.  Here every rendering is  *)
(* vetted, but a deployment that is over has still to be told apart from   *)
(* one the daemon has not read: Owned follows the daemon through its boot. *)
(***************************************************************************)
EXTENDS DeployOS, TLAPS

\* A job waits for another attempt only when there is one left.
Counted == \A j \in Jobs : pc[j] = "backoff" => attempt[j] < MaxAttempts

\* The paths of this host are deployed to one after the other.
Serial == \A j, k \in Jobs : Live(j) /\ Live(k) => j = k

\* What job j has brought about when it is at its stage.  From the rename on a
\* daemon that boots reads its file, so what it misses was passed over.
Owned(j) ==
    /\ Live(j) => content[j] \in Contents
    /\ handle[j] = IF pc[j] = "write" THEN "staging" ELSE "none"
    /\ pc[j] = "write" => staging = Empty
    /\ pc[j] \in {"fmt", "validate", "rename"} => staging = content[j]
    /\ pc[j] \in {"rename", "reload", "ok"} => content[j] \in Valid
    /\ pc[j] \in {"reload", "ok"} => target = content[j]
    /\ pc[j] = "ok" /\ daemon # "down" /\ ~passedOver => loaded = content[j]

\* The inductive invariant of deployOS.
Inductive ==
    /\ TypeOK
    /\ Counted
    /\ Serial
    /\ \A j \in Jobs : Owned(j)
    /\ OnlyVettedReplaces

-----------------------------------------------------------------------------
(* Type correctness.                                                       *)

LEMMA TypeInit == Init => TypeOK /\ Counted
<1> SUFFICES ASSUME Init
             PROVE  TypeOK /\ Counted
    OBVIOUS
<1> USE DEF Init, FileInit, NoJobs, Stages, Attempting, Handles, Files
<1>1. 1 \in 1 .. MaxAttempts
    BY FileAssumption DEF FileAssumption
<1>2. FileTypeOK
    BY <1>1 DEF FileTypeOK
<1>3. loaded \in Files /\ daemon \in {"down", "booting", "up"} /\ passedOver \in BOOLEAN
    OBVIOUS
<1> QED
    BY <1>2, <1>3 DEF TypeOK, Counted

\* A step puts values of their types into the variables.
LEMMA TypeStep ==
    ASSUME TypeOK, Counted, [Next]_vars
    PROVE  TypeOK'
<1> USE FileAssumption
    DEF FileAssumption, TypeOK, FileTypeOK, Files, Stages, Attempting, Handles,
        fileVars, jobVars, readVars, osVars
<1>0. 1 \in 1 .. MaxAttempts
    OBVIOUS
<1>1. CASE ReadCaddyfile \/ Listen \/ StopDaemon
    BY <1>1 DEF ReadCaddyfile, Listen, StopDaemon
<1>2. CASE Crash
    BY <1>0, <1>2 DEF Crash, KillJobs
<1>3. ASSUME NEW j \in Jobs, Step(j)
      PROVE  TypeOK'
    <2>1. CASE Begin(j)
        BY <2>1 DEF Begin, Advance
    <2>2. CASE CreateStaging(j)
        BY <2>2 DEF CreateStaging, Create, Advance
    <2>3. CASE WriteStaging(j)
        BY <2>3 DEF WriteStaging, Write, Put, Overwritten, Opened, Advance
    <2>4. CASE Fmt(j) \/ Validate(j)
        BY <2>4 DEF Fmt, Validate, Run, Advance
    <2>5. CASE FmtKilled(j)
        BY <2>5 DEF FmtKilled, FailAttempt
    <2>6. CASE Swap(j)
        <3>1. handle' \in [Jobs -> Handles]
            BY <2>6 DEF Swap, Rename
        <3> QED
            BY <2>6, <3>1 DEF Swap, Rename, Advance
    <2>7. CASE Reload(j)
        BY <2>7 DEF Reload, Run, Advance
    <2>8. CASE ReloadOffline(j)
        BY <2>8 DEF ReloadOffline, Run, Advance
    <2>9. CASE ReloadUnanswered(j)
        BY <2>9 DEF ReloadUnanswered, Fail, FailAttempt
    <2>10. CASE AttemptFails(j)
        BY <2>10 DEF AttemptFails, Fail, FailWrite, FailAttempt, Put, Damaged, Opened
    <2>11. CASE Wait(j)
        <3>1. CASE Retry(j)
            <4>1. attempt[j] + 1 \in 1 .. MaxAttempts
                BY <3>1 DEF Retry, Advance, Counted
            <4> QED
                BY <2>11, <3>1, <4>1 DEF Wait, Retry, Advance
        <3>2. CASE GiveUp(j)
            BY <2>11, <3>2 DEF Wait, GiveUp, Advance
        <3> QED
            BY <2>11, <3>1, <3>2 DEF Wait
    <2> QED
        BY <1>3, <2>1, <2>2, <2>3, <2>4, <2>5, <2>6, <2>7, <2>8, <2>9, <2>10, <2>11 DEF Step
<1>4. ASSUME NEW j \in Jobs, CancelJob(j)
      PROVE  TypeOK'
    BY <1>4 DEF CancelJob, Cancel
<1>5. ASSUME NEW j \in Jobs, Return(j)
      PROVE  TypeOK'
    BY <1>0, <1>5 DEF Return, Leave
<1>6. ASSUME NEW j \in Jobs, NEW c \in Contents, Start(j, c)
      PROVE  TypeOK'
    BY <1>0, <1>6 DEF Start, Launch
<1>7. CASE UNCHANGED vars
    BY <1>7 DEF vars
<1> QED
    BY <1>1, <1>2, <1>3, <1>4, <1>5, <1>6, <1>7 DEF Next

\* Only an attempt that fails lets a job wait, and the last one does not.
LEMMA CountedStep ==
    ASSUME TypeOK, Counted, [Next]_vars
    PROVE  Counted'
<1> USE FileAssumption
    DEF FileAssumption, TypeOK, FileTypeOK, Stages, Attempting, Counted, fileVars, jobVars
<1>1. CASE ReadCaddyfile \/ Listen \/ StopDaemon \/ Crash
    BY <1>1 DEF ReadCaddyfile, Listen, StopDaemon, Crash, KillJobs
<1>2. ASSUME NEW j \in Jobs, FailAttempt(j)
      PROVE  Counted'
    BY <1>2 DEF FailAttempt
<1>3. ASSUME NEW j \in Jobs, Step(j)
      PROVE  Counted'
    <2>1. CASE Begin(j) \/ CreateStaging(j) \/ WriteStaging(j) \/ Swap(j)
        BY <2>1 DEF Begin, CreateStaging, Create, WriteStaging, Write, Swap, Rename, Advance
    <2>2. CASE Fmt(j) \/ Validate(j) \/ Reload(j) \/ ReloadOffline(j)
        BY <2>2 DEF Fmt, Validate, Reload, ReloadOffline, Run, Advance
    <2>3. CASE FmtKilled(j) \/ ReloadUnanswered(j) \/ AttemptFails(j)
        BY <1>2, <2>3 DEF FmtKilled, ReloadUnanswered, AttemptFails, Fail, FailWrite
    <2>4. CASE Wait(j)
        BY <2>4 DEF Wait, Retry, GiveUp, Advance
    <2> QED
        BY <1>3, <2>1, <2>2, <2>3, <2>4 DEF Step
<1>4. ASSUME NEW j \in Jobs, CancelJob(j) \/ Return(j)
      PROVE  Counted'
    BY <1>4 DEF CancelJob, Cancel, Return, Leave
<1>5. ASSUME NEW j \in Jobs, NEW c \in Contents, Start(j, c)
      PROVE  Counted'
    BY <1>5 DEF Start, Launch
<1>6. CASE UNCHANGED vars
    BY <1>6 DEF vars
<1> QED
    BY <1>1, <1>3, <1>4, <1>5, <1>6 DEF Next

\* Every variable of a deployment keeps its type; in particular no job makes
\* more than MaxAttempts attempts.
THEOREM TypeCorrect == Spec => []TypeOK
<1>1. Init => TypeOK /\ Counted
    BY TypeInit
<1>2. TypeOK /\ Counted /\ [Next]_vars => (TypeOK /\ Counted)'
    BY TypeStep, CountedStep
<1> QED
    BY <1>1, <1>2, PTL DEF Spec

-----------------------------------------------------------------------------
(* Safety.                                                                 *)

\* A job that makes a step has the files to itself.
LEMMA OthersIdle ==
    ASSUME Inductive, NEW j \in Jobs, Live(j)
    PROVE  \A k \in Jobs \ {j} : pc[k] = "idle" /\ handle[k] = "none"
BY DEF Inductive, Serial, Live, Owned

\* A job's step concerns no other job, and keeps it alive.
LEMMA StepOfOne ==
    ASSUME Inductive, NEW j \in Jobs, Step(j)
    PROVE  /\ Live(j)
           /\ content' = content /\ daemon' = daemon
           /\ \A k \in Jobs \ {j} : pc'[k] = "idle" /\ handle'[k] = "none"
<1> USE DEF Inductive, TypeOK, FileTypeOK, Live, Advance, osVars
<1>1. Live(j)
    BY DEF Step, Begin, CreateStaging, Create, WriteStaging, Write, Fmt, FmtKilled, Validate, Run,
        Swap, Rename, Reload, ReloadOffline, ReloadUnanswered, AttemptFails, Fail, FailWrite,
        FailAttempt, Attempting, Wait, Retry, GiveUp
<1>2. \A k \in Jobs \ {j} : pc[k] = "idle" /\ handle[k] = "none"
    BY <1>1, OthersIdle
<1>3. CASE Begin(j) \/ CreateStaging(j) \/ WriteStaging(j)
    BY <1>1, <1>2, <1>3 DEF Begin, CreateStaging, Create, WriteStaging, Write
<1>4. CASE Fmt(j) \/ Validate(j) \/ Reload(j) \/ ReloadOffline(j)
    BY <1>1, <1>2, <1>4 DEF Fmt, Validate, Reload, ReloadOffline, Run
<1>5. CASE Swap(j)
    BY <1>1, <1>2, <1>5 DEF Swap, Rename
<1>6. CASE FmtKilled(j) \/ ReloadUnanswered(j) \/ AttemptFails(j)
    BY <1>1, <1>2, <1>6 DEF FmtKilled, ReloadUnanswered, AttemptFails, Fail, FailWrite, FailAttempt
<1>7. CASE Wait(j)
    BY <1>1, <1>2, <1>7 DEF Wait, Retry, GiveUp
<1> QED
    BY <1>3, <1>4, <1>5, <1>6, <1>7 DEF Step

\* Every step of a job hands on what its next stage relies on: the staging file
\* it wrote, the verdict on it, and the file the rename left.
LEMMA OwnStep ==
    ASSUME Inductive, NEW j \in Jobs, Step(j)
    PROVE  Owned(j)' /\ OnlyVettedReplaces'
<1> USE FileAssumption
    DEF FileAssumption, Inductive, TypeOK, FileTypeOK, Live, Advance, OnlyVettedReplaces,
        fileVars, readVars, osVars
<1>0. /\ Owned(j) /\ Live(j) /\ content' = content /\ content[j] \in Contents
      /\ daemon' = daemon
    BY StepOfOne DEF Owned
<1>1. CASE Begin(j)
    BY <1>0, <1>1 DEF Begin, Owned
<1>2. CASE CreateStaging(j)
    BY <1>0, <1>2 DEF CreateStaging, Create, Owned
<1>3. CASE WriteStaging(j)
    <2>1. staging = Empty /\ handle[j] = "staging"
        BY <1>0, <1>3 DEF WriteStaging, Write, Owned
    <2>2. staging' = content[j] /\ target' = target
        BY <1>3, <2>1 DEF WriteStaging, Write, Put, Overwritten, Opened
    <2> QED
        BY <1>0, <1>3, <2>2 DEF WriteStaging, Write, Owned
<1>4. CASE Fmt(j)
    BY <1>0, <1>4 DEF Fmt, Run, Owned
<1>5. CASE Validate(j)
    BY <1>0, <1>5 DEF Validate, Run, Owned
<1>6. CASE Swap(j)
    <2>1. target' = content[j] /\ content[j] \in Valid
        BY <1>0, <1>6 DEF Swap, Rename, Owned
    <2>2. pc'[j] = "reload"
        BY <1>6 DEF Swap, Rename
    <2>3. handle'[j] = "none"
        BY <1>0, <1>6 DEF Swap, Rename, Owned
    <2> QED
        BY <1>0, <2>1, <2>2, <2>3 DEF Owned
<1>7. CASE Reload(j)
    BY <1>0, <1>7 DEF Reload, Run, Owned
<1>8. CASE ReloadOffline(j)
    BY <1>0, <1>8 DEF ReloadOffline, Run, Owned
<1>9. CASE FmtKilled(j)
    BY <1>0, <1>9 DEF FmtKilled, FailAttempt, Owned
<1>10. CASE ReloadUnanswered(j)
    BY <1>0, <1>10 DEF ReloadUnanswered, Fail, FailAttempt, Owned
<1>11. CASE AttemptFails(j)
    <2>1. target' = target
        BY <1>0, <1>11 DEF AttemptFails, Fail, FailWrite, Put, Owned
    <2>2. pc'[j] \in {"failed", "backoff"} /\ handle'[j] = "none"
        BY <1>11 DEF AttemptFails, Fail, FailWrite, FailAttempt
    <2> QED
        BY <1>0, <2>1, <2>2 DEF Owned
<1>12. CASE Wait(j)
    BY <1>0, <1>12 DEF Wait, Retry, GiveUp, Owned
<1> QED
    BY <1>1, <1>2, <1>3, <1>4, <1>5, <1>6, <1>7, <1>8, <1>9, <1>10, <1>11, <1>12 DEF Step

LEMMA InductiveInit == Init => Inductive
<1> SUFFICES ASSUME Init
             PROVE  Inductive
    OBVIOUS
<1>1. \A j \in Jobs : Owned(j)
    BY DEF Init, FileInit, NoJobs, Owned, Live
<1>2. Serial /\ OnlyVettedReplaces
    BY DEF Init, FileInit, NoJobs, Serial, Live, OnlyVettedReplaces
<1> QED
    BY <1>1, <1>2, TypeInit DEF Inductive

\* The daemon that boots reads what the last deployment has put there, and one
\* that stops leaves nothing to be told apart.
LEMMA DaemonStep ==
    ASSUME Inductive, ReadCaddyfile \/ Listen \/ StopDaemon
    PROVE  Serial' /\ (\A k \in Jobs : Owned(k)') /\ OnlyVettedReplaces'
<1> USE DEF Inductive, Live, fileVars, jobVars, readVars, Serial, Owned, OnlyVettedReplaces
<1>1. CASE ReadCaddyfile
    BY <1>1 DEF ReadCaddyfile
<1>2. CASE Listen
    BY <1>2 DEF Listen
<1>3. CASE StopDaemon
    BY <1>3 DEF StopDaemon
<1> QED
    BY <1>1, <1>2, <1>3

LEMMA InductiveStep ==
    ASSUME Inductive, [Next]_vars
    PROVE  Inductive'
<1>0. TypeOK' /\ Counted'
    BY TypeStep, CountedStep DEF Inductive
<1> SUFFICES Serial' /\ (\A k \in Jobs : Owned(k)') /\ OnlyVettedReplaces'
    BY <1>0 DEF Inductive
<1>1. CASE ReadCaddyfile \/ Listen \/ StopDaemon
    BY <1>1, DaemonStep
<1> USE FileAssumption
    DEF FileAssumption, Inductive, TypeOK, FileTypeOK, Live, fileVars, jobVars, readVars, osVars
<1>2. CASE Crash
    BY <1>2 DEF Crash, KillJobs, Serial, Owned, OnlyVettedReplaces
<1>3. ASSUME NEW j \in Jobs, Step(j)
      PROVE  Serial' /\ (\A k \in Jobs : Owned(k)') /\ OnlyVettedReplaces'
    <2>1. \A k \in Jobs \ {j} : pc'[k] = "idle" /\ handle'[k] = "none"
        BY <1>3, StepOfOne
    <2>2. \A k \in Jobs \ {j} : Owned(k)'
        BY <2>1 DEF Owned
    <2>3. Serial'
        BY <2>1 DEF Serial
    <2> QED
        BY <1>3, <2>2, <2>3, OwnStep
<1>4. ASSUME NEW j \in Jobs, CancelJob(j)
      PROVE  Serial' /\ (\A k \in Jobs : Owned(k)') /\ OnlyVettedReplaces'
    BY <1>4 DEF CancelJob, Cancel, Serial, Owned, OnlyVettedReplaces
<1>5. ASSUME NEW j \in Jobs, Return(j)
      PROVE  Serial' /\ (\A k \in Jobs : Owned(k)') /\ OnlyVettedReplaces'
    BY <1>5 DEF Return, Leave, Serial, Owned, OnlyVettedReplaces
<1>6. ASSUME NEW j \in Jobs, NEW c \in Contents, Start(j, c)
      PROVE  Serial' /\ (\A k \in Jobs : Owned(k)') /\ OnlyVettedReplaces'
    BY <1>6 DEF Start, Launch, Serial, Owned, OnlyVettedReplaces
<1>7. CASE UNCHANGED vars
    BY <1>7 DEF vars, Serial, Owned, OnlyVettedReplaces
<1> QED
    BY <1>1, <1>2, <1>3, <1>4, <1>5, <1>6, <1>7 DEF Next

\* What the theorems below rest on.
LEMMA Invariance == Spec => []Inductive
<1>1. Inductive /\ [Next]_vars => Inductive'
    BY InductiveStep
<1> QED
    BY <1>1, InductiveInit, PTL DEF Spec

\* Whatever fails, is killed or crashes, the Caddyfile is one whole rendering
\* that Caddy has accepted, whether a daemon runs or not.
THEOREM VettedCorrect == Spec => []OnlyVettedReplaces
<1>1. Inductive => OnlyVettedReplaces
    BY DEF Inductive
<1> QED
    BY <1>1, Invariance, PTL

\* A deployment that returns nil has its rendering loaded by a daemon that
\* listens, however often that one boots, unless it was passed over.
THEOREM LoadedCorrect == Spec => []SuccessIsLoaded
<1>1. Inductive => SuccessIsLoaded
    BY DEF Inductive, Owned, SuccessIsLoaded
<1> QED
    BY <1>1, Invariance, PTL

-----------------------------------------------------------------------------
(* Refinement: deployOS publishes as Publish.tla promises, and what it     *)
(* publishes is always vetted.                                             *)

\* What Publish sees of the stage of a job.
Phase(stage) == CASE stage = "idle" -> "out"
                  [] stage = "ok" -> "done"
                  [] stage = "failed" -> "failed"
                  [] OTHER -> "working"

Phases == [j \in Jobs |-> Phase(pc[j])]

\* A job that changes its stage changes its phase, and no other one's.
LEMMA PhaseOfOne ==
    ASSUME TypeOK, NEW j \in Jobs, NEW stage, pc' = [pc EXCEPT ![j] = stage]
    PROVE  Phases' = [Phases EXCEPT ![j] = Phase(stage)]
BY DEF TypeOK, FileTypeOK, Phases

\* The daemon, a cancelled context and the stages before the rename do not show.
LEMMA Hidden ==
    ASSUME Phases' = Phases, target' = target, content' = content
    PROVE  UNCHANGED Promise!vars
BY DEF Promise!vars, Phases, Phase

\* A step of a deployment is one that Publish has, or shows nothing.
LEMMA PublishWork ==
    ASSUME Inductive, NEW j \in Jobs, Step(j)
    PROVE  [Promise!Next]_(Promise!vars)
<1>0. /\ TypeOK /\ Owned(j) /\ Live(j)
      /\ content' = content /\ content[j] \in Contents
    BY StepOfOne DEF Inductive, Owned
<1>1. ASSUME target' = target, NEW stage \in Attempting \cup {"backoff"},
             pc[j] \in Attempting \cup {"backoff"}, pc' = [pc EXCEPT ![j] = stage]
      PROVE  UNCHANGED Promise!vars
    <2>1. Phases' = [Phases EXCEPT ![j] = Phase(stage)]
        BY <1>0, <1>1, PhaseOfOne
    <2>2. Phase(stage) = "working" /\ Phase(pc[j]) = "working"
        BY <1>1 DEF Attempting, Phase
    <2>3. Phases' = Phases
        BY <2>1, <2>2 DEF Phases
    <2> QED
        BY <1>0, <1>1, <2>3, Hidden
<1>2. ASSUME target' = target, pc[j] \in Attempting \cup {"backoff"},
             pc' = [pc EXCEPT ![j] = "failed"]
      PROVE  Promise!Next
    <2>1. Phases' = [Phases EXCEPT ![j] = "failed"] /\ Phases[j] = "working"
        BY <1>0, <1>2, PhaseOfOne DEF Phases, Phase, Attempting
    <2>2. Promise!Fail(j)
        BY <1>0, <1>2, <2>1 DEF Promise!Fail, Promise!Become, Phases, Phase
    <2> QED
        BY <2>2 DEF Promise!Next
<1>3. ASSUME target' = target, pc[j] = "reload", pc' = [pc EXCEPT ![j] = "ok"]
      PROVE  Promise!Next
    <2>1. Phases' = [Phases EXCEPT ![j] = "done"] /\ Phases[j] = "working"
        BY <1>0, <1>3, PhaseOfOne DEF Phases, Phase
    <2>2. target = content[j]
        BY <1>0, <1>3 DEF Owned
    <2>3. Promise!Succeed(j)
        BY <1>0, <1>3, <2>1, <2>2 DEF Promise!Succeed, Promise!Become, Phases, Phase
    <2> QED
        BY <2>3 DEF Promise!Next
<1>4. CASE Begin(j) \/ CreateStaging(j) \/ Fmt(j) \/ Validate(j)
    BY <1>1, <1>4 DEF Begin, CreateStaging, Create, Fmt, Validate, Run, Advance, fileVars, Attempting
<1>5. CASE WriteStaging(j)
    <2>1. target' = target
        BY <1>0, <1>5 DEF WriteStaging, Write, Put, Owned
    <2>2. pc[j] = "write" /\ pc' = [pc EXCEPT ![j] = "fmt"]
        BY <1>5 DEF WriteStaging, Write, Advance
    <2> QED
        BY <1>1, <2>1, <2>2 DEF Attempting
<1>6. CASE Swap(j)
    <2>1. /\ target' = content[j] /\ content[j] \in Valid
          /\ pc[j] = "rename" /\ pc' = [pc EXCEPT ![j] = "reload"]
        BY <1>0, <1>6 DEF Swap, Rename, Advance, Owned
    <2>2. Phases' = [Phases EXCEPT ![j] = "working"] /\ Phases[j] = "working"
        BY <1>0, <2>1, PhaseOfOne DEF Phases, Phase
    <2>3. Promise!Replace(j)
        BY <1>0, <2>1, <2>2 DEF Promise!Replace, Promise!Become, Phases, Phase
    <2> QED
        BY <2>3 DEF Promise!Next
<1>7. CASE Reload(j) \/ ReloadOffline(j)
    BY <1>3, <1>7 DEF Reload, ReloadOffline, Run, Advance, fileVars
<1>8. CASE FmtKilled(j) \/ ReloadUnanswered(j) \/ AttemptFails(j)
    <2>1. target' = target
        BY <1>0, <1>8 DEF FmtKilled, ReloadUnanswered, AttemptFails, Fail, FailWrite, Put, Owned, fileVars
    <2>2. /\ pc[j] \in Attempting
          /\ pc' = [pc EXCEPT ![j] = "failed"] \/ pc' = [pc EXCEPT ![j] = "backoff"]
        BY <1>8 DEF FmtKilled, ReloadUnanswered, AttemptFails, Fail, FailWrite, FailAttempt
    <2> QED
        BY <1>1, <1>2, <2>1, <2>2
<1>9. CASE Wait(j)
    <2>1. target' = target /\ pc[j] = "backoff"
        BY <1>9 DEF Wait, Retry, GiveUp, Advance, fileVars
    <2>2. pc' = [pc EXCEPT ![j] = "begin"] \/ pc' = [pc EXCEPT ![j] = "failed"]
        BY <1>9 DEF Wait, Retry, GiveUp, Advance
    <2> QED
        BY <1>1, <1>2, <2>1, <2>2 DEF Attempting
<1> QED
    BY <1>4, <1>5, <1>6, <1>7, <1>8, <1>9 DEF Step

LEMMA PublishStep ==
    ASSUME Inductive, [Next]_vars
    PROVE  [Promise!Next]_(Promise!vars)
<1>0. TypeOK
    BY DEF Inductive
<1>1. CASE \/ ReadCaddyfile \/ Listen \/ StopDaemon \/ UNCHANGED vars
           \/ \E j \in Jobs : CancelJob(j)
    <2>1. pc' = pc /\ target' = target /\ content' = content
        BY <1>1 DEF ReadCaddyfile, Listen, StopDaemon, CancelJob, Cancel, vars, fileVars, jobVars
    <2> QED
        BY <2>1, Hidden DEF Phases
<1>2. CASE Crash
    <2>1. target' = target /\ content' = [j \in Jobs |-> Absent]
        BY <1>2 DEF Crash, KillJobs, fileVars
    <2>2. Phases' = [j \in Jobs |-> "out"]
        BY <1>2 DEF Crash, KillJobs, Phases, Phase
    <2>3. Promise!Abandon
        BY <2>1, <2>2 DEF Promise!Abandon, Phases, Phase
    <2> QED
        BY <2>3 DEF Promise!Next
<1>3. ASSUME NEW j \in Jobs, Return(j)
      PROVE  Promise!Next
    <2>1. /\ target' = target
          /\ content' = [content EXCEPT ![j] = Absent]
          /\ pc[j] \in {"ok", "failed"} /\ pc' = [pc EXCEPT ![j] = "idle"]
        BY <1>3 DEF Return, Leave, fileVars
    <2>2. Phases' = [Phases EXCEPT ![j] = "out"] /\ Phases[j] \in {"done", "failed"}
        BY <1>0, <2>1, PhaseOfOne DEF Phases, Phase
    <2>3. Promise!Leave(j)
        BY <2>1, <2>2 DEF Promise!Leave, Promise!Become, Phases, Phase
    <2> QED
        BY <2>3 DEF Promise!Next
<1>4. ASSUME NEW j \in Jobs, NEW c \in Contents, Start(j, c)
      PROVE  Promise!Next
    <2>1. /\ target' = target
          /\ content' = [content EXCEPT ![j] = c]
          /\ pc' = [pc EXCEPT ![j] = "begin"]
        BY <1>4 DEF Start, Launch, fileVars
    <2>2. Phases' = [Phases EXCEPT ![j] = "working"]
        <3>1. Phase("begin") = "working"
            BY DEF Phase
        <3> QED
            BY <1>0, <2>1, <3>1, PhaseOfOne
    <2>3. \A k \in Jobs : Phases[k] = "out"
        BY <1>4 DEF Start, Live, Phases, Phase
    <2>4. Promise!Ask(j, c)
        BY <2>1, <2>2, <2>3 DEF Promise!Ask, Promise!Become, Phases, Phase
    <2> QED
        BY <2>4 DEF Promise!Next
<1> QED
    BY <1>1, <1>2, <1>3, <1>4, PublishWork DEF Next

\* To whoever looks at the Caddyfile and at what deployments return, deploying
\* on this host is publishing as a whole, always vetted, and with an honest result.
THEOREM PublishCorrect == Spec => Publishes
<1>1. Init => Promise!Init
    BY DEF Init, FileInit, NoJobs, Promise!Init
<1>2. Inductive /\ [Next]_vars => [Promise!Next]_(Promise!vars)
    BY PublishStep
<1> QED
    BY <1>1, <1>2, Invariance, PTL DEF Spec, Publishes, Promise!Safety
=============================================================================
