-------------------------- MODULE ReconcilerProofs --------------------------
(***************************************************************************)
(* What Reconciler.tla guarantees for any targets, whatever keys they      *)
(* have, any number of goroutines, any renderings and any capacity of the  *)
(* channel done, proved.                                                   *)
(***************************************************************************)
EXTENDS Reconciler, TLAPS

\* A goroutine that is alive deploys a rendering to a target; one that can be
\* cancelled has a target.
Owned ==
    /\ \A j \in Jobs : Live(j) => content[j] \in Contents /\ owner[j] \in Targets
    /\ \A j \in cancels : Live(j)

LEMMA KeyType == ASSUME NEW t \in Targets PROVE Key[t] \in Keys
BY DEF Keys

\* A look at a target ends with the target gone from the list.
LEMMA LookType ==
    ASSUME TypeOK, NEW t \in Targets, LookAt(t)
    PROVE  todo' \subseteq Targets /\ loop' = loop /\ ctxDone' = ctxDone
BY DEF TypeOK, LoopTypeOK, LookAt

LEMMA LaunchType ==
    ASSUME TypeOK, Owned, NEW t \in Targets, NEW c \in Renderings[t], NEW j \in Jobs,
           Redeploy(t, c, j)
    PROVE  TypeOK' /\ Owned'
<1> USE ReconcilerAssumption DEF ReconcilerAssumption, Redeploy, Launch, TypeOK, LoopTypeOK
<1>1. c \in Contents
    OBVIOUS
<1>2. todo' \subseteq Targets /\ loop' = loop /\ ctxDone' = ctxDone
    BY LookType
<1>3. /\ pc' \in [Jobs -> {"idle", "begin", "ok", "failed"}]
      /\ content' \in [Jobs -> Contents \cup {Absent}]
      /\ owner' \in [Jobs -> Targets \cup {Absent}]
      /\ rendering' \in [Targets -> Contents \cup {Absent}]
      /\ lastFailed' \in [Targets -> BOOLEAN]
    BY <1>1
<1>4. cancelled' \in [Jobs -> BOOLEAN]
    OBVIOUS
<1>5. cancels' \subseteq Jobs
    OBVIOUS
<1>6. TypeOK'
    BY <1>2, <1>3, <1>4, <1>5
<1>7. ASSUME NEW k \in Jobs, Live(k)'
      PROVE  content'[k] \in Contents /\ owner'[k] \in Targets
    <2>1. CASE k = j
        BY <1>1, <2>1
    <2>2. CASE k # j
        BY <1>7, <2>2 DEF Owned, Live
    <2> QED
        BY <2>1, <2>2
<1>8. ASSUME NEW k \in cancels'
      PROVE  Live(k)'
    <2>1. CASE k = j
        BY <2>1 DEF Live
    <2>2. CASE k # j
        BY <1>8, <2>2 DEF Owned, Live
    <2> QED
        BY <2>1, <2>2
<1> QED
    BY <1>6, <1>7, <1>8 DEF Owned

\* A goroutine that ends leaves all but the channel and the history in order.
LEMMA FinishType ==
    ASSUME TypeOK, Owned, NEW j \in Jobs, Live(j), Finish(j),
           done' \in Seq(Keys \X Contents), Len(done') <= DoneCap,
           lastFailed' \in [Targets -> BOOLEAN]
    PROVE  TypeOK' /\ Owned'
<1>1. TypeOK'
    BY DEF TypeOK, LoopTypeOK, Finish
<1>2. ASSUME NEW k \in Jobs, Live(k)'
      PROVE  content'[k] \in Contents /\ owner'[k] \in Targets
    BY <1>2 DEF Owned, Live, Finish, TypeOK, LoopTypeOK
<1>3. ASSUME NEW k \in cancels'
      PROVE  Live(k)'
    BY <1>3 DEF Owned, Live, Finish, TypeOK, LoopTypeOK
<1> QED
    BY <1>1, <1>2, <1>3 DEF Owned

LEMMA SuccessType ==
    ASSUME TypeOK, Owned, NEW j \in Jobs, ReportSuccess(j)
    PROVE  TypeOK' /\ Owned'
<1>1. Live(j) /\ Finish(j) /\ lastFailed' \in [Targets -> BOOLEAN]
    BY DEF ReportSuccess, Live, TypeOK, LoopTypeOK
<1>2. Result(j) \in Keys \X Contents
    BY <1>1, KeyType DEF Owned, Result
<1>3. done \in Seq(Keys \X Contents) /\ Len(done) <= DoneCap /\ DoneCap \in Nat
    BY ReconcilerAssumption DEF TypeOK, LoopTypeOK, ReconcilerAssumption
<1>4. CASE done' = done
    BY <1>1, <1>3, <1>4, FinishType
<1>5. CASE Len(done) < DoneCap /\ done' = Append(done, Result(j))
    <2>1. done' \in Seq(Keys \X Contents) /\ Len(done') <= DoneCap
        BY <1>2, <1>3, <1>5
    <2> QED
        BY <1>1, <2>1, FinishType
<1> QED
    BY <1>4, <1>5 DEF ReportSuccess

LEMMA ReceiveType ==
    ASSUME TypeOK, Owned, ReceiveDone
    PROVE  TypeOK' /\ Owned'
<1> USE DEF ReceiveDone, Record, TypeOK, LoopTypeOK
<1>1. /\ Head(done) \in Keys \X Contents
      /\ Tail(done) \in Seq(Keys \X Contents) /\ Len(Tail(done)) <= DoneCap
    BY ReconcilerAssumption DEF ReconcilerAssumption
<1>2. lastDeployed' \in [Keys -> Contents \cup {Absent}]
    BY <1>1
<1>3. TypeOK'
    BY <1>1, <1>2 DEF jobVars
<1> QED
    BY <1>3 DEF Owned, Live, jobVars

LEMMA TypeStep ==
    ASSUME TypeOK, Owned, [Next]_vars
    PROVE  TypeOK' /\ Owned'
<1> USE DEF TypeOK, LoopTypeOK, Owned, jobVars, recordVars, loopVars, Live
<1>1. CASE StartReconcile
    BY <1>1 DEF StartReconcile
<1>2. ASSUME NEW t \in Targets, RenderFails(t)
      PROVE  TypeOK' /\ Owned'
    BY <1>2, LookType DEF RenderFails
<1>3. ASSUME NEW t \in Targets, NEW c \in Renderings[t], Skip(t, c)
      PROVE  TypeOK' /\ Owned'
    <2>1. rendering' \in [Targets -> Contents \cup {Absent}]
        BY <1>3, ReconcilerAssumption DEF Skip, ReconcilerAssumption
    <2> QED
        BY <1>3, <2>1, LookType DEF Skip
<1>4. ASSUME NEW t \in Targets, NEW c \in Renderings[t], NEW j \in Jobs, Redeploy(t, c, j)
      PROVE  TypeOK' /\ Owned'
    BY <1>4, LaunchType
<1>5. ASSUME NEW j \in Jobs, Settle(j)
      PROVE  TypeOK' /\ Owned'
    BY <1>5 DEF Settle
<1>6. ASSUME NEW j \in Jobs, ReportFailure(j)
      PROVE  TypeOK' /\ Owned'
    <2>1. Live(j) /\ Finish(j) /\ done' = done
        BY <1>6 DEF ReportFailure
    <2>2. lastFailed' \in [Targets -> BOOLEAN]
        BY <1>6 DEF ReportFailure
    <2> QED
        BY <2>1, <2>2, FinishType
<1>7. ASSUME NEW j \in Jobs, ReportSuccess(j)
      PROVE  TypeOK' /\ Owned'
    BY <1>7, SuccessType
<1>8. CASE ReceiveDone
    BY <1>8, ReceiveType
<1>9. CASE CancelContext
    <2>1. cancelled' \in [Jobs -> BOOLEAN]
        BY <1>9 DEF CancelContext
    <2> QED
        BY <1>9, <2>1 DEF CancelContext
<1>10. CASE ExitRun
    <2>1. cancelled' \in [Jobs -> BOOLEAN]
        BY <1>10 DEF ExitRun
    <2> QED
        BY <1>10, <2>1 DEF ExitRun
<1>11. CASE Restart
    <2>1. done' \in Seq(Keys \X Contents) /\ Len(done') <= DoneCap
        BY <1>11, ReconcilerAssumption DEF Restart, ReconcilerAssumption
    <2>2. /\ pc' \in [Jobs -> {"idle", "begin", "ok", "failed"}]
          /\ content' \in [Jobs -> Contents \cup {Absent}]
          /\ cancelled' \in [Jobs -> BOOLEAN]
          /\ owner' \in [Jobs -> Targets \cup {Absent}]
          /\ rendering' \in [Targets -> Contents \cup {Absent}]
          /\ lastDeployed' \in [Keys -> Contents \cup {Absent}]
          /\ lastFailed' \in [Targets -> BOOLEAN]
        BY <1>11 DEF Restart
    <2> QED
        BY <1>11, <2>1, <2>2 DEF Restart
<1>12. CASE UNCHANGED vars
    BY <1>12 DEF vars
<1> QED
    BY <1>1, <1>2, <1>3, <1>4, <1>5, <1>6, <1>7, <1>8, <1>9, <1>10, <1>11, <1>12
    DEF Next, Step, Turn

LEMMA TypeInit == Init => TypeOK /\ Owned
<1> SUFFICES ASSUME Init
             PROVE  TypeOK /\ Owned
    OBVIOUS
<1>1. <<>> \in Seq(Keys \X Contents) /\ Len(<<>>) <= DoneCap
    BY ReconcilerAssumption DEF ReconcilerAssumption
<1>2. LoopTypeOK
    BY <1>1 DEF Init, LoopTypeOK
<1> QED
    BY <1>2 DEF Init, TypeOK, Owned, Live

\* The invariant the theorems below rest on.
LEMMA TypeInvariant == Spec => [](TypeOK /\ Owned)
<1>1. TypeOK /\ Owned /\ [Next]_vars => (TypeOK /\ Owned)'
    BY TypeStep
<1> QED
    BY <1>1, TypeInit, PTL DEF Spec

\* Every variable keeps its type; in particular the channel never holds more
\* than its capacity, and what is recorded for a key is a rendering.
THEOREM TypeCorrect == Spec => []TypeOK
BY TypeInvariant, PTL

-----------------------------------------------------------------------------
\* A result of an earlier deployment may take away the cancel function of the
\* current one, and a skip may keep one that is not wanted any more; no order of
\* the two leaves the loop with one to cancel that is neither.
LEMMA CancellableStep ==
    ASSUME TypeOK, Owned, CancellableIsCurrent, [Next]_vars
    PROVE  CancellableIsCurrent'
<1> USE DEF TypeOK, LoopTypeOK, CancellableIsCurrent, jobVars, recordVars, loopVars
<1>1. CASE StartReconcile
    BY <1>1 DEF StartReconcile
<1>2. ASSUME NEW t \in Targets, RenderFails(t)
      PROVE  CancellableIsCurrent'
    BY <1>2 DEF RenderFails
<1>3. ASSUME NEW t \in Targets, NEW c \in Renderings[t], Skip(t, c)
      PROVE  CancellableIsCurrent'
    BY <1>3 DEF Skip
<1>4. ASSUME NEW t \in Targets, NEW c \in Renderings[t], NEW j \in Jobs, Redeploy(t, c, j)
      PROVE  CancellableIsCurrent'
    <2> USE <1>4 DEF Redeploy, Launch
    <2>1. SUFFICES ASSUME NEW k \in cancels'
                   PROVE  /\ owner'[k] \in Targets
                          /\ \/ content'[k] = rendering'[owner'[k]]
                             \/ rendering'[owner'[k]] = lastDeployed'[Key[owner'[k]]]
        OBVIOUS
    <2>2. CASE k = j
        BY <2>2
    <2>3. CASE k # j
        <3>1. k \in cancels /\ k \notin Cancellable(Key[t])
            BY <2>1, <2>3
        <3>2. owner[k] \in Targets /\ owner[k] # t
            BY <3>1 DEF Cancellable
        <3> QED
            BY <2>3, <3>1, <3>2
    <2> QED
        BY <2>2, <2>3
<1>5. ASSUME NEW j \in Jobs, Settle(j)
      PROVE  CancellableIsCurrent'
    BY <1>5 DEF Settle
<1>6. ASSUME NEW j \in Jobs, ReportFailure(j) \/ ReportSuccess(j)
      PROVE  CancellableIsCurrent'
    BY <1>6 DEF ReportFailure, ReportSuccess, Finish
<1>7. CASE ReceiveDone
    <2> USE <1>7 DEF ReceiveDone, Record
    <2>1. SUFFICES ASSUME NEW k \in cancels'
                   PROVE  lastDeployed'[Key[owner[k]]] = lastDeployed[Key[owner[k]]]
        OBVIOUS
    <2>2. k \in cancels /\ Key[owner[k]] # Head(done)[1]
        BY <2>1 DEF Cancellable
    <2>3. Key[owner[k]] \in Keys
        BY <2>2, KeyType
    <2> QED
        BY <2>2, <2>3
<1>8. CASE CancelContext \/ ExitRun \/ Restart
    BY <1>8 DEF CancelContext, ExitRun, Restart
<1>9. CASE UNCHANGED vars
    BY <1>9 DEF vars
<1> QED
    BY <1>1, <1>2, <1>3, <1>4, <1>5, <1>6, <1>7, <1>8, <1>9 DEF Next, Step, Turn

\* What the loop can still cancel is a deployment of the current rendering of its
\* target, or that is back at what was deployed last: also when targets share a
\* key.
THEOREM CancellableCorrect == Spec => []CancellableIsCurrent
<1>1. Init => CancellableIsCurrent
    BY DEF Init, CancellableIsCurrent
<1>2. TypeOK /\ Owned /\ CancellableIsCurrent /\ [Next]_vars => CancellableIsCurrent'
    BY CancellableStep
<1> QED
    BY <1>1, <1>2, TypeInvariant, PTL DEF Spec

-----------------------------------------------------------------------------
\* What one step may cancel.
StepIsolated ==
    \A j \in Jobs :
        Live(j) /\ ~cancelled[j] /\ cancelled'[j] =>
            \/ ctxDone' \/ loop' = "exited"
            \/ \E t \in todo \ todo' : Key[t] = Key[owner[j]]

LEMMA IsolatedStep ==
    ASSUME TypeOK, Owned, [Next]_vars
    PROVE  StepIsolated
<1> USE DEF TypeOK, LoopTypeOK, StepIsolated, jobVars, recordVars, loopVars
<1>1. CASE StartReconcile
    BY <1>1 DEF StartReconcile
<1>2. ASSUME NEW t \in Targets, RenderFails(t) \/ \E c \in Renderings[t] : Skip(t, c)
      PROVE  StepIsolated
    BY <1>2 DEF RenderFails, Skip
<1>3. ASSUME NEW t \in Targets, NEW c \in Renderings[t], NEW j \in Jobs, Redeploy(t, c, j)
      PROVE  StepIsolated
    <2>1. SUFFICES ASSUME NEW k \in Jobs, Live(k), ~cancelled[k], cancelled'[k]
                   PROVE  \E u \in todo \ todo' : Key[u] = Key[owner[k]]
        OBVIOUS
    <2>2. k # j
        BY <1>3, <2>1 DEF Redeploy, Launch, Live
    <2>3. Key[t] = Key[owner[k]]
        BY <1>3, <2>1, <2>2 DEF Redeploy, Cancellable
    <2>4. t \in todo \ todo'
        BY <1>3 DEF Redeploy, Launch, LookAt
    <2> QED
        BY <2>3, <2>4
<1>4. ASSUME NEW j \in Jobs, Settle(j)
      PROVE  StepIsolated
    BY <1>4 DEF Settle
<1>5. ASSUME NEW j \in Jobs, ReportFailure(j) \/ ReportSuccess(j)
      PROVE  StepIsolated
    BY <1>5 DEF ReportFailure, ReportSuccess, Finish
<1>6. CASE ReceiveDone
    BY <1>6 DEF ReceiveDone, Record
<1>7. CASE CancelContext \/ ExitRun \/ Restart
    BY <1>7 DEF CancelContext, ExitRun, Restart
<1>8. CASE UNCHANGED vars
    BY <1>8 DEF vars
<1> QED
    BY <1>1, <1>2, <1>3, <1>4, <1>5, <1>6, <1>7, <1>8 DEF Next, Step, Turn

\* While the program runs a deployment is cancelled on behalf of its key only,
\* for any assignment of keys to targets.
THEOREM IsolatedCorrect == Spec => Isolated
<1>1. TypeOK /\ Owned /\ [Next]_vars => [StepIsolated]_vars
    BY IsolatedStep
<1> QED
    BY <1>1, TypeInvariant, PTL DEF Spec, Isolated, StepIsolated
=============================================================================
