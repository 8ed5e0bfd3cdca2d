------------------------------- MODULE Deploy -------------------------------
(***************************************************************************)
(* caddy/deploy.go: pushing a Caddyfile into the Caddy instance of one     *)
(* target over the Incus API.  A job reads the instance, stages the file   *)
(* over SFTP, has the instance format and validate it, renames it over the *)
(* Caddyfile and has Caddy reload.  The instance starts and stops on its   *)
(* own, the caller cancels jobs, any call may fail, the process may die.   *)
(*                                                                         *)
(* "caddy fmt" rewrites the layout of the staged file, which no property   *)
(* is about, so it keeps the content.                                      *)
(***************************************************************************)
EXTENDS StagedFile

VARIABLES
    running,      \* the Caddy instance is running
    serving,      \* the file Caddy serves; Absent when Caddy is not up
    sawRunning,   \* what GetInstance told the current attempt of each job
    coldStaged    \* history: the target's content was never validated

deployVars == <<running, serving, sawRunning, coldStaged>>
vars == <<fileVars, jobVars, deployVars>>

TypeOK ==
    /\ FileTypeOK
    /\ running \in BOOLEAN
    /\ serving \in Files
    /\ sawRunning \in [Jobs -> BOOLEAN]
    /\ coldStaged \in BOOLEAN

-----------------------------------------------------------------------------
(* The instance, outside the program.                                      *)

\* Caddy comes up only with a Caddyfile it accepts.
Bootable(file) == IF file \in Valid THEN file ELSE Absent

StartInstance ==
    /\ ~running
    /\ running' = TRUE
    /\ serving' = Bootable(target)
    /\ UNCHANGED <<fileVars, jobVars, sawRunning, coldStaged>>

StopInstance ==
    /\ running
    /\ running' = FALSE
    /\ serving' = Absent
    /\ UNCHANGED <<fileVars, jobVars, sawRunning, coldStaged>>

-----------------------------------------------------------------------------
(* One attempt of a job.  Calls that take the context fail once it is done. *)

\* GetInstance, and the SFTP session to the volume or the instance.
Begin(j) ==
    /\ ~cancelled[j]
    /\ Advance(j, "begin", "create")
    /\ sawRunning' = [sawRunning EXCEPT ![j] = running]
    /\ UNCHANGED <<fileVars, content, attempt, handle, cancelled, running, serving, coldStaged>>

CreateStaging(j) ==
    /\ Create(j)
    /\ UNCHANGED deployVars

\* Mutant: a stopped instance is left with the staging file.
WriteStagingOnly(j) ==
    /\ Write(j, IF sawRunning[j] THEN "fmt" ELSE "ok")
    /\ UNCHANGED deployVars

\* A stopped instance cannot format or validate: straight to the rename.
WriteStaging(j) ==
    /\ Write(j, IF sawRunning[j] THEN "fmt" ELSE "rename")
    /\ UNCHANGED deployVars

\* ExecInstance and WaitOperation of a command that exits with zero.
Exec(j, from, to) ==
    /\ running
    /\ ~cancelled[j]
    /\ Advance(j, from, to)
    /\ UNCHANGED <<fileVars, content, attempt, handle, cancelled, running, sawRunning, coldStaged>>

Fmt(j) ==
    /\ staging # Absent
    /\ Exec(j, "fmt", "validate")
    /\ UNCHANGED serving

\* Mutant: the exit code is not looked at.
ValidateUnchecked(j) ==
    /\ Exec(j, "validate", "rename")
    /\ UNCHANGED serving

Validate(j) ==
    /\ staging \in Valid
    /\ Exec(j, "validate", "rename")
    /\ UNCHANGED serving

\* Mutant: the rename ends the deployment.
SwapWithoutReload(j) ==
    /\ Rename(j, "ok")
    /\ coldStaged' = ~sawRunning[j]
    /\ UNCHANGED <<running, serving, sawRunning>>

\* The rename over the target; a stopped instance is not asked to reload.
Swap(j) ==
    /\ Rename(j, IF sawRunning[j] THEN "reload" ELSE "ok")
    /\ coldStaged' = ~sawRunning[j]
    /\ UNCHANGED <<running, serving, sawRunning>>

CanReload == running /\ serving # Absent /\ target \in Valid

Reload(j) ==
    /\ CanReload
    /\ Exec(j, "reload", "ok")
    /\ serving' = target

\* The reload happens in the instance, but its result never arrives.
ReloadUnanswered(j) ==
    /\ CanReload
    /\ pc[j] = "reload"
    /\ Fail(j)
    /\ serving' = target
    /\ UNCHANGED <<running, sawRunning, coldStaged>>

AttemptFails(j) ==
    /\ Fail(j) \/ FailWrite(j)
    /\ UNCHANGED deployVars

Wait(j) ==
    /\ Retry(j) \/ GiveUp(j)
    /\ UNCHANGED deployVars

Step(j) ==
    \/ Begin(j) \/ CreateStaging(j) \/ WriteStaging(j)
    \/ Fmt(j) \/ Validate(j) \/ Swap(j) \/ Reload(j)
    \/ ReloadUnanswered(j) \/ AttemptFails(j) \/ Wait(j)

-----------------------------------------------------------------------------
(* The caller.                                                             *)

Start(j, c) ==
    /\ Launch(j, c)
    /\ UNCHANGED deployVars

CancelJob(j) ==
    /\ Cancel(j)
    /\ UNCHANGED deployVars

Forget(j) == sawRunning' = [sawRunning EXCEPT ![j] = FALSE]

Return(j) ==
    /\ pc[j] \in {"ok", "failed"}
    /\ Leave(j)
    /\ Forget(j)
    /\ UNCHANGED <<running, serving, coldStaged>>

Crash ==
    /\ \E j \in Jobs : Live(j)
    /\ KillJobs
    /\ sawRunning' = [j \in Jobs |-> FALSE]
    /\ UNCHANGED <<running, serving, coldStaged>>

Init ==
    /\ FileInit
    /\ running \in BOOLEAN
    /\ serving = IF running THEN target ELSE Absent
    /\ sawRunning = [j \in Jobs |-> FALSE]
    /\ coldStaged = FALSE

AllIdle == \A j \in Jobs : ~Live(j)

\* Deployments of a target one after the other: the next one is started when
\* the last one has returned.  Reconciler.tla starts them as the program does.
Next ==
    \/ StartInstance \/ StopInstance \/ Crash
    \/ \E j \in Jobs : Step(j) \/ CancelJob(j) \/ Return(j)
    \/ \E j \in Jobs, c \in Contents : AllIdle /\ Start(j, c)

\* The scheduler runs a goroutine that can run, and every call returns.
Fairness == \A j \in Jobs : WF_vars(Step(j) \/ Return(j))

Spec == Init /\ [][Next]_vars /\ Fairness

-----------------------------------------------------------------------------
(* Properties.                                                             *)

\* The Caddyfile is never half of something, whatever fails or crashes between
\* truncating the staging file and the rename, and unless it was staged for a
\* stopped instance it is one Caddy accepted.
OnlyVettedReplaces ==
    /\ target \in Contents \cup {Absent}
    /\ coldStaged \/ target \in Valid \cup {Absent}

\* A deployment that returns nil after a reload has the instance serve the
\* rendering it was given, however often the instance went down and up since.
SuccessIsServed ==
    \A j \in Jobs : pc[j] = "ok" =>
        /\ target = content[j]
        /\ sawRunning[j] /\ running => serving = content[j]

\* However the calls fail and whenever it is cancelled, a deployment ends.
Terminates == \A j \in Jobs : Live(j) ~> ~Live(j)

\* Staging, vetting, renaming and reloading publish as Publish.tla promises.
Promise == INSTANCE Publish WITH
    file <- target, vetted <- ~coldStaged, want <- content,
    phase <- [j \in Jobs |-> CASE pc[j] = "idle" -> "out"
                               [] pc[j] = "ok" -> "done"
                               [] pc[j] = "failed" -> "failed"
                               [] OTHER -> "working"]

Publishes == Promise!Safety
=============================================================================
