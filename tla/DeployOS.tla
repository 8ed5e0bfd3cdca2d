------------------------------ MODULE DeployOS ------------------------------
(***************************************************************************)
(* caddy/deploy_os.go: pushing a Caddyfile to the Caddy daemon of the same *)
(* host.  A job stages the file, runs "caddy fmt", "caddy validate" and,   *)
(* after the rename, "caddy reload", as local processes that are killed    *)
(* when its context is done.  A daemon that cannot be reached is no error. *)
(*                                                                         *)
(* The daemon boots in two steps: it reads the Caddyfile, and only then    *)
(* listens on the admin endpoint that "caddy reload" talks to.             *)
(***************************************************************************)
EXTENDS StagedFile

VARIABLES
    daemon,       \* "down", "booting" (Caddyfile read, not listening) or "up"
    loaded,       \* the Caddyfile the daemon has read; Absent when it is down
    passedOver    \* history: a daemon that was not down was taken for one that is

readVars == <<loaded, passedOver>>
osVars == <<daemon, readVars>>
vars == <<fileVars, jobVars, osVars>>

TypeOK ==
    /\ FileTypeOK
    /\ daemon \in {"down", "booting", "up"}
    /\ loaded \in Files
    /\ passedOver \in BOOLEAN

-----------------------------------------------------------------------------
(* The daemon, outside the program.                                        *)

ReadCaddyfile ==
    /\ daemon = "down"
    /\ target \in Valid
    /\ daemon' = "booting"
    /\ loaded' = target
    /\ UNCHANGED <<fileVars, jobVars, passedOver>>

Listen ==
    /\ daemon = "booting"
    /\ daemon' = "up"
    /\ UNCHANGED <<fileVars, jobVars, readVars>>

StopDaemon ==
    /\ daemon # "down"
    /\ daemon' = "down"
    /\ loaded' = Absent
    /\ UNCHANGED <<fileVars, jobVars, passedOver>>

-----------------------------------------------------------------------------
(* One attempt.  Only running a command looks at the context.              *)

\* MkdirAll.
Begin(j) ==
    /\ Advance(j, "begin", "create")
    /\ UNCHANGED <<fileVars, content, attempt, handle, cancelled, osVars>>

\* os.WriteFile opens the staging file ...
CreateStaging(j) ==
    /\ Create(j)
    /\ UNCHANGED osVars

\* ... and writes it.
WriteStaging(j) ==
    /\ Write(j, "fmt")
    /\ UNCHANGED osVars

\* A command that exits with zero.
Run(j, from, to) ==
    /\ ~cancelled[j]
    /\ Advance(j, from, to)
    /\ UNCHANGED <<fileVars, content, attempt, handle, cancelled, daemon>>

Fmt(j) ==
    /\ staging # Absent
    /\ Run(j, "fmt", "validate")
    /\ UNCHANGED readVars

\* Mutant: the error of the command is not looked at.
ValidateUnchecked(j) ==
    /\ Run(j, "validate", "rename")
    /\ UNCHANGED readVars

Validate(j) ==
    /\ staging \in Valid
    /\ Run(j, "validate", "rename")
    /\ UNCHANGED readVars

\* Mutant: the daemon is not asked to reload.
SwapWithoutReload(j) ==
    /\ Rename(j, "ok")
    /\ passedOver' = FALSE
    /\ UNCHANGED <<daemon, loaded>>

Swap(j) ==
    /\ Rename(j, "reload")
    /\ passedOver' = FALSE
    /\ UNCHANGED <<daemon, loaded>>

Reload(j) ==
    /\ daemon = "up"
    /\ target \in Valid
    /\ Run(j, "reload", "ok")
    /\ loaded' = target
    /\ UNCHANGED passedOver

\* "connection refused", or "no such file or directory", which is also said of a
\* file that the Caddyfile names and that has vanished since: taken for a daemon
\* that is not up, which will read the Caddyfile when it starts.
ReloadOffline(j) ==
    /\ Run(j, "reload", "ok")
    /\ passedOver' = (passedOver \/ daemon # "down")
    /\ UNCHANGED loaded

\* "caddy reload" is killed, or fails, after the daemon took the file.
ReloadUnanswered(j) ==
    /\ daemon = "up" /\ target \in Valid
    /\ pc[j] = "reload"
    /\ Fail(j)
    /\ loaded' = target
    /\ UNCHANGED <<daemon, passedOver>>

\* "caddy fmt" is killed while it writes the staging file back.
FmtKilled(j) ==
    /\ pc[j] = "fmt"
    /\ FailAttempt(j)
    /\ staging' \in {Empty, Torn}
    /\ UNCHANGED <<target, osVars>>

AttemptFails(j) ==
    /\ Fail(j) \/ FailWrite(j)
    /\ UNCHANGED osVars

Wait(j) ==
    /\ Retry(j) \/ GiveUp(j)
    /\ UNCHANGED osVars

Step(j) ==
    \/ Begin(j) \/ CreateStaging(j) \/ WriteStaging(j)
    \/ Fmt(j) \/ FmtKilled(j) \/ Validate(j) \/ Swap(j)
    \/ Reload(j) \/ ReloadOffline(j) \/ ReloadUnanswered(j)
    \/ AttemptFails(j) \/ Wait(j)

-----------------------------------------------------------------------------
(* The caller.  It is taken to wait: deployer.go cancels a deployment that *)
(* is alive and starts the next at once, and two targets with one path and *)
(* different labels know nothing of each other.  See the README.           *)

Start(j, c) ==
    /\ \A k \in Jobs : ~Live(k)
    /\ Launch(j, c)
    /\ UNCHANGED osVars

CancelJob(j) ==
    /\ Cancel(j)
    /\ UNCHANGED osVars

Return(j) ==
    /\ pc[j] \in {"ok", "failed"}
    /\ Leave(j)
    /\ UNCHANGED osVars

Crash ==
    /\ \E j \in Jobs : Live(j)
    /\ KillJobs
    /\ UNCHANGED osVars

Init ==
    /\ FileInit
    /\ passedOver = FALSE
    /\ \/ daemon = "down" /\ loaded = Absent
       \/ daemon = "up" /\ target # Absent /\ loaded = target

Next ==
    \/ ReadCaddyfile \/ Listen \/ StopDaemon \/ Crash
    \/ \E j \in Jobs : Step(j) \/ CancelJob(j) \/ Return(j)
    \/ \E j \in Jobs, c \in Contents : Start(j, c)

\* The scheduler runs a goroutine that can run, and every command returns.
Fairness == \A j \in Jobs : WF_vars(Step(j) \/ Return(j))

Spec == Init /\ [][Next]_vars /\ Fairness

-----------------------------------------------------------------------------
(* Properties.                                                             *)

\* The Caddyfile is always one Caddy has accepted, daemon or no daemon: here
\* nothing is published for the next boot without validation.
OnlyVettedReplaces == target \in (Contents \cap Valid) \cup {Absent}

\* However the commands fail and whenever it is cancelled, a deployment ends.
Terminates == \A j \in Jobs : Live(j) ~> ~Live(j)

\* Staging, vetting, renaming and reloading publish as Publish.tla promises,
\* and here what is published is always vetted.
Promise == INSTANCE Publish WITH
    file <- target, vetted <- TRUE, want <- content,
    phase <- [j \in Jobs |-> CASE pc[j] = "idle" -> "out"
                               [] pc[j] = "ok" -> "done"
                               [] pc[j] = "failed" -> "failed"
                               [] OTHER -> "working"]

Publishes == Promise!Safety

\* A deployment that succeeds has its file read: by the daemon that runs, or at
\* the next start.  Not so where a daemon that boots, having read the old file, or
\* one that misses another file is taken for one that is down: the old file is
\* served on, while docs/root/architecture.md:118 has the new one "on disk for
\* Caddy's startup".
SuccessIsLoaded ==
    \A j \in Jobs : pc[j] = "ok" /\ daemon = "up" /\ ~passedOver => loaded = content[j]
=============================================================================
