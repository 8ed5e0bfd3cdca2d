----------------------------- MODULE StagedFile -----------------------------
(***************************************************************************)
(* What caddy/deploy.go and caddy/deploy_os.go share: the Caddyfile of one *)
(* target, the staging file next to it, the goroutines ("jobs") that each  *)
(* push one rendered Caddyfile, and the retry loop every job runs in.      *)
(*                                                                         *)
(* A file is what it holds.  Absent means there is no such name; Empty is  *)
(* a file just truncated; Torn is a file that is not one whole rendering   *)
(* (a write that failed half-way, or two renderings over each other).      *)
(*                                                                         *)
(* An open handle follows the file, not the name: a rename moves the file  *)
(* under an open handle to the target's name, and replacing the target     *)
(* unlinks the file some other handle may still write to.                  *)
(***************************************************************************)
EXTENDS Naturals

CONSTANTS
    Jobs,         \* the goroutines that may be alive at the same time
    Contents,     \* the Caddyfiles that can be rendered
    Valid,        \* the files that "caddy validate" and Caddy itself accept
    MaxAttempts,  \* retry.Attempts: 10 in the code, small in the runs
    Absent,       \* no file of that name
    Empty,        \* truncated, nothing written yet
    Torn          \* not one whole rendering

FileAssumption ==
    /\ Absent \notin Contents /\ Empty \notin Contents /\ Torn \notin Contents
    /\ Absent # Empty /\ Absent # Torn /\ Empty # Torn
    /\ Valid \subseteq Contents \cup {Empty, Torn}
    /\ MaxAttempts \in Nat \ {0}

ASSUME FileAssumption

VARIABLES
    staging,      \* the file at caddyfilePath + ".tmp"
    target,       \* the file at caddyfilePath
    pc,           \* where each job is
    content,      \* the rendering each job captured; Absent in an idle slot
    attempt,      \* the number of the retry loop's current attempt
    handle,       \* which file a job's open handle writes to
    cancelled     \* the job's context is done

fileVars == <<staging, target>>
jobVars == <<pc, content, attempt, handle, cancelled>>

Files == Contents \cup {Absent, Empty, Torn}

\* Stages of one attempt, in the order of the code; then the retry loop's
\* wait and the two ways deploy returns.
Attempting == {"begin", "create", "write", "fmt", "validate", "rename", "reload"}
Stages == Attempting \cup {"idle", "backoff", "ok", "failed"}
Handles == {"none", "staging", "target", "unlinked"}

FileTypeOK ==
    /\ staging \in Files
    /\ target \in Files
    /\ pc \in [Jobs -> Stages]
    /\ content \in [Jobs -> Contents \cup {Absent}]
    /\ attempt \in [Jobs -> 1 .. MaxAttempts]
    /\ handle \in [Jobs -> Handles]
    /\ cancelled \in [Jobs -> BOOLEAN]

Live(j) == pc[j] # "idle"

-----------------------------------------------------------------------------
(* The life of a job.                                                      *)

\* A goroutine starts: its context is fresh, its attempt is the first one.
Launch(j, c) ==
    /\ pc[j] = "idle"
    /\ pc' = [pc EXCEPT ![j] = "begin"]
    /\ content' = [content EXCEPT ![j] = c]
    /\ attempt' = [attempt EXCEPT ![j] = 1]
    /\ cancelled' = [cancelled EXCEPT ![j] = FALSE]
    /\ UNCHANGED <<fileVars, handle>>

Advance(j, from, to) ==
    /\ pc[j] = from
    /\ pc' = [pc EXCEPT ![j] = to]

\* Mutant: one attempt too many.
FailAttemptLate(j) ==
    /\ pc[j] \in Attempting
    /\ pc' = [pc EXCEPT ![j] = IF attempt[j] > MaxAttempts THEN "failed" ELSE "backoff"]
    /\ handle' = [handle EXCEPT ![j] = "none"]
    /\ UNCHANGED <<content, attempt, cancelled>>

\* The attempt returns an error: whatever it had open is closed, and the retry
\* loop waits, or returns the error when it was the last attempt.
FailAttempt(j) ==
    /\ pc[j] \in Attempting
    /\ pc' = [pc EXCEPT ![j] = IF attempt[j] = MaxAttempts THEN "failed" ELSE "backoff"]
    /\ handle' = [handle EXCEPT ![j] = "none"]
    /\ UNCHANGED <<content, attempt, cancelled>>

\* Mutant: the attempt is not counted.
RetryUncounted(j) ==
    /\ Advance(j, "backoff", "begin")
    /\ UNCHANGED <<fileVars, content, attempt, handle, cancelled>>

\* The backoff timer fires.
Retry(j) ==
    /\ Advance(j, "backoff", "begin")
    /\ attempt' = [attempt EXCEPT ![j] = @ + 1]
    /\ UNCHANGED <<fileVars, content, handle, cancelled>>

\* The context ends the wait: Do returns the context's error.
GiveUp(j) ==
    /\ cancelled[j]
    /\ Advance(j, "backoff", "failed")
    /\ UNCHANGED <<fileVars, content, attempt, handle, cancelled>>

-----------------------------------------------------------------------------
(* The file operations.  None of them looks at the context.                *)

\* Mutant: the Caddyfile itself is opened.
CreateInPlace(j) ==
    /\ Advance(j, "create", "write")
    /\ target' = Empty
    /\ handle' = [handle EXCEPT ![j] = "target"]
    /\ UNCHANGED <<staging, content, attempt, cancelled>>

\* Create, or os.WriteFile's open: truncates the file of that name in place,
\* under the handles of other jobs, or makes a new one.
Create(j) ==
    /\ Advance(j, "create", "write")
    /\ staging' = Empty
    /\ handle' = [handle EXCEPT ![j] = "staging"]
    /\ UNCHANGED <<target, content, attempt, cancelled>>

\* The file a job's handle writes to, as it is now.
Opened(j) == CASE handle[j] = "staging" -> staging
               [] handle[j] = "target" -> target
               [] OTHER -> Absent

\* What a file may hold after the rendering c is written from its start: over
\* something longer than c the end of the old text stays.
Overwritten(file, c) == IF file \in {Empty, c} THEN {c} ELSE {c, Torn}

\* What it may hold after the write, or the close that follows it, failed.
Damaged(file, c) == {file, c, Torn}

\* A write lands in the file the handle has, whatever its name is by now.
Put(j, results) ==
    /\ staging' \in IF handle[j] = "staging" THEN results ELSE {staging}
    /\ target' \in IF handle[j] = "target" THEN results ELSE {target}

Write(j, next) ==
    /\ Advance(j, "write", next)
    /\ Put(j, Overwritten(Opened(j), content[j]))
    /\ handle' = [handle EXCEPT ![j] = "none"]
    /\ UNCHANGED <<content, attempt, cancelled>>

FailWrite(j) ==
    /\ pc[j] = "write"
    /\ FailAttempt(j)
    /\ Put(j, Damaged(Opened(j), content[j]))

\* PosixRename / os.Rename: the staging file replaces the target as it is now.
Rename(j, next) ==
    /\ Advance(j, "rename", next)
    /\ staging # Absent
    /\ target' = staging
    /\ staging' = Absent
    /\ handle' = [k \in Jobs |-> CASE handle[k] = "staging" -> "target"
                                   [] handle[k] = "target" -> "unlinked"
                                   [] OTHER -> handle[k]]
    /\ UNCHANGED <<content, attempt, cancelled>>

\* Every other way an attempt can fail leaves the files alone.
Fail(j) ==
    /\ pc[j] # "write"
    /\ FailAttempt(j)
    /\ UNCHANGED fileVars

\* The context of job j is cancelled.
Cancel(j) ==
    /\ Live(j)
    /\ ~cancelled[j]
    /\ cancelled' = [cancelled EXCEPT ![j] = TRUE]
    /\ UNCHANGED <<fileVars, pc, content, attempt, handle>>

\* deploy has returned and the goroutine ends; its slot is free again.
Leave(j) ==
    /\ pc' = [pc EXCEPT ![j] = "idle"]
    /\ content' = [content EXCEPT ![j] = Absent]
    /\ attempt' = [attempt EXCEPT ![j] = 1]
    /\ cancelled' = [cancelled EXCEPT ![j] = FALSE]
    /\ UNCHANGED <<fileVars, handle>>

\* No goroutine exists: the process has just started.
NoJobs ==
    /\ pc = [j \in Jobs |-> "idle"]
    /\ content = [j \in Jobs |-> Absent]
    /\ attempt = [j \in Jobs |-> 1]
    /\ handle = [j \in Jobs |-> "none"]
    /\ cancelled = [j \in Jobs |-> FALSE]

\* The process dies and is started again: the files stay as they are.
KillJobs ==
    /\ pc' = [j \in Jobs |-> "idle"]
    /\ content' = [j \in Jobs |-> Absent]
    /\ attempt' = [j \in Jobs |-> 1]
    /\ handle' = [j \in Jobs |-> "none"]
    /\ cancelled' = [j \in Jobs |-> FALSE]
    /\ UNCHANGED fileVars

FileInit ==
    /\ staging = Absent
    /\ target \in {Absent} \cup (Valid \cap Contents)
    /\ NoJobs
=============================================================================
