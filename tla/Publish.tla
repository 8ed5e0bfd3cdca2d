------------------------------ MODULE Publish -------------------------------
(***************************************************************************)
(* What a deployment promises, whatever transport it uses: the Caddyfile   *)
(* of a target only ever changes as a whole, to the rendering that was     *)
(* asked for; it is one Caddy has vetted unless Caddy was down; and a      *)
(* deployment that reports success has made it the file on disk.  Staging, *)
(* formatting, handles, retries and reloads do not appear.                 *)
(***************************************************************************)
CONSTANTS Jobs, Contents, Valid, Absent

VARIABLES
    file,     \* the Caddyfile
    vetted,   \* Caddy accepted the file before it took its place
    want,     \* the rendering each deployment was asked to publish
    phase     \* "out", "working", "done" (reported success) or "failed"

vars == <<file, vetted, want, phase>>

Init ==
    /\ file \in {Absent} \cup (Contents \cap Valid)
    /\ vetted = TRUE
    /\ want = [j \in Jobs |-> Absent]
    /\ phase = [j \in Jobs |-> "out"]

Become(j, from, to) ==
    /\ phase[j] \in from
    /\ phase' = [phase EXCEPT ![j] = to]

\* One deployment at a time.
Ask(j, c) ==
    /\ \A k \in Jobs : phase[k] = "out"
    /\ Become(j, {"out"}, "working")
    /\ want' = [want EXCEPT ![j] = c]
    /\ UNCHANGED <<file, vetted>>

\* The file changes at once.
Replace(j) ==
    /\ Become(j, {"working"}, "working")
    /\ want[j] \in Valid
    /\ file' = want[j]
    /\ vetted' = TRUE
    /\ UNCHANGED want

\* Publishing for a Caddy that is down is not vetted and needs no more work.
ReplaceUnvetted(j) ==
    /\ Become(j, {"working"}, "done")
    /\ file' = want[j]
    /\ vetted' = FALSE
    /\ UNCHANGED want

Succeed(j) ==
    /\ Become(j, {"working"}, "done")
    /\ vetted /\ file = want[j]
    /\ UNCHANGED <<file, vetted, want>>

Fail(j) ==
    /\ Become(j, {"working"}, "failed")
    /\ UNCHANGED <<file, vetted, want>>

Leave(j) ==
    /\ Become(j, {"done", "failed"}, "out")
    /\ want' = [want EXCEPT ![j] = Absent]
    /\ UNCHANGED <<file, vetted>>

\* The process dies: nobody is told, the file is one that was asked for.
Abandon ==
    /\ phase' = [j \in Jobs |-> "out"]
    /\ want' = [j \in Jobs |-> Absent]
    /\ UNCHANGED <<file, vetted>>

Next ==
    \/ Abandon
    \/ \E j \in Jobs : \/ Replace(j) \/ ReplaceUnvetted(j)
                        \/ Succeed(j) \/ Fail(j) \/ Leave(j)
    \/ \E j \in Jobs, c \in Contents : Ask(j, c)

Safety == Init /\ [][Next]_vars
=============================================================================
