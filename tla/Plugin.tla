------------------------------- MODULE Plugin -------------------------------
(***************************************************************************)
(* caddy/plugin.go: which instances the Caddyfile is rendered from.  The   *)
(* event chain delivers what it reads of an instance after a change, or in *)
(* the sweep that follows a (re)connection; Handle puts it in a bounded    *)
(* inbox, the loop of Run keeps the routed instances in p.instances and,   *)
(* once the chain is warm, has them reconciled (Reconciler.tla).           *)
(*                                                                         *)
(* The chain before the plugin is outside this repository: an event has    *)
(* what the instance shows when it is read, events of one instance keep    *)
(* their order, a disconnection loses the events on their way.             *)
(***************************************************************************)
EXTENDS Naturals, Sequences

CONSTANTS
    Names,            \* instances, with their project
    Routes,           \* what a running instance with target labels may show
    None,             \* no route: stopped, without labels, or no such instance
    Gone,             \* no instance of that name
    InboxCap,         \* capacity of the inbox: 256 in the code
    Renames,          \* instances may be renamed
    Flaky,            \* reading an instance may fail
    SweepReportsGone  \* the sweep also reports instances that vanished

PluginAssumption ==
    /\ None \notin Routes \cup Names /\ Gone \notin Routes /\ None # Gone
    /\ InboxCap \in Nat \ {0}
    /\ Renames \in BOOLEAN /\ Flaky \in BOOLEAN /\ SweepReportsGone \in BOOLEAN

ASSUME PluginAssumption

VARIABLES
    fleet,        \* what each instance is: a route, None or Gone
    source,       \* the chain: "down", "sweeping", "warm" or "stopped"
    dirty,        \* changes on their way: <<name, old name or None>>
    toSweep,      \* instances the sweep has still to read
    inbox,        \* p.inbox
    instances,    \* p.instances: the route tracked under each name, or None
    chain,        \* p.chain: "cold" or "warm"
    reconciled,   \* what p.instances was when it was reconciled last
    loop,         \* Run: "running", "draining" or "exited"
    lost,         \* history: names whose last change did not get into the inbox
    renamedAway,  \* history: names untracked by a rename, not reconciled since
    sweepEndLost  \* history: a SweepEnd found the inbox full

outside == <<fleet, source, dirty, toSweep>>
tracking == <<instances, chain, reconciled, loop, renamedAway>>
vars == <<outside, inbox, tracking, lost, sweepEndLost>>

Shown(n) == IF fleet[n] \in Routes THEN fleet[n] ELSE None
Untracked == [n \in Names |-> None]
ChainState == IF source = "warm" THEN "warm" ELSE "cold"

\* The events the plugin tells apart.
InstanceEvent(n, old) ==
    [kind |-> "instance", name |-> n, old |-> old, shows |-> Shown(n), chain |-> ChainState]
SweepEnd == [kind |-> "sweep-end"]
Disconnected == [kind |-> "disconnected"]

Events == {SweepEnd, Disconnected} \cup
    [kind : {"instance"}, name : Names, old : Names \cup {None},
     shows : Routes \cup {None}, chain : {"cold", "warm"}]

TypeOK ==
    /\ fleet \in [Names -> Routes \cup {None, Gone}]
    /\ source \in {"down", "sweeping", "warm", "stopped"}
    /\ dirty \subseteq Names \X (Names \cup {None})
    /\ toSweep \subseteq Names
    /\ inbox \in Seq(Events) /\ Len(inbox) <= InboxCap
    /\ instances \in [Names -> Routes \cup {None}]
    /\ chain \in {"cold", "warm"}
    /\ reconciled \in [Names -> Routes \cup {None}]
    /\ loop \in {"running", "draining", "exited"}
    /\ lost \subseteq Names /\ renamedAway \subseteq Names
    /\ sweepEndLost \in BOOLEAN

-----------------------------------------------------------------------------
(* The fleet, and the chain in front of the plugin.                        *)

\* A lifecycle event is seen only while there is a connection.
Notice(changed, names) ==
    IF source \in {"down", "stopped"}
    THEN lost' = lost \cup names /\ UNCHANGED dirty
    ELSE dirty' = dirty \cup changed /\ UNCHANGED lost

\* An instance is created, deleted, started, stopped or relabelled.  A name is
\* not given away again while a rename from it is still on its way.
Change(n, to) ==
    /\ fleet[n] # to
    /\ \A m \in Names : <<m, n>> \notin dirty
    /\ fleet' = [fleet EXCEPT ![n] = to]
    /\ Notice({<<n, None>>}, {n})
    /\ UNCHANGED <<source, toSweep, inbox, tracking, sweepEndLost>>

Rename(n, m) ==
    /\ Renames
    /\ fleet[n] # Gone /\ fleet[m] = Gone
    /\ \A k \in Names : <<k, m>> \notin dirty /\ <<k, n>> \notin dirty
    /\ fleet' = [fleet EXCEPT ![n] = Gone, ![m] = fleet[n]]
    /\ Notice({<<m, n>>}, {n, m})
    /\ UNCHANGED <<source, toSweep, inbox, tracking, sweepEndLost>>

\* Mutant: room for one more than there is.
AcceptedOver(event) == Len(inbox) <= InboxCap /\ inbox' = Append(inbox, event)

\* Handle: an event with an error is passed on only, and so is one that finds
\* the inbox full.
Accepted(event) == Len(inbox) < InboxCap /\ inbox' = Append(inbox, event)
Refused == Len(inbox) >= InboxCap /\ UNCHANGED inbox

Handle(n, old) ==
    \/ Accepted(InstanceEvent(n, old)) /\ lost' = lost \ {n, old}
    \/ Refused /\ lost' = lost \cup ({n, old} \ {None})
    \/ Flaky /\ UNCHANGED inbox /\ lost' = lost \cup ({n, old} \ {None})

\* A debounced change is read and delivered.
Deliver(n, old) ==
    /\ <<n, old>> \in dirty
    /\ dirty' = dirty \ {<<n, old>>}
    /\ Handle(n, old)
    /\ UNCHANGED <<fleet, source, toSweep, tracking, sweepEndLost>>

Sweep(n) ==
    /\ n \in toSweep
    /\ toSweep' = toSweep \ {n}
    /\ Handle(n, None)
    /\ UNCHANGED <<fleet, source, dirty, tracking, sweepEndLost>>

EndSweep ==
    /\ source = "sweeping" /\ toSweep = {}
    /\ source' = "warm"
    /\ \/ Accepted(SweepEnd) /\ UNCHANGED sweepEndLost
       \/ Refused /\ sweepEndLost' = TRUE
    /\ UNCHANGED <<fleet, dirty, toSweep, tracking, lost>>

Connect ==
    /\ source = "down"
    /\ source' = "sweeping"
    /\ toSweep' = {n \in Names : fleet[n] # Gone \/ SweepReportsGone}
    /\ UNCHANGED <<fleet, dirty, inbox, tracking, lost, sweepEndLost>>

Disconnect ==
    /\ source \in {"sweeping", "warm"}
    /\ source' = "down"
    /\ lost' = lost \cup {n \in Names : \E m \in Names \cup {None} :
                                            <<n, m>> \in dirty \/ <<m, n>> \in dirty}
    /\ dirty' = {}
    /\ toSweep' = {}
    /\ Accepted(Disconnected) \/ Refused
    /\ UNCHANGED <<fleet, tracking, sweepEndLost>>

\* main stops the source before it drains the chain.
StopSource ==
    /\ source # "stopped"
    /\ source' = "stopped"
    /\ toSweep' = {}
    /\ UNCHANGED <<fleet, dirty, inbox, tracking, lost, sweepEndLost>>

-----------------------------------------------------------------------------
(* Run: the events, in the order of the inbox.                             *)

Take(kind) ==
    /\ loop \in {"running", "draining"}
    /\ inbox # <<>>
    /\ Head(inbox).kind = kind
    /\ inbox' = Tail(inbox)
    /\ UNCHANGED <<outside, loop, lost, sweepEndLost>>

Reconcile(tracked) ==
    /\ reconciled' = tracked
    /\ renamedAway' = {}

ProcessDisconnected ==
    /\ Take("disconnected")
    /\ chain' = "cold"
    /\ UNCHANGED <<instances, reconciled, renamedAway>>

ProcessSweepEnd ==
    /\ Take("sweep-end")
    /\ chain' = "warm"
    /\ Reconcile(instances)
    /\ UNCHANGED instances

\* Mutant: the old name of a rename stays.
KeptIgnoringRename(event) == instances

\* What stays of p.instances once the old name of a rename is deleted.
Kept(event) == [n \in Names |-> IF n = event.old THEN None ELSE instances[n]]

\* What is tracked afterwards: the event's instance as it shows.
Tracked(event) == [Kept(event) EXCEPT ![event.name] = event.shows]

\* Mutants: the gate is missing; a stop, or a start, is no reason.
ReasonUngated(event) == event.shows # None \/ Kept(event)[event.name] # None
ReasonRoutedOnly(event) == event.shows # None /\ event.chain = "warm"
ReasonTrackedOnly(event) == Kept(event)[event.name] # None /\ event.chain = "warm"

\* An instance that is not routed and was not tracked is no reason to go on,
\* also when the rename has just untracked its old name.
Reason(event) ==
    /\ event.shows # None \/ Kept(event)[event.name] # None
    /\ event.chain = "warm"

ProcessInstance ==
    /\ Take("instance")
    /\ LET event == Head(inbox) IN
        /\ chain' = event.chain
        /\ instances' = Tracked(event)
        /\ \/ Reason(event) /\ Reconcile(Tracked(event))
           \/ /\ ~Reason(event)
              /\ renamedAway' = renamedAway \cup {n \in Names : Kept(event)[n] # instances[n]}
              /\ UNCHANGED reconciled

\* CommandDrain, which reaches the plugin when the stages before it are empty.
Drain ==
    /\ loop = "running"
    /\ source = "stopped" /\ dirty = {}
    /\ loop' = "draining"
    /\ UNCHANGED <<outside, inbox, instances, chain, reconciled, renamedAway, lost, sweepEndLost>>

Stop ==
    /\ loop' = "exited"
    /\ UNCHANGED <<outside, inbox, instances, chain, reconciled, renamedAway, lost, sweepEndLost>>

\* The inbox is drained: the command goes on to the next stage.
HandOver == loop = "draining" /\ inbox = <<>> /\ Stop

\* The context is done, or a channel was closed.  A drain does not look.
Leave == loop = "running" /\ Stop

Process == ProcessDisconnected \/ ProcessSweepEnd \/ ProcessInstance

-----------------------------------------------------------------------------
Init ==
    /\ fleet \in [Names -> Routes \cup {None, Gone}]
    /\ source = "down"
    /\ dirty = {} /\ toSweep = {}
    /\ inbox = <<>>
    /\ instances = Untracked
    /\ chain = "cold"
    /\ reconciled = Untracked
    /\ loop = "running"
    /\ lost = Names
    /\ renamedAway = {}
    /\ sweepEndLost = FALSE

Next ==
    \/ \E n \in Names, to \in Routes \cup {None, Gone} : Change(n, to)
    \/ \E n, m \in Names : Rename(n, m) \/ Deliver(n, m)
    \/ \E n \in Names : Deliver(n, None) \/ Sweep(n)
    \/ Connect \/ EndSweep \/ Disconnect \/ StopSource
    \/ Process \/ Drain \/ HandOver \/ Leave

Spec == Init /\ [][Next]_vars

-----------------------------------------------------------------------------
(* Properties.                                                             *)

\* The instance n is tracked as it was when an event of it got in last: nothing
\* of n is on its way, and nothing of n was lost.
Settled(n) ==
    /\ source = "warm" /\ inbox = <<>>
    /\ \A m \in Names \cup {None} : <<n, m>> \notin dirty /\ <<m, n>> \notin dirty
    /\ n \notin lost

TrackedIsFleet == \A n \in Names : Settled(n) => instances[n] = Shown(n)

\* Once warm, what was reconciled last is what is tracked, except for names a
\* rename took away without a reconcile.
WarmIsReconciled ==
    chain = "warm" /\ ~sweepEndLost =>
        \A n \in Names \ renamedAway : reconciled[n] = instances[n]

\* Warm gating: nothing is reconciled while the chain is cold.
ColdIsQuiet == [][reconciled' # reconciled => chain' = "warm"]_vars

\* Says docs/root/labels.md:195 of an instance that stops: Caddy is updated "to
\* route solely to" the others.
StoppedIsUnrouted ==
    chain = "warm" /\ ~sweepEndLost =>
        \A n \in Names : Settled(n) /\ Shown(n) = None => reconciled[n] = None
=============================================================================
