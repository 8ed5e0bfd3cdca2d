--------------------------- MODULE LifecycleProofs ---------------------------
(***************************************************************************)
(* What Plugin.tla guarantees for any instances and routes and an inbox of *)
(* any capacity, proved: that it tracks what the fleet is once everything  *)
(* has got in, and that what it tracks has been reconciled.  Then of       *)
(* Lifecycle.tla, that its runs are runs of the plugin, so that all this   *)
(* holds of them, and that nothing is left in the chain when run returns   *)
(* without a failure.                                                      *)
(***************************************************************************)
EXTENDS Lifecycle, TLAPS

\* An event of a chain that is not warm.
Cold(e) == e.kind = "disconnected" \/ (e.kind = "instance" /\ e.chain = "cold")

\* The position m ends a sweep that the position j, or with j = 0 the state of
\* the loop, leaves open.
EndsSweep(m, j) == m > j /\ inbox[m].kind = "sweep-end"

\* Ahead of a warm event, and of the end of the inbox while the source is warm,
\* whatever was cold is followed by the end of a sweep.
WarmBehindSweep ==
    ~sweepEndLost =>
        /\ \A k \in DOMAIN inbox :
            inbox[k].kind = "instance" /\ inbox[k].chain = "warm" =>
                /\ \A j \in 1..(k - 1) : Cold(inbox[j]) => \E m \in 1..(k - 1) : EndsSweep(m, j)
                /\ chain = "cold" => \E m \in 1..(k - 1) : EndsSweep(m, 0)
        /\ source = "warm" =>
            /\ \A j \in DOMAIN inbox : Cold(inbox[j]) => \E m \in DOMAIN inbox : EndsSweep(m, j)
            /\ chain = "cold" => \E m \in DOMAIN inbox : EndsSweep(m, 0)

\* The old name of a rename that has not been delivered is still free.
RenamedIsGone == \A m, n \in Names : <<m, n>> \in dirty => fleet[n] = Gone

\* What an event does to the name n when it is processed.
Touches(e, n) == e.kind = "instance" /\ n \in {e.name, e.old}
Effect(e, n) == IF n = e.name THEN e.shows ELSE None

\* Nothing of n is on its way to the inbox, and nothing of it was lost.
Arrived(n) ==
    /\ n \notin lost
    /\ \A m \in Names \cup {None} : <<n, m>> \notin dirty /\ <<m, n>> \notin dirty

\* The last event of n leaves n tracked as it is; with none in the inbox it is.
LastIsRight(n) ==
    /\ (\A k \in DOMAIN inbox : ~Touches(inbox[k], n)) => instances[n] = Shown(n)
    /\ \A k \in DOMAIN inbox :
        Touches(inbox[k], n) /\ (\A j \in (k + 1)..Len(inbox) : ~Touches(inbox[j], n)) =>
            Effect(inbox[k], n) = Shown(n)

Arriving == \A n \in Names : Arrived(n) => LastIsRight(n)

-----------------------------------------------------------------------------
(* The inbox.                                                              *)

LEMMA Appended ==
    ASSUME NEW s \in Seq(Events), NEW e \in Events
    PROVE  /\ Append(s, e) \in Seq(Events)
           /\ Len(s) \in Nat /\ Len(Append(s, e)) = Len(s) + 1
           /\ DOMAIN s = 1..Len(s) /\ DOMAIN Append(s, e) = 1..(Len(s) + 1)
           /\ \A k \in 1..Len(s) : Append(s, e)[k] = s[k]
           /\ Append(s, e)[Len(s) + 1] = e
OBVIOUS

LEMMA Tailed ==
    ASSUME NEW s \in Seq(Events), s # <<>>
    PROVE  /\ Tail(s) \in Seq(Events)
           /\ Head(s) \in Events /\ Head(s) = s[1]
           /\ Len(s) \in Nat \ {0} /\ Len(Tail(s)) = Len(s) - 1
           /\ DOMAIN s = 1..Len(s) /\ DOMAIN Tail(s) = 1..(Len(s) - 1)
           /\ \A k \in 1..(Len(s) - 1) : Tail(s)[k] = s[k + 1]
OBVIOUS

LEMMA EventTypes ==
    ASSUME TypeOK, NEW n \in Names, NEW old \in Names \cup {None}
    PROVE  InstanceEvent(n, old) \in Events
BY DEF TypeOK, Events, InstanceEvent, Shown, ChainState

LEMMA ChainEventTypes ==
    /\ SweepEnd \in Events /\ SweepEnd.kind = "sweep-end"
    /\ Disconnected \in Events /\ Disconnected.kind = "disconnected"
BY DEF Events, SweepEnd, Disconnected

\* What gets into the inbox leaves it within its capacity.
LEMMA AcceptedType ==
    ASSUME TypeOK, NEW e \in Events, Accepted(e)
    PROVE  inbox' \in Seq(Events) /\ Len(inbox') <= InboxCap
BY Appended, PluginAssumption DEF TypeOK, Accepted, PluginAssumption

LEMMA HandleType ==
    ASSUME TypeOK, NEW n \in Names, NEW old \in Names \cup {None}, Handle(n, old)
    PROVE  inbox' \in Seq(Events) /\ Len(inbox') <= InboxCap /\ lost' \subseteq Names
<1>1. CASE Accepted(InstanceEvent(n, old)) /\ lost' = lost \ {n, old}
    BY <1>1, EventTypes, AcceptedType DEF TypeOK
<1>2. CASE inbox' = inbox /\ lost' = lost \cup ({n, old} \ {None})
    BY <1>2 DEF TypeOK
<1> QED
    BY <1>1, <1>2 DEF Handle, Refused

\* An event that is processed.
LEMMA TakeType ==
    ASSUME TypeOK, NEW kind, Take(kind)
    PROVE  /\ inbox' \in Seq(Events) /\ Len(inbox') <= InboxCap
           /\ Head(inbox) \in Events /\ Head(inbox).kind = kind
BY Tailed, PluginAssumption DEF TypeOK, Take, PluginAssumption

LEMMA InstanceType ==
    ASSUME NEW e \in Events, e.kind = "instance"
    PROVE  /\ e.name \in Names /\ e.old \in Names \cup {None}
           /\ e.shows \in Routes \cup {None} /\ e.chain \in {"cold", "warm"}
BY DEF Events, SweepEnd, Disconnected

-----------------------------------------------------------------------------
(* Types.                                                                  *)

LEMMA ProcessType ==
    ASSUME TypeOK, Process
    PROVE  TypeOK'
<1>1. CASE ProcessDisconnected
    BY <1>1, TakeType DEF TypeOK, ProcessDisconnected, Take, outside
<1>2. CASE ProcessSweepEnd
    BY <1>2, TakeType DEF TypeOK, ProcessSweepEnd, Take, Reconcile, outside
<1>3. CASE ProcessInstance
    <2> DEFINE e == Head(inbox)
    <2>1. Take("instance")
        BY <1>3 DEF ProcessInstance
    <2>2. /\ e.name \in Names /\ e.old \in Names \cup {None}
          /\ e.shows \in Routes \cup {None} /\ e.chain \in {"cold", "warm"}
        BY <2>1, TakeType, InstanceType
    <2>3. Kept(e) \in [Names -> Routes \cup {None}]
        BY DEF TypeOK, Kept
    <2>4. Tracked(e) \in [Names -> Routes \cup {None}]
        BY <2>2, <2>3 DEF Tracked
    <2>5. /\ chain' = e.chain /\ instances' = Tracked(e)
          /\ reconciled' \in {reconciled, Tracked(e)} /\ renamedAway' \subseteq Names
        BY <1>3 DEF ProcessInstance, Reconcile, TypeOK
    <2> QED
        BY <2>1, <2>2, <2>4, <2>5, TakeType DEF TypeOK, Take, outside
<1> QED
    BY <1>1, <1>2, <1>3 DEF Process

LEMMA NoticeType ==
    ASSUME TypeOK, NEW n \in Names, NEW m \in Names \cup {None}, NEW names \in SUBSET Names,
           Notice({<<n, m>>}, names)
    PROVE  dirty' \subseteq Names \X (Names \cup {None}) /\ lost' \subseteq Names
BY DEF TypeOK, Notice

LEMMA TypeStep ==
    ASSUME TypeOK, [Next]_vars
    PROVE  TypeOK'
<1> USE DEF outside, tracking
<1>1. ASSUME NEW n \in Names, NEW to \in Routes \cup {None, Gone}, Change(n, to)
      PROVE  TypeOK'
    <2> Notice({<<n, None>>}, {n})
        BY <1>1 DEF Change
    <2>1. dirty' \subseteq Names \X (Names \cup {None}) /\ lost' \subseteq Names
        BY NoticeType
    <2> QED
        BY <1>1, <2>1 DEF TypeOK, Change
<1>2. ASSUME NEW n \in Names, NEW m \in Names, Rename(n, m)
      PROVE  TypeOK'
    <2>1. dirty' \subseteq Names \X (Names \cup {None}) /\ lost' \subseteq Names
        BY <1>2, NoticeType DEF Rename
    <2>2. fleet' \in [Names -> Routes \cup {None, Gone}]
        BY <1>2 DEF TypeOK, Rename
    <2> QED
        BY <1>2, <2>1, <2>2 DEF TypeOK, Rename
<1>3. ASSUME NEW n \in Names, NEW old \in Names \cup {None}, Deliver(n, old)
      PROVE  TypeOK'
    BY <1>3, HandleType DEF TypeOK, Deliver
<1>4. ASSUME NEW n \in Names, Sweep(n)
      PROVE  TypeOK'
    BY <1>4, HandleType DEF TypeOK, Sweep
<1>5. CASE EndSweep
    BY <1>5, AcceptedType, ChainEventTypes DEF TypeOK, EndSweep, Refused
<1>6. CASE Disconnect
    <2>1. inbox' \in Seq(Events) /\ Len(inbox') <= InboxCap
        BY <1>6, AcceptedType, ChainEventTypes DEF TypeOK, Disconnect, Refused
    <2> QED
        BY <1>6, <2>1 DEF TypeOK, Disconnect
<1>7. CASE Connect \/ StopSource
    BY <1>7 DEF TypeOK, Connect, StopSource
<1>8. CASE Process
    BY <1>8, ProcessType
<1>9. CASE Drain \/ HandOver \/ Leave
    BY <1>9 DEF TypeOK, Drain, HandOver, Leave, Stop
<1>10. CASE UNCHANGED vars
    BY <1>10 DEF TypeOK, vars
<1> QED
    BY <1>1, <1>2, <1>3, <1>4, <1>5, <1>6, <1>7, <1>8, <1>9, <1>10 DEF Next

LEMMA TypeInit == Init => TypeOK
<1> SUFFICES ASSUME Init
             PROVE  TypeOK
    OBVIOUS
<1>1. <<>> \in Seq(Events) /\ Len(<<>>) <= InboxCap
    BY PluginAssumption DEF PluginAssumption
<1>2. Untracked \in [Names -> Routes \cup {None}]
    BY DEF Untracked
<1> QED
    BY <1>1, <1>2 DEF Init, TypeOK

\* Every variable keeps its type; in particular the inbox never holds more than
\* its capacity, whatever arrives while the loop is busy.
THEOREM TypeCorrect == Spec => []TypeOK
BY TypeInit, TypeStep, PTL DEF Spec

-----------------------------------------------------------------------------
(* What is warm has been swept.                                            *)

\* An event gets in: a warm one from a warm source only, behind which nothing
\* cold follows but what ends the warmth of the source.
LEMMA WarmAppend ==
    ASSUME TypeOK, WarmBehindSweep, NEW e \in Events, Accepted(e),
           chain' = chain, sweepEndLost' = sweepEndLost,
           e.kind = "instance" /\ e.chain = "warm" => source = "warm",
           source' = "warm" => e.kind = "sweep-end" \/ (source = "warm" /\ ~Cold(e))
    PROVE  WarmBehindSweep'
<1> SUFFICES ASSUME ~sweepEndLost
             PROVE  WarmBehindSweep'
    BY DEF WarmBehindSweep
<1> DEFINE last == Len(inbox) + 1
<1>1. /\ Len(inbox) \in Nat
      /\ DOMAIN inbox = 1..Len(inbox) /\ DOMAIN inbox' = 1..last
      /\ \A k \in 1..Len(inbox) : inbox'[k] = inbox[k]
      /\ inbox'[last] = e
    BY Appended DEF Accepted, TypeOK
<1>2. \A k \in 1..Len(inbox), j \in 0..Len(inbox) : EndsSweep(k, j) => EndsSweep(k, j)'
    BY <1>1 DEF EndsSweep
<1>3. ASSUME NEW k \in 1..last, inbox'[k].kind = "instance", inbox'[k].chain = "warm"
      PROVE  /\ \A j \in 1..(k - 1) : Cold(inbox'[j]) => \E m \in 1..(k - 1) : EndsSweep(m, j)'
             /\ chain' = "cold" => \E m \in 1..(k - 1) : EndsSweep(m, 0)'
    <2>1. CASE k = last
        <3>1. source = "warm"
            BY <1>1, <1>3, <2>1
        <3>2. /\ \A j \in 1..Len(inbox) : Cold(inbox[j]) => \E m \in 1..Len(inbox) : EndsSweep(m, j)
              /\ chain = "cold" => \E m \in 1..Len(inbox) : EndsSweep(m, 0)
            BY <1>1, <3>1 DEF WarmBehindSweep
        <3> QED
            BY <1>1, <1>2, <2>1, <3>2
    <2>2. CASE k # last
        <3>1. k \in 1..Len(inbox) /\ inbox'[k] = inbox[k]
            BY <1>1, <2>2
        <3>2. /\ \A j \in 1..(k - 1) : Cold(inbox[j]) => \E m \in 1..(k - 1) : EndsSweep(m, j)
              /\ chain = "cold" => \E m \in 1..(k - 1) : EndsSweep(m, 0)
            BY <1>1, <1>3, <3>1 DEF WarmBehindSweep
        <3> QED
            BY <1>1, <1>2, <3>1, <3>2
    <2> QED
        BY <2>1, <2>2
<1>4. ASSUME source' = "warm"
      PROVE  /\ \A j \in 1..last : Cold(inbox'[j]) => \E m \in 1..last : EndsSweep(m, j)'
             /\ chain' = "cold" => \E m \in 1..last : EndsSweep(m, 0)'
    <2>1. CASE e.kind = "sweep-end"
        <3>1. ~Cold(inbox'[last])
            BY <1>1, <2>1 DEF Cold
        <3>2. last \in 1..last /\ \A j \in 0..Len(inbox) : last > j /\ inbox'[last].kind = "sweep-end"
            BY <1>1, <2>1
        <3>3. \A j \in 1..last : Cold(inbox'[j]) => j \in 0..Len(inbox)
            BY <1>1, <3>1
        <3>4. 0 \in 0..Len(inbox)
            BY <1>1
        <3> QED
            BY <3>2, <3>3, <3>4 DEF EndsSweep
    <2>2. CASE source = "warm" /\ ~Cold(e)
        <3>1. /\ \A j \in 1..Len(inbox) : Cold(inbox[j]) => \E m \in 1..Len(inbox) : EndsSweep(m, j)
              /\ chain = "cold" => \E m \in 1..Len(inbox) : EndsSweep(m, 0)
            BY <1>1, <2>2 DEF WarmBehindSweep
        <3> QED
            BY <1>1, <1>2, <2>2, <3>1
    <2> QED
        BY <1>4, <2>1, <2>2
<1> QED
    BY <1>1, <1>3, <1>4 DEF WarmBehindSweep, Cold

\* The loop takes an event: if it gets cold by it, the event was.
LEMMA WarmTake ==
    ASSUME TypeOK, WarmBehindSweep, NEW kind, Take(kind),
           chain' = "cold" => Cold(Head(inbox))
    PROVE  WarmBehindSweep'
<1> SUFFICES ASSUME ~sweepEndLost
             PROVE  WarmBehindSweep'
    BY DEF WarmBehindSweep, Take
<1> DEFINE left == Len(inbox) - 1
<1>1. /\ Len(inbox) \in Nat \ {0} /\ source' = source
      /\ DOMAIN inbox = 1..Len(inbox) /\ DOMAIN inbox' = 1..left
      /\ \A k \in 1..left : inbox'[k] = inbox[k + 1]
      /\ Head(inbox) = inbox[1]
    BY Tailed DEF Take, TypeOK, outside
<1>2. \A m \in 1..Len(inbox), j \in 1..Len(inbox) :
        EndsSweep(m, j) => m - 1 \in 1..left /\ EndsSweep(m - 1, j - 1)'
    BY <1>1 DEF EndsSweep
<1>3. ASSUME NEW k \in 1..left, inbox'[k].kind = "instance", inbox'[k].chain = "warm"
      PROVE  /\ \A j \in 1..(k - 1) : Cold(inbox'[j]) => \E m \in 1..(k - 1) : EndsSweep(m, j)'
             /\ chain' = "cold" => \E m \in 1..(k - 1) : EndsSweep(m, 0)'
    <2>1. \A j \in 1..k : Cold(inbox[j]) => \E m \in 1..k : EndsSweep(m, j)
        <3>1. k + 1 \in DOMAIN inbox /\ inbox[k + 1] = inbox'[k]
            BY <1>1
        <3> QED
            BY <1>1, <1>3, <3>1 DEF WarmBehindSweep
    <2>2. ASSUME NEW j \in 1..k, Cold(inbox[j])
          PROVE  \E m \in 1..(k - 1) : EndsSweep(m, j - 1)'
        <3>1. PICK m \in 1..k : EndsSweep(m, j)
            BY <2>1, <2>2
        <3>2. m - 1 \in 1..(k - 1) /\ EndsSweep(m - 1, j - 1)'
            BY <1>1, <1>2, <3>1 DEF EndsSweep
        <3> QED
            BY <3>2
    <2>3. ASSUME NEW j \in 1..(k - 1), Cold(inbox'[j])
          PROVE  \E m \in 1..(k - 1) : EndsSweep(m, j)'
        <3>1. j + 1 \in 1..k /\ Cold(inbox[j + 1]) /\ (j + 1) - 1 = j
            BY <1>1, <2>3
        <3> QED
            BY <2>2, <3>1
    <2>4. chain' = "cold" => \E m \in 1..(k - 1) : EndsSweep(m, 0)'
        <3>1. 1 \in 1..k /\ 1 - 1 = 0
            OBVIOUS
        <3> QED
            BY <1>1, <2>2, <3>1
    <2> QED
        BY <2>3, <2>4
<1>4. ASSUME source' = "warm"
      PROVE  /\ \A j \in 1..left : Cold(inbox'[j]) => \E m \in 1..left : EndsSweep(m, j)'
             /\ chain' = "cold" => \E m \in 1..left : EndsSweep(m, 0)'
    <2>1. \A j \in 1..Len(inbox) : Cold(inbox[j]) => \E m \in 1..Len(inbox) : EndsSweep(m, j)
        BY <1>1, <1>4 DEF WarmBehindSweep
    <2>2. ASSUME NEW j \in 1..Len(inbox), Cold(inbox[j])
          PROVE  \E m \in 1..left : EndsSweep(m, j - 1)'
        BY <1>2, <2>1, <2>2
    <2>3. ASSUME NEW j \in 1..left, Cold(inbox'[j])
          PROVE  \E m \in 1..left : EndsSweep(m, j)'
        <3>1. j + 1 \in 1..Len(inbox) /\ Cold(inbox[j + 1]) /\ (j + 1) - 1 = j
            BY <1>1, <2>3
        <3> QED
            BY <2>2, <3>1
    <2>4. chain' = "cold" => \E m \in 1..left : EndsSweep(m, 0)'
        <3>1. 1 \in 1..Len(inbox) /\ 1 - 1 = 0
            BY <1>1
        <3> QED
            BY <1>1, <2>2, <3>1
    <2> QED
        BY <2>3, <2>4
<1> QED
    BY <1>1, <1>3, <1>4 DEF WarmBehindSweep, Cold

\* Nothing gets in or out, and the source does not get warm.
LEMMA WarmSame ==
    ASSUME WarmBehindSweep, inbox' = inbox, chain' = chain,
           sweepEndLost' \/ (sweepEndLost' = sweepEndLost /\ source' \in {source, "down", "sweeping", "stopped"})
    PROVE  WarmBehindSweep'
BY DEF WarmBehindSweep, EndsSweep, Cold

\* A delivered event is warm exactly if the source is.
LEMMA WarmHandle ==
    ASSUME TypeOK, WarmBehindSweep, NEW n \in Names, NEW old \in Names \cup {None}, Handle(n, old),
           chain' = chain, sweepEndLost' = sweepEndLost, source' = source
    PROVE  WarmBehindSweep'
<1> DEFINE e == InstanceEvent(n, old)
<1>1. CASE Accepted(e)
    <2>1. e.kind = "instance" /\ (e.chain = "warm" <=> source = "warm") /\ ~(source = "warm" /\ Cold(e))
        BY DEF InstanceEvent, ChainState, Cold
    <2> QED
        BY <1>1, <2>1, EventTypes, WarmAppend
<1>2. CASE inbox' = inbox
    BY <1>2, WarmSame
<1> QED
    BY <1>1, <1>2 DEF Handle, Refused

LEMMA WarmBehindSweepStep ==
    ASSUME TypeOK, WarmBehindSweep, [Next]_vars
    PROVE  WarmBehindSweep'
<1> USE DEF outside, tracking
<1>1. ASSUME NEW n \in Names, NEW old \in Names \cup {None}, Deliver(n, old)
      PROVE  WarmBehindSweep'
    BY <1>1, WarmHandle DEF Deliver
<1>2. ASSUME NEW n \in Names, Sweep(n)
      PROVE  WarmBehindSweep'
    BY <1>2, WarmHandle DEF Sweep
<1>3. CASE EndSweep
    <2>1. CASE Accepted(SweepEnd) /\ UNCHANGED sweepEndLost
        BY <1>3, <2>1, ChainEventTypes, WarmAppend DEF EndSweep
    <2>2. CASE Refused /\ sweepEndLost'
        BY <1>3, <2>2, WarmSame DEF EndSweep, Refused
    <2> QED
        BY <1>3, <2>1, <2>2 DEF EndSweep
<1>4. CASE Disconnect
    <2>1. CASE Accepted(Disconnected)
        BY <1>4, <2>1, ChainEventTypes, WarmAppend DEF Disconnect
    <2>2. CASE Refused
        BY <1>4, <2>2, WarmSame DEF Disconnect, Refused
    <2> QED
        BY <1>4, <2>1, <2>2 DEF Disconnect
<1>5. CASE ProcessDisconnected
    BY <1>5, TakeType, WarmTake DEF ProcessDisconnected, Cold
<1>6. CASE ProcessSweepEnd
    BY <1>6, WarmTake DEF ProcessSweepEnd
<1>7. CASE ProcessInstance
    BY <1>7, TakeType, WarmTake DEF ProcessInstance, Cold
<1>8. CASE (\E n \in Names, to \in Routes \cup {None, Gone} : Change(n, to)) \/ \E n, m \in Names : Rename(n, m)
    BY <1>8, WarmSame DEF Change, Rename
<1>9. CASE Connect \/ StopSource \/ Drain \/ HandOver \/ Leave
    BY <1>9, WarmSame DEF Connect, StopSource, Drain, HandOver, Leave, Stop
<1>10. CASE UNCHANGED vars
    BY <1>10, WarmSame DEF vars
<1> QED
    BY <1>1, <1>2, <1>3, <1>4, <1>5, <1>6, <1>7, <1>8, <1>9, <1>10 DEF Next, Process

\* An event that does not lead to a reconcile changes what is tracked of the old
\* name of a rename only, and finds the loop warm or leaves it cold.
LEMMA WarmProcess ==
    ASSUME TypeOK, WarmBehindSweep, WarmIsReconciled, ProcessInstance
    PROVE  WarmIsReconciled'
<1> DEFINE e == Head(inbox)
<1> SUFFICES ASSUME chain' = "warm", ~sweepEndLost', NEW n \in Names, n \notin renamedAway'
             PROVE  reconciled'[n] = instances'[n]
    BY DEF WarmIsReconciled
<1>1. /\ Take("instance") /\ e \in Events /\ e.kind = "instance"
      /\ e.chain = "warm" /\ instances' = Tracked(e)
    BY TakeType DEF ProcessInstance
<1>2. CASE Reason(e) /\ Reconcile(Tracked(e))
    BY <1>1, <1>2 DEF Reconcile
<1>3. CASE /\ ~Reason(e)
           /\ renamedAway' = renamedAway \cup {m \in Names : Kept(e)[m] # instances[m]}
           /\ UNCHANGED reconciled
    <2>1. chain = "warm" /\ ~sweepEndLost
        <3>1. 1 \in DOMAIN inbox /\ inbox[1] = e
            BY <1>1, Tailed DEF Take, TypeOK
        <3>2. chain = "cold" => \E m \in 1..(1 - 1) : EndsSweep(m, 0)
            BY <1>1, <3>1 DEF WarmBehindSweep, Take
        <3> QED
            BY <1>1, <3>2 DEF Take, TypeOK
    <2>2. Kept(e)[n] = instances[n] /\ reconciled'[n] = instances[n]
        BY <1>3, <2>1 DEF WarmIsReconciled
    <2>3. Tracked(e)[n] = Kept(e)[n]
        <3>1. e.name \in Names /\ e.shows = None /\ Kept(e)[e.name] = None
            BY <1>1, <1>3, InstanceType DEF Reason
        <3> QED
            BY <3>1 DEF Tracked, Kept
    <2> QED
        BY <1>1, <2>2, <2>3
<1> QED
    BY <1>2, <1>3 DEF ProcessInstance

LEMMA WarmStep ==
    ASSUME TypeOK, WarmBehindSweep, WarmIsReconciled, [Next]_vars
    PROVE  WarmIsReconciled'
<1> USE DEF outside, tracking, WarmIsReconciled
<1>1. CASE ProcessInstance
    BY <1>1, WarmProcess
<1>2. CASE ProcessDisconnected \/ ProcessSweepEnd
    BY <1>2 DEF ProcessDisconnected, ProcessSweepEnd, Reconcile
<1>3. CASE \/ \E n \in Names, to \in Routes \cup {None, Gone} : Change(n, to)
           \/ \E n, m \in Names : Rename(n, m) \/ Deliver(n, m)
           \/ \E n \in Names : Deliver(n, None) \/ Sweep(n)
    BY <1>3 DEF Change, Rename, Deliver, Sweep
<1>4. CASE EndSweep
    BY <1>4 DEF EndSweep
<1>5. CASE Connect \/ Disconnect \/ StopSource \/ Drain \/ HandOver \/ Leave
    BY <1>5 DEF Connect, Disconnect, StopSource, Drain, HandOver, Leave, Stop
<1>6. CASE UNCHANGED vars
    BY <1>6 DEF vars
<1> QED
    BY <1>1, <1>2, <1>3, <1>4, <1>5, <1>6 DEF Next, Process

\* However the events of a sweep, of a broken connection and of renames follow
\* each other, a loop that is warm has reconciled what it tracks, apart from a
\* name that a rename took away and from a sweep whose end did not fit in.
THEOREM WarmCorrect == Spec => []WarmIsReconciled
<1>1. Init => WarmBehindSweep /\ WarmIsReconciled
    BY DEF Init, WarmBehindSweep, WarmIsReconciled
<1>2. TypeOK /\ WarmBehindSweep /\ WarmIsReconciled /\ [Next]_vars => (WarmBehindSweep /\ WarmIsReconciled)'
    BY WarmBehindSweepStep, WarmStep
<1> QED
    BY <1>1, <1>2, TypeCorrect, PTL DEF Spec

-----------------------------------------------------------------------------
(* What has arrived is tracked.                                            *)

\* A name is not given away again before its rename has been delivered.
LEMMA RenamedStep ==
    ASSUME TypeOK, RenamedIsGone, [Next]_vars
    PROVE  RenamedIsGone'
<1> USE DEF RenamedIsGone, outside, tracking
<1>1. ASSUME NEW n \in Names, NEW to \in Routes \cup {None, Gone}, Change(n, to)
      PROVE  RenamedIsGone'
    BY <1>1, PluginAssumption DEF TypeOK, Change, Notice, PluginAssumption
<1>2. ASSUME NEW n \in Names, NEW m \in Names, Rename(n, m)
      PROVE  RenamedIsGone'
    <2>1. SUFFICES ASSUME NEW i \in Names, NEW k \in Names, <<i, k>> \in dirty'
                   PROVE  fleet'[k] = Gone
        OBVIOUS
    <2>2. \/ <<i, k>> \in dirty
          \/ k = n
        BY <1>2, <2>1 DEF Rename, Notice
    <2>3. k # m \/ m = n
        BY <1>2, <2>2 DEF Rename
    <2>4. m # n
        BY <1>2 DEF Rename
    <2> QED
        BY <1>2, <2>2, <2>3, <2>4 DEF TypeOK, Rename
<1>3. CASE \/ \E n, m \in Names : Deliver(n, m)
           \/ \E n \in Names : Deliver(n, None) \/ Sweep(n)
    BY <1>3 DEF Deliver, Sweep
<1>4. CASE Connect \/ EndSweep \/ Disconnect \/ StopSource
    BY <1>4 DEF Connect, EndSweep, Disconnect, StopSource
<1>5. CASE Process
    BY <1>5 DEF Process, ProcessDisconnected, ProcessSweepEnd, ProcessInstance, Take
<1>6. CASE Drain \/ HandOver \/ Leave
    BY <1>6 DEF Drain, HandOver, Leave, Stop
<1>7. CASE UNCHANGED vars
    BY <1>7 DEF vars
<1> QED
    BY <1>1, <1>2, <1>3, <1>4, <1>5, <1>6, <1>7 DEF Next

LEMMA RightSame ==
    ASSUME NEW n \in Names, LastIsRight(n),
           inbox' = inbox, instances' = instances, fleet'[n] = fleet[n]
    PROVE  LastIsRight(n)'
<1>1. Shown(n)' = Shown(n)
    BY DEF Shown
<1> QED
    BY <1>1 DEF LastIsRight, Touches, Effect

LEMMA RightAppend ==
    ASSUME TypeOK, NEW n \in Names, NEW e \in Events, Accepted(e),
           instances' = instances, fleet' = fleet,
           IF Touches(e, n) THEN Effect(e, n) = Shown(n) ELSE LastIsRight(n)
    PROVE  LastIsRight(n)'
<1> DEFINE last == Len(inbox) + 1
<1>1. /\ Len(inbox) \in Nat /\ Len(inbox') = last
      /\ DOMAIN inbox = 1..Len(inbox) /\ DOMAIN inbox' = 1..last
      /\ \A k \in 1..Len(inbox) : inbox'[k] = inbox[k]
      /\ inbox'[last] = e
    BY Appended DEF Accepted, TypeOK
<1>2. Shown(n)' = Shown(n)
    BY DEF Shown
<1>3. CASE Touches(e, n)
    <2>1. ~(\A k \in 1..last : ~Touches(inbox'[k], n))
        BY <1>1, <1>3
    <2>2. ASSUME NEW k \in 1..last, \A j \in (k + 1)..last : ~Touches(inbox'[j], n)
          PROVE  Effect(inbox'[k], n) = Shown(n)
        <3>1. k = last
            BY <1>1, <1>3, <2>2
        <3> QED
            BY <1>1, <1>3, <3>1
    <2> QED
        BY <1>1, <1>2, <2>1, <2>2 DEF LastIsRight, Touches, Effect
<1>4. CASE ~Touches(e, n)
    <2>1. (\A k \in 1..last : ~Touches(inbox'[k], n)) => instances'[n] = Shown(n)
        BY <1>1, <1>4 DEF LastIsRight
    <2>2. ASSUME NEW k \in 1..last, Touches(inbox'[k], n),
                 \A j \in (k + 1)..last : ~Touches(inbox'[j], n)
          PROVE  Effect(inbox'[k], n) = Shown(n)
        <3>1. k \in 1..Len(inbox)
            BY <1>1, <1>4, <2>2
        <3>2. \A j \in (k + 1)..Len(inbox) : ~Touches(inbox[j], n)
            BY <1>1, <2>2, <3>1
        <3> QED
            BY <1>1, <1>4, <2>2, <3>1, <3>2 DEF LastIsRight
    <2> QED
        BY <1>1, <1>2, <2>1, <2>2 DEF LastIsRight, Touches, Effect
<1> QED
    BY <1>3, <1>4

LEMMA RightTake ==
    ASSUME TypeOK, NEW n \in Names, LastIsRight(n), NEW kind, Take(kind),
           instances'[n] = IF Touches(Head(inbox), n) THEN Effect(Head(inbox), n) ELSE instances[n]
    PROVE  LastIsRight(n)'
<1> DEFINE left == Len(inbox) - 1
<1>1. /\ Len(inbox) \in Nat \ {0} /\ Len(inbox') = left
      /\ DOMAIN inbox = 1..Len(inbox) /\ DOMAIN inbox' = 1..left
      /\ \A k \in 1..left : inbox'[k] = inbox[k + 1]
      /\ Head(inbox) = inbox[1] /\ fleet' = fleet
    BY Tailed DEF Take, TypeOK, outside
<1>2. Shown(n)' = Shown(n)
    BY <1>1 DEF Shown
<1>3. ASSUME \A k \in 1..left : ~Touches(inbox'[k], n)
      PROVE  instances'[n] = Shown(n)
    <2>1. \A k \in 2..Len(inbox) : ~Touches(inbox[k], n)
        <3>1. \A k \in 2..Len(inbox) : k - 1 \in 1..left /\ inbox'[k - 1] = inbox[k]
            BY <1>1
        <3> QED
            BY <1>3, <3>1
    <2>2. CASE Touches(inbox[1], n)
        <3>1. 1 \in DOMAIN inbox /\ \A j \in (1 + 1)..Len(inbox) : ~Touches(inbox[j], n)
            BY <1>1, <2>1
        <3>2. Effect(inbox[1], n) = Shown(n)
            BY <2>2, <3>1 DEF LastIsRight
        <3> QED
            BY <1>1, <2>2, <3>2
    <2>3. CASE ~Touches(inbox[1], n)
        <3>1. \A k \in DOMAIN inbox : ~Touches(inbox[k], n)
            BY <1>1, <2>1, <2>3
        <3> QED
            BY <1>1, <2>3, <3>1 DEF LastIsRight
    <2> QED
        BY <2>2, <2>3
<1>4. ASSUME NEW k \in 1..left, Touches(inbox'[k], n),
             \A j \in (k + 1)..left : ~Touches(inbox'[j], n)
      PROVE  Effect(inbox'[k], n) = Shown(n)
    <2>1. k + 1 \in DOMAIN inbox /\ inbox'[k] = inbox[k + 1]
        BY <1>1
    <2>2. ASSUME NEW j \in (k + 1 + 1)..Len(inbox)
          PROVE  ~Touches(inbox[j], n)
        <3>1. j - 1 \in (k + 1)..left /\ inbox'[j - 1] = inbox[j]
            BY <1>1
        <3> QED
            BY <1>4, <3>1
    <2> QED
        BY <1>4, <2>1, <2>2 DEF LastIsRight
<1> QED
    BY <1>1, <1>2, <1>3, <1>4 DEF LastIsRight, Touches, Effect

\* An event that gets in shows its instance as it is, and the old name of a
\* rename is of no instance any more.
LEMMA ArrivingHandle ==
    ASSUME TypeOK, RenamedIsGone, Arriving,
           NEW k \in Names, NEW old \in Names \cup {None}, Handle(k, old),
           old \in Names => <<k, old>> \in dirty,
           dirty' \in {dirty, dirty \ {<<k, old>>}}, fleet' = fleet, instances' = instances
    PROVE  Arriving'
<1> DEFINE e == InstanceEvent(k, old)
<1> SUFFICES ASSUME NEW n \in Names, Arrived(n)'
             PROVE  LastIsRight(n)'
    BY DEF Arriving
<1>1. Touches(e, n) <=> n \in {k, old}
    BY DEF Touches, InstanceEvent
<1>2. CASE n \in {k, old}
    <2>1. n # None
        BY PluginAssumption DEF PluginAssumption
    <2>2. Accepted(e)
        BY <1>2, <2>1 DEF Handle, Arrived
    <2>3. Effect(e, n) = Shown(n)
        <3>1. n # k => fleet[n] = Gone
            BY <1>2 DEF RenamedIsGone
        <3>2. n # k => Shown(n) = None
            BY <3>1, PluginAssumption DEF Shown, PluginAssumption
        <3> QED
            BY <3>2 DEF Effect, InstanceEvent
    <2> QED
        BY <1>1, <1>2, <2>2, <2>3, EventTypes, RightAppend
<1>3. CASE n \notin {k, old}
    <2>1. \A m \in Names \cup {None} : <<n, m>> \notin dirty /\ <<m, n>> \notin dirty
        BY <1>3 DEF Arrived
    <2>2. n \notin lost
        BY <1>3 DEF Arrived, Handle
    <2>3. LastIsRight(n)
        BY <2>1, <2>2 DEF Arriving, Arrived
    <2>4. CASE Accepted(e)
        BY <1>1, <1>3, <2>3, <2>4, EventTypes, RightAppend
    <2>5. CASE inbox' = inbox
        BY <2>3, <2>5, RightSame
    <2> QED
        BY <2>4, <2>5 DEF Handle, Refused
<1> QED
    BY <1>2, <1>3

LEMMA ArrivingProcess ==
    ASSUME TypeOK, Arriving, Process
    PROVE  Arriving'
<1> SUFFICES ASSUME NEW n \in Names, Arrived(n)'
             PROVE  LastIsRight(n)'
    BY DEF Arriving
<1>1. LastIsRight(n)
    <2>1. dirty' = dirty /\ lost' = lost
        BY DEF Process, ProcessDisconnected, ProcessSweepEnd, ProcessInstance, Take, outside
    <2> QED
        BY <2>1 DEF Arriving, Arrived
<1>2. CASE ProcessDisconnected
    BY <1>1, <1>2, TakeType, RightTake DEF ProcessDisconnected, Touches
<1>3. CASE ProcessSweepEnd
    BY <1>1, <1>3, TakeType, RightTake DEF ProcessSweepEnd, Touches
<1>4. CASE ProcessInstance
    <2> DEFINE e == Head(inbox)
    <2>1. Take("instance") /\ e \in Events /\ e.kind = "instance" /\ instances' = Tracked(e)
        BY <1>4, TakeType DEF ProcessInstance
    <2>2. Tracked(e)[n] = IF Touches(e, n) THEN Effect(e, n) ELSE instances[n]
        <3>1. e.name \in Names
            BY <2>1, InstanceType
        <3> QED
            BY <2>1, <3>1 DEF Tracked, Kept, Touches, Effect
    <2> QED
        BY <1>1, <2>1, <2>2, RightTake
<1> QED
    BY <1>2, <1>3, <1>4 DEF Process

\* A change of n is on its way, or lost.
LEMMA ArrivingNotice ==
    ASSUME TypeOK, Arriving, NEW k \in Names, NEW old \in Names \cup {None},
           NEW names \in SUBSET {k, old}, Notice({<<k, old>>}, names),
           \A n \in Names \ names : fleet'[n] = fleet[n],
           inbox' = inbox, instances' = instances
    PROVE  Arriving'
<1> SUFFICES ASSUME NEW n \in Names, Arrived(n)'
             PROVE  LastIsRight(n)'
    BY DEF Arriving
<1>1. Arrived(n)
    BY DEF Arrived, Notice
<1>2. n \notin names
    BY DEF Arrived, Notice
<1> QED
    BY <1>1, <1>2, RightSame DEF Arriving

LEMMA ArrivingStep ==
    ASSUME TypeOK, RenamedIsGone, Arriving, [Next]_vars
    PROVE  Arriving'
<1> USE DEF outside, tracking
<1>1. ASSUME NEW n \in Names, NEW to \in Routes \cup {None, Gone}, Change(n, to)
      PROVE  Arriving'
    <2>1. \A k \in Names \ {n} : fleet'[k] = fleet[k]
        BY <1>1 DEF TypeOK, Change
    <2> QED
        BY <1>1, <2>1, ArrivingNotice DEF Change
<1>2. ASSUME NEW n \in Names, NEW m \in Names, Rename(n, m)
      PROVE  Arriving'
    <2>1. \A k \in Names \ {n, m} : fleet'[k] = fleet[k]
        BY <1>2 DEF TypeOK, Rename
    <2> QED
        BY <1>2, <2>1, ArrivingNotice DEF Rename
<1>3. ASSUME NEW n \in Names, NEW old \in Names \cup {None}, Deliver(n, old)
      PROVE  Arriving'
    BY <1>3, ArrivingHandle DEF Deliver
<1>4. ASSUME NEW n \in Names, Sweep(n)
      PROVE  Arriving'
    BY <1>4, ArrivingHandle, PluginAssumption DEF Sweep, PluginAssumption
<1>5. CASE EndSweep
    <2> SUFFICES ASSUME NEW n \in Names, Arrived(n)'
                 PROVE  LastIsRight(n)'
        BY DEF Arriving
    <2>1. LastIsRight(n) /\ instances' = instances /\ fleet' = fleet
        BY <1>5 DEF EndSweep, Arriving, Arrived
    <2>2. CASE Accepted(SweepEnd)
        BY <2>1, <2>2, ChainEventTypes, RightAppend DEF Touches
    <2>3. CASE inbox' = inbox
        BY <2>1, <2>3, RightSame
    <2> QED
        BY <1>5, <2>2, <2>3 DEF EndSweep, Refused
<1>6. CASE Disconnect
    <2> SUFFICES ASSUME NEW n \in Names, Arrived(n)'
                 PROVE  LastIsRight(n)'
        BY DEF Arriving
    <2>1. Arrived(n)
        BY <1>6 DEF Disconnect, Arrived
    <2>2. LastIsRight(n) /\ instances' = instances /\ fleet' = fleet
        BY <1>6, <2>1 DEF Disconnect, Arriving
    <2>3. CASE Accepted(Disconnected)
        BY <2>2, <2>3, ChainEventTypes, RightAppend DEF Touches
    <2>4. CASE inbox' = inbox
        BY <2>2, <2>4, RightSame
    <2> QED
        BY <1>6, <2>3, <2>4 DEF Disconnect, Refused
<1>7. CASE Process
    BY <1>7, ArrivingProcess
<1>8. CASE Connect \/ StopSource \/ Drain \/ HandOver \/ Leave
    <2>1. /\ dirty' = dirty /\ lost' = lost /\ inbox' = inbox
          /\ instances' = instances /\ fleet' = fleet
        BY <1>8 DEF Connect, StopSource, Drain, HandOver, Leave, Stop
    <2> QED
        BY <2>1, RightSame DEF Arriving, Arrived
<1>9. CASE UNCHANGED vars
    BY <1>9, RightSame DEF vars, Arriving, Arrived
<1> QED
    BY <1>1, <1>2, <1>3, <1>4, <1>5, <1>6, <1>7, <1>8, <1>9 DEF Next

\* Through drops, failed reads, disconnections and renames: an instance of which
\* nothing is on its way and nothing was lost is tracked as it is.
THEOREM TrackedCorrect == Spec => []TrackedIsFleet
<1>1. Init => RenamedIsGone /\ Arriving
    BY DEF Init, RenamedIsGone, Arriving, Arrived
<1>2. TypeOK /\ RenamedIsGone /\ Arriving /\ [Next]_vars => (RenamedIsGone /\ Arriving)'
    BY RenamedStep, ArrivingStep
<1>3. Arriving => TrackedIsFleet
    BY DEF Arriving, Arrived, LastIsRight, TrackedIsFleet, Settled
<1> QED
    BY <1>1, <1>2, <1>3, TypeCorrect, PTL DEF Spec

\* Both together: what was rendered last is the fleet, as far as it has arrived,
\* but for the names that a rename took away (StoppedIsUnrouted is not so).
THEOREM ReconciledCorrect ==
    Spec => [](chain = "warm" /\ ~sweepEndLost =>
                  \A n \in Names \ renamedAway : Settled(n) => reconciled[n] = Shown(n))
<1>1. WarmIsReconciled /\ TrackedIsFleet =>
        (chain = "warm" /\ ~sweepEndLost =>
            \A n \in Names \ renamedAway : Settled(n) => reconciled[n] = Shown(n))
    BY DEF WarmIsReconciled, TrackedIsFleet
<1> QED
    BY <1>1, WarmCorrect, TrackedCorrect, PTL

\* Warm gating: nothing is reconciled while the chain is cold.  Only an event
\* from the inbox brings a reconcile about, the end of a sweep, which makes the
\* loop warm, or an instance's, which has to be warm itself.
THEOREM ColdCorrect == Spec => ColdIsQuiet
<1>1. ASSUME [Next]_vars, reconciled' # reconciled
      PROVE  chain' = "warm"
    <2>1. CASE ProcessDisconnected
        BY <1>1, <2>1 DEF ProcessDisconnected
    <2>2. CASE ProcessSweepEnd
        BY <2>2 DEF ProcessSweepEnd
    <2>3. CASE ProcessInstance
        <3>1. Reason(Head(inbox)) /\ chain' = Head(inbox).chain
            BY <1>1, <2>3 DEF ProcessInstance
        <3> QED
            BY <3>1 DEF Reason
    <2>4. CASE UNCHANGED tracking
        BY <1>1, <2>4 DEF tracking
    <2>5. CASE Drain \/ HandOver \/ Leave
        BY <1>1, <2>5 DEF Drain, HandOver, Leave, Stop
    <2>6. ASSUME ~Process, ~(Drain \/ HandOver \/ Leave)
          PROVE  UNCHANGED tracking
        BY <1>1, <2>6
        DEF Next, vars, Change, Rename, Deliver, Sweep, Connect, EndSweep, Disconnect, StopSource
    <2> QED
        BY <2>1, <2>2, <2>3, <2>4, <2>5, <2>6 DEF Process
<1> QED
    BY <1>1, PTL DEF Spec, ColdIsQuiet

-----------------------------------------------------------------------------
(* The life of the process.                                                *)

\* What a run of main has brought about at each of its stages.
Stages ==
    /\ main \in {"draining", "joining", "returned"} => source = "stopped"
    /\ timedOut => main \in {"joining", "returned"}
    /\ ~failed /\ ctxDone => main \in {"joining", "returned"}
    /\ ~failed /\ ~timedOut /\ main \in {"joining", "returned"} => loop = "exited"
    /\ main = "returned" => loop = "exited" /\ others = {}

\* A source that is told to stop sweeps no more.
StoppedIsStill == source = "stopped" => toSweep = {}

\* The drain command is behind everything that was on its way, and the loop that
\* has handed it over has processed its inbox.
DrainedInOrder ==
    /\ loop = "draining" => source = "stopped" /\ dirty = {}
    /\ loop = "exited" /\ ~failed /\ ~timedOut => source = "stopped" /\ dirty = {} /\ inbox = <<>>

\* Of the plugin alone.
PluginInductive ==
    TypeOK /\ WarmBehindSweep /\ WarmIsReconciled /\ RenamedIsGone /\ Arriving

\* The inductive invariant of run.
Inductive ==
    /\ LifecycleTypeOK
    /\ PluginInductive
    /\ Stages /\ StoppedIsStill /\ DrainedInOrder

-----------------------------------------------------------------------------
(* Every step of run is one of the plugin, or leaves it alone.             *)

LEMMA ImplementsStep ==
    ASSUME [LifecycleNext]_lifecycleVars
    PROVE  [Next]_vars
<1>1. CASE (\E excluded \in Excludes : Assemble(excluded)) \/ ConnectToIncus \/ WakeUp
           \/ StartDrain \/ EndDrain \/ Join \/ UNCHANGED lifecycleVars
           \/ \E r \in OtherRunners : RunnerFails(r) \/ RunnerEnds(r)
    BY <1>1 DEF Assemble, ConnectToIncus, WakeUp, StartDrain, EndDrain, Join, lifecycleVars,
        RunnerFails, RunnerEnds
<1>2. CASE ChainStep
    BY <1>2 DEF ChainStep, Next
<1>3. CASE SourceEnds \/ SourceFails
    BY <1>3 DEF SourceEnds, SourceFails, Next
<1>4. CASE LoopProcesses \/ LoopDrains \/ LoopHandsOver \/ LoopLeaves
    BY <1>4 DEF LoopProcesses, LoopDrains, LoopHandsOver, LoopLeaves, Next
<1>5. CASE FleetStep
    BY <1>5 DEF FleetStep, Next
<1> QED
    BY <1>1, <1>2, <1>3, <1>4, <1>5 DEF LifecycleNext

LEMMA PluginInductiveInit == Init => PluginInductive
<1> SUFFICES ASSUME Init
             PROVE  PluginInductive
    OBVIOUS
<1>1. TypeOK
    BY TypeInit
<1>2. WarmBehindSweep /\ WarmIsReconciled /\ RenamedIsGone
    BY DEF Init, WarmBehindSweep, WarmIsReconciled, RenamedIsGone
<1>3. Arriving
    BY DEF Init, Arriving, Arrived
<1> QED
    BY <1>1, <1>2, <1>3 DEF PluginInductive

LEMMA PluginInductiveStep ==
    ASSUME PluginInductive, [Next]_vars
    PROVE  PluginInductive'
BY TypeStep, WarmBehindSweepStep, WarmStep, RenamedStep, ArrivingStep DEF PluginInductive

\* The process around it does to the plugin what Plugin.tla has it suffer: what
\* is proved of the plugin holds in every run of the program.
THEOREM ImplementsPlugin == LifecycleSpec => Spec
<1>1. LifecycleInit => Init
    BY DEF LifecycleInit
<1>2. [LifecycleNext]_lifecycleVars => [Next]_vars
    BY ImplementsStep
<1> QED
    BY <1>1, <1>2, PTL DEF LifecycleSpec, Spec

-----------------------------------------------------------------------------
(* The process.                                                            *)

LEMMA LifecycleTypeStep ==
    ASSUME LifecycleTypeOK, [LifecycleNext]_lifecycleVars
    PROVE  LifecycleTypeOK'
<1>1. TypeOK'
    BY ImplementsStep, TypeStep DEF LifecycleTypeOK
<1> SUFFICES /\ main' \in {"assembling", "connecting", "serving", "stopping", "draining",
                           "joining", "returned", "refused"}
             /\ others' \subseteq OtherRunners
             /\ {ctxDone, failed, timedOut}' \subseteq BOOLEAN
    BY <1>1 DEF LifecycleTypeOK
<1> USE DEF LifecycleTypeOK, processVars
<1>2. ASSUME NEW excluded \in Excludes, Assemble(excluded)
      PROVE  others' \subseteq OtherRunners /\ main' \in {"connecting", "refused"}
    BY <1>2 DEF Assemble
<1>3. CASE ConnectToIncus \/ WakeUp \/ StartDrain \/ EndDrain \/ Join
    BY <1>3 DEF ConnectToIncus, WakeUp, StartDrain, EndDrain, Join
<1>4. CASE ChainStep \/ SourceEnds \/ FleetStep \/ UNCHANGED lifecycleVars
    BY <1>4 DEF ChainStep, SourceEnds, FleetStep, lifecycleVars
<1>5. CASE LoopProcesses \/ LoopDrains \/ LoopHandsOver \/ LoopLeaves
    BY <1>5 DEF LoopProcesses, LoopDrains, LoopHandsOver, LoopLeaves
<1>6. CASE SourceFails \/ \E r \in OtherRunners : RunnerFails(r) \/ RunnerEnds(r)
    BY <1>6 DEF SourceFails, RunnerFails, RunnerEnds
<1> QED
    BY <1>2, <1>3, <1>4, <1>5, <1>6 DEF LifecycleNext, Assemble

\* The goroutines of the process and their channels hold what they may.
THEOREM LifecycleTypeCorrect == LifecycleSpec => []LifecycleTypeOK
<1>1. LifecycleInit => LifecycleTypeOK
    BY TypeInit DEF LifecycleInit, LifecycleTypeOK
<1>2. LifecycleTypeOK /\ [LifecycleNext]_lifecycleVars => LifecycleTypeOK'
    BY LifecycleTypeStep
<1> QED
    BY <1>1, <1>2, PTL DEF LifecycleSpec

-----------------------------------------------------------------------------
(* The drain.                                                              *)

LEMMA InductiveInit == LifecycleInit => Inductive
<1> SUFFICES ASSUME LifecycleInit
             PROVE  Inductive
    OBVIOUS
<1>1. PluginInductive
    BY PluginInductiveInit DEF LifecycleInit
<1>2. LifecycleTypeOK
    BY <1>1 DEF LifecycleInit, LifecycleTypeOK, PluginInductive
<1>3. Stages /\ StoppedIsStill /\ DrainedInOrder
    BY DEF LifecycleInit, Init, Stages, StoppedIsStill, DrainedInOrder
<1> QED
    BY <1>1, <1>2, <1>3 DEF Inductive

\* A source that has stopped is not heard of any more, and a loop that has left
\* does not come back, whatever the fleet and the main goroutine do.
LEMMA StoppedStays ==
    ASSUME StoppedIsStill, [LifecycleNext]_lifecycleVars
    PROVE  /\ StoppedIsStill'
           /\ loop = "exited" => loop' = "exited"
           /\ source = "stopped" =>
                /\ source' = "stopped" /\ dirty' \subseteq dirty
                /\ dirty = {} /\ inbox = <<>> => inbox' = <<>>
<1> USE DEF StoppedIsStill, processVars, outside, tracking, vars
<1>1. CASE (\E excluded \in Excludes : Assemble(excluded)) \/ ConnectToIncus \/ WakeUp
           \/ StartDrain \/ EndDrain \/ Join \/ UNCHANGED lifecycleVars
           \/ \E r \in OtherRunners : RunnerFails(r) \/ RunnerEnds(r)
    BY <1>1 DEF Assemble, ConnectToIncus, WakeUp, StartDrain, EndDrain, Join, lifecycleVars,
        RunnerFails, RunnerEnds
<1>2. CASE ChainStep
    <2>1. ASSUME NEW n \in Names, NEW old \in Names \cup {None}, Deliver(n, old)
          PROVE  /\ UNCHANGED <<source, toSweep, loop>> /\ dirty' \subseteq dirty /\ dirty # {}
        BY <2>1 DEF Deliver
    <2>2. ASSUME NEW n \in Names, Sweep(n)
          PROVE  UNCHANGED <<source, loop>> /\ toSweep # {} /\ toSweep' \subseteq toSweep
        BY <2>2 DEF Sweep
    <2>3. CASE Connect \/ EndSweep \/ Disconnect
        BY <2>3 DEF Connect, EndSweep, Disconnect
    <2> QED
        BY <1>2, <2>1, <2>2, <2>3 DEF ChainStep
<1>3. CASE SourceEnds \/ SourceFails
    BY <1>3 DEF SourceEnds, SourceFails, StopSource
<1>4. CASE LoopProcesses
    <2>1. PICK kind : Take(kind)
        BY <1>4 DEF LoopProcesses, Process, ProcessDisconnected, ProcessSweepEnd, ProcessInstance
    <2> QED
        BY <2>1 DEF Take
<1>5. CASE LoopDrains \/ LoopHandsOver \/ LoopLeaves
    BY <1>5 DEF LoopDrains, LoopHandsOver, LoopLeaves, Drain, HandOver, Leave, Stop
<1>6. CASE FleetStep
    <2>1. ASSUME NEW changed, NEW names, Notice(changed, names), source = "stopped"
          PROVE  dirty' = dirty
        BY <2>1 DEF Notice
    <2> QED
        BY <1>6, <2>1 DEF FleetStep, Change, Rename
<1> QED
    BY <1>1, <1>2, <1>3, <1>4, <1>5, <1>6 DEF LifecycleNext

\* Only main moves main, and only a failure or the end of the drain cancels.
LEMMA StagesStep ==
    ASSUME LifecycleTypeOK, Stages, StoppedIsStill, [LifecycleNext]_lifecycleVars
    PROVE  Stages'
<1>0. /\ loop = "exited" => loop' = "exited"
      /\ source = "stopped" => source' = "stopped"
    BY StoppedStays
<1> USE DEF Stages, processVars
<1>1. CASE (\E excluded \in Excludes : Assemble(excluded)) \/ ConnectToIncus \/ WakeUp \/ StartDrain \/ Join
    BY <1>0, <1>1 DEF Assemble, ConnectToIncus, WakeUp, StartDrain, Join, vars, tracking, outside
<1>2. CASE EndDrain
    <2>1. ~timedOut' => loop = "exited"
        BY <1>2 DEF EndDrain
    <2> QED
        BY <1>0, <1>2, <2>1 DEF EndDrain
<1>3. CASE ChainStep \/ SourceEnds \/ FleetStep \/ LoopProcesses \/ LoopDrains \/ LoopHandsOver
           \/ LoopLeaves \/ UNCHANGED lifecycleVars
    BY <1>0, <1>3 DEF ChainStep, SourceEnds, FleetStep, LoopProcesses, LoopDrains, LoopHandsOver,
        LoopLeaves, lifecycleVars
<1>4. CASE SourceFails \/ \E r \in OtherRunners : RunnerFails(r) \/ RunnerEnds(r)
    BY <1>0, <1>4 DEF SourceFails, RunnerFails, RunnerEnds, Started
<1> QED
    BY <1>1, <1>2, <1>3, <1>4 DEF LifecycleNext

\* Without a failure the loop leaves because it has handed the command over, or
\* because main has given the drain up.
LEMMA DrainedStep ==
    ASSUME LifecycleTypeOK, Stages, StoppedIsStill, DrainedInOrder, [LifecycleNext]_lifecycleVars
    PROVE  DrainedInOrder'
<1>0. source = "stopped" =>
        /\ source' = "stopped" /\ dirty' \subseteq dirty
        /\ dirty = {} /\ inbox = <<>> => inbox' = <<>>
    BY StoppedStays
<1>1. ASSUME ~failed', ~timedOut'
      PROVE  ~failed /\ ~timedOut
    <2>1. CASE EndDrain
        BY <1>1, <2>1 DEF EndDrain, Stages, LifecycleTypeOK
    <2>2. CASE (\E excluded \in Excludes : Assemble(excluded)) \/ ConnectToIncus \/ WakeUp \/ StartDrain
               \/ Join \/ UNCHANGED lifecycleVars \/ \E r \in OtherRunners : RunnerFails(r) \/ RunnerEnds(r)
        BY <1>1, <2>2 DEF Assemble, ConnectToIncus, WakeUp, StartDrain, Join, RunnerFails, RunnerEnds,
            lifecycleVars, processVars
    <2>3. CASE \/ ChainStep \/ SourceEnds \/ SourceFails \/ FleetStep
               \/ LoopProcesses \/ LoopDrains \/ LoopHandsOver \/ LoopLeaves
        BY <1>1, <2>3 DEF ChainStep, SourceEnds, SourceFails, FleetStep, LoopProcesses, LoopDrains,
            LoopHandsOver, LoopLeaves, processVars
    <2> QED
        BY <2>1, <2>2, <2>3 DEF LifecycleNext
<1>2. CASE loop' = loop
    BY <1>0, <1>1, <1>2 DEF DrainedInOrder
<1>3. CASE LoopDrains
    BY <1>3 DEF LoopDrains, Drain, outside, DrainedInOrder
<1>4. CASE LoopHandsOver
    BY <1>1, <1>4 DEF LoopHandsOver, HandOver, Stop, outside, DrainedInOrder
<1>5. CASE LoopLeaves
    <2>1. ctxDone /\ loop = "running" /\ loop' = "exited"
        BY <1>5 DEF LoopLeaves, Leave, Stop
    <2>2. failed' \/ timedOut'
        BY <1>1, <2>1 DEF Stages
    <2> QED
        BY <2>1, <2>2 DEF DrainedInOrder
<1>6. CASE LoopProcesses
    <2>1. PICK kind : Take(kind)
        BY <1>6 DEF LoopProcesses, Process, ProcessDisconnected, ProcessSweepEnd, ProcessInstance
    <2> QED
        BY <1>2, <2>1 DEF Take
<1>7. CASE ~(LoopDrains \/ LoopHandsOver \/ LoopLeaves \/ LoopProcesses)
    <2>1. loop' = loop
        <3>1. CASE ChainStep \/ SourceEnds \/ SourceFails \/ FleetStep
            BY <3>1 DEF ChainStep, Deliver, Sweep, Connect, EndSweep, Disconnect, SourceEnds, SourceFails,
                StopSource, FleetStep, Change, Rename, tracking
        <3>2. CASE ~(ChainStep \/ SourceEnds \/ SourceFails \/ FleetStep)
            BY <1>7, <3>2 DEF LifecycleNext, Assemble, ConnectToIncus, WakeUp, StartDrain, EndDrain, Join,
                RunnerFails, RunnerEnds, vars, tracking, lifecycleVars
        <3> QED
            BY <3>1, <3>2
    <2> QED
        BY <1>2, <2>1
<1> QED
    BY <1>3, <1>4, <1>5, <1>6, <1>7

LEMMA InductiveStep ==
    ASSUME Inductive, [LifecycleNext]_lifecycleVars
    PROVE  Inductive'
<1>1. LifecycleTypeOK'
    BY LifecycleTypeStep DEF Inductive
<1>2. PluginInductive'
    BY ImplementsStep, PluginInductiveStep DEF Inductive
<1>3. Stages' /\ StoppedIsStill' /\ DrainedInOrder'
    BY StagesStep, StoppedStays, DrainedStep DEF Inductive
<1> QED
    BY <1>1, <1>2, <1>3 DEF Inductive

\* With nothing on its way, what has arrived is tracked and has been reconciled.
LEMMA DrainedIsRight ==
    ASSUME PluginInductive, inbox = <<>>, dirty = {}
    PROVE  /\ \A n \in Names \ lost : instances[n] = Shown(n)
           /\ chain = "warm" /\ ~sweepEndLost =>
                \A n \in Names \ (lost \cup renamedAway) : reconciled[n] = Shown(n)
<1>1. ASSUME NEW n \in Names \ lost
      PROVE  instances[n] = Shown(n)
    <2>1. LastIsRight(n)
        BY DEF PluginInductive, Arriving, Arrived
    <2>2. DOMAIN inbox = {}
        OBVIOUS
    <2> QED
        BY <2>1, <2>2 DEF LastIsRight
<1> QED
    BY <1>1 DEF PluginInductive, WarmIsReconciled

\* When run returns everything it started has ended; and unless something failed
\* or the drain was given up, no event that was on its way has been left out.
THEOREM DrainCorrect == LifecycleSpec => []ReturnsDrained
<1>1. Inductive /\ [LifecycleNext]_lifecycleVars => Inductive'
    BY InductiveStep
<1>2. Inductive => ReturnsDrained
    BY DrainedIsRight DEF Inductive, Stages, DrainedInOrder, ReturnsDrained
<1> QED
    BY <1>1, <1>2, InductiveInit, PTL DEF LifecycleSpec
=============================================================================
