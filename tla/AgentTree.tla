------------------------------ MODULE AgentTree ------------------------------
(***************************************************************************)
(* The agents of a session (agents.go, and what loop.go does for them).    *)
(*                                                                         *)
(* The root and every working agent run a turn of their own, each on its   *)
(* own goroutine.  What they share is the tree, under one mutex: an action *)
(* below is one critical section, and a caller that sleeps on the tree's   *)
(* condition variable is in a state of its own until it wakes.             *)
(***************************************************************************)
EXTENDS Naturals, FiniteSets

CONSTANTS
    Agent,          \* the ids t1, t2, ... in the order of their admission
    Root,
    MaxLive,        \* maxLiveAgents
    MaxDepth,       \* maxAgentDepth
    MaxQueue,       \* messages waiting for one agent
    MaxRuns,        \* bound: runs of one agent
    MaxTurns        \* bound: turns of the root

ASSUME AgentTreeAssumption ==
    /\ Root \notin Agent /\ IsFiniteSet(Agent)
    /\ MaxLive \in Nat /\ MaxDepth \in Nat /\ MaxQueue \in Nat
    /\ MaxRuns \in Nat \ {0} /\ MaxTurns \in Nat

VARIABLES
    node,       \* the tree: what it knows of each agent
    act,        \* what the goroutine of each session is doing
    aim,        \* the agents that a sleeping or waiting session is waiting for
    interrupted,\* the user cancelled the root's turn
    carried,    \* the finished runs whose effects a session's run reports
    turns,
    runs        \* history variable: finished runs of each agent

vars == <<node, act, aim, interrupted, carried, turns, runs>>

Session == Agent \cup {Root}
RunId == Agent \X (1..MaxRuns)

Kind == {"task", "teammate"}

Node == [status    : {"unborn", "live", "retired"},
         parent    : Session,
         above     : SUBSET Session,    \* its parent, that one's parent, ...
         kind      : Kind,
         working   : BOOLEAN,
         ended     : BOOLEAN,
         blocked   : BOOLEAN,
         cancelled : BOOLEAN,           \* its context is done
         queue     : 0..MaxQueue,
         results   : SUBSET RunId]      \* runs whose results are not delivered

Unborn == [status |-> "unborn", parent |-> Root, above |-> {}, kind |-> "task",
           working |-> FALSE, ended |-> FALSE, blocked |-> FALSE,
           cancelled |-> FALSE, queue |-> 0, results |-> {}]

\* In a turn: at the top of the loop, asking the model, between two calls,
\* starting one, asleep in one, joining its children before it finishes, over.
Turning == {"loop", "model", "tools", "call", "sharing", "waiting", "cancelling",
            "dismissing", "resetting", "joining", "failing", "stopping", "done", "failed"}

TypeOK ==
    /\ node \in [Agent -> Node]
    /\ act \in [Session -> Turning \cup {"off", "closing"}]
    /\ aim \in [Session -> SUBSET Agent]
    /\ interrupted \in BOOLEAN
    /\ carried \in [Session -> SUBSET RunId]
    /\ turns \in 0..MaxTurns
    /\ runs \in [Agent -> 0..MaxRuns]

Init ==
    /\ node = [a \in Agent |-> Unborn]
    /\ act = [a \in Session |-> "off"]
    /\ aim = [a \in Session |-> {}]
    /\ interrupted = FALSE
    /\ carried = [a \in Session |-> {}]
    /\ turns = 0
    /\ runs = [a \in Agent |-> 0]

(***************************************************************************)
(* Looking at a tree.  The recursive walks of the code meet only the nodes *)
(* it still holds, so a retired node hides what is below it.               *)
(***************************************************************************)
Held(tree) == {m \in Agent : tree[m].status = "live"}

Children(tree, a) == {m \in Held(tree) : tree[m].parent = a}

Below(tree, a) ==
    {m \in Held(tree) :
        /\ a \in tree[m].above
        /\ \A k \in tree[m].above \ {Root} : a \in tree[k].above => k \in Held(tree)}

SubtreeWorking(tree, a) == \E m \in Below(tree, a) : tree[m].working

Counted(tree) == {m \in Held(tree) : ~tree[m].ended \/ tree[m].working}

ContextDone(a) == IF a = Root THEN interrupted ELSE node[a].cancelled

(***************************************************************************)
(* cancelLocked of some nodes: their contexts and all that derive from     *)
(* them are done, their queues are empty, their descendants are dismissed. *)
(***************************************************************************)
Cancelled(tree, nodes, dismiss) ==
    LET under == UNION {Below(tree, n) : n \in nodes}
    IN  [m \in Agent |->
            IF m \in nodes \cup under
            THEN [tree[m] EXCEPT !.cancelled = TRUE, !.queue = 0,
                                 !.ended = @ \/ dismiss \/ m \in under]
            ELSE IF tree[m].above \cap nodes # {}
                 THEN [tree[m] EXCEPT !.cancelled = TRUE]
                 ELSE tree[m]]

\* removeEndedLocked and retireLocked: nodes, and below them every node that
\* has ended, down to the first that has not.
Retired(tree, nodes) ==
    LET stopped(m) == tree[m].ended /\ ~tree[m].working
        gone == nodes \cup {m \in UNION {Below(tree, n) : n \in nodes} :
                    /\ stopped(m)
                    /\ \A k \in tree[m].above \ {Root} :
                          tree[k].above \cap nodes # {} => stopped(k)}
    IN  [m \in Agent |-> IF m \in gone THEN [tree[m] EXCEPT !.status = "retired"]
                                       ELSE tree[m]]

\* deliverAgents: the results of a's children are taken, and a task, or a
\* teammate that was dismissed, is retired with its last one.
TakenResults(tree, a) ==
    [m \in Agent |-> IF m \in Children(tree, a) THEN [tree[m] EXCEPT !.results = {}]
                                                ELSE tree[m]]

Delivered(tree, a) ==
    LET over == {n \in Children(tree, a) :
                    /\ tree[n].results # {} /\ ~tree[n].working
                    /\ tree[n].kind = "task" \/ tree[n].ended}
    IN  Retired(Cancelled(TakenResults(tree, a), over, TRUE), over)

UndeliveredTasks(tree, a) ==
    UNION {tree[n].results : n \in {m \in Children(tree, a) : tree[m].kind = "task"}}
Undelivered(tree, a) == UNION {tree[n].results : n \in Children(tree, a)}

Deliver(a) ==
    /\ node' = Delivered(node, a)
    /\ carried' = [carried EXCEPT ![a] = @ \cup Undelivered(node, a)]

Goto(a, label) == act' = [act EXCEPT ![a] = label]

(***************************************************************************)
(* A turn.                                                                 *)
(***************************************************************************)
StartTurn ==
    /\ act[Root] = "off" /\ turns < MaxTurns
    /\ turns' = turns + 1
    /\ interrupted' = FALSE
    /\ Goto(Root, "loop")
    /\ UNCHANGED <<node, aim, carried, runs>>

\* Ctrl-C: every agent at work has a context that derives from the turn's.
Interrupt ==
    /\ act[Root] \in Turning /\ ~interrupted
    /\ interrupted' = TRUE
    /\ node' = [m \in Agent |-> [node[m] EXCEPT !.cancelled = @ \/ node[m].working]]
    /\ UNCHANGED <<act, aim, carried, turns, runs>>

CancelledAtTop(a) ==
    /\ act[a] = "loop" /\ ContextDone(a)
    /\ Goto(a, "failing")
    /\ UNCHANGED <<node, aim, interrupted, carried, turns, runs>>

\* Results that are there are delivered before the request.
Request(a) ==
    /\ act[a] = "loop" /\ ~ContextDone(a)
    /\ Deliver(a)
    /\ Goto(a, "model")
    /\ UNCHANGED <<aim, interrupted, turns, runs>>

\* The request fails, a budget is reached, the response is refused.
ModelFails(a) ==
    /\ act[a] = "model"
    /\ Goto(a, "failing")
    /\ UNCHANGED <<node, aim, interrupted, carried, turns, runs>>

ModelCalls(a) ==
    /\ act[a] = "model"
    /\ Goto(a, "tools")
    /\ UNCHANGED <<node, aim, interrupted, carried, turns, runs>>

\* A text reply ends the turn only when no child is at work and none has a
\* result to deliver.
FinishedAnyway(a) == TRUE
Joined(a) == ~\E n \in Children(node, a) : node[n].working

ModelReplies(a) ==
    /\ act[a] = "model"
    /\ IF ~Joined(a)
       THEN /\ aim' = [aim EXCEPT ![a] = {n \in Children(node, a) : node[n].working}]
            /\ Goto(a, "joining") /\ UNCHANGED <<node, carried>>
       ELSE /\ Deliver(a)
            /\ Goto(a, IF Undelivered(node, a) # {} THEN "loop" ELSE "done")
            /\ UNCHANGED aim
    /\ UNCHANGED <<interrupted, turns, runs>>

\* waitAgents returns when none of the agents works or the context is done.
Awake(a) == ContextDone(a) \/ \A n \in aim[a] : ~node[n].working

Join(a) ==
    /\ act[a] = "joining" /\ Awake(a)
    /\ Deliver(a)
    /\ Goto(a, "loop")
    /\ aim' = [aim EXCEPT ![a] = {}]
    /\ UNCHANGED <<interrupted, turns, runs>>

(***************************************************************************)
(* The calls of a response, one after the other.  The context may be done  *)
(* between the dispatcher's check and the call's critical section.         *)
(***************************************************************************)
NextCall(a) ==
    /\ act[a] = "tools" /\ ~ContextDone(a)
    /\ act' \in {[act EXCEPT ![a] = label] : label \in {"call", "loop"}}
    /\ UNCHANGED <<node, aim, interrupted, carried, turns, runs>>

CancelledInBatch(a) ==
    /\ act[a] = "tools" /\ ContextDone(a)
    /\ Goto(a, "failing")
    /\ UNCHANGED <<node, aim, interrupted, carried, turns, runs>>

\* agentAdmissionLocked.
Above(a) == IF a = Root THEN {Root} ELSE node[a].above \cup {a}

Admitted(a) ==
    /\ Cardinality(Above(a)) <= MaxDepth
    /\ Cardinality(Counted(node)) < MaxLive

\* A child that shares history is checked, and then the workspace is looked at
\* without the lock.
CollectSnapshot(a) ==
    /\ act[a] = "call" /\ Admitted(a) /\ ~ContextDone(a)
    /\ Goto(a, "sharing")
    /\ UNCHANGED <<node, aim, interrupted, carried, turns, runs>>

AdmittedBefore(a) == act[a] = "sharing" \/ Admitted(a)
AdmittedNow(a) == Admitted(a)

Spawn(a) ==
    /\ act[a] \in {"call", "sharing"} /\ ~ContextDone(a) /\ AdmittedNow(a)
    /\ \E n \in Agent, kind \in Kind :
          /\ node[n].status = "unborn"
          /\ kind = "teammate" => a = Root
          /\ node' = [node EXCEPT ![n] = [Unborn EXCEPT
                         !.status = "live", !.parent = a, !.above = Above(a),
                         !.kind = kind, !.working = TRUE]]
          /\ act' = [act EXCEPT ![a] = "tools", ![n] = "loop"]
    /\ UNCHANGED <<aim, interrupted, carried, turns, runs>>

HasRoom(n) == node[n].queue < MaxQueue

\* A message starts an idle agent, and waits for one at work.
Send(a) ==
    /\ act[a] = "call"
    /\ \E n \in Children(node, a) :
          /\ ~node[n].ended /\ ~node[n].blocked
          /\ runs[n] + node[n].queue + (IF node[n].working THEN 1 ELSE 0) < MaxRuns
          /\ IF node[n].working
             THEN /\ HasRoom(n)
                  /\ node' = [node EXCEPT ![n].queue = @ + 1]
                  /\ Goto(a, "tools")
             ELSE /\ node' = [node EXCEPT ![n].working = TRUE,
                                          ![n].cancelled = ContextDone(a)]
                  /\ act' = [act EXCEPT ![a] = "tools", ![n] = "loop"]
    /\ UNCHANGED <<aim, interrupted, carried, turns, runs>>

Wait(a) ==
    /\ act[a] = "call"
    /\ \E targets \in SUBSET Children(node, a) \ {{}} : aim' = [aim EXCEPT ![a] = targets]
    /\ Goto(a, "waiting")
    /\ UNCHANGED <<node, interrupted, carried, turns, runs>>

\* cancelLocked before the caller goes to sleep until the subtree has stopped;
\* reset dismisses what is below a blocked agent only.
Cancel(a) ==
    /\ act[a] = "call"
    /\ \E n \in Children(node, a) :
          /\ ~node[n].ended
          /\ node' = Cancelled(node, {n}, FALSE)
          /\ aim' = [aim EXCEPT ![a] = {n}]
    /\ Goto(a, "cancelling")
    /\ UNCHANGED <<interrupted, carried, turns, runs>>

Dismiss(a) ==
    /\ act[a] = "call"
    /\ \E n \in Children(node, a) :
          /\ node' = Cancelled(node, {n}, TRUE)
          /\ aim' = [aim EXCEPT ![a] = {n}]
    /\ Goto(a, "dismissing")
    /\ UNCHANGED <<interrupted, carried, turns, runs>>

Reset(a) ==
    /\ act[a] = "call"
    /\ \E n \in Children(node, a) :
          /\ ~node[n].ended /\ ~node[n].working /\ node[n].blocked
          /\ node' = Cancelled(node, Children(node, n), TRUE)
          /\ aim' = [aim EXCEPT ![a] = {n}]
    /\ Goto(a, "resetting")
    /\ UNCHANGED <<interrupted, carried, turns, runs>>

\* Any other call, and one that was denied; its uncertain effects end the turn.
OtherCall(a) ==
    /\ act[a] \in {"call", "sharing"}
    /\ act' \in {[act EXCEPT ![a] = label] : label \in {"tools", "failing"}}
    /\ UNCHANGED <<node, aim, interrupted, carried, turns, runs>>

\* The call that slept returns, at the latest when the context is done.
StoppedBelow(n) == ~node[n].working /\ ~SubtreeWorking(node, n)

Wake(a) ==
    /\ \E n \in aim[a] :
          \/ act[a] = "waiting" /\ Awake(a) /\ node' = node
          \/ /\ act[a] = "cancelling" /\ (StoppedBelow(n) \/ ContextDone(a))
             /\ node' = node
          \/ /\ act[a] = "dismissing"
             /\ \/ StoppedBelow(n) /\ node' = IF node[n].results = {} THEN Retired(node, {n})
                                                                      ELSE node
                \/ ~StoppedBelow(n) /\ ContextDone(a) /\ node' = node
          \/ /\ act[a] = "resetting"
             /\ \/ ~SubtreeWorking(node, n) /\ node' = [node EXCEPT ![n].blocked = FALSE]
                \/ SubtreeWorking(node, n) /\ ContextDone(a) /\ node' = node
    /\ Goto(a, "tools")
    /\ aim' = [aim EXCEPT ![a] = {}]
    /\ UNCHANGED <<interrupted, carried, turns, runs>>

\* A wait may have a timeout.
TimesOut(a) ==
    /\ act[a] = "waiting"
    /\ Goto(a, "tools")
    /\ aim' = [aim EXCEPT ![a] = {}]
    /\ UNCHANGED <<node, interrupted, carried, turns, runs>>

(***************************************************************************)
(* finish: a turn that did not complete stops its children, joins them and *)
(* takes their results.                                                    *)
(***************************************************************************)
StoppedNow(tree, a) == Cancelled(tree, {n \in Children(tree, a) : tree[n].working}, FALSE)

StopAgents(a) ==
    /\ act[a] = "failing"
    /\ node' = StoppedNow(node, a)
    /\ Goto(a, "stopping")
    /\ UNCHANGED <<aim, interrupted, carried, turns, runs>>

JoinedStop(a) == ~SubtreeWorking(node, a)

AgentsStopped(a) ==
    /\ act[a] = "stopping" /\ JoinedStop(a)
    /\ Deliver(a)
    /\ Goto(a, "failed")
    /\ UNCHANGED <<aim, interrupted, turns, runs>>

TurnEnds ==
    /\ act[Root] \in {"done", "failed"}
    /\ Goto(Root, "off")
    /\ UNCHANGED <<node, aim, interrupted, carried, turns, runs>>

\* work: the result is published, and the next message is taken unless the
\* agent was cancelled, has ended or is blocked.
Publish(a) ==
    /\ act[a] \in {"done", "failed"}
    /\ runs' = [runs EXCEPT ![a] = @ + 1]
    /\ carried' = [carried EXCEPT ![a] = {}]
    /\ \E blocked \in IF act[a] = "failed" THEN BOOLEAN ELSE {FALSE} :
          LET queue == IF blocked \/ node[a].cancelled THEN 0 ELSE node[a].queue
              stops == queue = 0 \/ node[a].ended
          IN  /\ node' = [node EXCEPT
                     ![a].results = @ \cup carried[a] \cup {<<a, runs'[a]>>},
                     ![a].blocked = blocked,
                     ![a].queue = IF stops THEN queue ELSE queue - 1,
                     ![a].working = ~stops]
              /\ Goto(a, IF stops THEN "off" ELSE "loop")
    /\ UNCHANGED <<aim, interrupted, turns>>

\* closeAgents, when the process leaves the chat.
Close ==
    /\ act[Root] = "off"
    /\ node' = Cancelled(node, Children(node, Root), TRUE)
    /\ Goto(Root, "closing")
    /\ UNCHANGED <<aim, interrupted, carried, turns, runs>>

(***************************************************************************)
(* The specification.                                                      *)
(***************************************************************************)
Turn(a) ==
    \/ CancelledAtTop(a) \/ Request(a) \/ ModelFails(a) \/ ModelCalls(a) \/ ModelReplies(a)
    \/ Join(a) \/ NextCall(a) \/ CancelledInBatch(a)
    \/ CollectSnapshot(a) \/ Spawn(a) \/ Send(a) \/ Wait(a) \/ Cancel(a) \/ Dismiss(a)
    \/ Reset(a) \/ OtherCall(a) \/ Wake(a)
    \/ StopAgents(a) \/ AgentsStopped(a)

Next ==
    \/ StartTurn \/ Interrupt \/ TurnEnds \/ Close
    \/ \E a \in Session : Turn(a) \/ TimesOut(a)
    \/ \E a \in Agent : Publish(a)

Spec == Init /\ [][Next]_vars

\* Every goroutine that can go on does: requests and tools return.
FairSpec ==
    /\ Spec
    /\ WF_vars(Turn(Root)) /\ WF_vars(TurnEnds)
    /\ \A a \in Agent : WF_vars(Turn(a)) /\ WF_vars(Publish(a))

(***************************************************************************)
(* Properties.                                                             *)
(***************************************************************************)

\* No agent works for a parent that does not: every agent waits for its
\* children before it finishes, and what a turn started has stopped when the
\* turn is over.
NoOrphans ==
    \A n \in Agent : node[n].working =>
       /\ node[n].status = "live"
       /\ act[Root] \in Turning
       /\ \A k \in node[n].above \ {Root} : node[k].working /\ node[k].status = "live"

\* Results arrive once: the effects of a finished run are in one place, with
\* the agent until they are delivered, with the turn they were delivered to,
\* and at last with the root.
Holders(id) ==
    {a \in Session : id \in carried[a]}
        \cup {<<n>> : n \in {m \in Held(node) : id \in node[m].results}}

DeliveredOnce ==
    \A n \in Agent : \A k \in 1..runs[n] : Cardinality(Holders(<<n, k>>)) = 1

\* When the turn is over, every effect of every agent has reached the root's
\* recap.
AllReported ==
    act[Root] = "off" => \A n \in Agent : \A k \in 1..runs[n] : <<n, k>> \in carried[Root]

\* Every result arrives, and arrives once: deliverAgents takes it from the
\* agent and appends its effects to one turn, and finish takes what is left.
ResultsArrive == DeliveredOnce /\ AllReported

\* The tree allows depth 3 and 16 live agents, whoever spawns at the same time,
\* and no queue or number of runs passes its limit.
WithinCapacity ==
    /\ TypeOK
    /\ Cardinality(Counted(node)) <= MaxLive
    /\ \A n \in Held(node) : Cardinality(node[n].above) <= MaxDepth

=============================================================================
