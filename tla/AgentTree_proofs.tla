--------------------------- MODULE AgentTree_proofs ---------------------------
(***************************************************************************)
(* Proofs about AgentTree for every value of its constants: type           *)
(* correctness, the limits on the number and the depth of agents, that no  *)
(* agent outlives the turn it works for, and that every result arrives,    *)
(* once.                                                                   *)
(***************************************************************************)
EXTENDS AgentTree, FiniteSetTheorems, TLAPS

Tree == [Agent -> Node]

Born(tree) == {m \in Agent : tree[m].status # "unborn"}

(***************************************************************************)
(* What the operators on trees leave of a node.                            *)
(***************************************************************************)

\* The nodes, and for each: it is not more alive, at work or counted than it
\* was, its queue and its results are no larger, and its place is the same.
Shrinks(tree, old) ==
    /\ tree \in Tree
    /\ \A m \in Agent :
          /\ \/ tree[m].status = old[m].status
             \/ tree[m].status = "retired" /\ old[m].status # "unborn" /\ ~old[m].working
          /\ tree[m].parent = old[m].parent
          /\ tree[m].above = old[m].above
          /\ tree[m].working = old[m].working
          /\ old[m].ended => tree[m].ended
          /\ tree[m].queue = old[m].queue \/ tree[m].queue = 0

LEMMA ShrinksRefl ==
    ASSUME NEW tree \in Tree
    PROVE  Shrinks(tree, tree)
  BY DEF Shrinks, Tree

LEMMA ShrinksTrans ==
    ASSUME NEW t1 \in Tree, NEW t2 \in Tree, NEW t3 \in Tree,
           Shrinks(t2, t1), Shrinks(t3, t2)
    PROVE  Shrinks(t3, t1)
  BY DEF Shrinks

LEMMA CancelledType ==
    ASSUME NEW tree \in Tree, NEW nodes, NEW dismiss \in BOOLEAN
    PROVE  /\ Shrinks(Cancelled(tree, nodes, dismiss), tree)
           /\ \A m \in Agent : Cancelled(tree, nodes, dismiss)[m].status = tree[m].status
  <1> DEFINE new == Cancelled(tree, nodes, dismiss)
  <1>1. 0 \in 0..MaxQueue
    BY AgentTreeAssumption
  <1>2. ASSUME NEW m \in Agent
        PROVE  /\ new[m] \in Node
               /\ new[m].status = tree[m].status /\ new[m].above = tree[m].above
               /\ new[m].parent = tree[m].parent
               /\ new[m].working = tree[m].working
               /\ tree[m].ended => new[m].ended
               /\ new[m].queue = tree[m].queue \/ new[m].queue = 0
    <2> DEFINE under == UNION {Below(tree, n) : n \in nodes}
               ended == tree[m].ended \/ dismiss \/ m \in under
    <2>1. tree[m] \in Node /\ ended \in BOOLEAN
      BY DEF Tree
    <2>2. \/ new[m] = [tree[m] EXCEPT !.cancelled = TRUE, !.queue = 0, !.ended = ended]
          \/ new[m] = [tree[m] EXCEPT !.cancelled = TRUE]
          \/ new[m] = tree[m]
      BY DEF Cancelled
    <2> HIDE DEF new, ended
    <2>3. CASE new[m] = [tree[m] EXCEPT !.cancelled = TRUE, !.queue = 0, !.ended = ended]
      <3>1. tree[m].ended => ended
        BY DEF ended
      <3> QED
        BY <1>1, <2>1, <2>3, <3>1 DEF Node
    <2>4. CASE new[m] = [tree[m] EXCEPT !.cancelled = TRUE]
      BY <2>1, <2>4 DEF Node
    <2>5. CASE new[m] = tree[m]
      BY <2>1, <2>5
    <2> QED
      BY <2>2, <2>3, <2>4, <2>5
  <1>3. new = [m \in Agent |-> new[m]]
    BY DEF Cancelled
  <1> HIDE DEF new
  <1>4. new \in Tree
    BY <1>2, <1>3 DEF Tree
  <1> QED
    BY <1>2, <1>4 DEF Shrinks, new
LEMMA RetiredType ==
    ASSUME NEW tree \in Tree, NEW nodes \in SUBSET Born(tree),
           \A n \in nodes : ~tree[n].working
    PROVE  Shrinks(Retired(tree, nodes), tree)
  <1> DEFINE new == Retired(tree, nodes)
  <1>1. ASSUME NEW m \in Agent
        PROVE  \/ new[m] = tree[m]
               \/ /\ new[m] = [tree[m] EXCEPT !.status = "retired"]
                  /\ tree[m].status # "unborn" /\ ~tree[m].working
    BY DEF Retired, Born, Held, Below
  <1>2. new = [m \in Agent |-> new[m]]
    BY DEF Retired
  <1> HIDE DEF new
  <1>3. ASSUME NEW m \in Agent
        PROVE  /\ new[m] \in Node
               /\ \/ new[m].status = tree[m].status
                  \/ /\ new[m].status = "retired"
                     /\ tree[m].status # "unborn" /\ ~tree[m].working
               /\ new[m].parent = tree[m].parent
               /\ new[m].above = tree[m].above
               /\ new[m].working = tree[m].working
               /\ new[m].ended = tree[m].ended
               /\ new[m].queue = tree[m].queue
    <2>1. tree[m] \in Node
      BY DEF Tree
    <2>2. CASE new[m] = tree[m]
      BY <2>1, <2>2
    <2>3. CASE /\ new[m] = [tree[m] EXCEPT !.status = "retired"]
               /\ tree[m].status # "unborn" /\ ~tree[m].working
      BY <2>1, <2>3 DEF Node
    <2> QED
      BY <1>1, <2>2, <2>3
  <1>4. new \in Tree
    BY <1>2, <1>3 DEF Tree
  <1> QED
    BY <1>3, <1>4 DEF Shrinks, new

LEMMA TakenType ==
    ASSUME NEW tree \in Tree, NEW a
    PROVE  /\ Shrinks(TakenResults(tree, a), tree)
           /\ \A m \in Agent : TakenResults(tree, a)[m].status = tree[m].status
  <1> DEFINE new == TakenResults(tree, a)
  <1>1. ASSUME NEW m \in Agent
        PROVE  new[m] = tree[m] \/ new[m] = [tree[m] EXCEPT !.results = {}]
    BY DEF TakenResults
  <1>2. new = [m \in Agent |-> new[m]]
    BY DEF TakenResults
  <1> HIDE DEF new
  <1>3. ASSUME NEW m \in Agent
        PROVE  /\ new[m] \in Node
               /\ new[m].status = tree[m].status
               /\ new[m].parent = tree[m].parent
               /\ new[m].above = tree[m].above
               /\ new[m].working = tree[m].working
               /\ new[m].ended = tree[m].ended
               /\ new[m].queue = tree[m].queue
    <2>1. tree[m] \in Node
      BY DEF Tree
    <2> QED
      BY ZenonT(30), <1>1, <2>1 DEF Node
  <1>4. new \in Tree
    BY <1>2, <1>3 DEF Tree
  <1> QED
    BY <1>3, <1>4 DEF Shrinks, new

LEMMA DeliveredType ==
    ASSUME NEW tree \in Tree, NEW a
    PROVE  Shrinks(Delivered(tree, a), tree)
  <1> DEFINE over == {n \in Children(tree, a) :
                        /\ tree[n].results # {} /\ ~tree[n].working
                        /\ tree[n].kind = "task" \/ tree[n].ended}
             taken == TakenResults(tree, a)
             stopped == Cancelled(taken, over, TRUE)
  <1>1. Shrinks(taken, tree) /\ \A m \in Agent : taken[m].status = tree[m].status
    BY TakenType
  <1>2. taken \in Tree
    BY <1>1 DEF Shrinks
  <1>3. Shrinks(stopped, taken) /\ \A m \in Agent : stopped[m].status = taken[m].status
    BY <1>2, CancelledType
  <1>4. stopped \in Tree
    BY <1>3 DEF Shrinks
  <1>5. over \in SUBSET Born(stopped) /\ \A n \in over : ~stopped[n].working
    <2>1. \A n \in over : n \in Agent /\ tree[n].status = "live" /\ ~tree[n].working
      BY DEF Children, Held
    <2>2. \A n \in Agent : /\ stopped[n].status = tree[n].status
                           /\ stopped[n].working = tree[n].working
      BY <1>1, <1>3 DEF Shrinks
    <2> HIDE DEF over, stopped
    <2> QED
      BY <2>1, <2>2 DEF Born
  <1>6. Shrinks(Retired(stopped, over), stopped)
    BY <1>4, <1>5, RetiredType
  <1>7. Retired(stopped, over) \in Tree
    BY <1>6 DEF Shrinks
  <1>8. Shrinks(stopped, tree)
    BY <1>1, <1>2, <1>3, <1>4, ShrinksTrans
  <1>9. Shrinks(Retired(stopped, over), tree)
    BY <1>4, <1>6, <1>7, <1>8, ShrinksTrans
  <1> QED
    BY <1>9 DEF Delivered

\* A tree that shrinks counts no more agents.
LEMMA CountedShrinks ==
    ASSUME NEW tree, NEW old, Shrinks(tree, old)
    PROVE  Counted(tree) \subseteq Counted(old) /\ Held(tree) \subseteq Held(old)
  BY DEF Shrinks, Counted, Held

LEMMA FewerCounted ==
    ASSUME NEW tree, NEW S \in SUBSET Counted(tree)
    PROVE  /\ IsFiniteSet(S) /\ Cardinality(S) \in Nat
           /\ Cardinality(S) <= Cardinality(Counted(tree))
  <1>1. IsFiniteSet(Counted(tree))
    BY AgentTreeAssumption, FS_Subset DEF Counted, Held
  <1> QED
    BY <1>1, FS_Subset, FS_CardinalityType

(***************************************************************************)
(* The invariant.                                                          *)
(***************************************************************************)

\* The runs of an agent: those it has finished, the one it is in and those
\* its queue asks for.
Load(a) == runs[a] + node[a].queue + (IF node[a].working THEN 1 ELSE 0)

Consistent ==
    /\ \A a \in Agent :
          /\ Load(a) <= MaxRuns
          /\ act[a] # "off" => node[a].working
          /\ node[a].status = "unborn" => ~node[a].working /\ runs[a] = 0
    /\ \A a \in Session : aim[a] \subseteq Born(node)

CapacityKept ==
    /\ Cardinality(Counted(node)) <= MaxLive
    /\ \A n \in Held(node) : Cardinality(node[n].above) <= MaxDepth

IInv == TypeOK /\ Consistent /\ CapacityKept

\* A step that starts nobody and publishes nothing.
Quiet ==
    /\ Shrinks(node', node)
    /\ act' \in [Session -> Turning \cup {"off", "closing"}]
    /\ \A a \in Agent : act'[a] # "off" => act[a] # "off"
    /\ aim' \in [Session -> SUBSET Agent]
    /\ \A a \in Session : aim'[a] \subseteq Born(node)
    /\ interrupted' \in BOOLEAN
    /\ carried' \in [Session -> SUBSET RunId]
    /\ turns' \in 0..MaxTurns
    /\ runs' = runs

LEMMA QuietKeeps ==
    ASSUME IInv, Quiet
    PROVE  IInv'
  <1>1. node \in Tree /\ node' \in Tree
    BY DEF IInv, TypeOK, Tree, Quiet, Shrinks
  <1>2. TypeOK'
    BY <1>1 DEF IInv, TypeOK, Quiet, Tree
  <1>3. \A a \in Agent :
          /\ act'[a] # "off" => node'[a].working
          /\ node'[a].status = "unborn" => ~node'[a].working /\ runs'[a] = 0
    BY DEF IInv, Consistent, Quiet, Shrinks
  <1>4. ASSUME NEW a \in Agent
        PROVE  Load(a)' <= MaxRuns
    <2>1. /\ runs[a] \in Nat /\ node[a].queue \in Nat /\ runs'[a] = runs[a]
          /\ node'[a].queue \in {node[a].queue, 0}
          /\ node'[a].working = node[a].working
      BY <1>1 DEF IInv, TypeOK, Tree, Node, Quiet, Shrinks
    <2>2. Load(a) <= MaxRuns
      BY DEF IInv, Consistent
    <2>3. Load(a)' = runs[a] + node'[a].queue + (IF node[a].working THEN 1 ELSE 0)
      BY <2>1 DEF Load
    <2> QED
      BY <2>1, <2>2, <2>3, AgentTreeAssumption DEF Load
  <1>5. \A a \in Session : aim'[a] \subseteq Born(node)'
    BY DEF Quiet, Shrinks, Born
  <1>6. CapacityKept'
    <2>1. /\ Counted(node') \subseteq Counted(node) /\ Held(node') \subseteq Held(node)
      BY CountedShrinks DEF Quiet
    <2>2. /\ Cardinality(Counted(node')) <= Cardinality(Counted(node))
          /\ Cardinality(Counted(node')) \in Nat /\ Cardinality(Counted(node)) \in Nat
      BY <2>1, FewerCounted
    <2>3. Cardinality(Counted(node')) <= MaxLive
      BY <2>2, AgentTreeAssumption DEF IInv, CapacityKept
    <2>4. \A n \in Held(node') : node'[n].above = node[n].above
      BY DEF Quiet, Shrinks, Held
    <2> QED
      BY <2>1, <2>3, <2>4 DEF IInv, CapacityKept
  <1> QED
    BY <1>2, <1>3, <1>4, <1>5, <1>6 DEF IInv, Consistent

(***************************************************************************)
(* The steps.                                                              *)
(***************************************************************************)

LEMMA Types ==
    ASSUME IInv
    PROVE  /\ node \in Tree /\ Shrinks(node, node)
           /\ act \in [Session -> Turning \cup {"off", "closing"}]
           /\ aim \in [Session -> SUBSET Agent]
           /\ \A a \in Session : aim[a] \subseteq Born(node)
           /\ interrupted \in BOOLEAN
           /\ carried \in [Session -> SUBSET RunId]
           /\ turns \in 0..MaxTurns
           /\ Root \in Session /\ Root \notin Agent
  BY ShrinksRefl, AgentTreeAssumption DEF IInv, TypeOK, Tree, Consistent, Session

\* A session that is at something goes on to something else.
LEMMA GotoType ==
    ASSUME IInv, NEW a \in Session, NEW label \in Turning \cup {"off", "closing"},
           Goto(a, label), a = Root \/ act[a] # "off"
    PROVE  /\ act' \in [Session -> Turning \cup {"off", "closing"}]
           /\ \A n \in Agent : act'[n] # "off" => act[n] # "off"
  BY Types DEF Goto

LEMMA AimType ==
    ASSUME IInv, NEW a \in Session, NEW targets \in SUBSET Born(node),
           aim' = [aim EXCEPT ![a] = targets]
    PROVE  /\ aim' \in [Session -> SUBSET Agent]
           /\ \A m \in Session : aim'[m] \subseteq Born(node)
  BY Types DEF Born

LEMMA DeliverType ==
    ASSUME IInv, NEW a \in Session, Deliver(a)
    PROVE  Shrinks(node', node) /\ carried' \in [Session -> SUBSET RunId]
  <1>1. Shrinks(node', node)
    BY Types, DeliveredType DEF Deliver
  <1>2. Undelivered(node, a) \in SUBSET RunId
    BY Types DEF Undelivered, Children, Held, Tree, Node
  <1>3. carried[a] \cup Undelivered(node, a) \in SUBSET RunId
    BY <1>2, Types
  <1> QED
    BY <1>1, <1>3, Types DEF Deliver

\* The tree stays as it is.
LEMMA LabelSteps ==
    ASSUME IInv, NEW a \in Session,
           \/ CancelledAtTop(a) \/ ModelFails(a) \/ ModelCalls(a) \/ NextCall(a)
           \/ CancelledInBatch(a) \/ CollectSnapshot(a) \/ Wait(a) \/ OtherCall(a)
           \/ TimesOut(a)
    PROVE  Quiet
  <1>1. PICK label \in Turning : Goto(a, label) /\ act[a] # "off"
    BY DEF CancelledAtTop, ModelFails, ModelCalls, NextCall, CancelledInBatch,
           CollectSnapshot, Wait, OtherCall, TimesOut, Goto, Turning
  <1>2. UNCHANGED <<node, interrupted, carried, turns, runs>>
    BY DEF CancelledAtTop, ModelFails, ModelCalls, NextCall, CancelledInBatch,
           CollectSnapshot, Wait, OtherCall, TimesOut
  <1>3. aim' \in [Session -> SUBSET Agent] /\ \A m \in Session : aim'[m] \subseteq Born(node)
    <2>1. CASE aim' = aim
      BY <2>1, Types
    <2>2. CASE Wait(a)
      <3>1. PICK targets \in SUBSET Children(node, a) : aim' = [aim EXCEPT ![a] = targets]
        BY <2>2 DEF Wait
      <3>2. targets \in SUBSET Born(node)
        BY DEF Children, Held, Born
      <3> QED
        BY <3>1, <3>2, AimType
    <2>3. CASE TimesOut(a)
      BY <2>3, AimType DEF TimesOut
    <2> QED
      BY <2>1, <2>2, <2>3 DEF CancelledAtTop, ModelFails, ModelCalls, NextCall,
         CancelledInBatch, CollectSnapshot, OtherCall
  <1> QED
    BY <1>1, <1>2, <1>3, GotoType, Types DEF Quiet

LEMMA TurnSteps ==
    ASSUME IInv, StartTurn \/ TurnEnds \/ Interrupt
    PROVE  Quiet
  <1>1. CASE StartTurn
    <2>1. turns' \in 0..MaxTurns
      BY <1>1, Types, AgentTreeAssumption DEF StartTurn
    <2> QED
      BY <1>1, <2>1, GotoType, Types DEF StartTurn, Quiet, Turning
  <1>2. CASE TurnEnds
    BY <1>2, GotoType, Types DEF TurnEnds, Quiet, Turning
  <1>3. CASE Interrupt
    <2>1. \A m \in Agent : node[m] \in Node
      BY Types DEF Tree
    <2>2. \A m \in Agent : node'[m] = [node[m] EXCEPT !.cancelled = @ \/ node[m].working]
      BY <1>3 DEF Interrupt
    <2>3. node' = [m \in Agent |-> node'[m]]
      BY <1>3 DEF Interrupt
    <2>4. ASSUME NEW m \in Agent
          PROVE  /\ node'[m] \in Node /\ node'[m].status = node[m].status
                 /\ node'[m].parent = node[m].parent
                 /\ node'[m].above = node[m].above /\ node'[m].ended = node[m].ended
                 /\ node'[m].working = node[m].working /\ node'[m].queue = node[m].queue
      <3> DEFINE cancelled == node[m].cancelled \/ node[m].working
      <3>1. cancelled \in BOOLEAN
        OBVIOUS
      <3>2. node'[m] = [node[m] EXCEPT !.cancelled = cancelled]
        BY <2>2
      <3> HIDE DEF cancelled
      <3> QED
        BY <2>1, <3>1, <3>2 DEF Node
    <2>5. Shrinks(node', node)
      BY <2>3, <2>4 DEF Shrinks, Tree
    <2> QED
      BY <1>3, <2>5, Types DEF Interrupt, Quiet
  <1> QED
    BY <1>1, <1>2, <1>3

LEMMA DeliverySteps ==
    ASSUME IInv, NEW a \in Session,
           Request(a) \/ ModelReplies(a) \/ Join(a) \/ AgentsStopped(a)
    PROVE  Quiet
  <1>1. PICK label \in Turning : Goto(a, label) /\ act[a] # "off"
    BY DEF Request, ModelReplies, Join, AgentsStopped, Turning
  <1>2. UNCHANGED <<interrupted, turns, runs>>
    BY DEF Request, ModelReplies, Join, AgentsStopped
  <1>3. Shrinks(node', node) /\ carried' \in [Session -> SUBSET RunId]
    <2>1. CASE Deliver(a)
      BY <2>1, DeliverType
    <2>2. CASE UNCHANGED <<node, carried>>
      BY <2>2, Types
    <2> QED
      BY <2>1, <2>2 DEF Request, ModelReplies, Join, AgentsStopped
  <1>4. aim' \in [Session -> SUBSET Agent] /\ \A m \in Session : aim'[m] \subseteq Born(node)
    <2>1. {n \in Children(node, a) : node[n].working} \in SUBSET Born(node)
      BY DEF Children, Held, Born
    <2>2. CASE aim' = aim
      BY <2>2, Types
    <2>3. CASE aim' = [aim EXCEPT ![a] = {n \in Children(node, a) : node[n].working}]
      BY <2>1, <2>3, AimType
    <2>4. CASE aim' = [aim EXCEPT ![a] = {}]
      BY <2>4, AimType
    <2> QED
      BY <2>2, <2>3, <2>4 DEF Request, ModelReplies, Join, AgentsStopped
  <1> QED
    BY <1>1, <1>2, <1>3, <1>4, GotoType, Types DEF Quiet

LEMMA CancelSteps ==
    ASSUME IInv, NEW a \in Session,
           Cancel(a) \/ Dismiss(a) \/ Reset(a) \/ StopAgents(a) \/ (a = Root /\ Close)
    PROVE  Quiet
  <1>1. PICK label \in Turning \cup {"closing"} :
           Goto(a, label) /\ (a = Root \/ act[a] # "off")
    BY DEF Cancel, Dismiss, Reset, StopAgents, Close, Turning
  <1>2. UNCHANGED <<interrupted, carried, turns, runs>>
    BY DEF Cancel, Dismiss, Reset, StopAgents, Close
  <1>3. Shrinks(node', node)
    <2>1. CASE \E n \in Agent, dismiss \in BOOLEAN : node' = Cancelled(node, {n}, dismiss)
      BY <2>1, CancelledType, Types
    <2>2. CASE \E n \in Session : node' = Cancelled(node, Children(node, n), TRUE)
      <3>1. PICK n \in Session : node' = Cancelled(node, Children(node, n), TRUE)
        BY <2>2
      <3>2. TRUE \in BOOLEAN /\ node \in Tree
        BY Types
      <3>3. Shrinks(Cancelled(node, Children(node, n), TRUE), node)
        BY <3>2, CancelledType
      <3> QED
        BY <3>1, <3>3
    <2>3. CASE node' = StoppedNow(node, a)
      BY <2>3, CancelledType, Types DEF StoppedNow
    <2>4. \A m \in Session : Children(node, m) \subseteq Agent
      BY DEF Children, Held
    <2>5. Cancel(a) \/ Dismiss(a) => \E n \in Agent, dismiss \in BOOLEAN :
                                        node' = Cancelled(node, {n}, dismiss)
      BY <2>4 DEF Cancel, Dismiss
    <2>6. Reset(a) \/ Close => \E n \in Session : node' = Cancelled(node, Children(node, n), TRUE)
      BY <2>4 DEF Reset, Close, Session
    <2>7. CASE Cancel(a) \/ Dismiss(a)
      BY <2>1, <2>5, <2>7
    <2>8. CASE Reset(a) \/ Close
      BY <2>2, <2>6, <2>8
    <2>9. CASE StopAgents(a)
      BY <2>3, <2>9 DEF StopAgents
    <2> QED
      BY <2>7, <2>8, <2>9
  <1>4. aim' \in [Session -> SUBSET Agent] /\ \A m \in Session : aim'[m] \subseteq Born(node)
    <2>1. CASE aim' = aim
      BY <2>1, Types
    <2>2. CASE \E n \in Children(node, a) : aim' = [aim EXCEPT ![a] = {n}]
      <3>1. PICK n \in Children(node, a) : aim' = [aim EXCEPT ![a] = {n}]
        BY <2>2
      <3>2. {n} \in SUBSET Born(node)
        BY DEF Children, Held, Born
      <3> QED
        BY <3>1, <3>2, AimType
    <2> QED
      BY <2>1, <2>2 DEF Cancel, Dismiss, Reset, StopAgents, Close
  <1> QED
    BY <1>1, <1>2, <1>3, <1>4, GotoType, Types DEF Quiet

LEMMA WakeStep ==
    ASSUME IInv, NEW a \in Session, Wake(a)
    PROVE  Quiet
  <1>1. PICK n \in aim[a] :
           /\ act[a] \in {"waiting", "cancelling", "dismissing", "resetting"}
           /\ \/ node' = node
              \/ node' = Retired(node, {n}) /\ ~node[n].working
              \/ node' = [node EXCEPT ![n].blocked = FALSE]
    BY DEF Wake, StoppedBelow
  <1>2. n \in Born(node) /\ n \in Agent
    BY Types DEF Born
  <1>3. Shrinks(node', node)
    <2>1. CASE node' = node
      BY <2>1, Types
    <2>2. CASE node' = Retired(node, {n}) /\ ~node[n].working
      BY <1>2, <2>2, RetiredType, Types
    <2>3. CASE node' = [node EXCEPT ![n].blocked = FALSE]
      <3>0. node \in Tree /\ node[n] \in Node
        BY <1>2, Types DEF Tree
      <3>1. node \in Tree /\ [node[n] EXCEPT !.blocked = FALSE] \in Node
        BY <3>0 DEF Node
      <3>2. node' = [node EXCEPT ![n] = [node[n] EXCEPT !.blocked = FALSE]]
        BY <2>3
      <3>3. node' \in Tree /\ \A m \in Agent : m # n => node'[m] = node[m]
        BY <3>1, <3>2 DEF Tree
      <3>4. node'[n] = [node[n] EXCEPT !.blocked = FALSE]
        BY <1>2, <3>1, <3>2 DEF Tree
      <3>5. /\ node'[n].status = node[n].status /\ node'[n].above = node[n].above
            /\ node'[n].working = node[n].working /\ node'[n].ended = node[n].ended
            /\ node'[n].queue = node[n].queue /\ node'[n].parent = node[n].parent
        BY <1>2, <3>1, <3>4 DEF Tree, Node
      <3> QED
        BY <3>3, <3>5 DEF Shrinks
    <2> QED
      BY <1>1, <2>1, <2>2, <2>3
  <1>4. aim' \in [Session -> SUBSET Agent] /\ \A m \in Session : aim'[m] \subseteq Born(node)
    BY AimType DEF Wake
  <1>5. /\ act' \in [Session -> Turning \cup {"off", "closing"}]
        /\ \A m \in Agent : act'[m] # "off" => act[m] # "off"
    BY <1>1, GotoType DEF Wake, Turning
  <1> QED
    BY <1>3, <1>4, <1>5, Types DEF Wake, Quiet

(***************************************************************************)
(* The steps that start an agent, and the one that publishes a run.        *)
(***************************************************************************)

LEMMA AboveType ==
    ASSUME IInv, NEW a \in Session
    PROVE  Above(a) \in SUBSET Session
  BY Types DEF Above, Tree, Node, Session

LEMMA SpawnStep ==
    ASSUME IInv, NEW a \in Session, Spawn(a)
    PROVE  IInv'
  <1>1. PICK n \in Agent, kind \in Kind :
           /\ node[n].status = "unborn"
           /\ node' = [node EXCEPT ![n] = [Unborn EXCEPT
                         !.status = "live", !.parent = a, !.above = Above(a),
                         !.kind = kind, !.working = TRUE]]
           /\ act' = [act EXCEPT ![a] = "tools", ![n] = "loop"]
    BY DEF Spawn
  <1> DEFINE new == [Unborn EXCEPT !.status = "live", !.parent = a, !.above = Above(a),
                                   !.kind = kind, !.working = TRUE]
  <1>2. /\ new \in Node /\ new.status = "live" /\ new.above = Above(a)
        /\ new.working /\ ~new.ended /\ new.queue = 0
    <2>1. 0 \in 0..MaxQueue /\ Root \in Session
      BY AgentTreeAssumption DEF Session
    <2> QED
      BY <2>1, AboveType DEF Unborn, Node
  <1> HIDE DEF new
  <1>3. /\ node' = [node EXCEPT ![n] = new] /\ node' \in Tree
        /\ node'[n] = new /\ \A m \in Agent \ {n} : node'[m] = node[m]
    BY <1>1, <1>2, Types DEF Tree, new
  <1>4. UNCHANGED <<aim, interrupted, carried, turns, runs>>
        /\ act[a] # "off" /\ Admitted(a)
    BY DEF Spawn, AdmittedNow
  <1>5. act' \in [Session -> Turning \cup {"off", "closing"}]
        /\ \A m \in Agent \ {n} : act'[m] # "off" => act[m] # "off"
    <2>1. n \in Session /\ {"tools", "loop"} \subseteq Turning
      BY DEF Session, Turning
    <2>2. \A m \in Session \ {n} : act'[m] = IF m = a THEN "tools" ELSE act[m]
      BY <1>1, <2>1, Types
    <2> QED
      BY <1>1, <1>4, <2>1, <2>2, Types DEF Session
  <1>6. TypeOK'
    BY <1>3, <1>4, <1>5 DEF IInv, TypeOK, Tree
  <1>7. Consistent'
    <2>1. ASSUME NEW m \in Agent, m # n
          PROVE  /\ Load(m)' <= MaxRuns
                 /\ act'[m] # "off" => node'[m].working
                 /\ node'[m].status = "unborn" => ~node'[m].working /\ runs'[m] = 0
      <3>1. Load(m)' = Load(m)
        BY <1>3, <1>4, <2>1 DEF Load
      <3> QED
        BY <1>3, <1>4, <1>5, <2>1, <3>1 DEF IInv, Consistent
    <2>2. Load(n)' <= MaxRuns /\ node'[n].working /\ node'[n].status # "unborn"
      <3>1. runs'[n] = 0
        BY <1>1, <1>4 DEF IInv, Consistent
      <3> QED
        BY <1>2, <1>3, <3>1, AgentTreeAssumption DEF Load
    <2>3. \A m \in Session : aim'[m] \subseteq Born(node)'
      BY <1>2, <1>3, <1>4, Types DEF Born
    <2> QED
      BY <2>1, <2>2, <2>3 DEF Consistent
  <1>8. CapacityKept'
    <2>1. /\ Counted(node') \subseteq Counted(node) \cup {n}
          /\ Held(node') \subseteq Held(node) \cup {n}
      BY <1>3 DEF Counted, Held
    <2>2. /\ IsFiniteSet(Counted(node)) /\ Cardinality(Counted(node)) \in Nat
          /\ Cardinality(Counted(node)) < MaxLive
      BY <1>4, FewerCounted DEF Admitted
    <2>3. /\ IsFiniteSet(Counted(node) \cup {n})
          /\ Cardinality(Counted(node) \cup {n}) <= Cardinality(Counted(node)) + 1
          /\ Cardinality(Counted(node) \cup {n}) \in Nat
      <3>1. /\ IsFiniteSet(Counted(node) \cup {n})
            /\ \/ Cardinality(Counted(node) \cup {n}) = Cardinality(Counted(node))
               \/ Cardinality(Counted(node) \cup {n}) = Cardinality(Counted(node)) + 1
        BY <2>2, FS_AddElement
      <3> QED
        BY <2>2, <3>1
    <2>4. /\ Cardinality(Counted(node')) <= Cardinality(Counted(node) \cup {n})
          /\ Cardinality(Counted(node')) \in Nat
      BY <2>1, <2>3, FS_Subset, FS_CardinalityType
    <2>5. Cardinality(Counted(node')) <= MaxLive
      BY <2>2, <2>3, <2>4, AgentTreeAssumption
    <2>6. \A m \in Held(node') : Cardinality(node'[m].above) <= MaxDepth
      <3>1. Cardinality(node'[n].above) <= MaxDepth
        BY <1>2, <1>3, <1>4 DEF Admitted
      <3>2. ASSUME NEW m \in Held(node'), m # n
            PROVE  Cardinality(node'[m].above) <= MaxDepth
        <4>1. m \in Held(node) /\ node'[m] = node[m]
          BY <1>3, <2>1, <3>2 DEF Held
        <4> QED
          BY <4>1 DEF IInv, CapacityKept
      <3> QED
        BY <3>1, <3>2
    <2> QED
      BY <2>5, <2>6 DEF CapacityKept
  <1> QED
    BY <1>6, <1>7, <1>8 DEF IInv

\* A step that changes one node that lives on, in its queue, its results, its
\* marks and whether it works.
LEMMA OneNodeCapacity ==
    ASSUME IInv, NEW n \in Agent, node' \in Tree,
           \A m \in Agent \ {n} : node'[m] = node[m],
           node'[n].status = node[n].status, node'[n].above = node[n].above,
           node'[n].ended = node[n].ended,
           node'[n].working => node[n].working \/ ~node[n].ended
    PROVE  CapacityKept'
  <1>1. Counted(node') \subseteq Counted(node) /\ Held(node') = Held(node)
    BY DEF Counted, Held
  <1>2. /\ Cardinality(Counted(node')) <= Cardinality(Counted(node))
        /\ Cardinality(Counted(node')) \in Nat /\ Cardinality(Counted(node)) \in Nat
    BY <1>1, FewerCounted
  <1>3. Cardinality(Counted(node')) <= MaxLive
    BY <1>2, AgentTreeAssumption DEF IInv, CapacityKept
  <1>4. \A m \in Held(node') : node'[m].above = node[m].above
    BY DEF Held
  <1> QED
    BY <1>1, <1>3, <1>4 DEF IInv, CapacityKept

LEMMA SendStep ==
    ASSUME IInv, NEW a \in Session, Send(a)
    PROVE  IInv'
  <1>1. PICK n \in Children(node, a) :
           /\ ~node[n].ended
           /\ runs[n] + node[n].queue + (IF node[n].working THEN 1 ELSE 0) < MaxRuns
           /\ \/ /\ node[n].working /\ HasRoom(n)
                 /\ node' = [node EXCEPT ![n].queue = @ + 1]
                 /\ act' = [act EXCEPT ![a] = "tools"]
              \/ /\ ~node[n].working
                 /\ node' = [node EXCEPT ![n].working = TRUE, ![n].cancelled = ContextDone(a)]
                 /\ act' = [act EXCEPT ![a] = "tools", ![n] = "loop"]
    BY DEF Send, Goto
  <1>2. n \in Agent /\ node[n].status = "live"
    BY DEF Children, Held
  <1>3. /\ node \in Tree /\ node[n] \in Node /\ node[n].queue \in Nat
        /\ ContextDone(a) \in BOOLEAN /\ runs[n] \in Nat
    BY <1>2, Types, AgentTreeAssumption DEF Tree, Node, ContextDone, Session, IInv, TypeOK
  <1>4. UNCHANGED <<aim, interrupted, carried, turns, runs>> /\ act[a] # "off"
    BY DEF Send
  <1>5. /\ node' \in Tree
        /\ \A m \in Agent \ {n} : node'[m] = node[m]
        /\ node'[n].status = "live" /\ node'[n].above = node[n].above
        /\ node'[n].ended = node[n].ended /\ node'[n].working
        /\ node'[n].queue = IF node[n].working THEN node[n].queue + 1 ELSE node[n].queue
    <2>1. CASE node[n].working
      <3> DEFINE new == [node[n] EXCEPT !.queue = node[n].queue + 1]
      <3>1. node[n].queue + 1 \in 0..MaxQueue
        BY <1>1, <1>3, <2>1, AgentTreeAssumption DEF HasRoom
      <3>2. /\ new \in Node /\ new.status = node[n].status /\ new.above = node[n].above
            /\ new.ended = node[n].ended /\ new.working = node[n].working
            /\ new.queue = node[n].queue + 1
        BY <1>3, <3>1 DEF Node
      <3>3. node' = [node EXCEPT ![n] = new]
        BY <1>1, <2>1
      <3> HIDE DEF new
      <3> QED
        BY <1>2, <1>3, <2>1, <3>2, <3>3 DEF Tree
    <2>2. CASE ~node[n].working
      <3> DEFINE new == [node[n] EXCEPT !.working = TRUE, !.cancelled = ContextDone(a)]
      <3>1. /\ new \in Node /\ new.status = node[n].status /\ new.above = node[n].above
            /\ new.ended = node[n].ended /\ new.working /\ new.queue = node[n].queue
        BY <1>3 DEF Node
      <3>2. node' = [node EXCEPT ![n] = new]
        BY <1>1, <2>2
      <3> HIDE DEF new
      <3> QED
        BY <1>2, <1>3, <2>2, <3>1, <3>2 DEF Tree
    <2> QED
      BY <2>1, <2>2
  <1>6. /\ act' \in [Session -> Turning \cup {"off", "closing"}]
        /\ \A m \in Agent \ {n} : act'[m] # "off" => act[m] # "off"
    <2>1. n \in Session /\ {"tools", "loop"} \subseteq Turning
      BY <1>2 DEF Session, Turning
    <2>2. \A m \in Session \ {n} : act'[m] = IF m = a THEN "tools" ELSE act[m]
      BY <1>1, <2>1, Types
    <2> QED
      BY <1>1, <1>4, <2>1, <2>2, Types DEF Session
  <1>7. TypeOK'
    BY <1>4, <1>5, <1>6 DEF IInv, TypeOK, Tree
  <1>8. Consistent'
    <2>1. ASSUME NEW m \in Agent, m # n
          PROVE  /\ Load(m)' <= MaxRuns
                 /\ act'[m] # "off" => node'[m].working
                 /\ node'[m].status = "unborn" => ~node'[m].working /\ runs'[m] = 0
      <3>1. Load(m)' = Load(m)
        BY <1>4, <1>5, <2>1 DEF Load
      <3> QED
        BY <1>4, <1>5, <1>6, <2>1, <3>1 DEF IInv, Consistent
    <2>2. Load(n)' <= MaxRuns
      <3>1. Load(n)' = runs[n] + node'[n].queue + 1
        BY <1>4, <1>5 DEF Load
      <3> QED
        BY <1>1, <1>3, <1>5, <3>1, AgentTreeAssumption
    <2>3. \A m \in Session : aim'[m] \subseteq Born(node)'
      BY <1>2, <1>4, <1>5, Types DEF Born
    <2> QED
      BY <1>2, <1>5, <2>1, <2>2, <2>3 DEF Consistent
  <1>9. CapacityKept'
    BY <1>1, <1>2, <1>5, OneNodeCapacity
  <1> QED
    BY <1>7, <1>8, <1>9 DEF IInv

LEMMA PublishStep ==
    ASSUME IInv, NEW a \in Agent, Publish(a)
    PROVE  IInv'
  <1>1. PICK blocked \in BOOLEAN, queue \in {0, node[a].queue}, stops \in BOOLEAN :
           /\ stops <=> queue = 0 \/ node[a].ended
           /\ node' = [node EXCEPT
                 ![a].results = @ \cup carried[a] \cup {<<a, runs'[a]>>},
                 ![a].blocked = blocked,
                 ![a].queue = IF stops THEN queue ELSE queue - 1,
                 ![a].working = ~stops]
           /\ act' = [act EXCEPT ![a] = IF stops THEN "off" ELSE "loop"]
    BY DEF Publish, Goto
  <1>2. /\ runs' = [runs EXCEPT ![a] = @ + 1]
        /\ carried' = [carried EXCEPT ![a] = {}]
        /\ act[a] \in {"done", "failed"} /\ UNCHANGED <<aim, interrupted, turns>>
    BY DEF Publish
  <1>3. /\ node \in Tree /\ node[a] \in Node /\ node[a].queue \in 0..MaxQueue
        /\ runs \in [Agent -> 0..MaxRuns] /\ runs[a] \in Nat
        /\ a \in Session /\ carried[a] \in SUBSET RunId
    BY Types, AgentTreeAssumption DEF Tree, Node, Session, IInv, TypeOK
  <1>4. node[a].working /\ node[a].status # "unborn" /\ runs[a] + node[a].queue + 1 <= MaxRuns
    BY <1>2 DEF IInv, Consistent, Load
  <1>5. runs'[a] = runs[a] + 1 /\ runs'[a] \in 1..MaxRuns
        /\ runs' \in [Agent -> 0..MaxRuns]
    BY <1>2, <1>3, <1>4, AgentTreeAssumption
  <1> DEFINE left == IF stops THEN queue ELSE queue - 1
             results == node[a].results \cup carried[a] \cup {<<a, runs'[a]>>}
             new == [node[a] EXCEPT !.results = results, !.blocked = blocked,
                                    !.queue = left, !.working = ~stops]
  <1>6. /\ left \in 0..MaxQueue
        /\ left + (IF stops THEN 0 ELSE 1) <= node[a].queue
    BY <1>1, <1>3, AgentTreeAssumption
  <1>7. results \in SUBSET RunId
    BY <1>3, <1>5 DEF RunId, Node
  <1>8. (~stops) \in BOOLEAN
    OBVIOUS
  <1> HIDE DEF left, results
  <1>9. /\ new \in Node /\ new.status = node[a].status /\ new.above = node[a].above
        /\ new.ended = node[a].ended /\ new.working = ~stops /\ new.queue = left
    BY <1>3, <1>6, <1>7, <1>8 DEF Node
  <1>10. node' = [node EXCEPT ![a] = new]
    BY <1>1 DEF left, results
  <1> HIDE DEF new
  <1>11. /\ node' \in Tree /\ node'[a] = new
         /\ \A m \in Agent \ {a} : node'[m] = node[m]
    BY <1>3, <1>9, <1>10 DEF Tree
  <1>12. /\ act' \in [Session -> Turning \cup {"off", "closing"}]
         /\ act'[a] # "off" => ~stops
         /\ \A m \in Agent \ {a} : act'[m] = act[m]
    BY <1>1, <1>3, Types DEF Turning, Session
  <1>13. TypeOK'
    BY <1>2, <1>3, <1>5, <1>11, <1>12 DEF IInv, TypeOK, Tree
  <1>14. Consistent'
    <2>1. ASSUME NEW m \in Agent, m # a
          PROVE  /\ Load(m)' <= MaxRuns
                 /\ act'[m] # "off" => node'[m].working
                 /\ node'[m].status = "unborn" => ~node'[m].working /\ runs'[m] = 0
      <3>1. runs'[m] = runs[m] /\ node'[m] = node[m]
        BY <1>2, <1>3, <1>11, <2>1
      <3>2. Load(m)' = Load(m)
        BY <3>1 DEF Load
      <3> QED
        BY <1>12, <2>1, <3>1, <3>2 DEF IInv, Consistent
    <2>2. Load(a)' <= MaxRuns
      <3>1. Load(a)' = runs[a] + 1 + left + (IF stops THEN 0 ELSE 1)
        BY <1>5, <1>9, <1>11 DEF Load
      <3> QED
        BY <1>3, <1>4, <1>6, <3>1, AgentTreeAssumption
    <2>3. act'[a] # "off" => node'[a].working
      BY <1>9, <1>11, <1>12
    <2>4. node'[a].status # "unborn"
      BY <1>4, <1>9, <1>11
    <2>5. \A m \in Session : aim'[m] \subseteq Born(node)'
      BY <1>2, <1>11, <2>4, Types DEF Born
    <2> QED
      BY <2>1, <2>2, <2>3, <2>4, <2>5 DEF Consistent
  <1>15. CapacityKept'
    BY <1>4, <1>9, <1>11, OneNodeCapacity
  <1> QED
    BY <1>13, <1>14, <1>15 DEF IInv

(***************************************************************************)
(* Theorems.                                                               *)
(***************************************************************************)

LEMMA InitHolds == Init => IInv
  <1> SUFFICES ASSUME Init PROVE IInv
    OBVIOUS
  <1>1. Unborn \in Node /\ Unborn.status = "unborn" /\ ~Unborn.working /\ Unborn.queue = 0
    BY AgentTreeAssumption DEF Unborn, Node, Session, Kind
  <1>2. \A a \in Agent : node[a] = Unborn /\ runs[a] = 0 /\ act[a] = "off"
    BY DEF Init, Session
  <1>3. TypeOK
    <2>1. 0 \in 0..MaxRuns /\ 0 \in 0..MaxTurns
      BY AgentTreeAssumption
    <2> QED
      BY <1>1, <2>1 DEF Init, TypeOK
  <1>4. Consistent
    BY <1>1, <1>2, AgentTreeAssumption DEF Consistent, Load, Init
  <1>5. CapacityKept
    <2>1. Held(node) = {} /\ Counted(node) = {}
      BY <1>1, <1>2 DEF Held, Counted
    <2> QED
      BY <2>1, FS_EmptySet, AgentTreeAssumption DEF CapacityKept
  <1> QED
    BY <1>3, <1>4, <1>5 DEF IInv

LEMMA NextPreserves == IInv /\ [Next]_vars => IInv'
  <1> SUFFICES ASSUME IInv, [Next]_vars PROVE IInv'
    OBVIOUS
  <1>1. CASE UNCHANGED vars
    BY <1>1 DEF vars, IInv, TypeOK, Consistent, CapacityKept, Load, Born, Counted, Held
  <1>2. CASE StartTurn \/ Interrupt \/ TurnEnds
    BY <1>2, TurnSteps, QuietKeeps
  <1>3. CASE Close
    BY <1>3, CancelSteps, QuietKeeps, Types
  <1>4. ASSUME NEW a \in Session, Turn(a) \/ TimesOut(a)
        PROVE  IInv'
    <2>1. CASE Spawn(a)
      BY <2>1, SpawnStep
    <2>2. CASE Send(a)
      BY <2>2, SendStep
    <2>3. CASE \/ CancelledAtTop(a) \/ ModelFails(a) \/ ModelCalls(a) \/ NextCall(a)
               \/ CancelledInBatch(a) \/ CollectSnapshot(a) \/ Wait(a) \/ OtherCall(a)
               \/ TimesOut(a)
      BY <2>3, LabelSteps, QuietKeeps
    <2>4. CASE Request(a) \/ ModelReplies(a) \/ Join(a) \/ AgentsStopped(a)
      BY <2>4, DeliverySteps, QuietKeeps
    <2>5. CASE Cancel(a) \/ Dismiss(a) \/ Reset(a) \/ StopAgents(a)
      BY <2>5, CancelSteps, QuietKeeps
    <2>6. CASE Wake(a)
      BY <2>6, WakeStep, QuietKeeps
    <2> QED
      BY <1>4, <2>1, <2>2, <2>3, <2>4, <2>5, <2>6 DEF Turn
  <1>5. ASSUME NEW a \in Agent, Publish(a)
        PROVE  IInv'
    BY <1>5, PublishStep
  <1> QED
    BY <1>1, <1>2, <1>3, <1>4, <1>5 DEF Next

LEMMA Inductive == Spec => []IInv
  BY InitHolds, NextPreserves, PTL DEF Spec

\* Every variable keeps its type, whatever the sessions call, in whatever order
\* the goroutines run; with it, no agent runs more often than it was asked to.
THEOREM TypeCorrect == Spec => []TypeOK
  <1>1. IInv => TypeOK
    BY DEF IInv
  <1> QED
    BY <1>1, Inductive, PTL

\* However many sessions spawn at the same time, and whatever happens between a
\* child's admission and its start, the tree never holds more live agents nor
\* deeper ones than agentAdmissionLocked allows.
THEOREM CapacityHolds == Spec => []WithinCapacity
  <1>1. IInv => WithinCapacity
    BY DEF IInv, CapacityKept, WithinCapacity
  <1> QED
    BY <1>1, Inductive, PTL

(***************************************************************************)
(* No agent outlives the turn it works for, for every tree of agents.      *)
(***************************************************************************)

\* The ancestors of a node are its parent and that one's ancestors, agents that
\* were admitted before it, up to the root; on the way from an ancestor to the
\* node there is a child of that ancestor.
AboveChild(tree, q) == IF q = Root THEN {Root} ELSE tree[q].above \cup {q}

Placed(tree, n) ==
    /\ tree[n].parent \in Born(tree) \cup {Root}
    /\ tree[n].above = AboveChild(tree, tree[n].parent)
    /\ Root \in tree[n].above
    /\ tree[n].above \subseteq Born(tree) \cup {Root}
    /\ \A a \in tree[n].above :
          \/ tree[n].parent = a
          \/ \E c \in tree[n].above \ {Root} : tree[c].parent = a

Family == \A n \in Born(node) : Placed(node, n)

\* A turn that is over has no child at work, and gets none.
TurnsJoined ==
    \A a \in Session : act[a] \in {"done", "failed"} =>
       \A n \in Agent : node[n].working => node[n].parent # a

FInv == IInv /\ Family /\ TurnsJoined /\ NoOrphans

\* Every agent at work has the root above it, and a session that is over has
\* no agent at work below it at any depth.
LEMMA NobodyBelow ==
    ASSUME FInv, NEW a \in Session, act[a] \in {"done", "failed"},
           NEW n \in Agent, node[n].working
    PROVE  a \notin node[n].above
  <1>1. n \in Born(node)
    BY DEF FInv, NoOrphans, Born
  <1>2. node[n].parent # a
    BY DEF FInv, TurnsJoined
  <1>3. ASSUME NEW c \in node[n].above \ {Root}
        PROVE  node[c].parent # a
    <2>1. c \in Agent
      BY <1>1, <1>3 DEF FInv, Family, Placed, Born
    <2>2. node[c].working
      BY <1>3 DEF FInv, NoOrphans
    <2> QED
      BY <2>1, <2>2 DEF FInv, TurnsJoined
  <1> QED
    BY <1>1, <1>2, <1>3 DEF FInv, Family, Placed

LEMMA RootAbove ==
    ASSUME FInv, NEW n \in Agent, node[n].working
    PROVE  Root \in node[n].above
  BY DEF FInv, NoOrphans, Family, Placed, Born

(***************************************************************************)
(* A quiet step keeps the family, if it ends a turn only when its children *)
(* have stopped.                                                           *)
(***************************************************************************)

\* The turn of a that a step ends is one without children at work, and the
\* root leaves its turn only when nobody works.
EndsJoined ==
    /\ \A a \in Session : act'[a] \in {"done", "failed"} =>
          \/ act[a] \in {"done", "failed"}
          \/ \A n \in Agent : node[n].working => node[n].parent # a
    /\ \/ act'[Root] \in Turning
       \/ \A n \in Agent : ~node[n].working

LEMMA QuietKeepsFamily ==
    ASSUME FInv, Quiet, EndsJoined
    PROVE  FInv'
  <1>1. IInv'
    BY QuietKeeps DEF FInv
  <1>2. \A m \in Agent :
          /\ node'[m].parent = node[m].parent /\ node'[m].above = node[m].above
          /\ node'[m].working = node[m].working
          /\ node'[m].status # "unborn" <=> node[m].status # "unborn"
          /\ node[m].working => node'[m].status = node[m].status
    BY DEF Quiet, Shrinks
  <1>3. Born(node') = Born(node)
    BY <1>2 DEF Born
  <1>4. \A n \in Born(node) : node[n].above \ {Root} \subseteq Agent
    BY DEF FInv, Family, Placed, Born
  <1>5. Family'
    <2>1. ASSUME NEW n \in Born(node)
          PROVE  Placed(node', n)
      <3>1. Placed(node, n) /\ n \in Agent
        BY DEF FInv, Family, Born
      <3>2. node'[n].above = node[n].above /\ node'[n].parent = node[n].parent
        BY <1>2, <3>1
      <3>3. \A q \in Born(node) \cup {Root} : AboveChild(node', q) = AboveChild(node, q)
        BY <1>2 DEF AboveChild, Born
      <3>4. \A c \in node[n].above \ {Root} : node'[c].parent = node[c].parent
        BY <1>2, <1>4
      <3> QED
        BY <1>3, <3>1, <3>2, <3>3, <3>4 DEF Placed
    <2> QED
      BY <1>3, <2>1 DEF Family
  <1>6. TurnsJoined'
    BY <1>2 DEF EndsJoined, FInv, TurnsJoined
  <1>7. NoOrphans'
    <2>1. ASSUME NEW n \in Agent, node'[n].working
          PROVE  /\ node'[n].status = "live" /\ act'[Root] \in Turning
                 /\ \A k \in node'[n].above \ {Root} :
                       node'[k].working /\ node'[k].status = "live"
      <3>1. node[n].working /\ node[n].status = "live" /\ n \in Born(node)
        BY <1>2, <2>1 DEF FInv, NoOrphans, Born
      <3>2. \A k \in node[n].above \ {Root} :
               k \in Agent /\ node[k].working /\ node[k].status = "live"
        BY <1>4, <3>1 DEF FInv, NoOrphans
      <3>3. act'[Root] \in Turning
        BY <3>1 DEF EndsJoined
      <3> QED
        BY <1>2, <3>1, <3>2, <3>3
    <2> QED
      BY <2>1 DEF NoOrphans
  <1> QED
    BY <1>1, <1>5, <1>6, <1>7 DEF FInv

\* A session that goes on within its turn.
LEMMA GoesOn ==
    ASSUME FInv, NEW a \in Session, NEW label \in Turning \ {"done", "failed"},
           Goto(a, label)
    PROVE  EndsJoined
  <1>1. /\ \A m \in Session : act'[m] = IF m = a THEN label ELSE act[m]
    BY Types DEF FInv, Goto
  <1>2. act'[Root] \in Turning \/ \A n \in Agent : ~node[n].working
    BY <1>1, Types DEF FInv, NoOrphans
  <1> QED
    BY <1>1, <1>2 DEF EndsJoined

LEMMA GoingSteps ==
    ASSUME FInv, NEW a \in Session,
           \/ CancelledAtTop(a) \/ ModelFails(a) \/ ModelCalls(a) \/ NextCall(a)
           \/ CancelledInBatch(a) \/ CollectSnapshot(a) \/ Wait(a) \/ OtherCall(a)
           \/ TimesOut(a) \/ Request(a) \/ Join(a) \/ Cancel(a) \/ Dismiss(a)
           \/ Reset(a) \/ StopAgents(a) \/ Wake(a)
    PROVE  FInv'
  <1>1. PICK label \in Turning \ {"done", "failed"} : Goto(a, label)
    BY DEF CancelledAtTop, ModelFails, ModelCalls, NextCall, CancelledInBatch,
           CollectSnapshot, Wait, OtherCall, TimesOut, Request, Join, Cancel,
           Dismiss, Reset, StopAgents, Wake, Goto, Turning
  <1>2. EndsJoined
    BY <1>1, GoesOn
  <1>3. Quiet
    BY LabelSteps, DeliverySteps, CancelSteps, WakeStep DEF FInv
  <1> QED
    BY <1>2, <1>3, QuietKeepsFamily

\* A turn ends without children at work: a reply is the end of the turn only
\* then, and a turn that failed waits for all that is below it.
LEMMA EndingSteps ==
    ASSUME FInv, NEW a \in Session, ModelReplies(a) \/ AgentsStopped(a)
    PROVE  FInv'
  <1>1. PICK label \in Turning : Goto(a, label) /\ act[a] \in Turning
    BY DEF ModelReplies, AgentsStopped, Turning
  <1>2. \A m \in Session : act'[m] = IF m = a THEN label ELSE act[m]
    BY <1>1, Types DEF FInv, Goto
  <1>3. ASSUME label \in {"done", "failed"}, NEW n \in Agent, node[n].working
        PROVE  node[n].parent # a
    <2>1. node[n].status = "live" /\ n \in Born(node) /\ n \in Held(node)
      BY <1>3 DEF FInv, NoOrphans, Born, Held
    <2>2. CASE ModelReplies(a)
      <3>1. label # "joining"
        BY <1>3
      <3>2. act'[a] = label
        BY <1>2
      <3>3. act'[a] # "joining"
        BY <3>1, <3>2
      <3>4. Goto(a, "joining") => act'[a] = "joining"
        BY Types DEF FInv, Goto
      <3>5. Joined(a)
        BY <2>2, <3>3, <3>4 DEF ModelReplies
      <3> QED
        BY <1>3, <2>1, <3>5 DEF Joined, Children
    <2>3. CASE AgentsStopped(a)
      <3>1. SUFFICES ASSUME node[n].parent = a PROVE FALSE
        OBVIOUS
      <3>2. a \in node[n].above
        <4>1. Placed(node, n)
          BY <2>1 DEF FInv, Family
        <4>2. node[n].above = AboveChild(node, a)
          BY <3>1, <4>1 DEF Placed
        <4> QED
          BY <4>2 DEF AboveChild
      <3>3. \A k \in node[n].above \ {Root} : k \in Held(node)
        BY <1>3, <2>1 DEF FInv, NoOrphans, Family, Placed, Born, Held
      <3>4. n \in Below(node, a)
        BY <2>1, <3>2, <3>3 DEF Below
      <3> QED
        BY <1>3, <2>3, <3>4 DEF AgentsStopped, JoinedStop, SubtreeWorking
    <2> QED
      BY <2>2, <2>3
  <1>4. act'[Root] \in Turning \/ \A n \in Agent : ~node[n].working
    BY <1>1, <1>2, Types DEF FInv, NoOrphans
  <1>5. EndsJoined
    BY <1>2, <1>3, <1>4 DEF EndsJoined
  <1>6. Quiet
    BY DeliverySteps DEF FInv
  <1> QED
    BY <1>5, <1>6, QuietKeepsFamily

\* The root's turn begins, is interrupted and ends, and the chat is left.
LEMMA RootSteps ==
    ASSUME FInv, StartTurn \/ Interrupt \/ TurnEnds \/ Close
    PROVE  FInv'
  <1>1. Quiet
    BY TurnSteps, CancelSteps, Types DEF FInv
  <1>2. CASE StartTurn
    <2>1. EndsJoined
      BY <1>2, GoesOn, Types DEF FInv, StartTurn, Turning
    <2> QED
      BY <1>1, <2>1, QuietKeepsFamily
  <1>3. CASE Interrupt
    BY <1>1, <1>3, QuietKeepsFamily DEF Interrupt, EndsJoined, FInv, NoOrphans
  <1>4. CASE TurnEnds \/ Close
    <2>1. \A n \in Agent : ~node[n].working
      <3>1. CASE TurnEnds
        BY <3>1, NobodyBelow, RootAbove, Types DEF TurnEnds, FInv
      <3>2. CASE Close
        BY <3>2 DEF Close, FInv, NoOrphans, Turning
      <3> QED
        BY <1>4, <3>1, <3>2
    <2>2. \A m \in Session : act'[m] \in {"done", "failed"} => act[m] \in {"done", "failed"}
      BY <1>4, Types DEF TurnEnds, Close, Goto, FInv
    <2>3. EndsJoined
      BY <2>1, <2>2 DEF EndsJoined
    <2> QED
      BY <1>1, <2>3, QuietKeepsFamily
  <1> QED
    BY <1>2, <1>3, <1>4

(***************************************************************************)
(* The steps that start an agent, and the one that publishes a run.        *)
(***************************************************************************)

\* A session that makes a call is in its turn, and so is all that is above it.
LEMMA CallerWorks ==
    ASSUME FInv, NEW a \in Session, act[a] \in {"call", "sharing"}
    PROVE  /\ act[Root] \in Turning
           /\ a # Root => a \in Agent /\ node[a].working /\ node[a].status = "live"
           /\ \A k \in Above(a) \ {Root} :
                 k \in Agent /\ node[k].working /\ node[k].status = "live"
  <1>1. CASE a = Root
    BY <1>1 DEF Above, Turning
  <1>2. CASE a # Root
    <2>1. a \in Agent /\ node[a].working
      BY <1>2 DEF FInv, IInv, Consistent, Session
    <2>2. /\ node[a].status = "live" /\ act[Root] \in Turning
          /\ \A k \in node[a].above \ {Root} : node[k].working /\ node[k].status = "live"
      BY <2>1 DEF FInv, NoOrphans
    <2>3. node[a].above \ {Root} \subseteq Agent
      BY <2>1, <2>2 DEF FInv, Family, Placed, Born
    <2> QED
      BY <1>2, <2>1, <2>2, <2>3 DEF Above
  <1> QED
    BY <1>1, <1>2

LEMMA SpawnKeepsFamily ==
    ASSUME FInv, NEW a \in Session, Spawn(a)
    PROVE  FInv'
  <1>1. PICK n \in Agent, kind \in Kind :
           /\ node[n].status = "unborn"
           /\ node' = [node EXCEPT ![n] = [Unborn EXCEPT
                         !.status = "live", !.parent = a, !.above = Above(a),
                         !.kind = kind, !.working = TRUE]]
           /\ act' = [act EXCEPT ![a] = "tools", ![n] = "loop"]
    BY DEF Spawn
  <1>2. /\ node'[n].status = "live" /\ node'[n].parent = a /\ node'[n].above = Above(a)
        /\ \A m \in Agent \ {n} : node'[m] = node[m]
    BY <1>1, Types DEF FInv, Tree, Unborn
  <1>3. IInv'
    BY SpawnStep DEF FInv
  <1>4. act[a] \in {"call", "sharing"}
    BY DEF Spawn
  <1>5. n # a /\ n # Root
    BY <1>1, <1>4, CallerWorks, Types DEF FInv
  <1>6. \A m \in Session : act'[m] = IF m = n THEN "loop" ELSE IF m = a THEN "tools" ELSE act[m]
    BY <1>1, Types DEF FInv
  <1>7. Born(node') = Born(node) \cup {n} /\ n \notin Born(node) /\ Born(node) \subseteq Agent
    BY <1>1, <1>2 DEF Born
  <1>8. a \in Born(node) \cup {Root}
    BY <1>4, CallerWorks DEF Born
  <1>9. \A q \in Born(node) \cup {Root} : AboveChild(node', q) = AboveChild(node, q)
    BY <1>2, <1>7 DEF AboveChild
  <1>10. Family'
    <2>1. ASSUME NEW m \in Born(node)
          PROVE  Placed(node', m)
      <3>1. node'[m] = node[m] /\ Placed(node, m)
        BY <1>2, <1>7 DEF FInv, Family
      <3>2. \A c \in node[m].above \ {Root} : node'[c] = node[c]
        BY <1>2, <1>7, <3>1 DEF Placed
      <3> QED
        BY <1>7, <1>9, <3>1, <3>2 DEF Placed
    <2>2. Above(a) = AboveChild(node, a)
      BY DEF Above, AboveChild
    <2>3. /\ Root \in Above(a) /\ Above(a) \subseteq Born(node) \cup {Root}
          /\ \A b \in Above(a) :
                b = a \/ \E c \in Above(a) \ {Root} : node'[c].parent = b
      <3>1. CASE a = Root
        BY <3>1 DEF Above
      <3>2. CASE a # Root
        <4>1. a \in Born(node) /\ Above(a) = node[a].above \cup {a} /\ Placed(node, a)
          BY <1>8, <3>2 DEF Above, FInv, Family
        <4>2. node'[a] = node[a] /\ \A c \in node[a].above \ {Root} : node'[c] = node[c]
          BY <1>2, <1>7, <4>1 DEF Placed
        <4> QED
          BY <3>2, <4>1, <4>2 DEF Placed
      <3> QED
        BY <3>1, <3>2
    <2>4. Placed(node', n)
      BY <1>2, <1>7, <1>8, <1>9, <2>2, <2>3 DEF Placed
    <2> QED
      BY <1>7, <2>1, <2>4 DEF Family
  <1>11. TurnsJoined'
    <2>1. ASSUME NEW m \in Session, act'[m] \in {"done", "failed"},
                 NEW k \in Agent, node'[k].working
          PROVE  node'[k].parent # m
      <3>1. m # n /\ m # a /\ act[m] \in {"done", "failed"}
        BY <1>5, <1>6, <2>1
      <3> QED
        BY <1>2, <2>1, <3>1 DEF FInv, TurnsJoined
    <2> QED
      BY <2>1 DEF TurnsJoined
  <1>12. NoOrphans'
    <2>1. act'[Root] \in Turning
      BY <1>4, <1>5, <1>6, CallerWorks, Types DEF FInv, Turning
    <2>2. \A k \in Above(a) \ {Root} : node'[k].working /\ node'[k].status = "live"
      BY <1>1, <1>2, <1>4, CallerWorks
    <2>3. ASSUME NEW m \in Agent \ {n}, node'[m].working
          PROVE  /\ node'[m].status = "live"
                 /\ \A k \in node'[m].above \ {Root} :
                       node'[k].working /\ node'[k].status = "live"
      <3>1. node'[m] = node[m] /\ node[m].status = "live" /\ m \in Born(node)
        BY <1>2, <2>3 DEF FInv, NoOrphans, Born
      <3>2. \A k \in node[m].above \ {Root} : node'[k] = node[k]
        BY <1>2, <1>7, <3>1 DEF FInv, Family, Placed
      <3> QED
        BY <2>3, <3>1, <3>2 DEF FInv, NoOrphans
    <2> QED
      BY <1>2, <2>1, <2>2, <2>3 DEF NoOrphans
  <1> QED
    BY <1>3, <1>10, <1>11, <1>12 DEF FInv

\* The one that is sent a message is a child of the sender, whose own ancestors
\* are at work.
LEMMA SendKeepsFamily ==
    ASSUME FInv, NEW a \in Session, Send(a)
    PROVE  FInv'
  <1>1. PICK n \in Children(node, a) :
           \/ /\ node[n].working
              /\ node' = [node EXCEPT ![n].queue = @ + 1]
              /\ act' = [act EXCEPT ![a] = "tools"]
           \/ /\ node' = [node EXCEPT ![n].working = TRUE, ![n].cancelled = ContextDone(a)]
              /\ act' = [act EXCEPT ![a] = "tools", ![n] = "loop"]
    BY DEF Send, Goto
  <1>2. n \in Agent /\ node[n].status = "live" /\ node[n].parent = a /\ n \in Born(node)
    BY DEF Children, Held, Born
  <1>3. IInv'
    BY SendStep DEF FInv
  <1>4. act[a] \in {"call", "sharing"}
    BY DEF Send
  <1>5. /\ node[n] \in Node /\ node \in Tree
        /\ \A m \in Agent \ {n} : node'[m] = node[m]
    BY <1>1, <1>2, Types DEF FInv, Tree
  <1>6. /\ node'[n].status = node[n].status /\ node'[n].parent = node[n].parent
        /\ node'[n].above = node[n].above /\ node'[n].working
    <2>1. CASE node' = [node EXCEPT ![n].queue = @ + 1] /\ node[n].working
      BY <1>2, <1>5, <2>1 DEF Tree, Node
    <2>2. CASE node' = [node EXCEPT ![n].working = TRUE, ![n].cancelled = ContextDone(a)]
      BY <1>2, <1>5, <2>2 DEF Tree, Node
    <2> QED
      BY <1>1, <2>1, <2>2
  <1>7. /\ Root \notin Agent
        /\ \A m \in Session : act'[m] \in {act[m], "tools", "loop"}
        /\ n # a => act'[a] = "tools"
        /\ act'[a] \in {"tools", "loop"}
    BY <1>1, <1>2, Types DEF FInv, Session
  <1>8. Born(node') = Born(node) /\ \A m \in Agent :
           /\ node'[m].status = node[m].status /\ node'[m].parent = node[m].parent
           /\ node'[m].above = node[m].above
    BY <1>2, <1>5, <1>6 DEF Born
  <1>9. Family'
    <2>1. ASSUME NEW m \in Born(node)
          PROVE  Placed(node', m)
      <3>1. Placed(node, m) /\ m \in Agent
        BY DEF FInv, Family, Born
      <3>2. \A q \in Born(node) \cup {Root} : AboveChild(node', q) = AboveChild(node, q)
        BY <1>8 DEF AboveChild, Born
      <3>3. \A c \in node[m].above \ {Root} : node'[c].parent = node[c].parent
        BY <1>8, <3>1 DEF Placed, Born
      <3> QED
        BY <1>8, <3>1, <3>2, <3>3 DEF Placed
    <2> QED
      BY <1>8, <2>1 DEF Family
  <1>10. TurnsJoined'
    <2>1. ASSUME NEW m \in Session, act'[m] \in {"done", "failed"},
                 NEW k \in Agent, node'[k].working
          PROVE  node'[k].parent # m
      <3>1. m # a /\ act[m] \in {"done", "failed"}
        BY <1>7, <2>1
      <3>2. CASE k = n
        BY <1>2, <1>6, <3>1, <3>2
      <3>3. CASE k # n
        BY <1>5, <2>1, <3>1, <3>3 DEF FInv, TurnsJoined
      <3> QED
        BY <3>2, <3>3
    <2> QED
      BY <2>1 DEF TurnsJoined
  <1>11. NoOrphans'
    <2>1. act'[Root] \in Turning
      BY <1>4, <1>7, CallerWorks, Types DEF FInv, Turning
    <2>2. node[n].above = Above(a)
      BY <1>2 DEF FInv, Family, Placed, AboveChild, Above
    <2>3. ASSUME NEW k \in Agent, node[k].working
          PROVE  node'[k].working
      BY <1>5, <1>6, <2>3
    <2>4. \A k \in node'[n].above \ {Root} : node'[k].working /\ node'[k].status = "live"
      BY <1>4, <1>6, <1>8, <2>2, <2>3, CallerWorks
    <2>5. ASSUME NEW m \in Agent \ {n}, node'[m].working
          PROVE  /\ node'[m].status = "live"
                 /\ \A k \in node'[m].above \ {Root} :
                       node'[k].working /\ node'[k].status = "live"
      <3>1. node'[m] = node[m] /\ node[m].status = "live" /\ m \in Born(node)
        BY <1>5, <2>5 DEF FInv, NoOrphans, Born
      <3>2. \A k \in node[m].above \ {Root} :
               k \in Agent /\ node[k].working /\ node[k].status = "live"
        BY <2>5, <3>1 DEF FInv, NoOrphans, Family, Placed, Born
      <3> QED
        BY <1>8, <2>3, <3>1, <3>2
    <2> QED
      BY <1>2, <1>6, <2>1, <2>4, <2>5 DEF NoOrphans
  <1> QED
    BY <1>3, <1>9, <1>10, <1>11 DEF FInv

\* An agent that stops leaves nobody at work below it.
LEMMA PublishKeepsFamily ==
    ASSUME FInv, NEW a \in Agent, Publish(a)
    PROVE  FInv'
  <1>1. PICK blocked \in BOOLEAN, queue \in {0, node[a].queue}, stops \in BOOLEAN :
           /\ node' = [node EXCEPT
                 ![a].results = @ \cup carried[a] \cup {<<a, runs'[a]>>},
                 ![a].blocked = blocked,
                 ![a].queue = IF stops THEN queue ELSE queue - 1,
                 ![a].working = ~stops]
           /\ act' = [act EXCEPT ![a] = IF stops THEN "off" ELSE "loop"]
    BY DEF Publish, Goto
  <1>2. IInv'
    BY PublishStep DEF FInv
  <1>3. act[a] \in {"done", "failed"} /\ a \in Session /\ a # Root
    BY Types DEF Publish, FInv, Session
  <1>4. node[a].working /\ node[a].status = "live" /\ node[a] \in Node /\ node \in Tree
    BY <1>3, Types DEF FInv, IInv, Consistent, NoOrphans, Tree
  <1>5. /\ node'[a].status = node[a].status /\ node'[a].parent = node[a].parent
        /\ node'[a].above = node[a].above
        /\ \A m \in Agent \ {a} : node'[m] = node[m]
    BY <1>1, <1>4 DEF Tree, Node
  <1>6. \A m \in Session : act'[m] = IF m = a THEN (IF stops THEN "off" ELSE "loop") ELSE act[m]
    BY <1>1, <1>3, Types DEF FInv
  <1>7. Born(node') = Born(node) /\ \A m \in Agent :
           /\ node'[m].status = node[m].status /\ node'[m].parent = node[m].parent
           /\ node'[m].above = node[m].above
           /\ node'[m].working => node[m].working
    BY <1>4, <1>5 DEF Born
  <1>8. Family'
    <2>1. ASSUME NEW m \in Born(node)
          PROVE  Placed(node', m)
      <3>1. Placed(node, m) /\ m \in Agent
        BY DEF FInv, Family, Born
      <3>2. \A q \in Born(node) \cup {Root} : AboveChild(node', q) = AboveChild(node, q)
        BY <1>7 DEF AboveChild, Born
      <3>3. \A c \in node[m].above \ {Root} : node'[c].parent = node[c].parent
        BY <1>7, <3>1 DEF Placed, Born
      <3> QED
        BY <1>7, <3>1, <3>2, <3>3 DEF Placed
    <2> QED
      BY <1>7, <2>1 DEF Family
  <1>9. TurnsJoined'
    <2>1. \A m \in Session : act'[m] \in {"done", "failed"} => act[m] \in {"done", "failed"}
      BY <1>6
    <2> QED
      BY <1>7, <2>1 DEF FInv, TurnsJoined
  <1>10. NoOrphans'
    <2>1. act'[Root] \in Turning
      BY <1>3, <1>4, <1>6, Types DEF FInv, NoOrphans
    <2>2. ASSUME NEW m \in Agent, node'[m].working
          PROVE  /\ node'[m].status = "live"
                 /\ \A k \in node'[m].above \ {Root} :
                       node'[k].working /\ node'[k].status = "live"
      <3>1. node[m].working /\ node[m].status = "live" /\ m \in Born(node)
        BY <1>7, <2>2 DEF FInv, NoOrphans, Born
      <3>2. a \notin node[m].above
        BY <1>3, <3>1, NobodyBelow
      <3>3. \A k \in node[m].above \ {Root} :
               k \in Agent \ {a} /\ node[k].working /\ node[k].status = "live"
        BY <3>1, <3>2 DEF FInv, NoOrphans, Family, Placed, Born
      <3> QED
        BY <1>5, <1>7, <3>1, <3>3
    <2> QED
      BY <2>1, <2>2 DEF NoOrphans
  <1> QED
    BY <1>2, <1>8, <1>9, <1>10 DEF FInv

(***************************************************************************)
(* The theorem.                                                            *)
(***************************************************************************)

LEMMA FamilyAtFirst == Init => FInv
  <1> SUFFICES ASSUME Init PROVE FInv
    OBVIOUS
  <1>1. IInv
    BY InitHolds
  <1>2. \A a \in Agent : node[a].status = "unborn" /\ ~node[a].working
    BY DEF Init, Unborn
  <1> QED
    BY <1>1, <1>2 DEF FInv, Family, Born, TurnsJoined, NoOrphans

LEMMA FamilyKept == FInv /\ [Next]_vars => FInv'
  <1> SUFFICES ASSUME FInv, [Next]_vars PROVE FInv'
    OBVIOUS
  <1>1. CASE UNCHANGED vars
    <2>1. IInv'
      BY <1>1, NextPreserves DEF FInv
    <2>2. node' = node /\ act' = act
      BY <1>1 DEF vars
    <2> QED
      BY <2>1, <2>2 DEF FInv, Family, TurnsJoined, NoOrphans
  <1>2. CASE StartTurn \/ Interrupt \/ TurnEnds \/ Close
    BY <1>2, RootSteps
  <1>3. ASSUME NEW a \in Session, Turn(a) \/ TimesOut(a)
        PROVE  FInv'
    BY <1>3, GoingSteps, EndingSteps, SpawnKeepsFamily, SendKeepsFamily DEF Turn
  <1>4. ASSUME NEW a \in Agent, Publish(a)
        PROVE  FInv'
    BY <1>4, PublishKeepsFamily
  <1> QED
    BY <1>1, <1>2, <1>3, <1>4 DEF Next

\* An agent works only while the whole line above it, up to the root's turn,
\* is at work and in the tree: however calls, cancellations, failures and
\* deliveries interleave, no goroutine is left behind by the one it works for.
THEOREM NoAgentOrphaned == Spec => []NoOrphans
  <1>1. FInv => NoOrphans
    BY DEF FInv
  <1> QED
    BY <1>1, FamilyAtFirst, FamilyKept, PTL DEF Spec

(***************************************************************************)
(* The results of an agent's runs arrive once, for every tree of agents.   *)
(***************************************************************************)
CarriedBy(id) == {a \in Session : id \in carried[a]}
WaitsWith(id) == {n \in Held(node) : id \in node[n].results}

InOnePlace(id) ==
    \/ CarriedBy(id) = {} /\ \E n \in Agent : WaitsWith(id) = {n}
    \/ WaitsWith(id) = {} /\ \E a \in Session : CarriedBy(id) = {a}

Idle(a) == act[a] \in {"off", "closing", "done", "failed"}

\* A finished run is in one place, and one that is not finished nowhere.
ResultsPlaced ==
    /\ \A n \in Agent : \A k \in 1..runs[n] : InOnePlace(<<n, k>>)
    /\ \A n \in Agent : \A k \in 1..MaxRuns :
          k > runs[n] => CarriedBy(<<n, k>>) = {} /\ WaitsWith(<<n, k>>) = {}

\* A turn that is over has taken the results of its children, and what it
\* carried it has handed on.
ResultsTaken ==
    /\ \A a \in Session : Idle(a) => \A m \in Children(node, a) : node[m].results = {}
    /\ \A a \in Agent : act[a] = "off" => carried[a] = {}
    /\ \A a \in Agent : node[a].working => act[a] \notin {"off", "closing"}

DInv == FInv /\ ResultsPlaced /\ ResultsTaken

\* What the step leaves with the agents that are held.
ResultsStay ==
    /\ \A m \in Held(node') :
          \/ node'[m].results = {}
          \/ /\ m \in Held(node) /\ node'[m].results = node[m].results
             /\ node'[m].parent = node[m].parent
    /\ \A m \in Held(node) :
          \/ node[m].results = {}
          \/ m \in Held(node') /\ node'[m].results = node[m].results

\* No turn ends, and none begins without an agent at work.
TurnsGoOn ==
    /\ \A x \in Session : Idle(x)' => Idle(x)
    /\ \A x \in Agent : act'[x] = "off" => act[x] = "off"
    /\ \A x \in Agent : node'[x].working => act'[x] \notin {"off", "closing"}

LEMMA StayingSteps ==
    ASSUME DInv, ResultsStay, TurnsGoOn, UNCHANGED <<carried, runs>>
    PROVE  ResultsPlaced' /\ ResultsTaken'
  <1>1. ASSUME NEW id PROVE WaitsWith(id)' = WaitsWith(id) /\ CarriedBy(id)' = CarriedBy(id)
    <2>1. \A m : m \in WaitsWith(id)' => m \in WaitsWith(id)
      BY DEF WaitsWith, ResultsStay
    <2>2. \A m : m \in WaitsWith(id) => m \in WaitsWith(id)'
      BY DEF WaitsWith, ResultsStay
    <2> QED
      BY <2>1, <2>2 DEF CarriedBy
  <1>2. ResultsPlaced'
    BY <1>1 DEF DInv, ResultsPlaced, InOnePlace
  <1>3. ASSUME NEW a \in Session, Idle(a)', NEW m \in Children(node', a)
        PROVE  node'[m].results = {}
    <2>1. \A x \in Children(node, a) : node[x].results = {}
      BY <1>3 DEF DInv, ResultsTaken, TurnsGoOn
    <2>2. m \in Held(node') /\ node'[m].parent = a
      BY <1>3 DEF Children
    <2> QED
      BY <2>1, <2>2 DEF ResultsStay, Children
  <1>4. ResultsTaken'
    BY <1>3 DEF ResultsTaken, DInv, TurnsGoOn
  <1> QED
    BY <1>2, <1>4

(***************************************************************************)
(* What the operators on trees leave of the results.                       *)
(***************************************************************************)
LEMMA CancelledResults ==
    ASSUME NEW tree \in Tree, NEW nodes, NEW dismiss \in BOOLEAN, NEW m \in Agent
    PROVE  Cancelled(tree, nodes, dismiss)[m].results = tree[m].results
  <1> DEFINE new == Cancelled(tree, nodes, dismiss)
             under == UNION {Below(tree, n) : n \in nodes}
             ended == tree[m].ended \/ dismiss \/ m \in under
  <1>1. tree[m] \in Node
    BY DEF Tree
  <1>2. \/ new[m] = [tree[m] EXCEPT !.cancelled = TRUE, !.queue = 0, !.ended = ended]
        \/ new[m] = [tree[m] EXCEPT !.cancelled = TRUE]
        \/ new[m] = tree[m]
    BY DEF Cancelled
  <1> HIDE DEF new, ended
  <1> QED
    BY <1>1, <1>2 DEF Node, new

LEMMA TakenAway ==
    ASSUME NEW tree \in Tree, NEW a, NEW m \in Agent
    PROVE  TakenResults(tree, a)[m].results =
              IF m \in Children(tree, a) THEN {} ELSE tree[m].results
  <1>1. tree[m] \in Node
    BY DEF Tree
  <1> QED
    BY <1>1 DEF TakenResults, Node

LEMMA RetiredResults ==
    ASSUME NEW tree \in Tree, NEW nodes, NEW m \in Agent
    PROVE  Retired(tree, nodes)[m].results = tree[m].results
  <1> DEFINE new == Retired(tree, nodes)
  <1>1. tree[m] \in Node
    BY DEF Tree
  <1>2. new[m] = [tree[m] EXCEPT !.status = "retired"] \/ new[m] = tree[m]
    BY DEF Retired
  <1> HIDE DEF new
  <1> QED
    BY <1>1, <1>2 DEF Node, new

\* An agent that is not at work has taken the results of its children.
LEMMA StoppedParent ==
    ASSUME DInv, NEW p \in Agent, ~node[p].working, NEW m \in Held(node), node[m].parent = p
    PROVE  node[m].results = {}
  <1>1. Idle(p) /\ p \in Session
    BY DEF DInv, FInv, IInv, Consistent, Idle, Session
  <1> QED
    BY <1>1 DEF DInv, ResultsTaken, Children

\* What is retired below an agent has no result that is not delivered.
LEMMA RetiredBelow ==
    ASSUME DInv, NEW tree \in Tree, Shrinks(tree, node), NEW nodes \in SUBSET Agent,
           \A n \in nodes : ~tree[n].working,
           NEW m \in Held(tree), m \notin Held(Retired(tree, nodes)), m \notin nodes
    PROVE  node[m].results = {}
  <1> DEFINE stopped(x) == tree[x].ended /\ ~tree[x].working
  <1>1. /\ \A x \in Agent : /\ tree[x].parent = node[x].parent /\ tree[x].above = node[x].above
                            /\ tree[x].working = node[x].working
        /\ m \in Agent /\ m \in Held(node) /\ tree[m].status = "live"
    BY CountedShrinks DEF Shrinks, Held
  <1>2. /\ \E n \in nodes : m \in Below(tree, n)
        /\ \A k \in tree[m].above \ {Root} : tree[k].above \cap nodes # {} => stopped(k)
    BY <1>1 DEF Retired, Held
  <1>3. PICK n \in nodes : m \in Below(tree, n)
    BY <1>2
  <1>4. n \in node[m].above /\ n \in Agent /\ n # Root
    BY <1>1, <1>3, AgentTreeAssumption DEF Below
  <1> DEFINE p == node[m].parent
  <1>5. /\ p \in Born(node) \cup {Root} /\ node[m].above = AboveChild(node, p)
    <2>1. m \in Born(node)
      BY <1>1 DEF Born, Held
    <2> QED
      BY <2>1 DEF DInv, FInv, Family, Placed
  <1>6. p # Root /\ p \in Agent
    BY <1>4, <1>5 DEF AboveChild, Born
  <1>7. node[m].above = node[p].above \cup {p}
    BY <1>5, <1>6 DEF AboveChild
  <1>8. ~node[p].working
    <2>1. CASE p = n
      BY <1>1, <1>6, <2>1
    <2>2. CASE p # n
      <3>1. n \in tree[p].above /\ p \in tree[m].above \ {Root}
        BY <1>1, <1>4, <1>6, <1>7, <2>2
      <3>2. stopped(p)
        BY <1>2, <3>1
      <3> QED
        BY <1>1, <1>6, <3>2
    <2> QED
      BY <2>1, <2>2
  <1> QED
    BY <1>1, <1>6, <1>8, StoppedParent

(***************************************************************************)
(* The steps of a turn.                                                    *)
(***************************************************************************)

\* A delivery takes the results of the caller's children, and retires nobody
\* else who has one.
LEMMA DeliveredResults ==
    ASSUME DInv, NEW a \in Session, Deliver(a)
    PROVE  /\ \A m \in Held(node') :
                 /\ m \in Held(node) /\ node'[m].parent = node[m].parent
                 /\ node'[m].results = IF m \in Children(node, a) THEN {} ELSE node[m].results
           /\ \A m \in Held(node) \ Held(node') : m \in Children(node, a) \/ node[m].results = {}
  <1> DEFINE over == {n \in Children(node, a) :
                        /\ node[n].results # {} /\ ~node[n].working
                        /\ node[n].kind = "task" \/ node[n].ended}
             taken == TakenResults(node, a)
             stopped == Cancelled(taken, over, TRUE)
  <1>0. node \in Tree /\ TRUE \in BOOLEAN
    BY Types DEF DInv, FInv
  <1>1. Shrinks(taken, node) /\ \A m \in Agent : taken[m].status = node[m].status
    BY <1>0, TakenType
  <1>2. taken \in Tree
    BY <1>1 DEF Shrinks
  <1>3. Shrinks(stopped, taken) /\ \A m \in Agent : stopped[m].status = taken[m].status
    BY <1>2, CancelledType
  <1>4. stopped \in Tree
    BY <1>3 DEF Shrinks
  <1>5. Shrinks(stopped, node)
    BY <1>0, <1>1, <1>2, <1>3, <1>4, ShrinksTrans
  <1>6. node' = Retired(stopped, over)
    BY DEF Deliver, Delivered
  <1>7. Shrinks(node', node)
    BY DeliverType DEF DInv, FInv
  <1>8. over \subseteq Children(node, a) /\ over \in SUBSET Agent /\ \A n \in over : ~node[n].working
    BY DEF Children, Held
  <1> HIDE DEF over
  <1>9. ASSUME NEW m \in Agent
        PROVE  node'[m].results = IF m \in Children(node, a) THEN {} ELSE node[m].results
    <2>1. node'[m].results = stopped[m].results
      BY <1>4, <1>6, RetiredResults
    <2>2. stopped[m].results = taken[m].results
      BY <1>0, <1>2, CancelledResults
    <2>3. taken[m].results = IF m \in Children(node, a) THEN {} ELSE node[m].results
      BY <1>0, TakenAway
    <2> QED
      BY <2>1, <2>2, <2>3
  <1>10. Held(node') \subseteq Held(node)
    BY <1>7, CountedShrinks
  <1>11. \A m \in Held(node') : m \in Agent /\ node'[m].parent = node[m].parent
    BY <1>7 DEF Held, Shrinks
  <1>12. ASSUME NEW m \in Held(node) \ Held(node'), m \notin Children(node, a)
         PROVE  node[m].results = {}
    <2>1. \A n \in over : ~stopped[n].working
      BY <1>5, <1>8 DEF Shrinks
    <2>2. m \in Held(stopped)
      BY <1>1, <1>3 DEF Held
    <2>3. m \notin Held(Retired(stopped, over)) /\ m \notin over
      BY <1>6, <1>8, <1>12
    <2> HIDE DEF stopped
    <2> QED
      BY <1>4, <1>5, <1>8, <2>1, <2>2, <2>3, RetiredBelow
  <1> QED
    BY <1>9, <1>10, <1>11, <1>12

\* The deliveries a turn makes, its last one included.
TurnsMayEnd(a) ==
    /\ \A x \in Session : Idle(x)' => Idle(x) \/ x = a
    /\ \A x \in Agent : act'[x] = "off" => act[x] = "off" /\ x # a
    /\ \A x \in Agent : node'[x].working => act'[x] \notin {"off", "closing"}

LEMMA DeliveringSteps ==
    ASSUME DInv, NEW a \in Session, Deliver(a), runs' = runs, TurnsMayEnd(a)
    PROVE  ResultsPlaced' /\ ResultsTaken'
  <1>1. /\ \A m \in Held(node') :
                 /\ m \in Held(node) /\ node'[m].parent = node[m].parent
                 /\ node'[m].results = IF m \in Children(node, a) THEN {} ELSE node[m].results
        /\ \A m \in Held(node) \ Held(node') : m \in Children(node, a) \/ node[m].results = {}
    BY DeliveredResults
  <1>2. \A x \in Session : carried'[x] = IF x = a THEN carried[a] \cup Undelivered(node, a)
                                                 ELSE carried[x]
    BY Types DEF Deliver, DInv, FInv
  <1>3. ASSUME NEW id, id \notin Undelivered(node, a)
        PROVE  WaitsWith(id)' = WaitsWith(id) /\ CarriedBy(id)' = CarriedBy(id)
    <2>1. CarriedBy(id)' = CarriedBy(id)
      BY <1>2, <1>3 DEF CarriedBy
    <2>2. \A n \in Children(node, a) : id \notin node[n].results
      BY <1>3 DEF Undelivered
    <2>3. \A m : m \in WaitsWith(id)' => m \in WaitsWith(id)
      BY <1>1 DEF WaitsWith
    <2>4. \A m : m \in WaitsWith(id) => m \in WaitsWith(id)'
      BY <1>1, <2>2 DEF WaitsWith
    <2> QED
      BY <2>1, <2>3, <2>4
  <1>4. ASSUME NEW id, id \in Undelivered(node, a), InOnePlace(id)
        PROVE  WaitsWith(id)' = {} /\ CarriedBy(id)' = {a}
    <2>1. PICK n \in Children(node, a) : id \in node[n].results
      BY <1>4 DEF Undelivered
    <2>2. n \in WaitsWith(id)
      BY <2>1 DEF WaitsWith, Children
    <2>3. WaitsWith(id) = {n} /\ CarriedBy(id) = {}
      BY <1>4, <2>2 DEF InOnePlace
    <2>4. CarriedBy(id)' = {a}
      BY <1>2, <1>4, <2>3 DEF CarriedBy
    <2>5. \A m : m \in WaitsWith(id)' => m \in WaitsWith(id) /\ m \notin Children(node, a)
      BY <1>1 DEF WaitsWith
    <2> QED
      BY <2>1, <2>3, <2>4, <2>5
  <1>5. ASSUME NEW id, InOnePlace(id)
        PROVE  InOnePlace(id)'
    <2>1. CASE id \notin Undelivered(node, a)
      BY <1>3, <1>5, <2>1 DEF InOnePlace
    <2>2. CASE id \in Undelivered(node, a)
      BY <1>4, <1>5, <2>2 DEF InOnePlace
    <2> QED
      BY <2>1, <2>2
  <1>6. ASSUME NEW id, WaitsWith(id) = {}
        PROVE  id \notin Undelivered(node, a)
    BY <1>6 DEF Undelivered, WaitsWith, Children
  <1>7. ResultsPlaced'
    <2>1. ASSUME NEW n \in Agent, NEW k \in 1..runs'[n]
          PROVE  InOnePlace(<<n, k>>)'
      <3>1. InOnePlace(<<n, k>>)
        BY DEF DInv, ResultsPlaced
      <3> QED
        BY <1>5, <3>1
    <2>2. ASSUME NEW n \in Agent, NEW k \in 1..MaxRuns, k > runs'[n]
          PROVE  CarriedBy(<<n, k>>)' = {} /\ WaitsWith(<<n, k>>)' = {}
      <3>1. CarriedBy(<<n, k>>) = {} /\ WaitsWith(<<n, k>>) = {}
        BY <2>2 DEF DInv, ResultsPlaced
      <3>2. <<n, k>> \notin Undelivered(node, a)
        BY <1>6, <3>1
      <3> QED
        BY <1>3, <3>1, <3>2
    <2> QED
      BY <2>1, <2>2 DEF ResultsPlaced
  <1>8. ASSUME NEW x \in Session, Idle(x)', NEW m \in Children(node', x)
        PROVE  node'[m].results = {}
    <2>1. m \in Held(node') /\ m \in Children(node, x)
      BY <1>1, <1>8 DEF Children
    <2>2. CASE x = a
      BY <1>1, <2>1, <2>2
    <2>3. CASE Idle(x)
      BY <1>1, <2>1, <2>3 DEF DInv, ResultsTaken
    <2> QED
      BY <1>8, <2>2, <2>3 DEF TurnsMayEnd
  <1>9. \A x \in Agent : act'[x] = "off" => carried'[x] = {}
    BY <1>2 DEF TurnsMayEnd, DInv, ResultsTaken, Session
  <1>10. ResultsTaken'
    BY <1>8, <1>9 DEF ResultsTaken, TurnsMayEnd
  <1> QED
    BY <1>7, <1>10

LEMMA InItsTurn ==
    ASSUME DInv, NEW a \in Session, NEW label \in Turning, Goto(a, label), act[a] \in Turning,
           \A x \in Agent : node'[x].working => node[x].working
    PROVE  TurnsMayEnd(a) /\ (label \notin {"done", "failed"} => TurnsGoOn)
  <1>1. \A x \in Session : act'[x] = IF x = a THEN label ELSE act[x]
    BY Types DEF DInv, FInv, Goto
  <1>2. label \notin {"off", "closing"} /\ \A x \in Agent : x \in Session
    BY DEF Turning, Session
  <1>3. \A x \in Agent : node[x].working => act[x] \notin {"off", "closing"}
    BY DEF DInv, ResultsTaken
  <1>4. \A x \in Agent : /\ node'[x].working => act'[x] \notin {"off", "closing"}
                         /\ act'[x] = "off" => act[x] = "off" /\ x # a
    BY <1>1, <1>2, <1>3
  <1>5. \A x \in Session : Idle(x)' => Idle(x) \/ x = a
    BY <1>1 DEF Idle
  <1>6. ASSUME label \notin {"done", "failed"}
        PROVE  \A x \in Session : Idle(x)' => Idle(x)
    BY <1>1, <1>2, <1>6 DEF Idle
  <1> QED
    BY <1>4, <1>5, <1>6 DEF TurnsMayEnd, TurnsGoOn

\* A tree whose nodes keep their status, their parent and their results.
LEMMA SameResults ==
    ASSUME \A m \in Agent : /\ node'[m].status = node[m].status
                            /\ node'[m].parent = node[m].parent
                            /\ node'[m].results = node[m].results
    PROVE  ResultsStay
  BY DEF ResultsStay, Held

LEMMA CancelledStay ==
    ASSUME IInv, NEW nodes, NEW dismiss \in BOOLEAN, node' = Cancelled(node, nodes, dismiss)
    PROVE  ResultsStay
  <1>0. node \in Tree
    BY Types
  <1>1. /\ Shrinks(Cancelled(node, nodes, dismiss), node)
        /\ \A m \in Agent : Cancelled(node, nodes, dismiss)[m].status = node[m].status
    BY <1>0, CancelledType
  <1>2. \A m \in Agent : Cancelled(node, nodes, dismiss)[m].results = node[m].results
    BY <1>0, CancelledResults
  <1> QED
    BY <1>1, <1>2, SameResults DEF Shrinks

LEMMA ResultsWithinTurn ==
    ASSUME DInv, NEW a \in Session,
           \/ CancelledAtTop(a) \/ ModelFails(a) \/ ModelCalls(a) \/ NextCall(a)
           \/ CancelledInBatch(a) \/ CollectSnapshot(a) \/ Wait(a) \/ OtherCall(a)
           \/ TimesOut(a) \/ Cancel(a) \/ Dismiss(a) \/ Reset(a) \/ StopAgents(a)
    PROVE  ResultsPlaced' /\ ResultsTaken'
  <1>0. IInv
    BY DEF DInv, FInv
  <1>1. PICK label \in Turning \ {"done", "failed"} : Goto(a, label) /\ act[a] \in Turning
    BY DEF CancelledAtTop, ModelFails, ModelCalls, NextCall, CancelledInBatch,
           CollectSnapshot, Wait, OtherCall, TimesOut, Cancel, Dismiss, Reset,
           StopAgents, Goto, Turning
  <1>2. Quiet
    BY <1>0, LabelSteps, CancelSteps
  <1>3. \A x \in Agent : node'[x].working => node[x].working
    BY <1>2 DEF Quiet, Shrinks
  <1>4. TurnsGoOn
    BY <1>1, <1>3, InItsTurn
  <1>5. UNCHANGED <<carried, runs>>
    BY DEF CancelledAtTop, ModelFails, ModelCalls, NextCall, CancelledInBatch,
           CollectSnapshot, Wait, OtherCall, TimesOut, Cancel, Dismiss, Reset, StopAgents
  <1>6. ResultsStay
    <2>1. CASE Cancel(a) \/ Dismiss(a)
      <3>1. PICK n \in Children(node, a), dismiss \in BOOLEAN : node' = Cancelled(node, {n}, dismiss)
        BY <2>1 DEF Cancel, Dismiss
      <3> QED
        BY <1>0, <3>1, CancelledStay
    <2>2. CASE Reset(a)
      <3>1. PICK n \in Children(node, a) : node' = Cancelled(node, Children(node, n), TRUE)
        BY <2>2 DEF Reset
      <3> QED
        BY <1>0, <3>1, CancelledStay
    <2>3. CASE StopAgents(a)
      <3>1. node' = Cancelled(node, {n \in Children(node, a) : node[n].working}, FALSE)
        BY <2>3 DEF StopAgents, StoppedNow
      <3>2. FALSE \in BOOLEAN
        OBVIOUS
      <3> QED
        BY <1>0, <3>1, <3>2, CancelledStay
    <2>4. CASE node' = node
      BY <2>4, SameResults
    <2> QED
      BY <2>1, <2>2, <2>3, <2>4 DEF CancelledAtTop, ModelFails, ModelCalls, NextCall,
         CancelledInBatch, CollectSnapshot, Wait, OtherCall, TimesOut
  <1> QED
    BY <1>4, <1>5, <1>6, StayingSteps

LEMMA ResultsOfDelivery ==
    ASSUME DInv, NEW a \in Session,
           Request(a) \/ ModelReplies(a) \/ Join(a) \/ AgentsStopped(a)
    PROVE  ResultsPlaced' /\ ResultsTaken'
  <1>0. IInv
    BY DEF DInv, FInv
  <1>1. PICK label \in Turning : Goto(a, label) /\ act[a] \in Turning
    BY DEF Request, ModelReplies, Join, AgentsStopped, Turning
  <1>2. Quiet /\ runs' = runs
    BY <1>0, DeliverySteps DEF Quiet
  <1>3. \A x \in Agent : node'[x].working => node[x].working
    BY <1>2 DEF Quiet, Shrinks
  <1>4. TurnsMayEnd(a) /\ (label \notin {"done", "failed"} => TurnsGoOn)
    BY <1>1, <1>3, InItsTurn
  <1>5. CASE Deliver(a)
    BY <1>2, <1>4, <1>5, DeliveringSteps
  <1>6. CASE ModelReplies(a) /\ ~Joined(a)
    <2>1. UNCHANGED <<node, carried>> /\ Goto(a, "joining") /\ "joining" \in Turning
      BY <1>6 DEF ModelReplies, Turning
    <2>2. TurnsGoOn
      BY <1>1, <1>3, <2>1, InItsTurn
    <2>3. ResultsStay
      BY <2>1, SameResults
    <2> QED
      BY <1>2, <2>1, <2>2, <2>3, StayingSteps
  <1> QED
    BY <1>5, <1>6 DEF Request, ModelReplies, Join, AgentsStopped

LEMMA ResultsOfRoot ==
    ASSUME DInv, StartTurn \/ Interrupt \/ TurnEnds \/ Close
    PROVE  ResultsPlaced' /\ ResultsTaken'
  <1>0. IInv /\ UNCHANGED <<carried, runs>>
    BY DEF DInv, FInv, StartTurn, Interrupt, TurnEnds, Close
  <1>1. Quiet
    BY <1>0, TurnSteps, CancelSteps, Types
  <1>2. \A x \in Agent : node'[x].working => node[x].working
    BY <1>1 DEF Quiet, Shrinks
  <1>3. /\ \A x \in Agent : act'[x] = act[x]
        /\ act'[Root] \in {"off", "closing"} => Idle(Root)
        /\ act'[Root] \in {"done", "failed"} => Idle(Root)
    BY <1>0, Types DEF StartTurn, Interrupt, TurnEnds, Close, Goto, Idle, Session
  <1>4. TurnsGoOn
    <2>1. \A x \in Agent : node'[x].working => act'[x] \notin {"off", "closing"}
      BY <1>2, <1>3 DEF DInv, ResultsTaken
    <2>2. \A x \in Session : Idle(x)' => Idle(x)
      BY <1>3 DEF Idle, Session
    <2> QED
      BY <1>3, <2>1, <2>2 DEF TurnsGoOn
  <1>5. ResultsStay
    <2>1. CASE StartTurn \/ TurnEnds
      BY <2>1, SameResults DEF StartTurn, TurnEnds
    <2>2. CASE Interrupt
      <3>1. ASSUME NEW m \in Agent
            PROVE  /\ node'[m].status = node[m].status /\ node'[m].parent = node[m].parent
                   /\ node'[m].results = node[m].results
        <4>1. node'[m] = [node[m] EXCEPT !.cancelled = @ \/ node[m].working]
          BY <2>2 DEF Interrupt
        <4>2. node[m] \in Node
          BY <1>0, Types DEF Tree
        <4> QED
          BY <4>1, <4>2 DEF Node
      <3> QED
        BY <3>1, SameResults
    <2>3. CASE Close
      <3>1. TRUE \in BOOLEAN
        OBVIOUS
      <3> QED
        BY <1>0, <2>3, <3>1, CancelledStay DEF Close
    <2> QED
      BY <2>1, <2>2, <2>3
  <1> QED
    BY <1>0, <1>4, <1>5, StayingSteps

\* A dismissed agent is let go when all below it has stopped and its results
\* have been taken.
LEMMA ResultsOfWake ==
    ASSUME DInv, NEW a \in Session, Wake(a)
    PROVE  ResultsPlaced' /\ ResultsTaken'
  <1>0. IInv /\ node \in Tree
    BY Types DEF DInv, FInv
  <1>1. PICK n \in aim[a] :
           /\ act[a] \in Turning
           /\ \/ node' = node
              \/ node' = Retired(node, {n}) /\ ~node[n].working /\ node[n].results = {}
              \/ node' = [node EXCEPT ![n].blocked = FALSE]
    BY DEF Wake, StoppedBelow, Turning
  <1>2. n \in Agent
    BY <1>0, Types DEF Born
  <1>3. Quiet
    BY <1>0, WakeStep
  <1>4. TurnsGoOn
    <2>1. Goto(a, "tools") /\ "tools" \in Turning \ {"done", "failed"}
      BY DEF Wake, Turning
    <2>2. \A x \in Agent : node'[x].working => node[x].working
      BY <1>3 DEF Quiet, Shrinks
    <2> QED
      BY <1>1, <2>1, <2>2, InItsTurn
  <1>5. ResultsStay
    <2>1. CASE node' = node
      BY <2>1, SameResults
    <2>2. CASE node' = [node EXCEPT ![n].blocked = FALSE]
      <3>1. node[n] \in Node
        BY <1>0, <1>2 DEF Tree
      <3>2. node'[n] = [node[n] EXCEPT !.blocked = FALSE] /\ \A m \in Agent \ {n} : node'[m] = node[m]
        BY <1>0, <1>2, <2>2 DEF Tree
      <3>3. /\ node'[n].status = node[n].status /\ node'[n].parent = node[n].parent
            /\ node'[n].results = node[n].results
        BY <3>1, <3>2 DEF Node
      <3>4. \A m \in Agent : /\ node'[m].status = node[m].status
                             /\ node'[m].parent = node[m].parent
                             /\ node'[m].results = node[m].results
        BY <3>2, <3>3
      <3> QED
        BY <3>4, SameResults
    <2>3. CASE node' = Retired(node, {n}) /\ ~node[n].working /\ node[n].results = {}
      <3>1. Shrinks(node, node) /\ {n} \in SUBSET Agent /\ \A x \in {n} : ~node[x].working
        BY <1>0, <1>2, <2>3, Types
      <3>2. ASSUME NEW m \in Held(node) \ Held(node')
            PROVE  node[m].results = {}
        <4>1. CASE m \in {n}
          BY <2>3, <4>1
        <4>2. CASE m \notin {n}
          <5>1. m \in Held(node) /\ m \notin Held(Retired(node, {n}))
            BY <2>3, <3>2
          <5> QED
            BY <1>0, <3>1, <4>2, <5>1, RetiredBelow
        <4> QED
          BY <4>1, <4>2
      <3>3. \A m \in Agent : node'[m].results = node[m].results
        BY <1>0, <2>3, RetiredResults
      <3>4. Held(node') \subseteq Held(node) /\ \A m \in Held(node') : m \in Agent /\ node'[m].parent = node[m].parent
        BY <1>3, CountedShrinks DEF Quiet, Shrinks, Held
      <3>5. \A m \in Held(node) : m \in Agent
        BY DEF Held
      <3> QED
        BY <3>2, <3>3, <3>4, <3>5 DEF ResultsStay
    <2> QED
      BY <1>1, <2>1, <2>2, <2>3
  <1> QED
    BY <1>4, <1>5, StayingSteps DEF Wake

\* An agent that is admitted has no result, and one that is sent a message
\* keeps those it has.
LEMMA ResultsOfStart ==
    ASSUME DInv, NEW a \in Session, Spawn(a) \/ Send(a)
    PROVE  ResultsPlaced' /\ ResultsTaken'
  <1>0. IInv /\ node \in Tree
    BY Types DEF DInv, FInv
  <1>1. ASSUME NEW n \in Agent, a \in Agent => n # a, act[a] \in {"call", "sharing"},
               \A m \in Agent \ {n} : node'[m] = node[m],
               \/ act' = [act EXCEPT ![a] = "tools"] /\ node[n].working
               \/ act' = [act EXCEPT ![a] = "tools", ![n] = "loop"]
        PROVE  TurnsGoOn
    <2>1. /\ \A x \in Session : x \notin {a, n} => act'[x] = act[x]
          /\ act'[a] = "tools"
          /\ act'[n] = "loop" \/ (act'[n] = act[n] /\ node[n].working)
      BY <1>0, <1>1, Types DEF Session
    <2>2. \A x \in Session : Idle(x)' => Idle(x)
      BY <2>1 DEF Idle
    <2>3. \A x \in Agent : act'[x] = "off" => act[x] = "off"
      BY <2>1 DEF Session
    <2>4. \A x \in Agent : node'[x].working => act'[x] \notin {"off", "closing"}
      <3>1. \A x \in Agent : node[x].working => act[x] \notin {"off", "closing"}
        BY DEF DInv, ResultsTaken
      <3> QED
        BY <1>1, <2>1, <3>1 DEF Session
    <2> QED
      BY <2>2, <2>3, <2>4 DEF TurnsGoOn
  <1>2. CASE Spawn(a)
    <2>1. PICK n \in Agent, kind \in Kind :
             /\ node[n].status = "unborn"
             /\ node' = [node EXCEPT ![n] = [Unborn EXCEPT
                           !.status = "live", !.parent = a, !.above = Above(a),
                           !.kind = kind, !.working = TRUE]]
             /\ act' = [act EXCEPT ![a] = "tools", ![n] = "loop"]
      BY <1>2 DEF Spawn
    <2>2. node'[n].results = {} /\ \A m \in Agent \ {n} : node'[m] = node[m]
      BY <1>0, <2>1 DEF Tree, Unborn
    <2>3. n \notin Held(node)
      BY <2>1 DEF Held
    <2>4. ResultsStay
      BY <2>2, <2>3 DEF ResultsStay, Held
    <2>5. act[a] \in {"call", "sharing"} /\ UNCHANGED <<carried, runs>>
      BY <1>2 DEF Spawn
    <2>6. a \in Agent => n # a
      BY <1>0, <2>1, <2>5 DEF IInv, Consistent
    <2>7. TurnsGoOn
      BY <1>1, <2>1, <2>2, <2>5, <2>6
    <2> QED
      BY <2>4, <2>5, <2>7, StayingSteps
  <1>3. CASE Send(a)
    <2>1. PICK n \in Children(node, a) :
             \/ /\ node[n].working
                /\ node' = [node EXCEPT ![n].queue = @ + 1]
                /\ act' = [act EXCEPT ![a] = "tools"]
             \/ /\ node' = [node EXCEPT ![n].working = TRUE, ![n].cancelled = ContextDone(a)]
                /\ act' = [act EXCEPT ![a] = "tools", ![n] = "loop"]
      BY <1>3 DEF Send, Goto
    <2>2. n \in Agent /\ node[n].parent = a /\ node[n] \in Node /\ n \in Born(node)
      BY <1>0 DEF Children, Held, Tree, Born
    <2>3. /\ node'[n].status = node[n].status /\ node'[n].parent = node[n].parent
          /\ node'[n].results = node[n].results
          /\ \A m \in Agent \ {n} : node'[m] = node[m]
      BY <1>0, <2>1, <2>2 DEF Tree, Node
    <2>4. ResultsStay
      BY <2>3, SameResults
    <2>5. act[a] \in {"call", "sharing"} /\ UNCHANGED <<carried, runs>>
      BY <1>3 DEF Send
    <2>6. TurnsGoOn
      <3>1. CASE a \in Agent => n # a
        BY <1>1, <2>1, <2>2, <2>3, <2>5, <3>1
      <3>2. CASE a = n
        <4>1. \A x \in Session : x # a => act'[x] = act[x]
          BY <1>0, <2>1, <3>2, Types
        <4>2. act'[a] \in {"tools", "loop"}
          BY <1>0, <2>1, <3>2, Types
        <4>3. \A x \in Agent : node[x].working => act[x] \notin {"off", "closing"}
          BY DEF DInv, ResultsTaken
        <4>4. \A x \in Agent : node'[x].working => act'[x] \notin {"off", "closing"}
          BY <2>3, <3>2, <4>1, <4>2, <4>3 DEF Session
        <4>5. \A x \in Session : Idle(x)' => Idle(x)
          BY <4>1, <4>2 DEF Idle
        <4> QED
          BY <4>1, <4>2, <4>4, <4>5 DEF TurnsGoOn, Session
      <3> QED
        BY <3>1, <3>2
    <2> QED
      BY <2>4, <2>5, <2>6, StayingSteps
  <1> QED
    BY <1>2, <1>3

\* A finished run is left with its agent, whose parent is still in its turn,
\* and with it what the agent's own children had left with it.
LEMMA ResultsOfPublish ==
    ASSUME DInv, NEW a \in Agent, Publish(a)
    PROVE  ResultsPlaced' /\ ResultsTaken'
  <1>0. IInv /\ node \in Tree /\ a \in Session /\ act[a] \in {"done", "failed"}
    BY Types DEF DInv, FInv, Publish, Session
  <1>1. PICK blocked \in BOOLEAN, queue \in {0, node[a].queue}, stops \in BOOLEAN :
           /\ node' = [node EXCEPT
                 ![a].results = @ \cup carried[a] \cup {<<a, runs'[a]>>},
                 ![a].blocked = blocked,
                 ![a].queue = IF stops THEN queue ELSE queue - 1,
                 ![a].working = ~stops]
           /\ act' = [act EXCEPT ![a] = IF stops THEN "off" ELSE "loop"]
    BY DEF Publish, Goto
  <1>2. /\ runs \in [Agent -> 0..MaxRuns] /\ runs' \in [Agent -> 0..MaxRuns]
        /\ runs' = [runs EXCEPT ![a] = runs[a] + 1]
    BY <1>0, PublishStep DEF IInv, TypeOK, Publish
  <1>3. PICK r \in 1..MaxRuns :
           /\ runs'[a] = r /\ r = runs[a] + 1
           /\ \A n \in Agent : n # a => runs'[n] = runs[n]
           /\ \A n \in Agent : runs[n] \in Nat
    <2>1. runs'[a] = runs[a] + 1 /\ runs[a] \in Nat /\ runs'[a] \in 0..MaxRuns
      BY <1>2, AgentTreeAssumption
    <2>2. runs'[a] \in 1..MaxRuns
      BY <2>1, AgentTreeAssumption
    <2> QED
      BY <1>2, <2>1, <2>2, AgentTreeAssumption
  <1>4. node[a].working /\ node[a].status = "live" /\ node[a] \in Node
    BY <1>0 DEF IInv, Consistent, DInv, FInv, NoOrphans, Tree
  <1>5. /\ node'[a].status = "live" /\ node'[a].parent = node[a].parent
        /\ node'[a].results = node[a].results \cup carried[a] \cup {<<a, r>>}
        /\ node'[a].working = ~stops
        /\ \A m \in Agent \ {a} : node'[m] = node[m]
    BY <1>0, <1>1, <1>3, <1>4 DEF Tree, Node
  <1>6. \A x \in Session : act'[x] = IF x = a THEN (IF stops THEN "off" ELSE "loop") ELSE act[x]
    BY <1>0, <1>1, Types
  <1>7. \A x \in Session : carried'[x] = IF x = a THEN {} ELSE carried[x]
    BY <1>0, Types DEF Publish
  <1>8. ASSUME NEW id
        PROVE  /\ CarriedBy(id)' = CarriedBy(id) \ {a}
               /\ id \in carried[a] \/ id = <<a, r>> => WaitsWith(id)' = WaitsWith(id) \cup {a}
               /\ ~(id \in carried[a] \/ id = <<a, r>>) => WaitsWith(id)' = WaitsWith(id)
    <2>1. CarriedBy(id)' = CarriedBy(id) \ {a}
      BY <1>7 DEF CarriedBy
    <2>2. \A m \in Agent \ {a} : m \in WaitsWith(id)' <=> m \in WaitsWith(id)
      BY <1>5 DEF WaitsWith, Held
    <2>3. a \in WaitsWith(id) <=> id \in node[a].results
      BY <1>4 DEF WaitsWith, Held
    <2>4. a \in WaitsWith(id)' <=> id \in node[a].results \/ id \in carried[a] \/ id = <<a, r>>
      BY <1>5 DEF WaitsWith, Held
    <2>5. WaitsWith(id) \subseteq Agent /\ WaitsWith(id)' \subseteq Agent
      BY DEF WaitsWith, Held
    <2> QED
      BY <2>1, <2>2, <2>3, <2>4, <2>5
  <1>9. CarriedBy(<<a, r>>) = {} /\ WaitsWith(<<a, r>>) = {}
    <2>1. r > runs[a]
      BY <1>3
    <2> QED
      BY <2>1 DEF DInv, ResultsPlaced
  <1>10. InOnePlace(<<a, r>>)'
    BY <1>8, <1>9 DEF InOnePlace
  <1>11. ASSUME NEW id, InOnePlace(id), id # <<a, r>>
         PROVE  InOnePlace(id)'
    <2>1. CASE id \in carried[a]
      <3>1. a \in CarriedBy(id)
        BY <1>0, <2>1 DEF CarriedBy
      <3>2. CarriedBy(id) = {a} /\ WaitsWith(id) = {}
        BY <1>11, <3>1 DEF InOnePlace
      <3> QED
        BY <1>8, <2>1, <3>2 DEF InOnePlace
    <2>2. CASE id \notin carried[a]
      <3>1. a \notin CarriedBy(id)
        BY <2>2 DEF CarriedBy
      <3>2. CarriedBy(id)' = CarriedBy(id) /\ WaitsWith(id)' = WaitsWith(id)
        BY <1>8, <1>11, <2>2, <3>1
      <3> QED
        BY <1>11, <3>2 DEF InOnePlace
    <2> QED
      BY <2>1, <2>2
  <1>12. ResultsPlaced'
    <2>1. ASSUME NEW n \in Agent, NEW k \in 1..runs'[n]
          PROVE  InOnePlace(<<n, k>>)'
      <3>1. CASE n = a /\ k = r
        BY <1>10, <3>1
      <3>2. CASE ~(n = a /\ k = r)
        <4>1. k \in 1..runs[n]
          BY <1>3, <3>2
        <4>2. InOnePlace(<<n, k>>)
          BY <4>1 DEF DInv, ResultsPlaced
        <4> QED
          BY <1>11, <3>2, <4>2
      <3> QED
        BY <3>1, <3>2
    <2>2. ASSUME NEW n \in Agent, NEW k \in 1..MaxRuns, k > runs'[n]
          PROVE  CarriedBy(<<n, k>>)' = {} /\ WaitsWith(<<n, k>>)' = {}
      <3>1. k > runs[n] /\ <<n, k>> # <<a, r>>
        BY <1>3, <2>2
      <3>2. CarriedBy(<<n, k>>) = {} /\ WaitsWith(<<n, k>>) = {}
        BY <3>1 DEF DInv, ResultsPlaced
      <3>3. <<n, k>> \notin carried[a]
        BY <1>0, <3>2 DEF CarriedBy
      <3> QED
        BY <1>8, <3>1, <3>2, <3>3
    <2> QED
      BY <2>1, <2>2 DEF ResultsPlaced
  <1>13. ~Idle(node[a].parent) /\ node[a].parent \in Session
    <2> DEFINE p == node[a].parent
    <2>1. a \in Born(node)
      BY <1>4 DEF Born
    <2>2. p \in Session /\ (p # Root => p \in node[a].above \ {Root} /\ p \in Agent)
      <3>1. p \in Born(node) \cup {Root} /\ node[a].above = AboveChild(node, p)
        BY <2>1 DEF DInv, FInv, Family, Placed
      <3>2. p = Root \/ p \in Agent
        BY <3>1 DEF Born
      <3>3. CASE p # Root
        BY <3>1, <3>2, <3>3 DEF AboveChild, Session
      <3>4. CASE p = Root
        BY <3>4 DEF Session
      <3> QED
        BY <3>3, <3>4
    <2>3. act[p] \notin {"done", "failed"}
      BY <1>4, <2>2 DEF DInv, FInv, TurnsJoined
    <2>4. act[p] \notin {"off", "closing"}
      <3>1. CASE p = Root
        BY <1>4, <3>1 DEF DInv, FInv, NoOrphans, Turning
      <3>2. CASE p # Root
        <4>1. node[p].working
          BY <1>4, <2>2, <3>2 DEF DInv, FInv, NoOrphans
        <4> QED
          BY <2>2, <3>2, <4>1 DEF DInv, ResultsTaken
      <3> QED
        BY <3>1, <3>2
    <2> QED
      BY <2>2, <2>3, <2>4 DEF Idle
  <1>14. \A x \in Session : Idle(x)' => Idle(x)
    BY <1>0, <1>6 DEF Idle
  <1>15. ASSUME NEW x \in Session, Idle(x)', NEW m \in Children(node', x)
         PROVE  node'[m].results = {}
    <2>1. m \in Agent /\ m # a
      BY <1>5, <1>13, <1>14, <1>15 DEF Children, Held
    <2>2. m \in Children(node, x)
      BY <1>5, <1>15, <2>1 DEF Children, Held
    <2>3. node[m].results = {}
      BY <1>14, <1>15, <2>2 DEF DInv, ResultsTaken
    <2> QED
      BY <1>5, <2>1, <2>3
  <1>16. \A x \in Agent : act'[x] = "off" => carried'[x] = {}
    BY <1>6, <1>7 DEF DInv, ResultsTaken, Session
  <1>17. \A x \in Agent : node'[x].working => act'[x] \notin {"off", "closing"}
    BY <1>5, <1>6 DEF DInv, ResultsTaken, Session
  <1>18. ResultsTaken'
    BY <1>15, <1>16, <1>17 DEF ResultsTaken
  <1> QED
    BY <1>12, <1>18

(***************************************************************************)
(* The theorem.                                                            *)
(***************************************************************************)
LEMMA ResultsAtFirst == Init => DInv
  <1> SUFFICES ASSUME Init PROVE DInv
    OBVIOUS
  <1>1. FInv
    BY FamilyAtFirst
  <1>2. \A a \in Agent : /\ node[a].results = {} /\ ~node[a].working /\ node[a].status = "unborn"
                         /\ runs[a] = 0
    BY DEF Init, Unborn
  <1>3. \A a \in Session : carried[a] = {}
    BY DEF Init
  <1>4. Held(node) = {}
    BY <1>2 DEF Held
  <1>5. ResultsPlaced
    BY <1>2, <1>3, <1>4 DEF ResultsPlaced, CarriedBy, WaitsWith
  <1>6. ResultsTaken
    BY <1>2, <1>3, <1>4 DEF ResultsTaken, Children, Session
  <1> QED
    BY <1>1, <1>5, <1>6 DEF DInv

LEMMA ResultsKept == DInv /\ [Next]_vars => DInv'
  <1> SUFFICES ASSUME DInv, [Next]_vars PROVE DInv'
    OBVIOUS
  <1>1. FInv'
    BY FamilyKept DEF DInv
  <1>2. CASE UNCHANGED vars
    <2>1. UNCHANGED <<node, act, carried, runs>>
      BY <1>2 DEF vars
    <2>2. ResultsPlaced'
      BY <2>1 DEF DInv, ResultsPlaced, InOnePlace, CarriedBy, WaitsWith
    <2>3. ResultsTaken'
      BY <2>1 DEF DInv, ResultsTaken, Idle
    <2> QED
      BY <1>1, <2>2, <2>3 DEF DInv
  <1>3. CASE StartTurn \/ Interrupt \/ TurnEnds \/ Close
    BY <1>1, <1>3, ResultsOfRoot DEF DInv
  <1>4. ASSUME NEW a \in Session, Turn(a) \/ TimesOut(a)
        PROVE  ResultsPlaced' /\ ResultsTaken'
    BY <1>4, ResultsWithinTurn, ResultsOfDelivery, ResultsOfWake, ResultsOfStart DEF Turn
  <1>5. ASSUME NEW a \in Agent, Publish(a)
        PROVE  ResultsPlaced' /\ ResultsTaken'
    BY <1>5, ResultsOfPublish
  <1> QED
    BY <1>1, <1>2, <1>3, <1>4, <1>5 DEF Next, DInv

LEMMA PlacedOnce == DInv => DeliveredOnce
  <1> SUFFICES ASSUME DInv, NEW n \in Agent, NEW k \in 1..runs[n]
               PROVE  Cardinality(Holders(<<n, k>>)) = 1
    BY DEF DeliveredOnce
  <1> DEFINE id == <<n, k>>
  <1>1. InOnePlace(id)
    BY DEF DInv, ResultsPlaced
  <1>2. Holders(id) = CarriedBy(id) \cup {<<m>> : m \in WaitsWith(id)}
    BY DEF Holders, CarriedBy, WaitsWith
  <1> HIDE DEF id
  <1>3. \E h : Holders(id) = {h}
    <2>1. CASE CarriedBy(id) = {} /\ \E m \in Agent : WaitsWith(id) = {m}
      <3>1. PICK m \in Agent : WaitsWith(id) = {m}
        BY <2>1
      <3>2. Holders(id) = {<<m>>}
        BY <1>2, <2>1, <3>1
      <3> QED
        BY <3>2
    <2>2. CASE WaitsWith(id) = {} /\ \E a \in Session : CarriedBy(id) = {a}
      BY <1>2, <2>2
    <2> QED
      BY <1>1, <2>1, <2>2 DEF InOnePlace
  <1> QED
    BY <1>3, FS_Singleton DEF id

LEMMA AllWithRoot == DInv => AllReported
  <1> SUFFICES ASSUME DInv, act[Root] = "off", NEW n \in Agent, NEW k \in 1..runs[n]
               PROVE  <<n, k>> \in carried[Root]
    BY DEF AllReported
  <1>1. \A m \in Agent : ~node[m].working
    BY DEF DInv, FInv, NoOrphans, Turning
  <1>2. \A m \in Agent : act[m] = "off" /\ carried[m] = {}
    BY <1>1 DEF DInv, FInv, IInv, Consistent, ResultsTaken
  <1>3. ASSUME NEW m \in Held(node)
        PROVE  node[m].results = {}
    <2>1. m \in Agent /\ m \in Born(node)
      BY DEF Held, Born
    <2>2. node[m].parent \in Born(node) \cup {Root}
      BY <2>1 DEF DInv, FInv, Family, Placed
    <2>3. node[m].parent \in Session /\ Idle(node[m].parent)
      BY <1>2, <2>2 DEF Born, Session, Idle
    <2> QED
      BY <2>3 DEF DInv, ResultsTaken, Children
  <1>4. WaitsWith(<<n, k>>) = {}
    BY <1>3 DEF WaitsWith
  <1>5. PICK a \in Session : CarriedBy(<<n, k>>) = {a}
    BY <1>4 DEF DInv, ResultsPlaced, InOnePlace
  <1>6. <<n, k>> \in carried[a]
    BY <1>5 DEF CarriedBy
  <1> QED
    BY <1>2, <1>6 DEF Session

\* The effects of a finished run are in one place from the step that publishes
\* it, and when a turn is over the root has them all: the deliveries before a
\* request, after a join and at the end of a turn, the dismissals that let an
\* agent go and the cancellations in between neither lose a result nor hand it
\* to two turns.
THEOREM ResultsAreDelivered == Spec => []ResultsArrive
  <1>1. DInv => ResultsArrive
    BY PlacedOnce, AllWithRoot DEF ResultsArrive
  <1> QED
    BY <1>1, ResultsAtFirst, ResultsKept, PTL DEF Spec

=============================================================================
