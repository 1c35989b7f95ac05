---------------------------- MODULE WorkflowEngine ----------------------------
(***************************************************************************)
(* One run of a workflow: TopologicalOrder (Kahn's algorithm), the          *)
(* projection hints, and Engine.Run's loop over the nodes.                  *)
(*                                                                          *)
(* The frames are a heap: a frame is named by the node that allocated it,   *)
(* and outputs[n] is the frame node n returned, which for an output node is *)
(* the very frame it was given.  Of a frame the model keeps its columns,    *)
(* its number of rows and its Truncated and SourceID metadata.              *)
(*                                                                          *)
(* What an expression, a query or a key matches is not modelled: a filter   *)
(* keeps any number of its rows, a source returns any number of rows, and a *)
(* node that can fail (expression, connection, timeout) may fail.           *)
(***************************************************************************)
EXTENDS WorkflowDefinition

CONSTANTS
    Definitions, \* the definitions that can be saved
    MaxRows,     \* Engine.maxRows
    SourceRows,  \* bound on the rows a source returns
    Prefix,      \* a join's RightPrefix, put before a column's name
    NoNode

ASSUME EngineAssumption ==
    /\ Definitions \subseteq Definition
    /\ MaxRows \in Nat \ {0} /\ SourceRows \in Nat
    /\ Prefix \in [Columns -> Columns]
    /\ NoNode \notin NodeIds

VARIABLES
    def,      \* the definition being run
    pc,
    i,        \* index of the loop over the nodes or over the order
    queue, order, indegree,
    todo,     \* TopologicalOrder: edges of the dequeued node not yet visited
    hints,    \* projectionHints' result, {} for none
    bfs,      \* collectProjectedColumns: its queue and its set seen
    visits,   \* history: nodes collectProjectedColumns has dequeued
    frames, outputs,
    results,  \* RunResult.NodeResults: the nodes, in the order reported
    output    \* RunResult.Output

sorting == <<queue, order, indegree, todo>>
hinting == <<hints, bfs, visits>>
running == <<frames, outputs, results, output>>
vars == <<def, pc, i, queue, order, indegree, todo, hints, bfs, visits,
          frames, outputs, results, output>>

Ended == {"rejected", "failed", "panicked", "internal", "succeeded"}

\* wide (history): the columns it would have without projection hints, and if
\* it were not empty.
\* cut (history): rows were dropped from it or from a frame it derives from.
Frame == [cols : SUBSET Columns, rows : 0..MaxRows, truncated : BOOLEAN,
          origin : NodeIds \cup {NoNode}, wide : SUBSET Columns, cut : BOOLEAN]

NoFrame == [cols |-> {}, rows |-> 0, truncated |-> FALSE, origin |-> NoNode,
            wide |-> {}, cut |-> FALSE]

\* Every variable stays in its domain.
TypeOK ==
    /\ def \in Definitions
    /\ pc \in {"validate", "seed", "pop", "relax", "hint", "collect", "run"} \cup Ended
    /\ i \in Nat
    /\ queue \in Seq(NodeIds) /\ order \in Seq(NodeIds)
    /\ indegree \in [NodeIds -> Nat]
    /\ todo \in SUBSET EdgesOf(def)
    /\ hints \in [NodeIds -> SUBSET Columns]
    /\ bfs \in [queue : Seq(NodeIds), seen : SUBSET Columns]
    /\ visits \in Nat
    /\ frames \in [NodeIds -> Frame]
    /\ outputs \in [NodeIds -> NodeIds \cup {NoNode}]
    /\ results \in Seq(NodeIds)
    /\ output \in NodeIds \cup {NoNode}

Init ==
    /\ def \in Definitions
    /\ pc = "validate"
    /\ i = 1
    /\ queue = <<>> /\ order = <<>>
    /\ indegree = [n \in NodeIds |-> 0]
    /\ todo = {}
    /\ hints = [n \in NodeIds |-> {}]
    /\ bfs = [queue |-> <<>>, seen |-> {}]
    /\ visits = 0
    /\ frames = [n \in NodeIds |-> NoFrame]
    /\ outputs = [n \in NodeIds |-> NoNode]
    /\ results = <<>>
    /\ output = NoNode

Config(n) == def.config[n]

-----------------------------------------------------------------------------
(* Validate and TopologicalOrder.                                           *)

Validate ==
    /\ pc = "validate"
    /\ \/ Validated(def) /\ pc' = "seed" /\ indegree' = [n \in NodeIds |-> Cardinality(In(def, n))]
       \/ ~Validated(def) /\ pc' = "rejected" /\ UNCHANGED indegree
    /\ UNCHANGED <<def, i, queue, order, todo, hinting, running>>

\* Faulty variant: the loop does not get past a node with incoming edges.
SeedStuck ==
    /\ pc = "seed"
    /\ i <= Len(def.nodes)
    /\ indegree[def.nodes[i]] = 0
    /\ queue' = Append(queue, def.nodes[i])
    /\ i' = i + 1
    /\ UNCHANGED <<def, pc, order, indegree, todo, hinting, running>>

\* The loop that queues the nodes without incoming edges.
Seed ==
    /\ pc = "seed"
    /\ i <= Len(def.nodes)
    /\ queue' = IF indegree[def.nodes[i]] = 0 THEN Append(queue, def.nodes[i]) ELSE queue
    /\ i' = i + 1
    /\ UNCHANGED <<def, pc, order, indegree, todo, hinting, running>>

Seeded ==
    /\ pc = "seed"
    /\ i > Len(def.nodes)
    /\ pc' = "pop"
    /\ UNCHANGED <<def, i, sorting, hinting, running>>

Pop ==
    /\ pc = "pop"
    /\ queue # <<>>
    /\ order' = Append(order, Head(queue))
    /\ queue' = Tail(queue)
    /\ todo' = Out(def, Head(queue))
    /\ pc' = "relax"
    /\ UNCHANGED <<def, i, indegree, hinting, running>>

\* Faulty variant: the target is queued when the first edge into it is visited.
RelaxFirst(e) ==
    LET n == def.edges[e].target IN
    /\ pc = "relax"
    /\ e \in todo /\ \A f \in todo : e <= f
    /\ indegree' = [indegree EXCEPT ![n] = @ - 1]
    /\ queue' = IF indegree[n] = Cardinality(In(def, n)) THEN Append(queue, n) ELSE queue
    /\ todo' = todo \ {e}
    /\ UNCHANGED <<def, pc, i, order, hinting, running>>

\* Faulty variant: parallel edges are visited once but were counted each.
RelaxOnce(e) ==
    LET n == def.edges[e].target IN
    /\ pc = "relax"
    /\ e \in todo /\ \A f \in todo : e <= f
    /\ indegree' = [indegree EXCEPT ![n] = @ - 1]
    /\ queue' = IF indegree[n] = 1 THEN Append(queue, n) ELSE queue
    /\ todo' = todo \ In(def, n)
    /\ UNCHANGED <<def, pc, i, order, hinting, running>>

\* The next edge of the dequeued node, in the order of the definition.
Relax(e) ==
    LET n == def.edges[e].target IN
    /\ pc = "relax"
    /\ e \in todo /\ \A f \in todo : e <= f
    /\ indegree' = [indegree EXCEPT ![n] = @ - 1]
    /\ queue' = IF indegree[n] = 1 THEN Append(queue, n) ELSE queue
    /\ todo' = todo \ {e}
    /\ UNCHANGED <<def, pc, i, order, hinting, running>>

Relaxed ==
    /\ pc = "relax"
    /\ todo = {}
    /\ pc' = "pop"
    /\ UNCHANGED <<def, i, sorting, hinting, running>>

Sorted ==
    /\ pc = "pop"
    /\ queue = <<>>
    /\ pc' = IF Len(order) = Len(def.nodes) THEN "hint" ELSE "rejected"
    /\ i' = 1
    /\ UNCHANGED <<def, sorting, hinting, running>>

-----------------------------------------------------------------------------
(* projectionHints.                                                         *)

\* buildDAG's adjacency list of n.
Downstream(n) ==
    LET upto[k \in 0..Len(def.edges)] ==
            IF k = 0 THEN <<>>
            ELSE IF def.edges[k].source = n THEN Append(upto[k - 1], def.edges[k].target)
            ELSE upto[k - 1]
    IN upto[Len(def.edges)]

NextHint ==
    /\ pc = "hint"
    /\ i <= Len(def.nodes)
    /\ LET n == def.nodes[i] IN
       \/ /\ Config(n).type = "source"
          /\ pc' = "collect"
          /\ bfs' = [queue |-> Downstream(n), seen |-> {}]
          /\ UNCHANGED i
       \/ Config(n).type # "source" /\ i' = i + 1 /\ UNCHANGED <<pc, bfs>>
    /\ UNCHANGED <<def, sorting, hints, visits, running>>

Hinted ==
    /\ pc = "hint"
    /\ i > Len(def.nodes)
    /\ pc' = "run"
    /\ i' = 1
    /\ UNCHANGED <<def, sorting, hinting, running>>

\* collectProjectedColumns for source def.nodes[i]: a transform, or a config
\* that does not parse, gives the hint up; a join is not looked past; a node
\* is dequeued once for every path to it.
Collect ==
    LET n == Head(bfs.queue)
        opaque == Config(n).type = "transform" \/
                  (Config(n).type \in {"filter", "aggregate", "join"} /\ Config(n).form = "malformed")
        further == IF Config(n).type = "join" THEN <<>> ELSE Downstream(n)
    IN
    /\ pc = "collect"
    /\ \/ /\ bfs.queue = <<>>
          /\ hints' = [hints EXCEPT ![def.nodes[i]] = bfs.seen]
          /\ pc' = "hint" /\ i' = i + 1
          /\ UNCHANGED <<bfs, visits>>
       \/ /\ bfs.queue # <<>> /\ opaque
          /\ pc' = "hint" /\ i' = i + 1
          /\ visits' = visits + 1
          /\ UNCHANGED <<hints, bfs>>
       \/ /\ bfs.queue # <<>> /\ ~opaque
          /\ bfs' = [queue |-> Tail(bfs.queue) \o further, seen |-> bfs.seen \cup Config(n).words]
          /\ visits' = visits + 1
          /\ UNCHANGED <<pc, i, hints>>
    /\ UNCHANGED <<def, sorting, running>>

-----------------------------------------------------------------------------
(* A node's inputs: for every incoming edge, in order, the upstream frame   *)
(* is stored under the edge's handle and under the upstream node's id.      *)

Keys(n) == UNION {{def.edges[e].handle, def.edges[e].source} : e \in In(def, n)}

Writers(n, key) == {e \in In(def, n) : key \in {def.edges[e].handle, def.edges[e].source}}

\* The frame under a key, as a set: the last edge that writes the key wins.
Input(n, key) ==
    {outputs[def.edges[e].source] : e \in {e \in Writers(n, key) : \A f \in Writers(n, key) : f <= e}}

\* SingleInput: the default handle, or else whichever key the map's iteration
\* meets first.
SingleInput(n) ==
    IF "default" \in Keys(n) THEN Input(n, "default") ELSE UNION {Input(n, k) : k \in Keys(n)}

-----------------------------------------------------------------------------
(* The executors: the frames node n can return.                             *)

\* A frame built row by row has the columns of its rows, and none when empty.
Fresh(cols, wide, rows, cut) ==
    [NoFrame EXCEPT !.cols = IF rows = 0 THEN {} ELSE cols, !.wide = wide,
                    !.rows = rows, !.cut = cut]

Fetched(n) == IF Config(n).sql /\ hints[n] # {} THEN hints[n] ELSE Config(n).gives

SourceFrames(n) ==
    {[Fresh(Fetched(n), Config(n).gives, rows, cut) EXCEPT !.truncated = cut] :
        rows \in 0..SourceRows, cut \in BOOLEAN}

FilterFrames(in) == {[in EXCEPT !.rows = rows] : rows \in 0..in.rows}

TransformFrames(n, in) == {Fresh(Config(n).gives, Config(n).gives, in.rows, in.cut)}

\* A row of the right frame put beside one of the left.
Beside(left, right) == left \cup {IF c \in left THEN Prefix[c] ELSE c : c \in right}

\* pairs: matching rows.  alone: left rows without a match.
JoinFrames(n, left, right) ==
    LET made(pairs, alone) == IF Config(n).outer THEN pairs + alone ELSE pairs IN
    {Fresh(IF pa[1] = 0 THEN left.cols ELSE Beside(left.cols, right.cols),
           IF pa[1] = 0 /\ made(pa[1], pa[2]) > 0 THEN left.wide ELSE Beside(left.wide, right.wide),
           made(pa[1], pa[2]), left.cut \/ right.cut) :
        pa \in {pa \in (0..left.rows * right.rows) \X (0..left.rows) :
                    /\ pa[1] <= (left.rows - pa[2]) * right.rows
                    /\ pa[1] >= left.rows - pa[2]}}

AggregateFrames(n, in) ==
    LET cols == Config(n).needs \cup Config(n).gives IN
    {Fresh(cols, cols, rows, in.cut) :
        rows \in IF in.rows = 0 THEN {0} ELSE IF Config(n).needs = {} THEN {1} ELSE 1..in.rows}

\* GroupBy requires the group-by columns, and indexes the columns it aggregates
\* row by row without looking whether they exist.
Grouped(n, in) == Config(n).needs \subseteq in.cols
OutOfRange(n, in) == Grouped(n, in) /\ in.rows > 0 /\ ~(Config(n).reads \subseteq in.cols)

\* The frames a join is given: a pair, when both handles are wired.
Sides(n) == {<<frames[l], frames[r]>> : l \in Input(n, "left"), r \in Input(n, "right")}
Joined(n, side) == Config(n).needs \subseteq side[1].cols /\ Config(n).needsRight \subseteq side[2].cols

\* The frames node n, not an output node, can return.
Executes(n) ==
    LET ins == {frames[f] : f \in SingleInput(n)} IN
    CASE Config(n).type = "source"    -> SourceFrames(n)
      [] Config(n).type = "filter"    -> UNION {FilterFrames(in) : in \in ins}
      [] Config(n).type = "transform" -> UNION {TransformFrames(n, in) : in \in ins}
      [] Config(n).type = "join"      -> UNION {JoinFrames(n, side[1], side[2]) : side \in Sides(n)}
      [] Config(n).type = "aggregate" -> UNION {AggregateFrames(n, in) :
             in \in {f \in ins : Grouped(n, f) /\ ~OutOfRange(n, f)}}

\* A join indexes the rows of the right frame by a key that may be a JSON
\* object, which cannot be hashed.
Unhashable(side) == side[1].rows + side[2].rows > 0

Panics(n) ==
    /\ Config(n).form = "ok"
    /\ \/ Config(n).type = "aggregate" /\ \E f \in SingleInput(n) : OutOfRange(n, frames[f])
       \/ Config(n).type = "join" /\ \E side \in Sides(n) : Joined(n, side) /\ Unhashable(side)

\* A query can fail, by its timeout too, and an expression can on any row.
MayFail(n) ==
    \/ Config(n).type = "source"
    \/ Config(n).type \in {"filter", "transform"} /\ \E f \in SingleInput(n) : frames[f].rows > 0

\* An output node has no config.
Refuses(n) ==
    \/ Config(n).type # "output" /\ Config(n).form # "ok"
    \/ Config(n).type = "source" /\ ~(Fetched(n) \subseteq Config(n).gives)
    \/ Config(n).type = "join" /\ ~\E side \in Sides(n) : Joined(n, side)
    \/ Config(n).type \notin {"source", "join"} /\ SingleInput(n) = {}
    \/ Config(n).type = "aggregate" /\ \E f \in SingleInput(n) : ~Grouped(n, frames[f])

Accepts(n) ==
    /\ Config(n).type # "output" => Config(n).form = "ok"
    /\ Config(n).type = "source" => Fetched(n) \subseteq Config(n).gives
    /\ Config(n).type = "join" => \E side \in Sides(n) : Joined(n, side)

\* Faulty variant: the cap is forgotten.
CappedNot(f, n) == [f EXCEPT !.origin = n]

\* Faulty variant: only output nodes are capped.
CappedAtOutput(f, n) ==
    LET over == Config(n).type = "output" /\ f.rows > MaxRows - 1 IN
    [f EXCEPT !.origin = n, !.rows = IF over THEN MaxRows - 1 ELSE @,
              !.truncated = @ \/ over, !.cut = @ \/ over]

LimitRows(f) ==
    IF f.rows > MaxRows THEN [f EXCEPT !.rows = MaxRows, !.truncated = TRUE, !.cut = TRUE] ELSE f

\* What the engine does to the frame node n returned.
Capped(f, n) == [LimitRows(f) EXCEPT !.origin = n]

-----------------------------------------------------------------------------
(* Engine.Run's loop.                                                       *)

Current == order[i]
AtNode == pc = "run" /\ i <= Len(order)
InputsReady(n) == \A e \in In(def, n) : outputs[def.edges[e].source] # NoNode

\* Faulty variant: the loop goes on after a node failed.
NodeFailsOn ==
    LET ready == InputsReady(Current) IN
    /\ AtNode
    /\ ready => MayFail(Current) \/ Refuses(Current)
    /\ results' = IF ready THEN Append(results, Current) ELSE results
    /\ pc' = IF ready THEN pc ELSE "internal"
    /\ i' = IF ready THEN i + 1 ELSE i
    /\ UNCHANGED <<def, sorting, hinting, frames, outputs, output>>

\* A node executed before its dependency is an internal error, any other
\* failure is reported as the node's.
NodeFails ==
    LET ready == InputsReady(Current) IN
    /\ AtNode
    /\ ready => MayFail(Current) \/ Refuses(Current)
    /\ results' = IF ready THEN Append(results, Current) ELSE results
    /\ pc' = IF ready THEN "failed" ELSE "internal"
    /\ UNCHANGED <<def, i, sorting, hinting, frames, outputs, output>>

NodePanics ==
    /\ AtNode
    /\ InputsReady(Current)
    /\ Panics(Current)
    /\ pc' = "panicked"
    /\ UNCHANGED <<def, i, sorting, hinting, running>>

NodeRuns ==
    LET n == Current IN
    /\ AtNode
    /\ InputsReady(n)
    /\ Accepts(n)
    /\ \/ /\ Config(n).type = "output"
          /\ \E ref \in SingleInput(n) :
               /\ frames' = [frames EXCEPT ![ref] = Capped(@, n)]
               /\ outputs' = [outputs EXCEPT ![n] = ref]
               /\ output' = ref
       \/ /\ Config(n).type # "output"
          /\ \E f \in Executes(n) : frames' = [frames EXCEPT ![n] = Capped(f, n)]
          /\ outputs' = [outputs EXCEPT ![n] = n]
          /\ output' = n
    /\ results' = Append(results, n)
    /\ i' = i + 1
    /\ UNCHANGED <<def, pc, sorting, hinting>>

\* The last output node's frame, if there is an output node.
Finish ==
    LET outs == {k \in 1..Len(order) : Config(order[k]).type = "output"} IN
    /\ pc = "run"
    /\ i > Len(order)
    /\ output' = IF outs = {} THEN output
                 ELSE outputs[order[CHOOSE k \in outs : \A l \in outs : l <= k]]
    /\ pc' = "succeeded"
    /\ UNCHANGED <<def, i, sorting, hinting, frames, outputs, results>>

-----------------------------------------------------------------------------
Next ==
    \/ Validate \/ Seed \/ Seeded \/ Pop \/ Relaxed \/ Sorted
    \/ \E e \in EdgesOf(def) : Relax(e)
    \/ NextHint \/ Hinted \/ Collect
    \/ NodeFails \/ NodePanics \/ NodeRuns \/ Finish

Spec == Init /\ [][Next]_vars

\* One goroutine does all of this, and every node ends by its timeout.
FairSpec == Spec /\ WF_vars(Next)

-----------------------------------------------------------------------------
(* What a run promises.                                                     *)

\* The engine implements WorkflowRun: the nodes that ran are those with a row
\* in NodeResults, and sorting and hinting are steps of a run that is running.
Reported == {results[k] : k \in 1..Len(results)}
Outcome == IF pc \in Ended THEN pc ELSE "running"
Run == INSTANCE WorkflowRun WITH ran <- Reported, status <- Outcome
RunSpec == Run!Spec

\* The "internal error" that Run guards against cannot happen: whatever the
\* graph, parallel edges included, TopologicalOrder puts a node after all the
\* nodes it reads from.
NoInternalError == pc # "internal"

\* TopologicalOrder's verdict is right: a definition that passes the other
\* checks is rejected exactly when a cycle is in it, self-loops included.
RejectsExactlyCycles ==
    /\ pc = "rejected" => ~Sound(def)
    /\ pc \in {"hint", "collect", "run"} => Sound(def)

\* Frames are shared, not copied, between the branches that read them, and
\* still a node never changes the data of a frame that another produced:
\* capping an output node's frame finds it capped already.
DataIsImmutable ==
    [][\A n \in NodeIds : outputs[n] # NoNode =>
         LET f == outputs[n] IN
         /\ frames'[f].cols = frames[f].cols
         /\ frames'[f].rows = frames[f].rows
         /\ frames'[f].truncated = frames[f].truncated]_vars

\* How far a run is: the phase, the node, the edges of the node still to visit.
Phase ==
    CASE pc = "validate" -> 0
      [] pc = "seed" -> 1
      [] pc \in {"pop", "relax"} -> 2
      [] pc \in {"hint", "collect"} -> 3
      [] pc = "run" -> 4
      [] OTHER -> 5

Position ==
    <<Phase, IF Phase = 2 THEN Len(order) ELSE i, 0 - Cardinality(todo),
      IF pc \in {"pop", "collect"} THEN 1 ELSE 0>>

Further(p, q) == \E k \in 1..4 : p[k] < q[k] /\ \A j \in 1..(k - 1) : p[j] = q[j]

\* How often the k-th node of the order is in the queue of the walk that
\* collects a source's columns.
Waiting(k) == Cardinality({j \in 1..Len(bfs.queue) : bfs.queue[j] = order[k]})

\* No step leads a run back.  The walk may queue a node many times over, but it
\* gives up one of the first nodes waiting for later ones only, because the
\* definition is sorted by then.
RunAdvances ==
    [][\/ Further(Position, Position')
       \/ /\ Position' = Position
          /\ \E k \in 1..Len(order) : /\ Waiting(k)' < Waiting(k)
                                      /\ \A j \in 1..(k - 1) : Waiting(j)' = Waiting(j)]_vars

\* Every run ends.
RunEnds == <>(pc \in Ended)

-----------------------------------------------------------------------------
(* What the documentation says and the code does not do.                    *)

\* FR-07: an aggregate on a missing column fails the run.
NeverPanics == pc # "panicked"

\* FR-07: a frame with zero rows flows through downstream nodes normally, so
\* an aggregate that would find its group-by columns in any other frame of
\* its input does not fail on an empty one.
EmptyFlows ==
    pc = "failed" => LET n == results[Len(results)] IN
        ~ /\ Config(n).type = "aggregate" /\ Config(n).form = "ok" /\ SingleInput(n) # {}
          /\ \A f \in SingleInput(n) : frames[f].rows = 0 /\ Config(n).needs \subseteq frames[f].wide

\* FR-16.5: a hint names the columns actually needed, so that the result has
\* the columns it would have without it.
ProjectionKeepsOutput ==
    pc = "succeeded" /\ output # NoNode =>
        frames[output].rows = 0 \/ frames[output].cols = frames[output].wide

\* FR-16.5: ... and it names columns, not every word of an expression.
HintNamesColumns ==
    \A n \in Ids(def) : Config(n).type = "source" => hints[n] \subseteq Config(n).gives

\* Metadata: Truncated is true when a guardrail cut the result short.
TruncationSurvives == \A n \in NodeIds : frames[n].cut => frames[n].truncated

\* Metadata: SourceID identifies the node that made the frame.
OriginIsProducer == \A n \in NodeIds : outputs[n] = n => frames[n].origin = n

\* FR-07: given identical inputs and definitions, identical outputs.
InputIsDetermined ==
    AtNode /\ InputsReady(Current) /\ Config(Current).type \notin {"source", "join"}
        => Cardinality(SingleInput(Current)) <= 1

\* FR-07.3: a join's left input is the frame that arrives on its left handle.
JoinReadsItsHandles ==
    AtNode /\ InputsReady(Current) /\ Config(Current).type = "join" =>
        \A e \in In(def, Current) : def.edges[e].handle = "left"
            => \E g \in In(def, Current) : /\ def.edges[g].handle = "left"
                                           /\ Input(Current, "left") = {outputs[def.edges[g].source]}

\* definition.go: under the size limits a definition cannot blow up execution
\* time (a walk that follows every edge once visits this many nodes).
VisitsAreBounded ==
    visits <= Len(def.edges) * Cardinality({n \in Ids(def) : Config(n).type = "source"})

\* FR-07.6: a run that succeeds has a final output frame to render.
SuccessHasOutput == pc = "succeeded" => output # NoNode

=============================================================================
