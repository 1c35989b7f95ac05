------------------------- MODULE WorkflowEngineProofs -------------------------
(***************************************************************************)
(* Theorems about WorkflowEngine: TopologicalOrder finds an order exactly   *)
(* when there is one, the nodes run in it, and the engine implements        *)
(* WorkflowRun.                                                             *)
(*                                                                          *)
(* SortInv is what Kahn's algorithm keeps: the count of a node is the       *)
(* number of its incoming edges that are still pending, a node is queued    *)
(* when none is, and no node of a circular set is ever queued.  RunInv adds *)
(* what the loop over the order keeps.                                      *)
(***************************************************************************)
EXTENDS WorkflowEngine, TLAPS, FiniteSetTheorems, WellFoundedInduction

Elems(s) == {s[k] : k \in 1..Len(s)}
Distinct(s) == \A j, k \in 1..Len(s) : s[j] = s[k] => j = k

Reached == Elems(queue) \cup Elems(order)

\* The incoming edges of n that TopologicalOrder has not taken off its count.
Pending(n) == {e \in In(def, n) : def.edges[e].source \notin Elems(order) \/ e \in todo}

Sorting == {"seed", "pop", "relax"}
After == {"hint", "collect", "run", "failed", "panicked", "succeeded"}

SortTyped ==
    /\ def \in Definitions
    /\ pc \in {"validate", "rejected"} \cup Sorting \cup After
    /\ i \in Nat \ {0}
    /\ queue \in Seq(NodeIds) /\ order \in Seq(NodeIds)
    /\ indegree \in [NodeIds -> Int]
    /\ todo \in SUBSET EdgesOf(def)

Phases ==
    /\ pc = "validate" => queue = <<>> /\ i = 1
    /\ pc \in {"validate", "seed"} => order = <<>>
    /\ pc # "relax" => todo = {}
    /\ \A e \in todo : def.edges[e].source \in Elems(order)
    /\ pc \in Sorting \cup After => Validated(def)

Counted == pc \in Sorting => \A n \in NodeIds : indegree[n] = Cardinality(Pending(n))

\* A node is queued when nothing is pending into it, and once.
ReachedReady ==
    /\ Reached \subseteq Ids(def)
    /\ \A n \in Reached : Pending(n) = {}
    /\ Distinct(queue) /\ Distinct(order)
    /\ Elems(queue) \cap Elems(order) = {}

\* ... and as soon as nothing is.
ReadyReached ==
    /\ pc = "seed" =>
         /\ Elems(queue) \subseteq {def.nodes[k] : k \in 1..(i - 1)}
         /\ \A k \in 1..Len(def.nodes) : k < i /\ Pending(def.nodes[k]) = {} => def.nodes[k] \in Elems(queue)
    /\ pc \in {"pop", "relax"} => \A n \in Ids(def) : Pending(n) = {} => n \in Reached

Ordered ==
    \A k \in 1..Len(order) : \A e \in In(def, order[k]) :
        \E j \in 1..(k - 1) : order[j] = def.edges[e].source

CirclesUntouched == \A S \in SUBSET NodeIds : Circular(def, S) => S \cap Reached = {}

Verdict ==
    /\ pc = "rejected" => ~Sound(def)
    /\ pc \in After => Sound(def) /\ Elems(order) = Ids(def) /\ Len(order) = Len(def.nodes)

SortInv ==
    /\ SortTyped /\ Phases /\ Counted /\ ReachedReady /\ ReadyReached
    /\ Ordered /\ CirclesUntouched /\ Verdict

\* The results are those of the first nodes of the order, each of which has
\* an output.
Progress ==
    /\ results \in Seq(NodeIds)
    /\ outputs \in [NodeIds -> NodeIds \cup {NoNode}]
    /\ pc \notin {"run", "failed", "panicked", "succeeded"} => results = <<>>
    /\ pc = "run" =>
         /\ i <= Len(order) + 1
         /\ Len(results) = i - 1
         /\ \A k \in 1..(i - 1) : results[k] = order[k] /\ outputs[order[k]] # NoNode

\* An output is the frame of a node that ran.
OutputsRan == \A n \in NodeIds : outputs[n] # NoNode => outputs[n] \in Elems(results)

\* Every frame is within the cap.
FramesCapped == frames \in [NodeIds -> Frame]

RunInv == SortInv /\ Progress

DataInv == RunInv /\ OutputsRan /\ FramesCapped

-----------------------------------------------------------------------------
(* Sequences and graphs.                                                    *)

\* Append adds one element, and keeps a sequence without repetition so.
LEMMA AppendElems ==
    ASSUME NEW S, NEW s \in Seq(S), NEW x \in S
    PROVE  /\ Elems(Append(s, x)) = Elems(s) \cup {x}
           /\ Distinct(s) /\ x \notin Elems(s) => Distinct(Append(s, x))
<1>1. /\ Len(Append(s, x)) = Len(s) + 1 /\ Len(s) \in Nat
      /\ \A k \in 1..Len(s) : Append(s, x)[k] = s[k]
      /\ Append(s, x)[Len(s) + 1] = x
  OBVIOUS
<1>2. Elems(Append(s, x)) = Elems(s) \cup {x}
  BY <1>1 DEF Elems
<1>3. ASSUME Distinct(s), x \notin Elems(s) PROVE Distinct(Append(s, x))
  BY <1>1, <1>3 DEF Elems, Distinct
<1> QED BY <1>2, <1>3

\* Head and Tail split the elements of a sequence.
LEMMA TailElems ==
    ASSUME NEW S, NEW s \in Seq(S), s # <<>>
    PROVE  /\ Head(s) \in S /\ Tail(s) \in Seq(S)
           /\ Elems(s) = {Head(s)} \cup Elems(Tail(s))
           /\ Distinct(s) => Distinct(Tail(s)) /\ Head(s) \notin Elems(Tail(s))
<1>1. /\ Len(s) \in Nat /\ Len(s) > 0 /\ Len(Tail(s)) = Len(s) - 1
      /\ Head(s) = s[1] /\ Head(s) \in S /\ Tail(s) \in Seq(S)
      /\ \A k \in 1..Len(Tail(s)) : Tail(s)[k] = s[k + 1]
  OBVIOUS
<1>2. Elems(s) \subseteq {Head(s)} \cup Elems(Tail(s))
  <2>1. SUFFICES ASSUME NEW k \in 1..Len(s) PROVE s[k] \in {Head(s)} \cup Elems(Tail(s))
    BY DEF Elems
  <2>2. CASE k = 1
    BY <1>1, <2>2
  <2>3. CASE k # 1
    <3>1. k - 1 \in 1..Len(Tail(s)) /\ s[k] = Tail(s)[k - 1]
      BY <1>1, <2>3
    <3> QED BY <3>1 DEF Elems
  <2> QED BY <2>2, <2>3
<1>3. {Head(s)} \cup Elems(Tail(s)) \subseteq Elems(s)
  <2>1. \A k \in 1..Len(Tail(s)) : k + 1 \in 1..Len(s) /\ Tail(s)[k] = s[k + 1]
    BY <1>1
  <2> QED BY <1>1, <2>1 DEF Elems
<1>4. ASSUME Distinct(s) PROVE Distinct(Tail(s)) /\ Head(s) \notin Elems(Tail(s))
  BY <1>1, <1>4 DEF Elems, Distinct
<1> QED BY <1>1, <1>2, <1>3, <1>4

\* A sequence has as many elements as places exactly when none repeats.
LEMMA DistinctCardinality ==
    ASSUME NEW S, NEW s \in Seq(S)
    PROVE  /\ IsFiniteSet(Elems(s))
           /\ Cardinality(Elems(s)) = Len(s) <=> Distinct(s)
<1>1. Len(s) \in Nat /\ s \in [1..Len(s) -> S]
  OBVIOUS
<1>2. IsFiniteSet(1..Len(s)) /\ Cardinality(1..Len(s)) = Len(s)
  BY <1>1, FS_Interval
<1>3. s \in [1..Len(s) -> Elems(s)]
  BY <1>1 DEF Elems
<1>4. s \in Surjection(1..Len(s), Elems(s))
  BY <1>3 DEF Surjection, Elems
<1>5. /\ IsFiniteSet(Elems(s))
      /\ Cardinality(Elems(s)) = Len(s) <=> s \in Injection(1..Len(s), Elems(s))
  BY <1>2, <1>4, FS_Surjection
<1>6. s \in Injection(1..Len(s), Elems(s)) <=> Distinct(s)
  BY <1>3 DEF Injection, IsInjective, Distinct
<1> QED BY <1>5, <1>6

\* What a definition is made of.
LEMMA DefinitionType ==
    ASSUME NEW d \in Definitions
    PROVE  /\ d.nodes \in Seq(NodeIds) /\ d.edges \in Seq(Edge)
           /\ d.config \in [NodeIds -> NodeConfig]
           /\ \A e \in EdgesOf(d) : d.edges[e].source \in NodeIds /\ d.edges[e].target \in NodeIds
           /\ Ids(d) = Elems(d.nodes) /\ Ids(d) \subseteq NodeIds
           /\ IsFiniteSet(EdgesOf(d)) /\ EdgesOf(d) \subseteq Nat
<1>1. d \in Definition
  BY EngineAssumption
<1>2. d.nodes \in Seq(NodeIds) /\ d.edges \in Seq(Edge) /\ d.config \in [NodeIds -> NodeConfig]
  BY <1>1 DEF Definition
<1>3. \A e \in EdgesOf(d) : d.edges[e] \in Edge
  BY <1>2 DEF EdgesOf
<1>4. \A e \in EdgesOf(d) : d.edges[e].source \in NodeIds /\ d.edges[e].target \in NodeIds
  BY <1>3 DEF Edge
<1>5. Ids(d) = Elems(d.nodes) /\ Ids(d) \subseteq NodeIds
  BY <1>2 DEF Ids, Elems
<1>6. IsFiniteSet(EdgesOf(d)) /\ EdgesOf(d) \subseteq Nat
  BY <1>2, FS_Interval DEF EdgesOf
<1> QED BY <1>2, <1>4, <1>5, <1>6

\* The edges that are pending into a node can be counted.
LEMMA PendingFinite ==
    ASSUME def \in Definitions, NEW n
    PROVE  /\ IsFiniteSet(Pending(n)) /\ Cardinality(Pending(n)) \in Nat
           /\ Cardinality(Pending(n)) = 0 <=> Pending(n) = {}
<1>1. Pending(n) \in SUBSET EdgesOf(def)
  BY DEF Pending, In
<1>2. IsFiniteSet(Pending(n))
  BY <1>1, DefinitionType, FS_Subset
<1> QED BY <1>2, FS_CardinalityType, FS_EmptySet

\* A set of naturals with an element has a least one.
LEMMA LeastElement ==
    ASSUME NEW T, T \subseteq Nat, T # {}
    PROVE  \E x \in T : \A y \in T : x <= y
<1>1. PICK x \in T : \A y \in T : ~(<<y, x>> \in OpToRel(<, Nat))
  BY NatLessThanWellFounded, WFMin
<1>2. \A y \in T : ~(y < x)
  BY <1>1 DEF OpToRel
<1>3. x \in Nat /\ \A y \in T : y \in Nat
  OBVIOUS
<1>4. \A y \in T : x <= y
  BY <1>2, <1>3
<1> QED BY <1>4

\* ... and a bounded one has a greatest.
LEMMA GreatestElement ==
    ASSUME NEW top \in Nat, NEW T \in SUBSET (1..top), T # {}
    PROVE  \E x \in T : \A y \in T : y <= x
<1> DEFINE U == {top - x : x \in T}
<1>1. U \subseteq Nat /\ U # {}
  <2>1. \A x \in 1..top : top - x \in Nat
    OBVIOUS
  <2> QED BY <2>1
<1>2. PICK u \in U : \A v \in U : u <= v
  <2> HIDE DEF U
  <2> QED BY <1>1, LeastElement
<1>3. PICK x \in T : u = top - x
  BY <1>2
<1>4. \A y \in T : top - x <= top - y
  BY <1>2, <1>3
<1> QED BY <1>3, <1>4

\* Induction up to a bound: a set with 0 and the successor of each of its elements.
LEMMA UpTo ==
    ASSUME NEW top \in Nat, NEW S, 0 \in S,
           \A k \in 1..top : k - 1 \in S => k \in S
    PROVE  0..top \subseteq S
<1>1. SUFFICES ASSUME (0..top) \ S # {} PROVE FALSE
  OBVIOUS
<1> DEFINE T == (0..top) \ S
<1>2. PICK x \in T : \A y \in T : x <= y
  <2>1. T \subseteq Nat /\ T # {}
    BY <1>1
  <2> HIDE DEF T
  <2> QED BY <2>1, LeastElement
<1>3. x \in 1..top /\ x - 1 \in 0..top
  BY <1>2
<1> QED BY <1>2, <1>3

\* The nodes that the edges of n lead to.
Succs(n) == {def.edges[e].target : e \in Out(def, n)}

\* buildDAG's loop gives every node a list of the nodes that its edges lead to.
LEMMA DownstreamType ==
    ASSUME def \in Definitions, NEW n
    PROVE  Downstream(n) \in Seq(Succs(n)) /\ Downstream(n) \in Seq(NodeIds)
<1> DEFINE T == Succs(n)
           L == Len(def.edges)
           Step(g, k) == IF k = 0 THEN <<>>
                         ELSE IF def.edges[k].source = n THEN Append(g[k - 1], def.edges[k].target)
                         ELSE g[k - 1]
           Good(g, m) == g \in [0..m -> Seq(T)] /\ \A k \in 0..m : g[k] = Step(g, k)
           upto == CHOOSE g : g = [k \in 0..L |-> Step(g, k)]
<1>1. /\ L \in Nat /\ T \subseteq NodeIds
      /\ \A k \in 1..L : def.edges[k].source = n => def.edges[k].target \in T
  BY DefinitionType DEF EdgesOf, Succs, Out
<1>2. Downstream(n) = upto[L]
  BY DEF Downstream
<1>3. ASSUME NEW g, NEW m \in 1..L, g[m - 1] \in Seq(T)
      PROVE  Step(g, m) \in Seq(T)
  <2> DEFINE before == g[m - 1]
             last == def.edges[m].target
  <2>1. m # 0 /\ before \in Seq(T) /\ (def.edges[m].source = n => last \in T)
    BY <1>1, <1>3
  <2> HIDE DEF before, last, T
  <2>2. last \in T => Append(before, last) \in Seq(T)
    BY <2>1
  <2> QED BY <2>1, <2>2 DEF before, last
<1>4. <<>> \in Seq(T) /\ \A g : Step(g, 0) = <<>>
  OBVIOUS
<1>5. ASSUME NEW g, NEW h, NEW k, k = 0 \/ g[k - 1] = h[k - 1]
      PROVE  Step(g, k) = Step(h, k)
  BY <1>5
<1> HIDE DEF Step
<1>6. \E g : Good(g, L)
  <2> DEFINE S == {m \in 0..L : \E g : Good(g, m)}
  <2>1. 0 \in S
    <3>1. Good([k \in 0..0 |-> <<>>], 0)
      BY <1>4
    <3> HIDE DEF Good
    <3> QED BY <1>1, <3>1
  <2>2. ASSUME NEW m \in 1..L, m - 1 \in S PROVE m \in S
    <3>1. PICK g : Good(g, m - 1)
      BY <2>2
    <3> DEFINE h == [k \in 0..m |-> IF k = m THEN Step(g, m) ELSE g[k]]
    <3>2. m - 1 \in 0..(m - 1) /\ g[m - 1] \in Seq(T)
      BY <1>1, <2>2, <3>1
    <3>3. Step(g, m) \in Seq(T)
      BY <1>3, <3>2
    <3>4. h \in [0..m -> Seq(T)]
      BY <1>1, <2>2, <3>1, <3>3
    <3>5. ASSUME NEW k \in 0..m PROVE h[k] = Step(h, k)
      <4>1. k = 0 \/ (k - 1 \in 0..m /\ k - 1 # m /\ h[k - 1] = g[k - 1])
        BY <1>1, <2>2
      <4>2. Step(h, k) = Step(g, k)
        BY <1>5, <4>1
      <4>3. h[k] = Step(g, k)
        BY <1>1, <2>2, <3>1
      <4> QED BY <4>2, <4>3
    <3>6. Good(h, m)
      BY <3>4, <3>5
    <3> HIDE DEF Good
    <3> QED BY <1>1, <3>6
  <2> HIDE DEF S
  <2>3. 0..L \subseteq S
    BY <1>1, <2>1, <2>2, UpTo
  <2>4. L \in S
    BY <1>1, <2>3
  <2> QED BY <2>4 DEF S
<1>7. \E g : g = [k \in 0..L |-> Step(g, k)]
  <2>1. PICK g : Good(g, L)
    BY <1>6
  <2>2. g = [k \in 0..L |-> Step(g, k)]
    BY <2>1
  <2> QED BY <2>2
<1>8. upto = [k \in 0..L |-> Step(upto, k)]
  BY <1>7
<1> HIDE DEF upto
<1>9. \A k \in 0..L : upto[k] = Step(upto, k)
  BY <1>8
<1> DEFINE S == {k \in 0..L : upto[k] \in Seq(T)}
<1>10. 0 \in S
  <2>1. 0 \in 0..L /\ upto[0] = <<>>
    BY <1>1, <1>4, <1>9
  <2> QED BY <1>4, <2>1
<1>11. ASSUME NEW k \in 1..L, k - 1 \in S PROVE k \in S
  BY <1>1, <1>3, <1>9, <1>11
<1> HIDE DEF S
<1>12. 0..L \subseteq S
  BY <1>1, <1>10, <1>11, UpTo
<1>13. Downstream(n) \in Seq(T)
  BY <1>1, <1>2, <1>12 DEF S
<1> HIDE DEF T
<1>14. \A x \in Seq(T) : x \in Seq(NodeIds)
  BY <1>1
<1> QED BY <1>13, <1>14 DEF T

-----------------------------------------------------------------------------
(* TopologicalOrder.                                                        *)

\* Initially the invariant of the sort holds.
LEMMA InitSort == Init => SortInv
<1> SUFFICES ASSUME Init PROVE SortInv
  OBVIOUS
<1>1. Elems(queue) = {} /\ Elems(order) = {} /\ Reached = {}
  BY DEF Init, Elems, Reached
<1>2. SortTyped /\ Phases /\ Counted
  BY <1>1 DEF Init, SortTyped, Phases, Counted, Sorting, After
<1>3. ReachedReady /\ ReadyReached /\ Ordered /\ CirclesUntouched /\ Verdict
  BY <1>1 DEF Init, ReachedReady, ReadyReached, Ordered, CirclesUntouched, Verdict, Distinct, After
<1> QED BY <1>2, <1>3 DEF SortInv

\* Validate counts every incoming edge, and all are pending.
LEMMA ValidateSort == ASSUME SortInv, Validate PROVE SortInv'
<1> USE DEF SortInv
<1>1. /\ def' = def /\ i' = i /\ queue' = queue /\ order' = order /\ todo' = todo
      /\ pc = "validate" /\ order = <<>> /\ queue = <<>> /\ todo = {} /\ i = 1
  BY DEF Validate, Phases
<1>2. Elems(queue) = {} /\ Elems(order) = {} /\ Reached = {} /\ Reached' = {}
      /\ Elems(queue') = {} /\ Elems(order') = {}
  BY <1>1 DEF Elems, Reached
<1>3. CASE Validated(def) /\ pc' = "seed" /\ indegree' = [n \in NodeIds |-> Cardinality(In(def, n))]
  <2>1. \A n \in NodeIds : In(def, n) = Pending(n) /\ In(def, n) = Pending(n)'
    BY <1>1, <1>2 DEF Pending, In
  <2>2. \A n \in NodeIds : Cardinality(In(def, n)) \in Int
    BY <2>1, PendingFinite DEF SortTyped
  <2>3. SortTyped' /\ Phases'
    BY <1>1, <1>2, <1>3, <2>2 DEF SortTyped, Phases, Sorting, After
  <2>4. Counted'
    BY <1>1, <1>3, <2>1 DEF Counted
  <2>5. ReachedReady' /\ ReadyReached' /\ Ordered' /\ CirclesUntouched' /\ Verdict'
    BY <1>1, <1>2, <1>3, DefinitionType
    DEF ReachedReady, ReadyReached, Ordered, CirclesUntouched, Verdict, Distinct, After, SortTyped
  <2> QED BY <2>3, <2>4, <2>5
<1>4. CASE ~Validated(def) /\ pc' = "rejected" /\ UNCHANGED indegree
  <2>1. SortTyped' /\ Phases' /\ Counted' /\ Verdict'
    BY <1>1, <1>2, <1>4 DEF SortTyped, Phases, Counted, Verdict, Sound, Sorting, After
  <2>2. ReachedReady' /\ ReadyReached' /\ Ordered' /\ CirclesUntouched'
    BY <1>1, <1>2, <1>4
    DEF ReachedReady, ReadyReached, Ordered, CirclesUntouched, Distinct, After, Sorting
  <2> QED BY <2>1, <2>2
<1> QED BY <1>3, <1>4 DEF Validate

\* The nodes of a valid definition are distinct.
LEMMA NodesDistinct ==
    ASSUME NEW d \in Definitions, Validated(d)
    PROVE  Distinct(d.nodes)
BY DefinitionType, DistinctCardinality DEF Validated

\* A node nothing is pending into is in no circular set that is untouched.
LEMMA FreshIsAcyclic ==
    ASSUME SortInv, NEW n \in NodeIds, NEW S \in SUBSET NodeIds, Circular(def, S),
           \A e \in In(def, n) : def.edges[e].source \in Elems(order)
    PROVE  n \notin S
<1>1. SUFFICES ASSUME n \in S PROVE FALSE
  OBVIOUS
<1>2. PICK e \in In(def, n) : def.edges[e].source \in S
  BY <1>1 DEF Circular, Preds
<1>3. def.edges[e].source \in Reached
  BY DEF Reached
<1> QED BY <1>2, <1>3 DEF SortInv, CirclesUntouched

\* Seed queues a node without incoming edges.
LEMMA SeedSort == ASSUME SortInv, Seed PROVE SortInv'
<1> DEFINE n == def.nodes[i]
<1> USE DEF SortInv
<1>1. /\ pc = "seed" /\ pc' = pc /\ def' = def /\ order' = order /\ indegree' = indegree
      /\ todo' = todo /\ i' = i + 1 /\ i \in 1..Len(def.nodes)
      /\ order = <<>> /\ todo = {} /\ Validated(def) /\ def \in Definitions
  BY DefinitionType DEF Seed, SortTyped, Phases, sorting, hinting, running, Sorting
<1>2. n \in NodeIds /\ n \in Ids(def)
  BY <1>1, DefinitionType DEF Ids
<1>3. /\ Elems(order) = {} /\ Elems(order') = {}
      /\ \A m : Pending(m)' = Pending(m) /\ Pending(m) = In(def, m)
  BY <1>1 DEF Elems, Pending, In
<1>4. indegree[n] = Cardinality(Pending(n))
  BY <1>1, <1>2 DEF Counted, Sorting
<1>5. n \notin Elems(queue)
  <2>1. \A k \in 1..(i - 1) : def.nodes[k] # def.nodes[i]
    BY <1>1, NodesDistinct, DefinitionType DEF Distinct
  <2> QED BY <1>1, <2>1 DEF ReadyReached
<1>6. /\ indegree[n] = 0 <=> Pending(n) = {}
      /\ \/ /\ indegree[n] = 0
            /\ queue' \in Seq(NodeIds) /\ Elems(queue') = Elems(queue) \cup {n} /\ Distinct(queue')
         \/ indegree[n] # 0 /\ queue' = queue
  <2>1. queue' = IF indegree[n] = 0 THEN Append(queue, n) ELSE queue
    BY DEF Seed
  <2>2. queue \in Seq(NodeIds) /\ Distinct(queue)
    BY DEF SortTyped, ReachedReady
  <2>3. indegree[n] = 0 <=> Pending(n) = {}
    BY <1>1, <1>4, PendingFinite
  <2>4. CASE indegree[n] = 0
    BY <1>2, <1>5, <2>1, <2>2, <2>3, <2>4, AppendElems
  <2>5. CASE indegree[n] # 0
    BY <2>1, <2>3, <2>5
  <2> QED BY <2>4, <2>5
<1>7. Reached' = Reached \/ (Pending(n) = {} /\ Reached' = Reached \cup {n})
  BY <1>1, <1>6 DEF Reached
<1>8. SortTyped' /\ Phases'
  BY <1>1, <1>3, <1>6 DEF SortTyped, Phases, Sorting, After
<1>9. Counted'
  BY <1>1, <1>3 DEF Counted
<1>10. ReachedReady'
  BY <1>1, <1>2, <1>3, <1>6, <1>7 DEF ReachedReady
<1>11. ReadyReached'
  <2>1. Elems(queue') \subseteq {def.nodes[k] : k \in 1..(i + 1 - 1)}
    <3>1. \A k \in 1..(i - 1) : k \in 1..(i + 1 - 1)
      BY <1>1
    <3>2. i \in 1..(i + 1 - 1)
      BY <1>1
    <3> QED BY <1>1, <1>6, <3>1, <3>2 DEF ReadyReached
  <2>2. ASSUME NEW k \in 1..Len(def.nodes), k < i + 1, Pending(def.nodes[k]) = {}
        PROVE  def.nodes[k] \in Elems(queue')
    <3>1. CASE k = i
      BY <1>6, <2>2, <3>1
    <3>2. CASE k # i
      <4>1. k < i
        BY <1>1, <2>2, <3>2, DefinitionType
      <4>2. def.nodes[k] \in Elems(queue)
        BY <1>1, <2>2, <4>1 DEF ReadyReached
      <4> QED BY <1>6, <4>2
    <3> QED BY <3>1, <3>2
  <2> QED BY <1>1, <1>3, <2>1, <2>2 DEF ReadyReached
<1>12. Ordered' /\ Verdict'
  BY <1>1 DEF Ordered, Verdict, After, In, EdgesOf
<1>13. CirclesUntouched'
  <2>1. SUFFICES ASSUME NEW S \in SUBSET NodeIds, Circular(def, S) PROVE S \cap Reached' = {}
    BY <1>1 DEF CirclesUntouched
  <2>2. S \cap Reached = {}
    BY <2>1 DEF CirclesUntouched
  <2>3. Pending(n) = {} => n \notin S
    BY <1>2, <1>3, <2>1, FreshIsAcyclic
  <2> QED BY <1>7, <2>2, <2>3
<1> QED BY <1>8, <1>9, <1>10, <1>11, <1>12, <1>13

\* When the loop over the nodes is over, every node nothing is pending into is queued.
LEMMA SeededSort == ASSUME SortInv, Seeded PROVE SortInv'
<1> USE DEF SortInv
<1>1. /\ pc = "seed" /\ pc' = "pop" /\ def' = def /\ order' = order /\ indegree' = indegree
      /\ todo' = todo /\ i' = i /\ queue' = queue /\ i > Len(def.nodes) /\ def \in Definitions
  BY DEF Seeded, sorting, SortTyped
<1>2. Reached' = Reached /\ \A m : Pending(m)' = Pending(m)
  BY <1>1 DEF Reached, Pending, In, EdgesOf
<1>3. SortTyped' /\ Phases' /\ Counted' /\ ReachedReady' /\ Ordered' /\ CirclesUntouched' /\ Verdict'
  BY <1>1, <1>2
  DEF SortTyped, Phases, Counted, ReachedReady, Ordered, CirclesUntouched, Verdict, Sorting, After, In, EdgesOf
<1>4. ReadyReached'
  <2>1. SUFFICES ASSUME NEW n \in Ids(def), Pending(n) = {} PROVE n \in Reached
    BY <1>1, <1>2 DEF ReadyReached
  <2>2. PICK k \in 1..Len(def.nodes) : n = def.nodes[k]
    BY DEF Ids
  <2>3. k < i
    BY <1>1, DefinitionType DEF SortTyped
  <2> QED BY <1>1, <2>1, <2>2, <2>3 DEF ReadyReached, Reached
<1> QED BY <1>3, <1>4

\* Pop moves a node from the queue to the order; its outgoing edges stay pending.
LEMMA PopSort == ASSUME SortInv, Pop PROVE SortInv'
<1> DEFINE h == Head(queue)
<1> USE DEF SortInv
<1>1. /\ pc = "pop" /\ pc' = "relax" /\ def' = def /\ i' = i /\ indegree' = indegree
      /\ queue # <<>> /\ order' = Append(order, h) /\ queue' = Tail(queue) /\ todo' = Out(def, h)
      /\ todo = {} /\ Validated(def) /\ def \in Definitions
  BY DEF Pop, SortTyped, Phases, Sorting
<1>2. queue \in Seq(NodeIds) /\ order \in Seq(NodeIds) /\ Distinct(queue) /\ Distinct(order)
  BY DEF SortTyped, ReachedReady
<1>3. /\ h \in NodeIds /\ queue' \in Seq(NodeIds) /\ Distinct(queue')
      /\ Elems(queue) = {h} \cup Elems(queue') /\ h \notin Elems(queue')
  BY <1>1, <1>2, TailElems
<1>4. h \in Reached /\ h \notin Elems(order)
  BY <1>3 DEF ReachedReady, Reached
<1>5. Elems(order') = Elems(order) \cup {h} /\ Distinct(order') /\ order' \in Seq(NodeIds)
  BY <1>1, <1>2, <1>3, <1>4, AppendElems
<1>6. Reached' = Reached
  BY <1>3, <1>5 DEF Reached
<1>7. \A m : Pending(m)' = Pending(m)
  BY <1>1, <1>4, <1>5 DEF Pending, In, Out, EdgesOf
<1>8. SortTyped'
  BY <1>1, <1>3, <1>5 DEF SortTyped, Sorting, Out, EdgesOf
<1>9. Phases'
  BY <1>1, <1>5 DEF Phases, Sorting, Out, EdgesOf
<1>10. Counted' /\ ReadyReached' /\ CirclesUntouched' /\ Verdict'
  BY <1>1, <1>6, <1>7 DEF Counted, ReadyReached, CirclesUntouched, Verdict, Sorting, After
<1>11. ReachedReady'
  BY <1>1, <1>3, <1>4, <1>5, <1>6, <1>7 DEF ReachedReady
<1>12. Ordered'
  <2>1. /\ Len(order) \in Nat /\ Len(order') = Len(order) + 1 /\ order'[Len(order) + 1] = h
        /\ \A k \in 1..Len(order) : order'[k] = order[k]
    BY <1>1, <1>2, <1>3
  <2>2. ASSUME NEW k \in 1..Len(order'), NEW e \in In(def, order'[k])
        PROVE  \E j \in 1..(k - 1) : order'[j] = def.edges[e].source
    <3>1. CASE k = Len(order) + 1
      <4>1. e \notin Pending(h) /\ e \in In(def, h)
        BY <1>4, <2>1, <2>2, <3>1 DEF ReachedReady
      <4>2. def.edges[e].source \in Elems(order)
        BY <4>1 DEF Pending
      <4> QED BY <2>1, <3>1, <4>2 DEF Elems
    <3>2. CASE k # Len(order) + 1
      <4>1. k \in 1..Len(order) /\ order'[k] = order[k]
        BY <2>1, <2>2, <3>2
      <4>2. PICK j \in 1..(k - 1) : order[j] = def.edges[e].source
        BY <2>2, <4>1 DEF Ordered
      <4>3. order'[j] = order[j]
        BY <2>1, <4>1
      <4> QED BY <4>2, <4>3
    <3> QED BY <3>1, <3>2
  <2> QED BY <1>1, <2>2 DEF Ordered, In, EdgesOf
<1> QED BY <1>8, <1>9, <1>10, <1>11, <1>12

\* Relax takes one pending edge off, and queues its target with the last one.
LEMMA RelaxSort == ASSUME SortInv, NEW e \in EdgesOf(def), Relax(e) PROVE SortInv'
<1> DEFINE n == def.edges[e].target
<1> USE DEF SortInv
<1>1. /\ pc = "relax" /\ pc' = pc /\ def' = def /\ i' = i /\ order' = order
      /\ e \in todo /\ todo' = todo \ {e}
      /\ indegree' = [indegree EXCEPT ![n] = @ - 1]
      /\ queue' = IF indegree[n] = 1 THEN Append(queue, n) ELSE queue
      /\ Validated(def) /\ def \in Definitions
      /\ indegree \in [NodeIds -> Int] /\ queue \in Seq(NodeIds) /\ Distinct(queue)
  BY DEF Relax, SortTyped, Phases, Sorting, ReachedReady
<1>2. n \in NodeIds /\ n \in Ids(def) /\ def.edges[e].source \in Elems(order)
  BY <1>1, DefinitionType DEF Phases, Validated
<1>3. /\ e \in Pending(n) /\ Pending(n)' = Pending(n) \ {e}
      /\ \A m : m # n => Pending(m)' = Pending(m)
  BY <1>1, <1>2 DEF Pending, In, EdgesOf
<1>4. n \notin Reached
  BY <1>3 DEF ReachedReady
<1>5. /\ indegree[n] = Cardinality(Pending(n))
      /\ Cardinality(Pending(n)') = indegree[n] - 1
      /\ indegree[n] = 1 <=> Pending(n)' = {}
  <2>1. indegree[n] = Cardinality(Pending(n))
    BY <1>1, <1>2 DEF Counted, Sorting
  <2>2. IsFiniteSet(Pending(n)) /\ Cardinality(Pending(n)) \in Nat
    BY <1>1, PendingFinite
  <2>3. /\ IsFiniteSet(Pending(n) \ {e})
        /\ Cardinality(Pending(n) \ {e}) = Cardinality(Pending(n)) - 1
    BY <1>3, <2>2, FS_RemoveElement
  <2>4. Cardinality(Pending(n) \ {e}) = 0 <=> Pending(n) \ {e} = {}
    BY <2>3, FS_EmptySet
  <2> QED BY <1>3, <2>1, <2>2, <2>3, <2>4
<1>6. \/ /\ Pending(n)' = {}
         /\ queue' \in Seq(NodeIds) /\ Elems(queue') = Elems(queue) \cup {n} /\ Distinct(queue')
      \/ Pending(n)' # {} /\ queue' = queue
  <2>1. n \notin Elems(queue)
    BY <1>4 DEF Reached
  <2>2. CASE indegree[n] = 1
    BY <1>1, <1>2, <1>5, <2>1, <2>2, AppendElems
  <2>3. CASE indegree[n] # 1
    BY <1>1, <1>5, <2>3
  <2> QED BY <2>2, <2>3
<1>7. Reached' = IF Pending(n)' = {} THEN Reached \cup {n} ELSE Reached
  BY <1>1, <1>6 DEF Reached
<1>8. SortTyped'
  BY <1>1, <1>2, <1>6 DEF SortTyped, EdgesOf
<1>9. Phases'
  BY <1>1 DEF Phases
<1>10. Counted'
  <2>1. ASSUME NEW m \in NodeIds PROVE indegree'[m] = Cardinality(Pending(m)')
    BY <1>1, <1>2, <1>3, <1>5 DEF Counted, Sorting
  <2> QED BY <2>1 DEF Counted
<1>11. ReachedReady'
  <2>1. Reached' \subseteq Ids(def)
    BY <1>2, <1>7 DEF ReachedReady
  <2>2. ASSUME NEW m \in Reached' PROVE Pending(m)' = {}
    <3>1. CASE m = n
      BY <1>1, <1>4, <1>7, <2>2, <3>1 DEF Pending, In, EdgesOf
    <3>2. CASE m # n
      BY <1>3, <1>7, <2>2, <3>2 DEF ReachedReady
    <3> QED BY <3>1, <3>2
  <2>3. Distinct(queue') /\ Distinct(order') /\ Elems(queue') \cap Elems(order') = {}
    BY <1>1, <1>4, <1>6 DEF ReachedReady, Reached
  <2> QED BY <1>1, <2>1, <2>2, <2>3 DEF ReachedReady, Ids
<1>12. ReadyReached'
  <2>1. ASSUME NEW m \in Ids(def), Pending(m)' = {} PROVE m \in Reached'
    BY <1>1, <1>3, <1>7, <2>1 DEF ReadyReached
  <2> QED BY <1>1, <2>1 DEF ReadyReached, Ids
<1>13. Ordered' /\ Verdict'
  BY <1>1 DEF Ordered, Verdict, After, In, EdgesOf
<1>14. CirclesUntouched'
  <2>1. SUFFICES ASSUME NEW S \in SUBSET NodeIds, Circular(def, S) PROVE S \cap Reached' = {}
    BY <1>1 DEF CirclesUntouched
  <2>2. S \cap Reached = {}
    BY <2>1 DEF CirclesUntouched
  <2>3. ASSUME Pending(n)' = {} PROVE n \notin S
    <3>1. \A f \in In(def, n) : def.edges[f].source \in Elems(order)
      BY <1>1, <2>3 DEF Pending, In, EdgesOf
    <3> QED BY <1>2, <2>1, <3>1, FreshIsAcyclic
  <2> QED BY <1>7, <2>2, <2>3
<1> QED BY <1>8, <1>9, <1>10, <1>11, <1>12, <1>13, <1>14

\* Relaxed changes the phase only.
LEMMA RelaxedSort == ASSUME SortInv, Relaxed PROVE SortInv'
<1> USE DEF SortInv
<1>1. /\ pc = "relax" /\ pc' = "pop" /\ def' = def /\ order' = order /\ indegree' = indegree
      /\ todo' = todo /\ i' = i /\ queue' = queue /\ todo = {}
  BY DEF Relaxed, sorting
<1>2. Reached' = Reached /\ \A m : Pending(m)' = Pending(m)
  BY <1>1 DEF Reached, Pending, In, EdgesOf
<1>3. SortTyped' /\ Phases'
  BY <1>1 DEF SortTyped, Phases, Sorting, After, EdgesOf, sorting
<1>4. Counted' /\ ReadyReached'
  BY <1>1, <1>2 DEF Counted, ReadyReached, Sorting, After, sorting
<1>5. ReachedReady'
  BY <1>1, <1>2 DEF ReachedReady, sorting
<1>6. Ordered' /\ CirclesUntouched'
  BY <1>1, <1>2 DEF Ordered, CirclesUntouched, In, EdgesOf, sorting
<1>7. Verdict'
  BY <1>1 DEF Verdict, After
<1> QED BY <1>3, <1>4, <1>5, <1>6, <1>7

\* When the queue is empty, the order has every node if no set is circular, and
\* otherwise what it lacks is one.
LEMMA SortedVerdict ==
    ASSUME SortInv, pc = "pop", queue = <<>>
    PROVE  /\ Len(order) = Len(def.nodes) => Sound(def) /\ Elems(order) = Ids(def)
           /\ Len(order) # Len(def.nodes) => ~Sound(def)
<1> USE DEF SortInv
<1>1. /\ def \in Definitions /\ Validated(def) /\ todo = {} /\ order \in Seq(NodeIds)
      /\ Distinct(order) /\ Elems(order) \subseteq Ids(def) /\ Reached = Elems(order)
  BY DEF SortTyped, Phases, Sorting, ReachedReady, Reached, Elems
<1>2. /\ Ids(def) = Elems(def.nodes) /\ IsFiniteSet(Ids(def))
      /\ Cardinality(Ids(def)) = Len(def.nodes) /\ Ids(def) \subseteq NodeIds
  BY <1>1, DefinitionType, DistinctCardinality DEF Validated
<1>3. Cardinality(Elems(order)) = Len(order)
  BY <1>1, DistinctCardinality
<1>4. Len(order) = Len(def.nodes) <=> Elems(order) = Ids(def)
  BY <1>1, <1>2, <1>3, FS_Subset
<1>5. ASSUME Elems(order) = Ids(def) PROVE Sound(def)
  BY <1>1, <1>2, <1>5 DEF Sound, Cyclic, CirclesUntouched
<1>6. ASSUME Elems(order) # Ids(def) PROVE ~Sound(def)
  <2> DEFINE S == Ids(def) \ Elems(order)
  <2>1. S \in (SUBSET Ids(def)) \ {{}}
    BY <1>1, <1>6
  <2>2. ASSUME NEW n \in S PROVE Preds(def, n) \cap S # {}
    <3>1. Pending(n) # {}
      BY <1>1 DEF ReadyReached
    <3>2. PICK e \in In(def, n) : def.edges[e].source \notin Elems(order)
      BY <1>1, <3>1 DEF Pending
    <3>3. def.edges[e].source \in Ids(def)
      BY <1>1, <3>2 DEF Validated, In
    <3> QED BY <3>2, <3>3 DEF Preds
  <2> QED BY <2>1, <2>2 DEF Sound, Cyclic, Circular
<1> QED BY <1>4, <1>5, <1>6

\* Sorted gives the right verdict.
LEMMA SortedSort == ASSUME SortInv, Sorted PROVE SortInv'
<1> USE DEF SortInv
<1>1. /\ pc = "pop" /\ def' = def /\ order' = order /\ indegree' = indegree
      /\ todo' = todo /\ i' = 1 /\ queue' = queue /\ queue = <<>>
      /\ pc' = IF Len(order) = Len(def.nodes) THEN "hint" ELSE "rejected"
  BY DEF Sorted, sorting
<1>2. Reached' = Reached /\ \A m : Pending(m)' = Pending(m)
  BY <1>1 DEF Reached, Pending, In, EdgesOf
<1>3. SortTyped' /\ Phases'
  BY <1>1 DEF SortTyped, Phases, Sorting, After, EdgesOf, sorting
<1>4. Counted' /\ ReadyReached'
  BY <1>1, <1>2 DEF Counted, ReadyReached, Sorting, After, sorting
<1>5. ReachedReady'
  BY <1>1, <1>2 DEF ReachedReady, sorting
<1>6. Ordered' /\ CirclesUntouched'
  BY <1>1, <1>2 DEF Ordered, CirclesUntouched, In, EdgesOf, sorting
<1>7. Verdict'
  BY <1>1, SortedVerdict DEF Verdict, After
<1> QED BY <1>3, <1>4, <1>5, <1>6, <1>7

\* What comes after the sort leaves its variables and its verdict alone.
LEMMA SortStable ==
    ASSUME SortInv, pc \in After, pc' \in After, i' \in Nat \ {0}, UNCHANGED <<def, sorting>>
    PROVE  SortInv'
<1> USE DEF SortInv
<1>1. /\ def' = def /\ queue' = queue /\ order' = order /\ indegree' = indegree /\ todo' = todo
      /\ pc \in After /\ pc' \in After /\ i' \in Nat \ {0}
  BY DEF sorting
<1>2. Reached' = Reached /\ \A m : Pending(m)' = Pending(m)
  BY <1>1 DEF Reached, Pending, In, EdgesOf
<1>3. SortTyped' /\ Phases'
  BY <1>1 DEF SortTyped, Phases, Sorting, After, EdgesOf, sorting
<1>4. Counted' /\ ReadyReached'
  BY <1>1, <1>2 DEF Counted, ReadyReached, Sorting, After, sorting
<1>5. ReachedReady'
  BY <1>1, <1>2 DEF ReachedReady, sorting
<1>6. Ordered' /\ CirclesUntouched'
  BY <1>1, <1>2 DEF Ordered, CirclesUntouched, In, EdgesOf, sorting
<1>7. Verdict'
  BY <1>1 DEF Verdict, After
<1> QED BY <1>3, <1>4, <1>5, <1>6, <1>7

-----------------------------------------------------------------------------
(* The loop over the order.                                                 *)

\* At a node, everything it depends on has run.
LEMMA CurrentReady ==
    ASSUME RunInv, AtNode
    PROVE  /\ i \in 1..Len(order) /\ Current \in NodeIds /\ Current \in Ids(def)
           /\ Current \notin Elems(results)
           /\ InputsReady(Current)
           /\ Preds(def, Current) \subseteq Elems(results)
           /\ Sound(def)
<1> USE DEF RunInv, SortInv
<1>1. /\ i \in 1..Len(order) /\ pc = "run" /\ order \in Seq(NodeIds) /\ Distinct(order)
      /\ results \in Seq(NodeIds) /\ Len(results) = i - 1
      /\ \A k \in 1..(i - 1) : results[k] = order[k] /\ outputs[order[k]] # NoNode
  BY DEF AtNode, SortTyped, ReachedReady, Progress
<1>2. Sound(def) /\ Elems(order) = Ids(def)
  BY <1>1 DEF Verdict, After
<1>3. Current \in NodeIds /\ Current \in Ids(def)
  BY <1>1, <1>2 DEF Current, Elems
<1>4. Current \notin Elems(results)
  BY <1>1 DEF Current, Elems, Distinct
<1>5. ASSUME NEW e \in In(def, Current)
      PROVE  /\ outputs[def.edges[e].source] # NoNode
             /\ def.edges[e].source \in Elems(results)
  <2>1. PICK j \in 1..(i - 1) : order[j] = def.edges[e].source
    BY <1>1 DEF Ordered, Current
  <2>2. j \in 1..Len(results) /\ results[j] = order[j]
    BY <1>1
  <2> QED BY <1>1, <2>1, <2>2 DEF Elems
<1> QED BY <1>1, <1>2, <1>3, <1>4, <1>5 DEF InputsReady, Preds

\* A node's input is a frame that an upstream node returned.
LEMMA InputRan ==
    ASSUME RunInv, AtNode, NEW key
    PROVE  \A f \in Input(Current, key) : \E m \in NodeIds : outputs[m] = f /\ f # NoNode
<1>1. SUFFICES ASSUME NEW f \in Input(Current, key)
               PROVE  \E m \in NodeIds : outputs[m] = f /\ f # NoNode
  OBVIOUS
<1>2. PICK e \in In(def, Current) : f = outputs[def.edges[e].source]
  BY <1>1 DEF Input, Writers
<1>3. def.edges[e].source \in NodeIds
  BY <1>2, DefinitionType DEF RunInv, SortInv, SortTyped, In
<1> QED BY <1>2, <1>3, CurrentReady DEF InputsReady

\* Whichever key it comes from, a single input is an upstream node's frame.
LEMMA SingleInputRan ==
    ASSUME RunInv, AtNode
    PROVE  \A f \in SingleInput(Current) : f \in NodeIds /\ \E m \in NodeIds : outputs[m] = f /\ f # NoNode
<1>1. \A f \in SingleInput(Current) : \E m \in NodeIds : outputs[m] = f /\ f # NoNode
  <2>1. ASSUME NEW f \in SingleInput(Current) PROVE \E key : f \in Input(Current, key)
    BY <2>1 DEF SingleInput
  <2> QED BY <2>1, InputRan
<1>2. outputs \in [NodeIds -> NodeIds \cup {NoNode}]
  BY DEF RunInv, Progress
<1> QED BY <1>1, <1>2

\* Initially nothing has run.
LEMMA InitRun == Init => RunInv
BY InitSort DEF Init, RunInv, Progress

\* What precedes the loop leaves the results and the outputs alone.
LEMMA SortKeepsProgress ==
    ASSUME Progress, pc \notin {"run", "failed", "panicked", "succeeded"}, UNCHANGED <<results, outputs>>,
           pc' \notin {"run", "failed", "panicked", "succeeded"}
    PROVE  Progress'
BY DEF Progress

\* The steps of the sort, one by one, keep RunInv.
LEMMA ValidateRun == ASSUME RunInv, Validate PROVE RunInv'
BY ValidateSort, SortKeepsProgress DEF RunInv, Validate, running

\* (Seed.)
LEMMA SeedRun == ASSUME RunInv, Seed PROVE RunInv'
BY SeedSort, SortKeepsProgress DEF RunInv, Seed, running

\* (Seeded.)
LEMMA SeededRun == ASSUME RunInv, Seeded PROVE RunInv'
BY SeededSort, SortKeepsProgress DEF RunInv, Seeded, running

\* (Pop.)
LEMMA PopRun == ASSUME RunInv, Pop PROVE RunInv'
BY PopSort, SortKeepsProgress DEF RunInv, Pop, running

\* (Relax.)
LEMMA RelaxRun == ASSUME RunInv, NEW e \in EdgesOf(def), Relax(e) PROVE RunInv'
BY RelaxSort, SortKeepsProgress DEF RunInv, Relax, running

\* (Relaxed.)
LEMMA RelaxedRun == ASSUME RunInv, Relaxed PROVE RunInv'
BY RelaxedSort, SortKeepsProgress DEF RunInv, Relaxed, running

\* (Sorted.)
LEMMA SortedRun == ASSUME RunInv, Sorted PROVE RunInv'
BY SortedSort, SortKeepsProgress DEF RunInv, Sorted, running

\* The projection hints change neither the order nor the results.
LEMMA NextHintRun == ASSUME RunInv, NextHint PROVE RunInv'
<1>1. /\ pc = "hint" /\ pc' \in {"hint", "collect"} /\ i' \in {i, i + 1}
      /\ UNCHANGED <<def, sorting>> /\ UNCHANGED <<results, outputs>>
  BY DEF NextHint, running
<1>2. i' \in Nat \ {0}
  BY <1>1 DEF RunInv, SortInv, SortTyped
<1> QED BY <1>1, <1>2, SortStable, SortKeepsProgress DEF RunInv, After

\* (Collect.)
LEMMA CollectRun == ASSUME RunInv, Collect PROVE RunInv'
<1>1. /\ pc = "collect" /\ pc' \in {"hint", "collect"} /\ i' \in {i, i + 1}
      /\ UNCHANGED <<def, sorting>> /\ UNCHANGED <<results, outputs>>
  BY DEF Collect, running
<1>2. i' \in Nat \ {0}
  BY <1>1 DEF RunInv, SortInv, SortTyped
<1> QED BY <1>1, <1>2, SortStable, SortKeepsProgress DEF RunInv, After

\* The loop over the order starts with no results.
LEMMA HintedRun == ASSUME RunInv, Hinted PROVE RunInv'
<1>1. /\ pc = "hint" /\ pc' = "run" /\ i' = 1
      /\ UNCHANGED <<def, sorting>> /\ UNCHANGED <<results, outputs>> /\ order' = order
  BY DEF Hinted, running, sorting
<1>2. SortInv'
  BY <1>1, SortStable DEF RunInv, After
<1>3. order \in Seq(NodeIds)
  BY DEF RunInv, SortInv, SortTyped
<1>4. Progress'
  BY <1>1, <1>3 DEF RunInv, Progress
<1> QED BY <1>2, <1>4 DEF RunInv

\* A node that fails is reported, and ends the run.
LEMMA NodeFailsRun ==
    ASSUME RunInv, NodeFails
    PROVE  RunInv' /\ pc' = "failed" /\ results' = Append(results, Current)
<1>1. /\ InputsReady(Current) /\ Current \in NodeIds
      /\ pc = "run" /\ UNCHANGED <<def, i, sorting, outputs>>
  BY CurrentReady DEF NodeFails, AtNode
<1>2. pc' = "failed" /\ results' = Append(results, Current)
  BY <1>1 DEF NodeFails
<1>3. SortInv'
  BY <1>1, <1>2, SortStable DEF RunInv, SortInv, SortTyped, After
<1>4. Progress'
  BY <1>1, <1>2 DEF RunInv, Progress
<1> QED BY <1>2, <1>3, <1>4 DEF RunInv

\* A node that panics is not reported.
LEMMA NodePanicsRun == ASSUME RunInv, NodePanics PROVE RunInv'
<1>1. pc = "run" /\ pc' = "panicked" /\ UNCHANGED <<def, i, sorting>> /\ UNCHANGED <<results, outputs>>
  BY DEF NodePanics, AtNode, running
<1>2. SortInv'
  BY <1>1, SortStable DEF RunInv, SortInv, SortTyped, After
<1>3. Progress'
  BY <1>1 DEF RunInv, Progress
<1> QED BY <1>2, <1>3 DEF RunInv

\* Finish leaves the results alone.
LEMMA FinishRun == ASSUME RunInv, Finish PROVE RunInv'
<1>1. pc = "run" /\ pc' = "succeeded" /\ UNCHANGED <<def, i, sorting>> /\ UNCHANGED <<results, outputs>>
  BY DEF Finish
<1>2. SortInv'
  BY <1>1, SortStable DEF RunInv, SortInv, SortTyped, After
<1>3. Progress'
  BY <1>1 DEF RunInv, Progress
<1> QED BY <1>2, <1>3 DEF RunInv

\* The frame a node returns, as outputs records it.
LEMMA NodeRunsOutput ==
    ASSUME RunInv, NodeRuns
    PROVE  \E f \in NodeIds :
             /\ outputs' = [outputs EXCEPT ![Current] = f]
             /\ f = Current \/ f \in SingleInput(Current)
<1>1. AtNode /\ Current \in NodeIds
  BY CurrentReady DEF NodeRuns
<1>2. CASE Config(Current).type = "output"
  BY <1>1, <1>2, SingleInputRan DEF NodeRuns
<1>3. CASE Config(Current).type # "output"
  BY <1>1, <1>3 DEF NodeRuns
<1> QED BY <1>2, <1>3

\* A node that runs is reported, and has an output.
LEMMA NodeRunsRun ==
    ASSUME RunInv, NodeRuns
    PROVE  RunInv' /\ pc' = "run" /\ results' = Append(results, Current)
<1>1. /\ AtNode /\ pc = "run" /\ pc' = "run" /\ i' = i + 1
      /\ UNCHANGED <<def, sorting>> /\ order' = order
      /\ results' = Append(results, Current)
  BY DEF NodeRuns, AtNode, sorting
<1>2. /\ i \in 1..Len(order) /\ Current = order[i] /\ Current \in NodeIds
      /\ order \in Seq(NodeIds) /\ Distinct(order)
      /\ results \in Seq(NodeIds) /\ Len(results) = i - 1
      /\ outputs \in [NodeIds -> NodeIds \cup {NoNode}]
      /\ \A k \in 1..(i - 1) : results[k] = order[k] /\ outputs[order[k]] # NoNode
  BY <1>1, CurrentReady DEF RunInv, SortInv, SortTyped, ReachedReady, Progress, Current
<1>3. SortInv'
  <2>1. i' \in Nat \ {0}
    BY <1>1, <1>2
  <2> QED BY <1>1, <2>1, SortStable DEF RunInv, After
<1>4. PICK f \in NodeIds : outputs' = [outputs EXCEPT ![Current] = f]
  BY NodeRunsOutput
<1>5. Progress'
  <2>1. results' \in Seq(NodeIds) /\ Len(results') = i' - 1 /\ i' <= Len(order') + 1
    BY <1>1, <1>2
  <2>2. ASSUME NEW k \in 1..(i' - 1) PROVE results'[k] = order'[k] /\ outputs'[order'[k]] # NoNode
    <3>1. CASE k = i
      BY <1>1, <1>2, <1>4, <3>1, EngineAssumption
    <3>2. CASE k # i
      <4>1. k \in 1..(i - 1) /\ order[k] # Current /\ order[k] \in NodeIds
        <5>1. k \in 1..(i - 1) /\ k \in 1..Len(order) /\ i \in 1..Len(order)
          BY <1>1, <1>2, <2>2, <3>2
        <5>2. order[k] # order[i]
          BY <1>2, <3>2, <5>1 DEF Distinct
        <5> QED BY <1>2, <5>1, <5>2
      <4> QED BY <1>1, <1>2, <1>4, <4>1
    <3> QED BY <3>1, <3>2
  <2>3. outputs' \in [NodeIds -> NodeIds \cup {NoNode}]
    BY <1>2, <1>4
  <2> QED BY <1>1, <2>1, <2>2, <2>3 DEF Progress
<1> QED BY <1>1, <1>3, <1>5 DEF RunInv

\* RunInv is a state predicate of the variables.
LEMMA StutterRun == ASSUME RunInv, UNCHANGED vars PROVE RunInv'
<1> USE DEF RunInv, SortInv
<1>1. /\ def' = def /\ pc' = pc /\ i' = i /\ queue' = queue /\ order' = order /\ indegree' = indegree
      /\ todo' = todo /\ results' = results /\ outputs' = outputs
  BY DEF vars
<1>2. Reached' = Reached /\ \A m : Pending(m)' = Pending(m)
  BY <1>1 DEF Reached, Pending, In, EdgesOf
<1>3. SortTyped' /\ Phases' /\ Progress'
  BY <1>1 DEF SortTyped, Phases, Progress, EdgesOf
<1>4. Counted' /\ ReadyReached' /\ ReachedReady'
  BY <1>1, <1>2 DEF Counted, ReadyReached, ReachedReady
<1>5. Ordered' /\ CirclesUntouched' /\ Verdict'
  BY <1>1, <1>2 DEF Ordered, CirclesUntouched, Verdict, In, EdgesOf
<1> QED BY <1>3, <1>4, <1>5

\* RunInv is inductive.
LEMMA NextRun == ASSUME RunInv, [Next]_vars PROVE RunInv'
BY ValidateRun, SeedRun, SeededRun, PopRun, RelaxRun, RelaxedRun, SortedRun, NextHintRun, HintedRun,
   CollectRun, NodeFailsRun, NodePanicsRun, NodeRunsRun, FinishRun, StutterRun
DEF Next

\* The invariant holds throughout a run.
THEOREM EngineInvariant == Spec => []RunInv
BY InitRun, NextRun, PTL DEF Spec

\* A node is never executed before its dependency: Run's "internal error" is
\* unreachable, for every definition.
THEOREM OrderIsTopological == Spec => []NoInternalError
<1>1. RunInv => NoInternalError
  BY DEF RunInv, SortInv, SortTyped, NoInternalError, Sorting, After
<1> QED BY <1>1, EngineInvariant, PTL

\* A definition is rejected exactly when it is not sound: when Validate refuses
\* it, or when it has a cycle.
THEOREM SortDecidesCycles == Spec => []RejectsExactlyCycles
<1>1. RunInv => RejectsExactlyCycles
  BY DEF RunInv, SortInv, Verdict, RejectsExactlyCycles, After
<1> QED BY <1>1, EngineInvariant, PTL

-----------------------------------------------------------------------------
(* The engine implements WorkflowRun.                                       *)

\* What Append does to the nodes that ran.
LEMMA RanAppend ==
    ASSUME results \in Seq(NodeIds), NEW n \in NodeIds, results' = Append(results, n)
    PROVE  Reported' = Reported \cup {n}
BY AppendElems DEF Reported, Elems

\* WorkflowRun and WorkflowEngine read a definition alike.
LEMMA SameReading ==
    /\ \A d : Run!Ids(d) = Ids(d) /\ (Run!Sound(d) <=> Sound(d))
    /\ \A d, n : Run!Preds(d, n) = Preds(d, n)
<1>1. /\ \A d : Run!Ids(d) = Ids(d) /\ Run!EdgesOf(d) = EdgesOf(d)
      /\ Run!NodeTypes = NodeTypes
  BY DEF Run!Ids, Ids, Run!EdgesOf, EdgesOf, Run!NodeTypes, NodeTypes
<1>2. \A d, n : Run!Preds(d, n) = Preds(d, n)
  BY <1>1 DEF Run!Preds, Preds, Run!In, In
<1>3. \A d : Run!Validated(d) <=> Validated(d)
  BY DEF Run!Cardinality, Cardinality, Run!Validated, Validated, Run!Ids, Ids, Run!EdgesOf, EdgesOf, Run!NodeTypes, NodeTypes
<1>4. \A d : Run!Cyclic(d) <=> Cyclic(d)
  BY <1>1, <1>2 DEF Run!Cyclic, Cyclic, Run!Circular, Circular
<1> QED BY <1>1, <1>2, <1>3, <1>4 DEF Run!Sound, Sound

\* The node at hand can run in WorkflowRun too.
LEMMA CurrentCanRun ==
    ASSUME RunInv, AtNode
    PROVE  Run!Ready(Current) /\ Current \in NodeIds /\ Outcome = "running"
BY CurrentReady, SameReading DEF Run!Ready, Reported, Elems, Outcome, Ended, AtNode

\* Every step of the engine is a step of WorkflowRun, or changes nothing there.
LEMMA StepRefines == ASSUME RunInv, [Next]_vars PROVE [Run!Next]_(Run!vars)
<1> DEFINE Stutter == def' = def /\ Reported' = Reported /\ Outcome' = Outcome
<1>1. Stutter => [Run!Next]_(Run!vars)
  BY DEF Run!vars
<1>2. CASE Validate
  <2>1. pc = "validate" /\ def' = def /\ results' = results /\ Reported' = Reported
    BY <1>2 DEF Validate, running, Reported
  <2>2. Outcome = "running" /\ Reported = {}
    BY <2>1 DEF Outcome, Ended, RunInv, Progress, Reported
  <2>3. CASE Validated(def) /\ pc' = "seed"
    BY <1>1, <2>1, <2>2, <2>3 DEF Outcome, Ended
  <2>4. CASE ~Validated(def) /\ pc' = "rejected"
    BY <2>1, <2>2, <2>4, SameReading DEF Outcome, Ended, Sound, Run!Reject, Run!Next
  <2> QED BY <1>2, <2>3, <2>4 DEF Validate
<1>3. CASE Sorted
  <2>1. pc = "pop" /\ def' = def /\ results' = results /\ Reported' = Reported
    BY <1>3 DEF Sorted, running, Reported
  <2>2. Outcome = "running" /\ Reported = {}
    BY <2>1 DEF Outcome, Ended, RunInv, Progress, Reported
  <2>3. CASE pc' = "hint"
    BY <1>1, <2>1, <2>2, <2>3 DEF Outcome, Ended
  <2>4. CASE pc' = "rejected"
    <3>1. ~Sound(def)
      BY <1>3, <2>4, SortedVerdict DEF Sorted, RunInv
    <3> QED BY <2>1, <2>2, <2>4, <3>1, SameReading DEF Outcome, Ended, Run!Reject, Run!Next
  <2> QED BY <1>3, <2>3, <2>4 DEF Sorted
<1>4. CASE NodeFails
  <2>1. def' = def /\ pc' = "failed" /\ results' = Append(results, Current) /\ AtNode
    BY <1>4, NodeFailsRun DEF NodeFails
  <2>2. Reported' = Reported \cup {Current} /\ Outcome' = "failed"
    BY <2>1, CurrentCanRun, RanAppend DEF RunInv, Progress, Outcome, Ended
  <2> QED BY <2>1, <2>2, CurrentCanRun DEF Run!RunNode, Run!Next
<1>5. CASE NodeRuns
  <2>1. def' = def /\ pc' = "run" /\ results' = Append(results, Current) /\ AtNode
    BY <1>5, NodeRunsRun DEF NodeRuns
  <2>2. Reported' = Reported \cup {Current} /\ Outcome' = "running"
    BY <2>1, CurrentCanRun, RanAppend DEF RunInv, Progress, Outcome, Ended
  <2> QED BY <2>1, <2>2, CurrentCanRun DEF Run!RunNode, Run!Next
<1>6. CASE NodePanics
  <2>1. def' = def /\ pc' = "panicked" /\ Reported' = Reported /\ AtNode
    BY <1>6 DEF NodePanics, running, Reported
  <2> QED BY <2>1, CurrentCanRun DEF Outcome, Ended, Run!Panic, Run!Next
<1>7. CASE Finish
  <2>1. def' = def /\ pc = "run" /\ pc' = "succeeded" /\ Reported' = Reported /\ i > Len(order)
    BY <1>7 DEF Finish, Reported
  <2>2. /\ Sound(def) /\ Elems(order) = Ids(def) /\ order \in Seq(NodeIds)
        /\ Len(results) = Len(order) /\ i = Len(order) + 1
        /\ \A k \in 1..(i - 1) : results[k] = order[k]
    BY <2>1 DEF RunInv, SortInv, SortTyped, Verdict, Progress, After
  <2>3. Reported = Ids(def)
    BY <2>2 DEF Reported, Elems
  <2> QED BY <2>1, <2>2, <2>3, SameReading DEF Outcome, Ended, Run!Succeed, Run!Next
<1>8. CASE Seed \/ Seeded \/ Pop \/ Relaxed \/ \E e \in EdgesOf(def) : Relax(e)
  <2>1. /\ pc \in {"seed", "pop", "relax"} /\ pc' \in {"seed", "pop", "relax"}
        /\ def' = def /\ results' = results
    BY <1>8 DEF Seed, Seeded, Pop, Relaxed, Relax, running
  <2> QED BY <1>1, <2>1 DEF Outcome, Ended, Reported
<1>9. CASE NextHint \/ Hinted \/ Collect
  <2>1. /\ pc \in {"hint", "collect"} /\ pc' \in {"hint", "collect", "run"}
        /\ def' = def /\ results' = results
    BY <1>9 DEF NextHint, Hinted, Collect, running
  <2> QED BY <1>1, <2>1 DEF Outcome, Ended, Reported
<1>10. CASE UNCHANGED vars
  BY <1>1, <1>10 DEF vars, Outcome, Reported
<1> QED BY <1>2, <1>3, <1>4, <1>5, <1>6, <1>7, <1>8, <1>9, <1>10 DEF Next

\* The engine implements WorkflowRun: for every definition, a node runs once
\* and after everything it depends on, the first failure ends the run, a run
\* succeeds only when every node has run, and only unsound definitions are
\* rejected, before any node runs.
THEOREM EngineImplementsRun == Spec => RunSpec
<1>1. Init => Run!Init
  BY DEF Init, Run!Init, Reported, Outcome, Ended
<1>2. RunInv /\ [Next]_vars => [Run!Next]_(Run!vars)
  BY StepRefines
<1> QED BY <1>1, <1>2, EngineInvariant, PTL DEF Spec, RunSpec, Run!Spec

-----------------------------------------------------------------------------
(* The frames.                                                              *)

\* A frame as an executor returns it: not capped yet.
RawFrame == [cols : SUBSET Columns, rows : Nat, truncated : BOOLEAN,
             origin : NodeIds \cup {NoNode}, wide : SUBSET Columns, cut : BOOLEAN]

\* A capped frame is a frame.
LEMMA FrameIsRaw == Frame \subseteq RawFrame
BY EngineAssumption DEF Frame, RawFrame

\* A frame built row by row is a frame.
LEMMA FreshType ==
    ASSUME NEW cols \in SUBSET Columns, NEW wide \in SUBSET Columns, NEW rows \in Nat, NEW cut \in BOOLEAN
    PROVE  /\ Fresh(cols, wide, rows, cut) \in RawFrame
           /\ [Fresh(cols, wide, rows, cut) EXCEPT !.truncated = cut] \in RawFrame
BY DEF Fresh, NoFrame, RawFrame

\* Capping a frame brings it within the cap, and changes no data of a frame
\* that is within it.
LEMMA CappedType ==
    ASSUME NEW f \in RawFrame, NEW n \in NodeIds
    PROVE  /\ Capped(f, n) \in Frame
           /\ f \in Frame => /\ Capped(f, n).cols = f.cols
                             /\ Capped(f, n).rows = f.rows
                             /\ Capped(f, n).truncated = f.truncated
<1> DEFINE over == f.rows > MaxRows
<1>1. /\ f.cols \in SUBSET Columns /\ f.rows \in Nat /\ f.truncated \in BOOLEAN
      /\ f.origin \in NodeIds \cup {NoNode} /\ f.wide \in SUBSET Columns /\ f.cut \in BOOLEAN
      /\ MaxRows \in Nat
  BY EngineAssumption DEF RawFrame
<1>2. CASE over
  <2>1. [f EXCEPT !.rows = MaxRows, !.truncated = TRUE, !.cut = TRUE] \in Frame
    <3>1. [f EXCEPT !.rows = MaxRows] \in Frame
      BY <1>1 DEF RawFrame, Frame
    <3>2. \A g \in Frame : [g EXCEPT !.truncated = TRUE, !.cut = TRUE] \in Frame
      BY DEF Frame
    <3>3. [f EXCEPT !.rows = MaxRows, !.truncated = TRUE, !.cut = TRUE]
            = [[f EXCEPT !.rows = MaxRows] EXCEPT !.truncated = TRUE, !.cut = TRUE]
      OBVIOUS
    <3> QED BY <3>1, <3>2, <3>3
  <2>2. Capped(f, n) \in Frame
    <3>1. LimitRows(f) \in Frame
      BY <1>2, <2>1 DEF LimitRows
    <3>2. \A g \in Frame : [g EXCEPT !.origin = n] \in Frame
      BY DEF Frame
    <3> QED BY <3>1, <3>2 DEF Capped
  <2>3. f \notin Frame
    BY <1>1, <1>2 DEF Frame
  <2> QED BY <2>2, <2>3
<1>3. CASE ~over
  <2>1. Capped(f, n) = [cols |-> f.cols, rows |-> f.rows, truncated |-> f.truncated, origin |-> n,
                        wide |-> f.wide, cut |-> f.cut]
    BY <1>1, <1>3 DEF Capped, LimitRows, RawFrame
  <2>2. f.rows \in 0..MaxRows
    BY <1>1, <1>3
  <2>3. Capped(f, n) \in Frame
    BY <1>1, <2>1, <2>2 DEF Frame
  <2> QED BY <2>1, <2>3
<1> QED BY <1>2, <1>3

\* The columns a config names are columns.
LEMMA ConfigType ==
    ASSUME RunInv, NEW n \in NodeIds
    PROVE  Config(n) \in NodeConfig /\ Config(n).needs \subseteq Columns /\ Config(n).gives \subseteq Columns
BY DefinitionType DEF RunInv, SortInv, SortTyped, Config, NodeConfig

\* A filter returns frames.
LEMMA FilterType == ASSUME NEW in \in Frame PROVE FilterFrames(in) \subseteq RawFrame
<1>1. /\ in.cols \in SUBSET Columns /\ in.rows \in Nat /\ in.truncated \in BOOLEAN
      /\ in.origin \in NodeIds \cup {NoNode} /\ in.wide \in SUBSET Columns /\ in.cut \in BOOLEAN
  BY EngineAssumption DEF Frame
<1>2. ASSUME NEW rows \in 0..in.rows PROVE [in EXCEPT !.rows = rows] \in RawFrame
  BY <1>1, <1>2 DEF Frame, RawFrame
<1> QED BY <1>2 DEF FilterFrames

\* A transform returns frames.
LEMMA TransformType ==
    ASSUME RunInv, NEW n \in NodeIds, NEW in \in Frame
    PROVE  TransformFrames(n, in) \subseteq RawFrame
<1>1. in.rows \in Nat /\ in.cut \in BOOLEAN
  BY EngineAssumption DEF Frame
<1>2. Fresh(Config(n).gives, Config(n).gives, in.rows, in.cut) \in RawFrame
  BY <1>1, ConfigType, FreshType
<1> QED BY <1>2 DEF TransformFrames

\* A source that finds the columns it selects returns frames.
LEMMA SourceType ==
    ASSUME RunInv, NEW n \in NodeIds, Fetched(n) \subseteq Config(n).gives
    PROVE  SourceFrames(n) \subseteq RawFrame
<1>1. \A rows \in 0..SourceRows : rows \in Nat
  BY EngineAssumption
<1>2. Fetched(n) \in SUBSET Columns /\ Config(n).gives \in SUBSET Columns
  BY ConfigType
<1>3. ASSUME NEW rows \in 0..SourceRows, NEW cut \in BOOLEAN
      PROVE  [Fresh(Fetched(n), Config(n).gives, rows, cut) EXCEPT !.truncated = cut] \in RawFrame
  BY <1>1, <1>2, FreshType
<1> QED BY <1>3 DEF SourceFrames

\* An aggregate returns frames.
LEMMA AggregateType ==
    ASSUME RunInv, NEW n \in NodeIds, NEW in \in Frame
    PROVE  AggregateFrames(n, in) \subseteq RawFrame
<1> DEFINE cols == Config(n).needs \cup Config(n).gives
<1>1. in.rows \in Nat /\ in.cut \in BOOLEAN
  BY EngineAssumption DEF Frame
<1>2. cols \in SUBSET Columns
  BY ConfigType
<1>3. ASSUME NEW rows \in Nat PROVE Fresh(cols, cols, rows, in.cut) \in RawFrame
  BY <1>1, <1>2, FreshType
<1>4. \A rows \in IF in.rows = 0 THEN {0} ELSE IF Config(n).needs = {} THEN {1} ELSE 1..in.rows : rows \in Nat
  BY <1>1
<1> QED BY <1>3, <1>4 DEF AggregateFrames

\* A join returns frames.
LEMMA JoinType ==
    ASSUME RunInv, NEW n \in NodeIds, NEW left \in Frame, NEW right \in Frame
    PROVE  JoinFrames(n, left, right) \subseteq RawFrame
<1> DEFINE made(pairs, alone) == IF Config(n).outer THEN pairs + alone ELSE pairs
<1>1. /\ left.cols \in SUBSET Columns /\ right.cols \in SUBSET Columns
      /\ left.wide \in SUBSET Columns /\ right.wide \in SUBSET Columns
      /\ left.cut \in BOOLEAN /\ right.cut \in BOOLEAN
  BY DEF Frame
<1>2. \A l, r \in SUBSET Columns : Beside(l, r) \in SUBSET Columns
  BY EngineAssumption DEF Beside
<1>3. \A pa \in (0..left.rows * right.rows) \X (0..left.rows) :
        pa[1] \in Nat /\ pa[2] \in Nat /\ made(pa[1], pa[2]) \in Nat
  OBVIOUS
<1>4. ASSUME NEW pa \in (0..left.rows * right.rows) \X (0..left.rows)
      PROVE  Fresh(IF pa[1] = 0 THEN left.cols ELSE Beside(left.cols, right.cols),
                   IF pa[1] = 0 /\ made(pa[1], pa[2]) > 0 THEN left.wide ELSE Beside(left.wide, right.wide),
                   made(pa[1], pa[2]), left.cut \/ right.cut) \in RawFrame
  <2>1. (IF pa[1] = 0 THEN left.cols ELSE Beside(left.cols, right.cols)) \in SUBSET Columns
    BY <1>1, <1>2
  <2>2. (IF pa[1] = 0 /\ made(pa[1], pa[2]) > 0 THEN left.wide ELSE Beside(left.wide, right.wide))
          \in SUBSET Columns
    BY <1>1, <1>2
  <2>3. (left.cut \/ right.cut) \in BOOLEAN
    OBVIOUS
  <2> QED BY <1>3, <2>1, <2>2, <2>3, FreshType
<1> QED BY <1>4 DEF JoinFrames

\* Whatever the executor, the frame it returns has the shape of a frame.
LEMMA ExecutesType ==
    ASSUME DataInv, NodeRuns, Config(Current).type # "output"
    PROVE  Executes(Current) \subseteq RawFrame
<1> DEFINE n == Current
           kind == Config(n).type
           ins == {frames[f] : f \in SingleInput(n)}
<1>1. RunInv /\ AtNode /\ Accepts(n) /\ frames \in [NodeIds -> Frame]
  BY DEF NodeRuns, DataInv, FramesCapped
<1>2. n \in NodeIds /\ n \in Ids(def) /\ Validated(def)
  BY <1>1, CurrentReady DEF Sound
<1>3. kind \in {"source", "transform", "filter", "join", "aggregate"}
  BY <1>2 DEF Validated, NodeTypes, Config
<1>4. ins \subseteq Frame
  BY <1>1, SingleInputRan
<1>5. CASE kind = "source"
  <2>1. Executes(n) = SourceFrames(n)
    BY <1>5 DEF Executes
  <2> QED BY <1>1, <1>2, <1>5, <2>1, SourceType DEF Accepts
<1>6. CASE kind = "filter"
  <2>1. Executes(n) = UNION {FilterFrames(in) : in \in ins}
    BY <1>6 DEF Executes
  <2> QED BY <1>4, <2>1, FilterType
<1>7. CASE kind = "transform"
  <2>1. Executes(n) = UNION {TransformFrames(n, in) : in \in ins}
    BY <1>7 DEF Executes
  <2>2. \A in \in ins : TransformFrames(n, in) \subseteq RawFrame
    BY <1>1, <1>2, <1>4, TransformType
  <2> QED BY <2>1, <2>2
<1>8. CASE kind = "aggregate"
  <2>1. Executes(n) = UNION {AggregateFrames(n, in) : in \in {f \in ins : Grouped(n, f) /\ ~OutOfRange(n, f)}}
    BY <1>8 DEF Executes
  <2>2. \A in \in ins : AggregateFrames(n, in) \subseteq RawFrame
    BY <1>1, <1>2, <1>4, AggregateType
  <2> QED BY <2>1, <2>2
<1>9. CASE kind = "join"
  <2>1. Executes(n) = UNION {JoinFrames(n, side[1], side[2]) : side \in Sides(n)}
    BY <1>9 DEF Executes
  <2>2. \A key : \A f \in Input(n, key) : f \in NodeIds
    BY <1>1, InputRan DEF RunInv, Progress
  <2>3. \A side \in Sides(n) : side[1] \in Frame /\ side[2] \in Frame
    BY <1>1, <2>2 DEF Sides
  <2>4. \A side \in Sides(n) : JoinFrames(n, side[1], side[2]) \subseteq RawFrame
    BY <1>1, <1>2, <2>3, JoinType
  <2> QED BY <2>1, <2>4
<1> QED BY <1>3, <1>5, <1>6, <1>7, <1>8, <1>9

\* What running a node does to the frames: one frame is written, either a new
\* one or, by an output node, the one it was given.
LEMMA NodeRunsFrames ==
    ASSUME DataInv, NodeRuns
    PROVE  /\ frames' \in [NodeIds -> Frame]
           /\ \A f \in NodeIds : f # Current =>
                /\ frames'[f].cols = frames[f].cols
                /\ frames'[f].rows = frames[f].rows
                /\ frames'[f].truncated = frames[f].truncated
<1>1. RunInv /\ AtNode /\ frames \in [NodeIds -> Frame] /\ Current \in NodeIds
  BY CurrentReady DEF NodeRuns, DataInv, FramesCapped
<1>2. CASE Config(Current).type = "output"
  <2>1. PICK ref \in SingleInput(Current) : frames' = [frames EXCEPT ![ref] = Capped(frames[ref], Current)]
    BY <1>2 DEF NodeRuns
  <2>2. ref \in NodeIds /\ frames[ref] \in Frame /\ frames[ref] \in RawFrame
    BY <1>1, SingleInputRan, FrameIsRaw
  <2> QED BY <1>1, <2>1, <2>2, CappedType
<1>3. CASE Config(Current).type # "output"
  <2>1. PICK f \in Executes(Current) : frames' = [frames EXCEPT ![Current] = Capped(f, Current)]
    BY <1>3 DEF NodeRuns
  <2>2. Capped(f, Current) \in Frame
    BY <1>1, <1>3, <2>1, ExecutesType, CappedType
  <2> QED BY <1>1, <2>1, <2>2
<1> QED BY <1>2, <1>3

\* Running a node keeps DataInv.
LEMMA NodeRunsData == ASSUME DataInv, NodeRuns PROVE DataInv'
<1>1. RunInv' /\ results' = Append(results, Current) /\ Current \in NodeIds /\ AtNode /\ RunInv
  BY NodeRunsRun, CurrentReady DEF DataInv, NodeRuns
<1>2. Elems(results') = Elems(results) \cup {Current}
  BY <1>1, AppendElems DEF RunInv, Progress
<1>3. PICK f \in NodeIds : /\ outputs' = [outputs EXCEPT ![Current] = f]
                           /\ f = Current \/ f \in SingleInput(Current)
  BY <1>1, NodeRunsOutput
<1>4. f \in Elems(results')
  <2>1. CASE f = Current
    BY <1>2, <2>1
  <2>2. CASE f \in SingleInput(Current)
    BY <1>1, <1>2, <2>2, SingleInputRan DEF DataInv, OutputsRan
  <2> QED BY <1>3, <2>1, <2>2
<1>5. OutputsRan'
  <2>1. ASSUME NEW n \in NodeIds, outputs'[n] # NoNode PROVE outputs'[n] \in Elems(results')
    BY <1>1, <1>2, <1>3, <1>4, <2>1 DEF DataInv, OutputsRan, RunInv, Progress
  <2> QED BY <2>1 DEF OutputsRan
<1>6. FramesCapped'
  BY NodeRunsFrames DEF FramesCapped
<1> QED BY <1>1, <1>5, <1>6 DEF DataInv

\* No other step touches the frames or the outputs.
LEMMA OtherFrames ==
    ASSUME DataInv, [Next]_vars, ~NodeRuns
    PROVE  /\ frames' = frames /\ outputs' = outputs
           /\ results' = results \/ (results' = Append(results, Current) /\ Current \in NodeIds)
<1>1. CASE NodeFails
  BY <1>1, NodeFailsRun, CurrentReady DEF NodeFails, DataInv
<1>2. CASE NodePanics
  <2>1. UNCHANGED running
    BY <1>2 DEF NodePanics
  <2> QED BY <2>1 DEF running
<1>6. CASE Finish
  BY <1>6 DEF Finish
<1>3. CASE Validate \/ Seed \/ Seeded \/ Pop \/ Relaxed \/ Sorted \/ \E e \in EdgesOf(def) : Relax(e)
  BY <1>3 DEF Validate, Seed, Seeded, Pop, Relaxed, Sorted, Relax, running
<1>4. CASE NextHint \/ Hinted \/ Collect
  BY <1>4 DEF NextHint, Hinted, Collect, running
<1>5. CASE UNCHANGED vars
  BY <1>5 DEF vars
<1> QED BY <1>1, <1>2, <1>3, <1>4, <1>5, <1>6 DEF Next

\* DataInv is inductive.
LEMMA NextData == ASSUME DataInv, [Next]_vars PROVE DataInv'
<1>1. CASE NodeRuns
  BY <1>1, NodeRunsData
<1>2. CASE ~NodeRuns
  <2>1. RunInv'
    BY NextRun DEF DataInv
  <2>2. frames' = frames /\ outputs' = outputs /\ Elems(results) \subseteq Elems(results')
    <3>1. results \in Seq(NodeIds)
      BY DEF DataInv, RunInv, Progress
    <3>2. /\ frames' = frames /\ outputs' = outputs
          /\ results' = results \/ (results' = Append(results, Current) /\ Current \in NodeIds)
      BY <1>2, OtherFrames
    <3>3. CASE results' = results
      BY <3>2, <3>3
    <3>4. CASE results' = Append(results, Current) /\ Current \in NodeIds
      <4>1. Elems(Append(results, Current)) = Elems(results) \cup {Current}
        BY <3>1, <3>4, AppendElems
      <4> QED BY <3>2, <3>4, <4>1
    <3> QED BY <3>2, <3>3, <3>4
  <2> QED BY <2>1, <2>2 DEF DataInv, OutputsRan, FramesCapped
<1> QED BY <1>1, <1>2

\* DataInv holds initially.
LEMMA InitData == Init => DataInv
<1> SUFFICES ASSUME Init PROVE DataInv
  OBVIOUS
<1>1. NoFrame \in Frame
  BY EngineAssumption DEF NoFrame, Frame
<1> QED BY <1>1, InitRun DEF Init, DataInv, OutputsRan, FramesCapped

\* A step leaves the data of every frame alone that is some node's output.
LEMMA StepKeepsData ==
    ASSUME DataInv, [Next]_vars
    PROVE  \A n \in NodeIds : outputs[n] # NoNode =>
             /\ frames'[outputs[n]].cols = frames[outputs[n]].cols
             /\ frames'[outputs[n]].rows = frames[outputs[n]].rows
             /\ frames'[outputs[n]].truncated = frames[outputs[n]].truncated
<1>1. CASE NodeRuns
  <2>1. Current \notin Elems(results)
    BY <1>1, CurrentReady DEF NodeRuns, DataInv
  <2>2. \A n \in NodeIds : outputs[n] # NoNode => outputs[n] \in NodeIds /\ outputs[n] # Current
    BY <2>1 DEF DataInv, OutputsRan, RunInv, Progress
  <2> QED BY <1>1, <2>2, NodeRunsFrames
<1>2. CASE ~NodeRuns
  BY <1>2, OtherFrames
<1> QED BY <1>1, <1>2

\* Branches share frames, and yet no node changes the columns, the rows or the
\* truncation of a frame that another one produced: the frame an output node
\* caps is capped already.
THEOREM SharedDataIsImmutable == Spec => DataIsImmutable
<1>1. DataInv /\ [Next]_vars =>
        [\A n \in NodeIds : outputs[n] # NoNode =>
           LET f == outputs[n] IN
           /\ frames'[f].cols = frames[f].cols
           /\ frames'[f].rows = frames[f].rows
           /\ frames'[f].truncated = frames[f].truncated]_vars
  BY StepKeepsData
<1> QED BY <1>1, InitData, NextData, PTL DEF Spec, DataIsImmutable

-----------------------------------------------------------------------------
(* Types.                                                                   *)

\* What TypeOK says of the variables that the invariants above leave out.
HintsTyped ==
    /\ hints \in [NodeIds -> SUBSET Columns]
    /\ bfs \in [queue : Seq(NodeIds), seen : SUBSET Columns]
    /\ visits \in Nat
OutputTyped == output \in NodeIds \cup {NoNode}

TypeInv == DataInv /\ indegree \in [NodeIds -> Nat] /\ HintsTyped /\ OutputTyped

\* A count is decremented only for an edge that is still pending, so that it
\* does not go below zero.
LEMMA CountsStayNatural ==
    ASSUME TypeInv, [Next]_vars
    PROVE  indegree' \in [NodeIds -> Nat]
<1>1. SortInv /\ def \in Definitions /\ indegree \in [NodeIds -> Nat]
  BY DEF TypeInv, DataInv, RunInv, SortInv, SortTyped
<1>2. CASE Validate
  <2>1. \A n \in NodeIds : Cardinality(In(def, n)) \in Nat
    <3> TAKE n \in NodeIds
    <3>1. In(def, n) \in SUBSET EdgesOf(def)
      BY DEF In
    <3> QED BY <1>1, <3>1, DefinitionType, FS_Subset, FS_CardinalityType
  <2> QED BY <1>1, <1>2, <2>1 DEF Validate
<1>3. ASSUME NEW e \in EdgesOf(def), Relax(e) PROVE indegree' \in [NodeIds -> Nat]
  <2> DEFINE n == def.edges[e].target
  <2>1. pc = "relax" /\ e \in todo /\ indegree' = [indegree EXCEPT ![n] = @ - 1] /\ n \in NodeIds
    BY <1>1, <1>3, DefinitionType DEF Relax
  <2>2. e \in Pending(n) /\ indegree[n] = Cardinality(Pending(n))
    BY <1>1, <2>1 DEF Pending, In, SortInv, Counted, Sorting
  <2>3. indegree[n] # 0 /\ indegree[n] \in Nat
    BY <1>1, <2>1, <2>2, PendingFinite
  <2>4. indegree[n] - 1 \in Nat
    BY <2>3
  <2> HIDE DEF n
  <2> QED BY <1>1, <2>1, <2>4
<1>4. CASE Seed \/ Seeded \/ Pop \/ Relaxed \/ Sorted \/ NextHint \/ Hinted \/ Collect
           \/ NodeFails \/ NodePanics \/ NodeRuns \/ Finish \/ UNCHANGED vars
  <2>1. indegree' = indegree
    BY <1>4 DEF Seed, Seeded, Pop, Relaxed, Sorted, NextHint, Hinted, Collect,
                NodeFails, NodePanics, NodeRuns, Finish, vars, sorting
  <2> QED BY <1>1, <2>1
<1> QED BY <1>2, <1>3, <1>4 DEF Next

\* The walk that collects a source's columns goes from node to node.
LEMMA HintsStayTyped ==
    ASSUME TypeInv, [Next]_vars
    PROVE  HintsTyped'
<1>1. def \in Definitions /\ HintsTyped
  BY DEF TypeInv, DataInv, RunInv, SortInv, SortTyped
<1>2. CASE NextHint
  <2>1. bfs' = bfs \/ bfs' = [queue |-> Downstream(def.nodes[i]), seen |-> {}]
    BY <1>2 DEF NextHint
  <2>2. Downstream(def.nodes[i]) \in Seq(NodeIds)
    BY <1>1, DownstreamType
  <2>3. hints' = hints /\ visits' = visits
    BY <1>2 DEF NextHint
  <2> QED BY <1>1, <2>1, <2>2, <2>3 DEF HintsTyped
<1>3. CASE Collect
  <2> DEFINE n == Head(bfs.queue)
             further == IF Config(n).type = "join" THEN <<>> ELSE Downstream(n)
  <2>1. bfs.queue \in Seq(NodeIds) /\ bfs.seen \in SUBSET Columns
    BY <1>1 DEF HintsTyped
  <2>2. CASE /\ hints' = [hints EXCEPT ![def.nodes[i]] = bfs.seen]
             /\ UNCHANGED <<bfs, visits>>
    BY <1>1, <2>1, <2>2 DEF HintsTyped
  <2>3. CASE visits' = visits + 1 /\ UNCHANGED <<hints, bfs>>
    BY <1>1, <2>3 DEF HintsTyped
  <2>4. CASE /\ bfs.queue # <<>>
             /\ bfs' = [queue |-> Tail(bfs.queue) \o further, seen |-> bfs.seen \cup Config(n).words]
             /\ visits' = visits + 1 /\ UNCHANGED hints
    <3>1. n \in NodeIds /\ Tail(bfs.queue) \in Seq(NodeIds)
      BY <2>1, <2>4, TailElems
    <3>2. further \in Seq(NodeIds)
      BY <1>1, DownstreamType
    <3>3. Tail(bfs.queue) \o further \in Seq(NodeIds)
      <4> HIDE DEF further
      <4> QED BY <3>1, <3>2
    <3>4. Config(n).words \in SUBSET Columns
      BY <1>1, <3>1, DefinitionType DEF Config, NodeConfig
    <3> QED BY <1>1, <2>1, <2>4, <3>3, <3>4 DEF HintsTyped
  <2> QED BY <1>3, <2>2, <2>3, <2>4 DEF Collect
<1>4. CASE Validate \/ Seed \/ Seeded \/ Pop \/ Relaxed \/ Sorted \/ Hinted \/ NodeFails
           \/ NodePanics \/ NodeRuns \/ Finish \/ UNCHANGED vars \/ \E e \in EdgesOf(def) : Relax(e)
  <2>1. UNCHANGED hinting
    BY <1>4 DEF Validate, Seed, Seeded, Pop, Relaxed, Sorted, Hinted, NodeFails, NodePanics,
                NodeRuns, Finish, Relax, vars, hinting
  <2> QED BY <1>1, <2>1 DEF hinting, HintsTyped
<1> QED BY <1>2, <1>3, <1>4 DEF Next

\* The run's output is the frame of a node, if it is one.
LEMMA OutputStaysTyped ==
    ASSUME TypeInv, [Next]_vars
    PROVE  OutputTyped'
<1>1. RunInv /\ OutputTyped /\ outputs \in [NodeIds -> NodeIds \cup {NoNode}]
  BY DEF TypeInv, DataInv, RunInv, Progress
<1>2. CASE NodeRuns
  <2>1. Current \in NodeIds /\ AtNode
    BY <1>1, <1>2, CurrentReady DEF NodeRuns
  <2>2. output' = Current \/ output' \in SingleInput(Current)
    BY <1>2 DEF NodeRuns
  <2> QED BY <1>1, <2>1, <2>2, SingleInputRan DEF OutputTyped
<1>3. CASE Finish
  <2> DEFINE outs == {k \in 1..Len(order) : Config(order[k]).type = "output"}
             last == CHOOSE k \in outs : \A l \in outs : l <= k
  <2>1. CASE outs = {}
    BY <1>1, <1>3, <2>1 DEF Finish, OutputTyped
  <2>2. CASE outs # {}
    <3>1. output' = outputs[order[last]]
      BY <1>3, <2>2 DEF Finish
    <3>2. \E k \in outs : \A l \in outs : l <= k
      <4>1. Len(order) \in Nat /\ outs \in SUBSET (1..Len(order))
        BY <1>1 DEF RunInv, SortInv, SortTyped
      <4> HIDE DEF outs
      <4> QED BY <2>2, <4>1, GreatestElement
    <3>3. last \in 1..Len(order)
      BY <3>2
    <3>4. order[last] \in NodeIds
      <4> HIDE DEF last
      <4> QED BY <1>1, <3>3 DEF RunInv, SortInv, SortTyped
    <3> QED BY <1>1, <3>1, <3>4 DEF OutputTyped
  <2> QED BY <2>1, <2>2
<1>4. CASE Validate \/ Seed \/ Seeded \/ Pop \/ Relaxed \/ Sorted \/ \E e \in EdgesOf(def) : Relax(e)
  <2>1. output' = output
    BY <1>4 DEF Validate, Seed, Seeded, Pop, Relaxed, Sorted, Relax, running
  <2> QED BY <1>1, <2>1 DEF OutputTyped
<1>5. CASE NextHint \/ Hinted \/ Collect \/ NodeFails \/ NodePanics \/ UNCHANGED vars
  <2>1. output' = output
    BY <1>5 DEF NextHint, Hinted, Collect, NodeFails, NodePanics, vars, running
  <2> QED BY <1>1, <2>1 DEF OutputTyped
<1> QED BY <1>2, <1>3, <1>4, <1>5 DEF Next

\* TypeInv is inductive.
LEMMA NextType == ASSUME TypeInv, [Next]_vars PROVE TypeInv'
BY NextData, CountsStayNatural, HintsStayTyped, OutputStaysTyped DEF TypeInv

\* Every variable of the engine stays in its domain; the counts of
\* TopologicalOrder do not go below zero, and what is reported as the run's
\* output is a frame that a node produced.
THEOREM EngineTypeCorrect == Spec => []TypeOK
<1>1. Init => TypeInv
  BY InitData DEF Init, TypeInv, HintsTyped, OutputTyped
<1>2. TypeInv /\ [Next]_vars => TypeInv'
  BY NextType
<1>3. TypeInv => TypeOK
  BY DEF TypeInv, DataInv, RunInv, SortInv, SortTyped, Progress, FramesCapped, HintsTyped, OutputTyped,
         TypeOK, Sorting, After, Ended
<1> QED BY <1>1, <1>2, <1>3, PTL DEF Spec

-----------------------------------------------------------------------------
(* A run gets on.                                                           *)

\* The places of x in a sequence.
Places(s, x) == {j \in 1..Len(s) : s[j] = x}

\* Giving up the head for a list without x leaves x as often as it was, or one
\* time less if it was the head.
LEMMA PlacesAfter ==
    ASSUME NEW S, NEW s \in Seq(S), s # <<>>, NEW t \in Seq(S), NEW x, x \notin Elems(t)
    PROVE  /\ Cardinality(Places(s, x)) \in Nat
           /\ Cardinality(Places(Tail(s) \o t, x)) =
                IF Head(s) = x THEN Cardinality(Places(s, x)) - 1 ELSE Cardinality(Places(s, x))
<1> DEFINE u == Tail(s) \o t
           f == [j \in Places(u, x) |-> j + 1]
<1>1. /\ Len(s) \in Nat /\ Len(s) > 0 /\ Head(s) = s[1] /\ Tail(s) \in Seq(S) /\ Len(Tail(s)) = Len(s) - 1
      /\ \A j \in 1..(Len(s) - 1) : Tail(s)[j] = s[j + 1]
  OBVIOUS
<1>2. /\ Len(t) \in Nat /\ Len(u) = Len(s) - 1 + Len(t)
      /\ \A j \in 1..(Len(s) - 1) : u[j] = s[j + 1]
      /\ \A j \in Len(s)..Len(u) : u[j] = t[j - (Len(s) - 1)]
  BY <1>1
<1>3. \A j \in Places(u, x) : j \in 1..(Len(s) - 1) /\ s[j + 1] = x
  <2>1. \A j \in Len(s)..Len(u) : u[j] # x
    <3> TAKE j \in Len(s)..Len(u)
    <3>1. j - (Len(s) - 1) \in 1..Len(t)
      BY <1>1, <1>2
    <3> QED BY <1>2, <3>1 DEF Elems
  <2>2. \A j \in 1..Len(u) : j \in 1..(Len(s) - 1) \/ j \in Len(s)..Len(u)
    BY <1>1, <1>2
  <2> HIDE DEF u
  <2> QED BY <1>2, <2>1, <2>2 DEF Places
<1>4. Places(s, x) \ {1} = {j + 1 : j \in Places(u, x)}
  <2>1. ASSUME NEW k \in Places(s, x), k # 1 PROVE k - 1 \in Places(u, x) /\ k = k - 1 + 1
    <3>1. k \in 1..Len(s) /\ s[k] = x /\ k - 1 \in 1..(Len(s) - 1)
      BY <1>1, <2>1 DEF Places
    <3>2. k - 1 \in 1..Len(u) /\ u[k - 1] = s[k - 1 + 1] /\ k = k - 1 + 1
      BY <1>1, <1>2, <3>1
    <3> HIDE DEF u
    <3> QED BY <3>1, <3>2 DEF Places
  <2>2. ASSUME NEW j \in Places(u, x) PROVE j + 1 \in Places(s, x) /\ j + 1 # 1
    <3>1. j \in 1..(Len(s) - 1) /\ s[j + 1] = x
      BY <1>3, <2>2
    <3>2. j + 1 \in 1..Len(s) /\ j + 1 # 1
      BY <1>1, <3>1
    <3> QED BY <3>1, <3>2 DEF Places
  <2> HIDE DEF u
  <2> QED BY <2>1, <2>2
<1>5. f \in Bijection(Places(u, x), Places(s, x) \ {1})
  <2>1. Places(u, x) \subseteq Nat
    BY <1>3, <1>1
  <2> HIDE DEF u
  <2>2. f \in Surjection(Places(u, x), Places(s, x) \ {1})
    BY <1>4 DEF Surjection
  <2>3. f \in Injection(Places(u, x), Places(s, x) \ {1})
    BY <2>1, <1>4 DEF Injection, IsInjective
  <2> QED BY <2>2, <2>3 DEF Bijection
<1>6. IsFiniteSet(Places(s, x)) /\ IsFiniteSet(Places(u, x))
  <2>1. IsFiniteSet(1..Len(s)) /\ IsFiniteSet(1..Len(u))
    BY <1>1, <1>2, FS_Interval
  <2>2. Places(s, x) \in SUBSET (1..Len(s)) /\ Places(u, x) \in SUBSET (1..Len(u))
    BY DEF Places
  <2> QED BY <2>1, <2>2, FS_Subset
<1>7. Cardinality(Places(u, x)) = Cardinality(Places(s, x) \ {1})
  <2> HIDE DEF u, f
  <2> QED BY <1>5, <1>6, FS_Bijection DEF ExistsBijection
<1>8. 1 \in Places(s, x) <=> Head(s) = x
  BY <1>1 DEF Places
<1> QED BY <1>6, <1>7, <1>8, FS_RemoveElement, FS_CardinalityType

\* The walk stays in the definition.
WalkInv == pc = "collect" => bfs.queue \in Seq(Ids(def))

\* An edge of a valid definition leads to one of its nodes.
LEMMA SuccsInside ==
    ASSUME Validated(def), NEW n
    PROVE  Succs(n) \subseteq Ids(def)
BY DEF Validated, Succs, Out

LEMMA DownstreamInside ==
    ASSUME def \in Definitions, Validated(def), NEW n
    PROVE  Downstream(n) \in Seq(Ids(def))
<1>1. Succs(n) \subseteq Ids(def) /\ Downstream(n) \in Seq(Succs(n))
  BY SuccsInside, DownstreamType
<1>2. \A T : \A x \in Seq(T) : T \subseteq Ids(def) => x \in Seq(Ids(def))
  OBVIOUS
<1> QED BY <1>1, <1>2

LEMMA NextWalk == ASSUME TypeInv, WalkInv, [Next]_vars PROVE WalkInv'
<1>1. def \in Definitions /\ (pc \in {"hint", "collect"} => Validated(def))
  BY DEF TypeInv, DataInv, RunInv, SortInv, SortTyped, Phases, After
<1>2. CASE NextHint
  <2>1. CASE bfs' = [queue |-> Downstream(def.nodes[i]), seen |-> {}]
    <3>1. Downstream(def.nodes[i]) \in Seq(Ids(def)) /\ def' = def
      BY <1>1, <1>2, DownstreamInside DEF NextHint
    <3> QED BY <2>1, <3>1 DEF WalkInv
  <2>2. CASE pc' # "collect"
    BY <2>2 DEF WalkInv
  <2> QED BY <1>2, <2>1, <2>2 DEF NextHint
<1>3. CASE Collect
  <2> DEFINE n == Head(bfs.queue)
             further == IF Config(n).type = "join" THEN <<>> ELSE Downstream(n)
  <2>1. pc = "collect" /\ def' = def
    BY <1>3 DEF Collect
  <2>2. CASE pc' = "hint"
    BY <2>2 DEF WalkInv
  <2>3. CASE /\ bfs.queue # <<>>
             /\ bfs' = [queue |-> Tail(bfs.queue) \o further, seen |-> bfs.seen \cup Config(n).words]
    <3>1. further \in Seq(Ids(def))
      BY <1>1, <2>1, DownstreamInside
    <3>2. Tail(bfs.queue) \in Seq(Ids(def))
      BY <2>1, <2>3, TailElems DEF WalkInv
    <3>3. Tail(bfs.queue) \o further \in Seq(Ids(def))
      <4> HIDE DEF further
      <4> QED BY <3>1, <3>2
    <3> QED BY <2>1, <2>3, <3>3 DEF WalkInv
  <2> QED BY <1>3, <2>2, <2>3 DEF Collect
<1>4. CASE Validate \/ Seed \/ Seeded \/ Pop \/ Relaxed \/ Sorted \/ \E e \in EdgesOf(def) : Relax(e)
  <2>1. pc' # "collect"
    BY <1>4 DEF Validate, Seed, Seeded, Pop, Relaxed, Sorted, Relax
  <2> QED BY <2>1 DEF WalkInv
<1>5. CASE Hinted \/ NodeFails \/ NodePanics \/ NodeRuns \/ Finish
  <2>1. pc' # "collect"
    BY <1>5 DEF Hinted, NodeFails, NodePanics, NodeRuns, Finish, AtNode
  <2> QED BY <2>1 DEF WalkInv
<1>6. CASE UNCHANGED vars
  BY <1>6 DEF vars, WalkInv
<1> QED BY <1>2, <1>3, <1>4, <1>5, <1>6 DEF Next

\* In the order, a node comes before those that its edges lead to.
LEMMA SuccsLater ==
    ASSUME RunInv, pc \in After, NEW k \in 1..Len(order), NEW j \in 1..Len(order), order[j] \in Succs(order[k])
    PROVE  k < j
<1>1. PICK e \in Out(def, order[k]) : order[j] = def.edges[e].target
  BY DEF Succs
<1>2. e \in In(def, order[j]) /\ def.edges[e].source = order[k]
  BY <1>1 DEF In, Out
<1>3. PICK l \in 1..(j - 1) : order[l] = order[k]
  BY <1>2 DEF RunInv, SortInv, Ordered
<1>4. Len(order) \in Nat /\ l \in 1..Len(order)
  BY DEF RunInv, SortInv, SortTyped
<1>5. l = k
  BY <1>3, <1>4 DEF RunInv, SortInv, ReachedReady, Distinct
<1> QED BY <1>3, <1>5

\* A node that the walk has dealt with waits once less; those before it in the
\* order wait as often as they did.
LEMMA WalkGetsOn ==
    ASSUME TypeInv, WalkInv, pc = "collect", UNCHANGED order, bfs.queue # <<>>,
           bfs'.queue = Tail(bfs.queue) \o
               (IF Config(Head(bfs.queue)).type = "join" THEN <<>> ELSE Downstream(Head(bfs.queue)))
    PROVE  \E k \in 1..Len(order) : /\ Waiting(k)' < Waiting(k)
                                    /\ \A j \in 1..(k - 1) : Waiting(j)' = Waiting(j)
<1> DEFINE n == Head(bfs.queue)
           further == IF Config(n).type = "join" THEN <<>> ELSE Downstream(n)
<1>1. /\ RunInv /\ def \in Definitions /\ Validated(def) /\ pc \in After
      /\ Elems(order) = Ids(def) /\ Len(order) \in Nat /\ Distinct(order)
      /\ bfs.queue \in Seq(Ids(def)) /\ bfs.queue # <<>>
  BY DEF TypeInv, DataInv, RunInv, SortInv, SortTyped, Phases, Verdict, ReachedReady, After, WalkInv
<1>2. n \in Ids(def) /\ further \in Seq(Ids(def)) /\ Elems(further) \subseteq Succs(n)
  <2>1. Downstream(n) \in Seq(Succs(n)) /\ Downstream(n) \in Seq(Ids(def))
    BY <1>1, DownstreamType, DownstreamInside
  <2>2. Elems(Downstream(n)) \subseteq Succs(n)
    BY <2>1 DEF Elems
  <2>3. Elems(<<>>) = {} /\ <<>> \in Seq(Ids(def))
    BY DEF Elems
  <2>4. n \in Ids(def)
    BY <1>1, TailElems
  <2> QED BY <2>1, <2>2, <2>3, <2>4
<1>3. PICK k \in 1..Len(order) : order[k] = n
  BY <1>1, <1>2 DEF Elems
<1>4. \A j \in 1..Len(order) : j <= k => order[j] \notin Elems(further)
  BY <1>1, <1>2, <1>3, SuccsLater
<1>5. \A j \in 1..Len(order) : /\ Waiting(j) = Cardinality(Places(bfs.queue, order[j]))
                               /\ Waiting(j)' = Cardinality(Places(Tail(bfs.queue) \o further, order[j]))
  BY DEF Waiting, Places
<1> HIDE DEF n, further
<1>6. \A j \in 1..Len(order) : j <= k =>
        /\ Waiting(j) \in Nat
        /\ Waiting(j)' = IF n = order[j] THEN Waiting(j) - 1 ELSE Waiting(j)
  BY <1>1, <1>2, <1>4, <1>5, PlacesAfter DEF n
<1>7. Waiting(k)' < Waiting(k)
  BY <1>3, <1>6
<1>8. ASSUME NEW j \in 1..(k - 1) PROVE Waiting(j)' = Waiting(j)
  <2>1. j \in 1..Len(order) /\ j <= k /\ j # k
    BY <1>1
  <2>2. order[j] # n
    BY <1>1, <1>3, <2>1 DEF Distinct
  <2> QED BY <1>6, <2>1, <2>2
<1> QED BY <1>7, <1>8

\* What it takes for a run to get further.
LEMMA GetsFurther ==
    ASSUME \/ Phase < Phase'
           \/ /\ Phase' = Phase
              /\ \/ Phase = 2 /\ Len(order) < Len(order')
                 \/ Phase = 2 /\ order' = order /\ 0 - Cardinality(todo) < 0 - Cardinality(todo')
                 \/ Phase = 2 /\ order' = order /\ todo' = todo /\ pc = "relax" /\ pc' = "pop"
                 \/ Phase # 2 /\ i < i'
                 \/ Phase # 2 /\ i' = i /\ todo' = todo /\ pc = "hint" /\ pc' = "collect"
    PROVE  Further(Position, Position')
<1> DEFINE p == Position
           q == Position'
<1>1. /\ p[1] = Phase /\ p[2] = (IF Phase = 2 THEN Len(order) ELSE i) /\ p[3] = 0 - Cardinality(todo)
      /\ p[4] = (IF pc \in {"pop", "collect"} THEN 1 ELSE 0)
  BY DEF Position
<1>2. /\ q[1] = Phase' /\ q[2] = (IF Phase' = 2 THEN Len(order') ELSE i') /\ q[3] = 0 - Cardinality(todo')
      /\ q[4] = (IF pc' \in {"pop", "collect"} THEN 1 ELSE 0)
  BY DEF Position
<1> HIDE DEF p, q
<1>3. \/ p[1] < q[1]
      \/ p[1] = q[1] /\ p[2] < q[2]
      \/ p[1] = q[1] /\ p[2] = q[2] /\ p[3] < q[3]
      \/ p[1] = q[1] /\ p[2] = q[2] /\ p[3] = q[3] /\ p[4] < q[4]
  BY <1>1, <1>2
<1> QED BY <1>3 DEF Further, p, q

\* Every action takes a run further, or the walk.
LEMMA NextFurther ==
    ASSUME TypeInv, WalkInv, Next
    PROVE  \/ Further(Position, Position')
           \/ /\ Position' = Position
              /\ \E k \in 1..Len(order) : /\ Waiting(k)' < Waiting(k)
                                          /\ \A j \in 1..(k - 1) : Waiting(j)' = Waiting(j)
<1>1. /\ i \in Nat /\ order \in Seq(NodeIds) /\ queue \in Seq(NodeIds) /\ todo \in SUBSET EdgesOf(def)
      /\ def \in Definitions /\ RunInv
  BY DEF TypeInv, DataInv, RunInv, SortInv, SortTyped
<1>2. CASE Validate \/ Seeded \/ Hinted \/ Finish \/ NodePanics \/ Sorted
  <2>1. Phase < Phase'
    BY <1>2 DEF Validate, Seeded, Hinted, Finish, NodePanics, Sorted, AtNode, Phase
  <2> QED BY <2>1, GetsFurther
<1>3. CASE NodeFails
  <2>1. pc = "run" /\ pc' = "failed"
    BY <1>1, <1>3, NodeFailsRun DEF NodeFails, AtNode
  <2> QED BY <2>1, GetsFurther DEF Phase
<1>4. CASE Seed \/ NodeRuns
  <2>1. pc' = pc /\ pc \in {"seed", "run"} /\ i' = i + 1
    BY <1>4 DEF Seed, NodeRuns, AtNode
  <2> QED BY <1>1, <2>1, GetsFurther DEF Phase
<1>5. CASE Pop
  <2>1. pc = "pop" /\ pc' = "relax" /\ order' = Append(order, Head(queue)) /\ queue # <<>>
    BY <1>5 DEF Pop
  <2>2. Len(order') = Len(order) + 1 /\ Len(order) \in Nat
    <3>1. Head(queue) \in NodeIds
      BY <1>1, <2>1, TailElems
    <3> QED BY <1>1, <2>1, <3>1
  <2> QED BY <2>1, <2>2, GetsFurther DEF Phase
<1>6. ASSUME NEW e \in EdgesOf(def), Relax(e) PROVE Further(Position, Position')
  <2>1. pc = "relax" /\ pc' = pc /\ order' = order /\ e \in todo /\ todo' = todo \ {e}
    BY <1>6 DEF Relax
  <2>2. IsFiniteSet(todo)
    BY <1>1, DefinitionType, FS_Subset
  <2>3. Cardinality(todo') = Cardinality(todo) - 1 /\ Cardinality(todo) \in Nat
    BY <2>1, <2>2, FS_RemoveElement, FS_CardinalityType
  <2> QED BY <2>1, <2>3, GetsFurther DEF Phase
<1>7. CASE Relaxed
  <2>1. pc = "relax" /\ pc' = "pop" /\ order' = order /\ todo' = todo
    BY <1>7 DEF Relaxed, sorting
  <2> QED BY <2>1, GetsFurther DEF Phase
<1>8. CASE NextHint
  <2>1. pc = "hint" /\ todo' = todo
    BY <1>8 DEF NextHint, sorting
  <2>2. CASE pc' = "collect" /\ i' = i
    BY <2>1, <2>2, GetsFurther DEF Phase
  <2>3. CASE pc' = pc /\ i' = i + 1
    BY <1>1, <2>1, <2>3, GetsFurther DEF Phase
  <2> QED BY <1>8, <2>2, <2>3 DEF NextHint
<1>9. CASE Collect
  <2>1. pc = "collect" /\ order' = order /\ todo' = todo
    BY <1>9 DEF Collect, sorting
  <2>2. CASE pc' = "hint" /\ i' = i + 1
    BY <1>1, <2>1, <2>2, GetsFurther DEF Phase
  <2> DEFINE n == Head(bfs.queue)
             further == IF Config(n).type = "join" THEN <<>> ELSE Downstream(n)
  <2>3. CASE /\ pc' = pc /\ i' = i /\ bfs.queue # <<>>
             /\ bfs' = [queue |-> Tail(bfs.queue) \o further, seen |-> bfs.seen \cup Config(n).words]
    <3>1. Position' = Position
      BY <2>1, <2>3 DEF Position, Phase
    <3>2. bfs'.queue = Tail(bfs.queue) \o further
      BY <2>3
    <3> QED BY <2>1, <2>3, <3>1, <3>2, WalkGetsOn
  <2> QED BY <1>9, <2>2, <2>3 DEF Collect
<1> QED BY <1>2, <1>3, <1>4, <1>5, <1>6, <1>7, <1>8, <1>9 DEF Next

\* For every definition a run gets on with every step, in the walk for the
\* projection hints too, which does not end in a graph with a cycle: it only
\* starts when there is an order, and goes forward in it.
THEOREM EngineGetsOn == Spec => RunAdvances
<1>1. Init => TypeInv /\ WalkInv
  BY InitData DEF Init, TypeInv, HintsTyped, OutputTyped, WalkInv
<1>2. TypeInv /\ WalkInv /\ [Next]_vars => TypeInv' /\ WalkInv'
  BY NextType, NextWalk
<1>3. TypeInv /\ WalkInv /\ [Next]_vars =>
        [\/ Further(Position, Position')
         \/ /\ Position' = Position
            /\ \E k \in 1..Len(order) : /\ Waiting(k)' < Waiting(k)
                                        /\ \A j \in 1..(k - 1) : Waiting(j)' = Waiting(j)]_vars
  BY NextFurther
<1> QED BY <1>1, <1>2, <1>3, PTL DEF Spec, RunAdvances

-----------------------------------------------------------------------------
(* When the inputs and the output of a run are what they are described as.  *)

\* Edges are numbered, so that one of a set is the last.
LEMMA LastEdge ==
    ASSUME def \in Definitions, NEW T \in SUBSET EdgesOf(def)
    PROVE  /\ T # {} => \E e \in T : \A f \in T : f <= e
           /\ \A e, f \in T : (\A g \in T : g <= e) /\ (\A g \in T : g <= f) => e = f
<1>1. Len(def.edges) \in Nat
  BY DefinitionType
<1>2. T \in SUBSET (1..Len(def.edges))
  BY DEF EdgesOf
<1>3. T # {} => \E e \in T : \A f \in T : f <= e
  BY <1>1, <1>2, GreatestElement
<1>4. ASSUME NEW e \in T, NEW f \in T, \A g \in T : g <= e, \A g \in T : g <= f
      PROVE  e = f
  <2>1. e \in Nat /\ f \in Nat /\ e <= f /\ f <= e
    BY <1>2, <1>4
  <2> QED BY <2>1
<1> QED BY <1>3, <1>4

\* A key holds one frame: that of the last edge that writes it.
LEMMA InputIsLast ==
    ASSUME def \in Definitions, NEW n, NEW key
    PROVE  /\ Input(n, key) = {} <=> Writers(n, key) = {}
           /\ \A e \in Writers(n, key) : (\A f \in Writers(n, key) : f <= e)
                => Input(n, key) = {outputs[def.edges[e].source]}
           /\ \A f, g \in Input(n, key) : f = g
<1>1. Writers(n, key) \in SUBSET EdgesOf(def)
  BY DEF Writers, In
<1>2. /\ Writers(n, key) # {} => \E e \in Writers(n, key) : \A f \in Writers(n, key) : f <= e
      /\ \A e, f \in Writers(n, key) :
            (\A g \in Writers(n, key) : g <= e) /\ (\A g \in Writers(n, key) : g <= f) => e = f
  BY <1>1, LastEdge
<1>3. ASSUME NEW e \in Writers(n, key), \A f \in Writers(n, key) : f <= e
      PROVE  Input(n, key) = {outputs[def.edges[e].source]}
  BY <1>2, <1>3 DEF Input
<1>4. Writers(n, key) = {} => Input(n, key) = {}
  BY DEF Input
<1> QED BY <1>2, <1>3, <1>4

\* A run of a definition in which every edge ends at the default handle, those
\* into a join aside, does not depend on the iteration of a map: the handles are
\* all that the refuted InputIsDetermined takes.
THEOREM DefaultInputsAreDetermined ==
    ASSUME \A d \in Definitions : \A e \in EdgesOf(d) :
              d.config[d.edges[e].target].type # "join" => d.edges[e].handle = "default"
    PROVE  Spec => []InputIsDetermined
<1>1. ASSUME RunInv, AtNode, Config(Current).type # "join"
      PROVE  Cardinality(SingleInput(Current)) <= 1
  <2>1. def \in Definitions
    BY <1>1 DEF RunInv, SortInv, SortTyped
  <2>2. \A e \in In(def, Current) : def.edges[e].handle = "default"
    BY <1>1, <2>1 DEF In, Config
  <2>3. Keys(Current) # {} => "default" \in Keys(Current)
    BY <2>2 DEF Keys
  <2>4. \A f, g \in SingleInput(Current) : f = g
    <3>1. CASE "default" \in Keys(Current)
      BY <2>1, <3>1, InputIsLast DEF SingleInput
    <3>2. CASE "default" \notin Keys(Current)
      BY <2>3, <3>2 DEF SingleInput
    <3> QED BY <3>1, <3>2
  <2>5. CASE SingleInput(Current) = {}
    <3>1. Cardinality(SingleInput(Current)) = 0
      BY <2>5, FS_EmptySet
    <3> QED BY <3>1
  <2>6. ASSUME NEW f \in SingleInput(Current) PROVE Cardinality(SingleInput(Current)) <= 1
    <3>1. SingleInput(Current) = {f}
      BY <2>4, <2>6
    <3>2. Cardinality(SingleInput(Current)) = 1
      BY <3>1, FS_Singleton
    <3> QED BY <3>2
  <2> QED BY <2>5, <2>6
<1>2. RunInv => InputIsDetermined
  BY <1>1 DEF InputIsDetermined
<1> QED BY <1>2, EngineInvariant, PTL

\* Where no node is called "left", a join's left input is the frame of an edge
\* that ends at its left handle, the last of them.
THEOREM JoinsReadTheirHandles ==
    ASSUME "left" \notin NodeIds
    PROVE  Spec => []JoinReadsItsHandles
<1>1. ASSUME RunInv, AtNode, NEW e \in In(def, Current), def.edges[e].handle = "left"
      PROVE  \E g \in In(def, Current) : /\ def.edges[g].handle = "left"
                                         /\ Input(Current, "left") = {outputs[def.edges[g].source]}
  <2>1. def \in Definitions
    BY <1>1 DEF RunInv, SortInv, SortTyped
  <2>2. \A g \in Writers(Current, "left") : g \in In(def, Current) /\ def.edges[g].handle = "left"
    BY <2>1, DefinitionType DEF Writers, In
  <2>3. e \in Writers(Current, "left") /\ Writers(Current, "left") \in SUBSET EdgesOf(def)
    BY <1>1 DEF Writers, In
  <2>4. PICK g \in Writers(Current, "left") : \A f \in Writers(Current, "left") : f <= g
    BY <2>1, <2>3, LastEdge
  <2>5. Input(Current, "left") = {outputs[def.edges[g].source]}
    BY <2>1, <2>4, InputIsLast
  <2> QED BY <2>2, <2>5
<1>2. RunInv => JoinReadsItsHandles
  BY <1>1 DEF JoinReadsItsHandles
<1> QED BY <1>2, EngineInvariant, PTL

\* Once a node has run there is an output, and at the end it is still there.
LastInv ==
    /\ pc = "run" /\ i > 1 => output # NoNode
    /\ pc = "succeeded" /\ def.nodes # <<>> => output # NoNode

LEMMA NextLast == ASSUME TypeInv, LastInv, [Next]_vars PROVE LastInv'
<1>1. RunInv
  BY DEF TypeInv, DataInv
<1>2. CASE NodeRuns
  <2>1. Current \in NodeIds /\ AtNode /\ pc = "run" /\ pc' = "run"
    BY <1>1, <1>2, CurrentReady DEF NodeRuns, AtNode
  <2>2. output' = Current \/ output' \in SingleInput(Current)
    BY <1>2 DEF NodeRuns
  <2> QED BY <1>1, <2>1, <2>2, SingleInputRan, EngineAssumption DEF LastInv
<1>3. CASE Finish
  <2> DEFINE outs == {k \in 1..Len(order) : Config(order[k]).type = "output"}
             last == CHOOSE k \in outs : \A l \in outs : l <= k
  <2>1. /\ pc = "run" /\ pc' = "succeeded" /\ def' = def /\ i > Len(order)
        /\ output' = IF outs = {} THEN output ELSE outputs[order[last]]
    BY <1>3 DEF Finish
  <2>2. /\ Len(order) \in Nat /\ outs \in SUBSET (1..Len(order)) /\ i \in Nat
        /\ i <= Len(order) + 1
        /\ \A k \in 1..(i - 1) : outputs[order[k]] # NoNode
        /\ Len(order) = Len(def.nodes) /\ def.nodes \in Seq(NodeIds)
    BY <1>1, <2>1, DefinitionType DEF RunInv, SortInv, SortTyped, Progress, Verdict, After
  <2>3. CASE outs = {}
    <3>1. def.nodes # <<>> => i > 1
      BY <2>1, <2>2
    <3> QED BY <2>1, <2>3, <3>1 DEF LastInv
  <2>4. CASE outs # {}
    <3>1. \E k \in outs : \A l \in outs : l <= k
      <4> HIDE DEF outs
      <4> QED BY <2>2, <2>4, GreatestElement
    <3>2. last \in 1..Len(order)
      BY <3>1
    <3>3. outputs[order[last]] # NoNode
      <4> HIDE DEF last
      <4> QED BY <2>1, <2>2, <3>2
    <3>4. output' # NoNode
      BY <2>1, <2>4, <3>3
    <3> QED BY <2>1, <3>4 DEF LastInv
  <2> QED BY <2>3, <2>4
<1>4. CASE Validate \/ Seed \/ Seeded \/ Pop \/ Relaxed \/ Sorted \/ \E e \in EdgesOf(def) : Relax(e)
  <2>1. pc' \notin {"run", "succeeded"}
    BY <1>4 DEF Validate, Seed, Seeded, Pop, Relaxed, Sorted, Relax
  <2> QED BY <2>1 DEF LastInv
<1>5. CASE NextHint \/ Collect \/ NodePanics
  <2>1. pc' \notin {"run", "succeeded"}
    BY <1>5 DEF NextHint, Collect, NodePanics
  <2> QED BY <2>1 DEF LastInv
<1>6. CASE NodeFails
  BY <1>6 DEF NodeFails, LastInv
<1>7. CASE Hinted
  BY <1>7 DEF Hinted, LastInv
<1>8. CASE UNCHANGED vars
  BY <1>8 DEF vars, LastInv
<1> QED BY <1>2, <1>3, <1>4, <1>5, <1>6, <1>7, <1>8 DEF Next

\* A run that succeeds has a final frame to render unless its definition has no
\* node at all: that is all that the refuted SuccessHasOutput takes.
THEOREM SuccessOfNodesHasOutput ==
    ASSUME \A d \in Definitions : d.nodes # <<>>
    PROVE  Spec => []SuccessHasOutput
<1>1. Init => TypeInv /\ LastInv
  BY InitData DEF Init, TypeInv, HintsTyped, OutputTyped, LastInv
<1>2. TypeInv /\ LastInv /\ [Next]_vars => TypeInv' /\ LastInv'
  BY NextType, NextLast
<1>3. TypeInv /\ LastInv => SuccessHasOutput
  BY DEF TypeInv, DataInv, RunInv, SortInv, SortTyped, LastInv, SuccessHasOutput
<1> QED BY <1>1, <1>2, <1>3, PTL DEF Spec

=============================================================================
