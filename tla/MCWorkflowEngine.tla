--------------------------- MODULE MCWorkflowEngine ---------------------------
(* Instances of WorkflowEngine. *)
EXTENDS WorkflowEngine, TLC

Plain == [type |-> "source", form |-> "ok", sql |-> FALSE, outer |-> FALSE, words |-> {},
          needs |-> {}, needsRight |-> {}, reads |-> {}, gives |-> {}]
Source(cols) == [Plain EXCEPT !.gives = cols, !.sql = TRUE]
Api(cols) == [Plain EXCEPT !.gives = cols]
Filter(words) == [Plain EXCEPT !.type = "filter", !.words = words]
Transform(cols) == [Plain EXCEPT !.type = "transform", !.gives = cols]
JoinOn(l, r, outer) == [Plain EXCEPT !.type = "join", !.words = {l, r}, !.needs = {l},
                                     !.needsRight = {r}, !.outer = outer]
Aggregate(by, reads, as) == [Plain EXCEPT !.type = "aggregate", !.words = by \cup reads,
                                          !.needs = by, !.reads = reads, !.gives = as]
Broken(c, form) == [c EXCEPT !.form = form]
OutputNode == [Plain EXCEPT !.type = "output"]

Cols == {"w", "x", "y", "z"}
Prefixed == {"right_w", "right_x", "right_y", "right_z"}
ColumnNames == Cols \cup Prefixed
RightPrefix == [c \in ColumnNames |-> IF c \in Cols THEN "right_" \o c ELSE c]

To(s, t) == [source |-> s, target |-> t, handle |-> "default"]
At(s, t, h) == [source |-> s, target |-> t, handle |-> h]

\* Nodes of a definition are given as a function; the others are unused.
Def(nodes, cfg, edges) ==
    [nodes |-> nodes, edges |-> edges,
     config |-> [n \in NodeIds |-> IF n \in DOMAIN cfg THEN cfg[n] ELSE Plain]]

-----------------------------------------------------------------------------
\* Every graph on three nodes with at most three edges, self-loops and
\* parallel edges included, and definitions Validate refuses.
AllSources == "a" :> Plain @@ "b" :> Plain @@ "c" :> Plain
EdgeSet == [source : {"a", "b", "c"}, target : {"a", "b", "c"}, handle : {"default"}]
Graphs == {Def(<<"a", "b", "c">>, AllSources, es) : es \in UNION {[1..k -> EdgeSet] : k \in 0..3}}
Refused ==
    {Def(<<"a", "a">>, AllSources, <<>>),
     Def(<<"a">>, AllSources, <<To("a", "b")>>),
     Def(<<"a">>, "a" :> [Plain EXCEPT !.type = "unknown"], <<>>),
     Def(<<"a", "b", "c", "d", "e">>, AllSources @@ "d" :> Plain @@ "e" :> Plain, <<>>),
     Def(<<"a", "b">>, AllSources, [k \in 1..5 |-> To("a", "b")])}

-----------------------------------------------------------------------------
\* Pipelines as the builder makes them.
Chain == Def(<<"a", "b", "c", "d">>,
    "a" :> Source({"x", "y"}) @@ "b" :> Filter({"x"}) @@ "c" :> Transform({"z"}) @@ "d" :> OutputNode,
    <<To("a", "b"), To("b", "c"), To("c", "d")>>)
Diamond == Def(<<"a", "b", "c", "d">>,
    "a" :> Source({"x", "y"}) @@ "b" :> Filter({"x"}) @@ "c" :> Filter({"y"})
        @@ "d" :> JoinOn("x", "x", TRUE),
    <<To("a", "b"), To("a", "c"), At("b", "d", "left"), At("c", "d", "right")>>)
TwoSources == Def(<<"a", "b", "c", "d">>,
    "a" :> Api({"x"}) @@ "b" :> Source({"y", "z"}) @@ "c" :> JoinOn("x", "y", FALSE) @@ "d" :> OutputNode,
    <<At("a", "c", "left"), At("b", "c", "right"), To("c", "d")>>)
Shared == Def(<<"a", "b", "c", "d">>,
    "a" :> Api({"x", "y"}) @@ "b" :> OutputNode @@ "c" :> Filter({"x"}) @@ "d" :> OutputNode,
    <<To("a", "b"), To("a", "c"), To("c", "d")>>)
GroupUp == Def(<<"a", "b", "c">>,
    "a" :> Source({"x", "y"}) @@ "b" :> Aggregate({"x"}, {"y"}, {"z"}) @@ "c" :> OutputNode,
    <<To("a", "b"), To("b", "c")>>)
WrongColumn == Def(<<"a", "b">>,
    "a" :> Api({"x"}) @@ "b" :> Aggregate({"x"}, {"y"}, {"z"}), <<To("a", "b")>>)
BadConfig(form) == Def(<<"a", "b">>,
    "a" :> Source({"x"}) @@ "b" :> Broken(Filter({"x"}), form), <<To("a", "b")>>)
Unwired == Def(<<"a", "b">>, "a" :> Api({"x"}) @@ "b" :> OutputNode, <<>>)
OneHandle == Def(<<"a", "b">>, "a" :> Api({"x"}) @@ "b" :> JoinOn("x", "x", FALSE), <<At("a", "b", "left")>>)
FrameDefinitions == {Chain, Diamond, TwoSources, Shared, GroupUp, WrongColumn,
                     BadConfig("malformed"), BadConfig("incomplete"), Unwired, OneHandle}

RunDefinitions == Graphs \cup Refused \cup {Def(<<>>, AllSources, <<>>)} \cup FrameDefinitions

-----------------------------------------------------------------------------
\* One definition for each claim that fails.
Empty == {Def(<<>>, AllSources, <<>>)}
Misses == {WrongColumn}
Grouping == {GroupUp}
Filtering == {Def(<<"a", "b", "c">>,
    "a" :> Source({"x", "y"}) @@ "b" :> Filter({"x"}) @@ "c" :> OutputNode,
    <<To("a", "b"), To("b", "c")>>)}
\* x > 1000 and y = "w"
Quoting == {Def(<<"a", "b">>, "a" :> Source({"x", "y"}) @@ "b" :> Filter({"x", "y", "w"}), <<To("a", "b")>>)}
Reshaping == {Chain}
Sharing == {Shared}
TwoHandles == {Def(<<"a", "b", "c">>,
    "a" :> Api({"x"}) @@ "b" :> Api({"y"}) @@ "c" :> Filter({"x"}),
    <<At("a", "c", "left"), At("b", "c", "right")>>)}
NamedLeft == {Def(<<"a", "left", "c">>,
    "a" :> Api({"x"}) @@ "left" :> Api({"x", "y"}) @@ "c" :> JoinOn("x", "x", FALSE),
    <<At("a", "c", "left"), At("left", "c", "right")>>)}
Ladder == {Def(<<"a", "b", "c", "d", "e", "f", "g">>,
    "a" :> Source({"x"}) @@ [n \in {"b", "c", "d", "e", "f", "g"} |-> Filter({"x"})],
    <<To("a", "b"), To("a", "c"), To("b", "d"), To("b", "e"), To("c", "d"), To("c", "e"),
      To("d", "f"), To("d", "g"), To("e", "f"), To("e", "g")>>)}

=============================================================================
