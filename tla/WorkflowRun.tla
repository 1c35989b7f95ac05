----------------------------- MODULE WorkflowRun -----------------------------
(***************************************************************************)
(* What a run of a workflow promises, whatever the order the engine finds:  *)
(* a definition that is not sound is rejected before any node runs, a node  *)
(* runs once, after everything it depends on, the first node that fails     *)
(* ends the run, and a run succeeds when every node has run.                *)
(***************************************************************************)
EXTENDS WorkflowDefinition

CONSTANT Definitions \* the definitions that can be saved

VARIABLES
    def,    \* the definition being run
    ran,    \* the nodes reported in the run's node results
    status

vars == <<def, ran, status>>

Init ==
    /\ def \in Definitions
    /\ ran = {}
    /\ status = "running"

Reject ==
    /\ status = "running" /\ ran = {}
    /\ ~Sound(def)
    /\ status' = "rejected"
    /\ UNCHANGED <<def, ran>>

Ready(n) == Sound(def) /\ n \in Ids(def) \ ran /\ Preds(def, n) \subseteq ran

\* Node n runs, and succeeds or fails.
RunNode(n) ==
    /\ status = "running"
    /\ Ready(n)
    /\ ran' = ran \cup {n}
    /\ status' \in {"running", "failed"}
    /\ UNCHANGED def

\* Node n runs and takes the goroutine down.
Panic(n) ==
    /\ status = "running"
    /\ Ready(n)
    /\ status' = "panicked"
    /\ UNCHANGED <<def, ran>>

Succeed ==
    /\ status = "running"
    /\ Sound(def)
    /\ ran = Ids(def)
    /\ status' = "succeeded"
    /\ UNCHANGED <<def, ran>>

Next ==
    \/ Reject
    \/ \E n \in NodeIds : RunNode(n) \/ Panic(n)
    \/ Succeed

Spec == Init /\ [][Next]_vars

=============================================================================
