------------------------ MODULE MCWorkflowScheduler ------------------------
(***************************************************************************)
(* Model-checking instances of WorkflowScheduler.  The configurations       *)
(* choose the workflows, goroutines, failures and horizon; requests and     *)
(* editors are interchangeable.                                             *)
(***************************************************************************)
EXTENDS WorkflowScheduler, TLC

Symmetric == Permutations(Requests) \cup Permutations(Editors)

=============================================================================
