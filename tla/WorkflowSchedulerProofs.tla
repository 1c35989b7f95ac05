----------------------- MODULE WorkflowSchedulerProofs -----------------------
(***************************************************************************)
(* Proofs about WorkflowScheduler, for any workflows, requests, editors,   *)
(* cron expressions and bounds.                                            *)
(*                                                                         *)
(* The counters are what makes the type invariant non-trivial (the         *)
(* decrement must not go below zero) and they need the link between the    *)
(* scheduler's loop and its call of Execute, so the three are proved       *)
(* together as CountInv.  The schedule columns are independent of them.    *)
(***************************************************************************)
EXTENDS WorkflowScheduler, FiniteSetTheorems, TLAPS

\* The scheduler goroutine is inside Execute only while runOne waits for it.
SchedulerLink == sched.pc # "exec" => run[Scheduler].pc = "idle"

CountInv == TypeOK /\ CountersExact /\ SchedulerLink

\* The goroutines inside Execute.
Busy == {r \in Runners : run[r].pc # "idle"}

-----------------------------------------------------------------------------
\* The initial values of the locals are in their domains.
LEMMA IdleTypes ==
    /\ AnyWf \in Workflows /\ AnyDef \in Definitions
    /\ IdleRun \in RunState /\ IdleEdit \in EditState /\ Waiting \in SchedState
<1>1. AnyWf \in Workflows /\ AnyDef \in Definitions
  BY SchedulerAssumption DEF AnyWf, AnyDef
<1>2. BadCron \in CronTexts
  BY DEF CronTexts
<1> QED
  BY <1>1, <1>2 DEF IdleRun, IdleEdit, Waiting, RunState, EditState, SchedState

\* An expression that parses has a next run, possibly the zero time.
LEMMA NextRunType ==
    ASSUME NEW c \in CronTexts, CronParses(c), NEW t \in Nat
    PROVE  NextRun(c, t) \in Nat
<1>1. c \in Nat
  BY SchedulerAssumption DEF CronTexts, CronParses
<1>2. CASE c = 0
  BY <1>2 DEF NextRun, ZeroTime
<1>3. CASE c # 0
  <2>1. t \div c \in Nat
    BY <1>1, <1>3
  <2>2. ((t \div c) + 1) \in Nat
    BY <2>1
  <2>3. ((t \div c) + 1) * c \in Nat
    BY <2>2, <1>1
  <2> QED
    BY <2>3, <1>3 DEF NextRun
<1> QED
  BY <1>2, <1>3

\* There are finitely many goroutines, so the sets the counters count are finite.
LEMMA RunnersFinite ==
    /\ IsFiniteSet(Runners)
    /\ IsFiniteSet(Busy)
    /\ \A w : IsFiniteSet(Counted(w))
<1>1. IsFiniteSet(Runners)
  BY SchedulerAssumption, FS_AddElement DEF Runners
<1>2. Busy \subseteq Runners /\ \A w : Counted(w) \subseteq Runners
  BY DEF Busy, Counted
<1> QED
  BY <1>1, <1>2, FS_Subset

\* A goroutine that is about to decrement a counter has been counted.
LEMMA CountersPositive ==
    ASSUME TypeOK, CountersExact, NEW r \in Runners
    PROVE  /\ run[r].pc # "idle" => inFlight - 1 \in Nat
           /\ run[r].pc \in {"engine", "finish", "uncount"} => active[run[r].wf] - 1 \in Nat
<1>1. ASSUME NEW S, IsFiniteSet(S), r \in S
      PROVE  Cardinality(S) - 1 \in Nat
  BY <1>1, FS_EmptySet, FS_CardinalityType
<1>2. ASSUME run[r].pc # "idle" PROVE inFlight - 1 \in Nat
  <2>1. r \in Busy
    BY <1>2 DEF Busy
  <2> QED
    BY <2>1, <1>1, RunnersFinite DEF CountersExact, Busy
<1>3. ASSUME run[r].pc \in {"engine", "finish", "uncount"}
      PROVE  active[run[r].wf] - 1 \in Nat
  <2>1. run[r].wf \in Workflows
    BY DEF TypeOK, RunState
  <2>2. r \in Counted(run[r].wf)
    BY <1>3 DEF Counted
  <2> QED
    BY <2>1, <2>2, <1>1, RunnersFinite DEF CountersExact
<1> QED
  BY <1>2, <1>3

\* A list entry and the row it was read from have the same domains.
LEMMA DueTyped ==
    ASSUME TypeOK, NEW d \in sched.due
    PROVE  d.wf \in Workflows /\ d.cron \in CronTexts
BY DEF TypeOK, SchedState

\* What every way out of Execute leaves in its domain.
LEMMA ReturnTyped ==
    ASSUME CountInv, NEW r \in Runners, run[r].pc # "idle", NEW b \in BOOLEAN, Return(r, b)
    PROVE  /\ run' \in [Runners -> RunState]
           /\ inFlight' \in Nat
           /\ sched' \in SchedState
<1>1. run' \in [Runners -> RunState]
  BY IdleTypes DEF Return, CountInv, TypeOK
<1>2. inFlight' \in Nat
  BY CountersPositive DEF CountInv, Return
<1>3. sched' \in SchedState
  BY DEF Return, CountInv, TypeOK, SchedState
<1> QED
  BY <1>1, <1>2, <1>3

\* The death of the process leaves every local at rest.
LEMMA DiesTyped ==
    ASSUME TypeOK, Dies
    PROVE  /\ proc' \in {"up", "draining", "down"}
           /\ orphans' \in SUBSET Workflows
           /\ active' \in [Workflows -> Nat] /\ inFlight' \in Nat
           /\ run' \in [Runners -> RunState]
           /\ sched' \in SchedState /\ edit' \in [Editors -> EditState]
BY IdleTypes DEF TypeOK, Dies

\* UpdateSchedule leaves a row in its domain.
LEMMA WriteTyped ==
    ASSUME TypeOK, NEW w \in Workflows, NEW c \in CronTexts, NEW b \in BOOLEAN,
           NEW n \in Nat \cup {NoTime}, WriteSchedule(w, c, b, n)
    PROVE  wfs' \in [Workflows -> WorkflowRow] /\ fire' \in [Workflows -> {"armed", "listed", "done"}]
<1>1. ASSUME NEW x \in WorkflowRow
      PROVE  [x EXCEPT !.cron = c, !.enabled = b, !.next = n] \in WorkflowRow
  BY DEF WorkflowRow
<1> QED
  BY <1>1 DEF WriteSchedule, TypeOK

\* The updates of the scheduler's locals leave them in their domain.
LEMMA SchedUpdates ==
    ASSUME NEW s \in SchedState, NEW p \in {"wait", "loop", "skip", "exec", "advance", "mark"}
    PROVE  /\ [s EXCEPT !.pc = p] \in SchedState
           /\ \A D \in SUBSET [wf : Workflows, cron : CronTexts] :
                 [s EXCEPT !.pc = p, !.due = D] \in SchedState
           /\ \A n \in Nat : [s EXCEPT !.pc = p, !.next = n] \in SchedState
           /\ [s EXCEPT !.pc = p, !.recorded = TRUE] \in SchedState
           /\ \A d \in s.due :
                 [[s EXCEPT !.due = @ \ {d}, !.wf = d.wf, !.cron = d.cron, !.recorded = FALSE]
                    EXCEPT !.pc = p] \in SchedState
<1>1. s.due \in SUBSET [wf : Workflows, cron : CronTexts]
  BY DEF SchedState
<1>2. ASSUME NEW d \in s.due
      PROVE [[s EXCEPT !.due = @ \ {d}, !.wf = d.wf, !.cron = d.cron, !.recorded = FALSE]
                    EXCEPT !.pc = p] \in SchedState
  <2>1. d.wf \in Workflows /\ d.cron \in CronTexts /\ s.due \ {d} \in SUBSET [wf : Workflows, cron : CronTexts]
    BY <1>1
  <2> QED
    BY <2>1 DEF SchedState
<1> QED
  BY <1>2 DEF SchedState

\* What runOne has taken from the list.
LEMMA TakenFields ==
    ASSUME TypeOK, NEW d \in sched.due, RunOne(d)
    PROVE  /\ sched'.due \subseteq sched.due /\ sched'.wf = d.wf /\ sched'.cron = d.cron
           /\ sched'.pc \in {"skip", "exec"}
<1>1. PICK p \in {"skip", "exec"} :
        sched' = [[sched EXCEPT !.due = @ \ {d}, !.wf = d.wf, !.cron = d.cron, !.recorded = FALSE]
                    EXCEPT !.pc = p]
  BY Zenon DEF RunOne
<1>2. sched \in SchedState
  BY DEF TypeOK
<1> QED
  BY <1>1, <1>2 DEF SchedState

\* The locals of the next round are in their domain.
LEMMA NextEntryTyped == TypeOK => NextEntry \in SchedState
<1>1. TypeOK => sched.due \in SUBSET [wf : Workflows, cron : CronTexts]
  BY DEF TypeOK, SchedState
<1> QED
  BY <1>1, IdleTypes, SchedUpdates DEF NextEntry

\* A statement that runs or fails leaves a fault counter.
LEMMA StatementTyped ==
    ASSUME TypeOK, NEW r, StatementRuns(r) \/ StatementFails(r)
    PROVE  faults' \in Nat
BY DEF TypeOK, StatementRuns, StatementFails

\* Every step keeps every variable in its domain.
LEMMA TypeStep == CountInv /\ [Next]_vars => TypeOK'
<1> SUFFICES ASSUME CountInv, [Next]_vars PROVE TypeOK'
  OBVIOUS
<1>0. TypeOK /\ CountersExact
  BY DEF CountInv
<1>1. ASSUME NEW w \in Workflows, NEW d \in Definitions, CreateWorkflow(w, d) \/ UpdateWorkflow(w, d)
      PROVE TypeOK'
  <2>1. wfs' \in [Workflows -> WorkflowRow]
    <3>1. wfs \in [Workflows -> WorkflowRow] /\ wfs[w] \in WorkflowRow
      BY <1>0 DEF TypeOK
    <3>2. /\ [wfs[w] EXCEPT !.def = d] \in WorkflowRow
          /\ [wfs[w] EXCEPT !.state = "present", !.def = d] \in WorkflowRow
      BY <3>1 DEF WorkflowRow
    <3>3. \/ wfs' = [wfs EXCEPT ![w] = [wfs[w] EXCEPT !.def = d]]
          \/ wfs' = [wfs EXCEPT ![w] = [wfs[w] EXCEPT !.state = "present", !.def = d]]
      BY <1>1, <3>1 DEF CreateWorkflow, UpdateWorkflow
    <3> QED BY <3>1, <3>2, <3>3
  <2> QED
    BY <1>0, <1>1, <2>1 DEF TypeOK, CreateWorkflow, UpdateWorkflow, service, tally
<1>2. ASSUME NEW w \in Workflows, DeleteWorkflow(w) PROVE TypeOK'
  <2>1. run' \in [Runners -> RunState]
    <3>1. \A r \in Runners : run[r] \in RunState /\ [run[r] EXCEPT !.gone = TRUE] \in RunState
      BY <1>0 DEF TypeOK, RunState
    <3> QED BY <1>2, <3>1 DEF DeleteWorkflow
  <2>2. wfs' \in [Workflows -> WorkflowRow]
    <3>1. wfs \in [Workflows -> WorkflowRow] /\ wfs[w] \in WorkflowRow
      BY <1>0 DEF TypeOK
    <3>2. BadCron \in CronTexts
      BY DEF CronTexts
    <3>3. [wfs[w] EXCEPT !.state = "deleted", !.cron = BadCron,
                         !.enabled = FALSE, !.next = NoTime] \in WorkflowRow
      BY <3>1, <3>2 DEF WorkflowRow
    <3> QED BY <1>2, <3>1, <3>3 DEF DeleteWorkflow
  <2> QED
    BY <1>0, <1>2, <2>1, <2>2 DEF TypeOK, DeleteWorkflow, tally
<1>3. ASSUME NEW e \in Editors, NEW w \in Workflows, NEW c \in CronTexts, SetScheduleCompute(e, w, c)
      PROVE TypeOK'
  <2>1. NextRun(c, clock) \in Nat
    BY <1>0, <1>3, NextRunType DEF TypeOK, SetScheduleCompute
  <2> QED
    BY <1>0, <1>3, <2>1 DEF TypeOK, EditState, SetScheduleCompute, service, tally
<1>4. ASSUME NEW e \in Editors, SetScheduleWrite(e) PROVE TypeOK'
  <2>1. wfs' \in [Workflows -> WorkflowRow] /\ fire' \in [Workflows -> {"armed", "listed", "done"}]
    <3>1. /\ edit[e].wf \in Workflows /\ edit[e].cron \in CronTexts
          /\ edit[e].next \in Nat \cup {NoTime} /\ TRUE \in BOOLEAN
      BY <1>0 DEF TypeOK, EditState
    <3>2. CASE Present(edit[e].wf)
      <4>1. WriteSchedule(edit[e].wf, edit[e].cron, TRUE, edit[e].next)
        BY <1>4, <3>2, Zenon DEF SetScheduleWrite
      <4> QED
        BY <1>0, <3>1, <4>1, WriteTyped, Zenon
    <3>3. CASE ~Present(edit[e].wf)
      <4>1. UNCHANGED <<wfs, fire>>
        BY <1>4, <3>3, Zenon DEF SetScheduleWrite
      <4> QED
        BY <1>0, <4>1 DEF TypeOK
    <3> QED
      BY <3>2, <3>3
  <2> QED
    BY <1>0, <1>4, <2>1, IdleTypes DEF TypeOK, SetScheduleWrite, service, tally
<1>5. ASSUME NEW w \in Workflows, NEW c \in CronTexts, DisableSchedule(w, c) PROVE TypeOK'
  <2>1. WriteSchedule(w, c, FALSE, NoTime) /\ FALSE \in BOOLEAN /\ NoTime \in Nat \cup {NoTime}
    BY <1>5, Zenon DEF DisableSchedule
  <2>2. wfs' \in [Workflows -> WorkflowRow] /\ fire' \in [Workflows -> {"armed", "listed", "done"}]
    BY <1>0, <2>1, WriteTyped, Zenon
  <2> QED
    BY <1>0, <1>5, <2>2 DEF TypeOK, DisableSchedule, service, tally
<1>6. ASSUME NEW r \in Requests, NEW w \in Workflows, StartRequest(r, w) PROVE TypeOK'
  <2>1. [IdleRun EXCEPT !.pc = "get", !.wf = w] \in RunState
    BY IdleTypes DEF RunState
  <2> QED
    BY <1>0, <1>6, <2>1 DEF TypeOK, StartRequest, tally, Runners
<1>7. ASSUME NEW r \in Runners, ExecuteStep(r) PROVE TypeOK'
  <2>1. CASE ExecuteGet(r)
    <3>1. run' \in [Runners -> RunState] /\ inFlight' \in Nat /\ sched' \in SchedState
      <4>1. CASE Return(r, TRUE) \/ Return(r, FALSE)
        BY <2>1, <4>1, ReturnTyped, Zenon DEF ExecuteGet
      <4>2. CASE /\ run' = [run EXCEPT ![r].pc = "create", ![r].def = wfs[run[r].wf].def]
                 /\ UNCHANGED <<inFlight, sched>>
        <5>1. run[r] \in RunState /\ wfs[run[r].wf].def \in Definitions
          BY <1>0 DEF TypeOK, RunState, WorkflowRow
        <5>2. [run[r] EXCEPT !.pc = "create", !.def = wfs[run[r].wf].def] \in RunState
          BY <5>1 DEF RunState
        <5>3. run' = [run EXCEPT ![r] = [run[r] EXCEPT !.pc = "create", !.def = wfs[run[r].wf].def]]
          BY <1>0, <4>2 DEF TypeOK
        <5> QED BY <1>0, <4>2, <5>2, <5>3 DEF TypeOK
      <4> QED
        BY <2>1, <4>1, <4>2, Zenon DEF ExecuteGet
    <3>2. faults' \in Nat
      <4>1. StatementRuns(r) \/ StatementFails(r)
        BY <2>1, Zenon DEF ExecuteGet
      <4> QED
        BY <1>0, <4>1, StatementTyped
    <3> QED
      BY <1>0, <2>1, <3>1, <3>2 DEF TypeOK, ExecuteGet
  <2>2. CASE ExecuteCreate(r)
    <3>1. run' \in [Runners -> RunState] /\ inFlight' \in Nat /\ sched' \in SchedState
      <4>1. CASE Return(r, TRUE) \/ Return(r, FALSE)
        BY <2>2, <4>1, ReturnTyped, Zenon DEF ExecuteCreate
      <4>2. CASE run' = [run EXCEPT ![r].pc = "count"] /\ UNCHANGED <<inFlight, sched>>
        BY <1>0, <4>2 DEF TypeOK, RunState
      <4> QED
        BY <2>2, <4>1, <4>2, Zenon DEF ExecuteCreate
    <3>2. faults' \in Nat /\ orphans' \in SUBSET Workflows
      <4>1. StatementRuns(r) \/ StatementFails(r)
        BY <2>2, Zenon DEF ExecuteCreate
      <4>2. orphans' = orphans \/ orphans' = orphans \cup {run[r].wf}
        BY <2>2, Zenon DEF ExecuteCreate
      <4> QED
        BY <1>0, <4>1, <4>2, StatementTyped DEF TypeOK, RunState
    <3> QED
      BY <1>0, <2>2, <3>1, <3>2 DEF TypeOK, ExecuteCreate
  <2>3. CASE ExecuteCount(r)
    BY <1>0, <2>3 DEF TypeOK, RunState, ExecuteCount, tally
  <2>4. CASE ExecuteEngine(r)
    BY <1>0, <2>4 DEF TypeOK, RunState, ExecuteEngine, tally
  <2>5. CASE ExecuteFinish(r)
    BY <1>0, <2>5 DEF TypeOK, RunState, ExecuteFinish, StatementRuns, StatementFails, Orphan
  <2>6. CASE ExecuteUncount(r)
    <3>1. run' \in [Runners -> RunState] /\ inFlight' \in Nat /\ sched' \in SchedState
      BY <2>6, ReturnTyped DEF ExecuteUncount
    <3>2. active[run[r].wf] - 1 \in Nat
      BY <1>0, <2>6, CountersPositive DEF ExecuteUncount
    <3> QED
      BY <1>0, <2>6, <3>1, <3>2 DEF TypeOK, ExecuteUncount, Uncount, Handled, tally
  <2> QED
    BY <1>7, <2>1, <2>2, <2>3, <2>4, <2>5, <2>6 DEF ExecuteStep
<1>8. ASSUME NEW r \in Requests, ClientLeaves(r) PROVE TypeOK'
  BY <1>0, <1>8 DEF TypeOK, RunState, ClientLeaves, tally, Runners
<1>9. ASSUME NEW r \in Requests, RequestPanics(r) PROVE TypeOK'
  <2>0. r \in Runners
    BY DEF Runners
  <2>1. run' \in [Runners -> RunState] /\ inFlight' \in Nat /\ sched' \in SchedState
    BY <1>9, <2>0, ReturnTyped DEF RequestPanics
  <2>2. active[run[r].wf] - 1 \in Nat
    BY <1>0, <1>9, <2>0, CountersPositive DEF RequestPanics
  <2>3. Orphan(r) \in SUBSET Workflows
    BY <1>0, <2>0 DEF TypeOK, RunState, Orphan
  <2> QED
    BY <1>0, <1>9, <2>1, <2>2, <2>3 DEF TypeOK, RequestPanics, Uncount, tally
<1>10. CASE Poll
  <2>1. sched' \in SchedState
    <3> DEFINE D == {[wf |-> w, cron |-> wfs[w].cron] : w \in {v \in Workflows : Due(v)}}
    <3>1. D \in SUBSET [wf : Workflows, cron : CronTexts]
      BY <1>0 DEF TypeOK, WorkflowRow
    <3>2. sched' = [sched EXCEPT !.pc = "loop", !.due = D] /\ sched \in SchedState
      BY <1>0, <1>10, Zenon DEF Poll, TypeOK
    <3> HIDE DEF D
    <3> QED
      BY <3>1, <3>2, SchedUpdates
  <2> QED
    BY <1>0, <1>10, <2>1 DEF TypeOK, Poll, service, tally
<1>11. ASSUME NEW d \in sched.due, RunOne(d) PROVE TypeOK'
  <2>1. d.wf \in Workflows /\ d.cron \in CronTexts
    BY <1>0, DueTyped
  <2>2. [IdleRun EXCEPT !.pc = "get", !.wf = d.wf] \in RunState
    BY <2>1, IdleTypes DEF RunState
  <2>3. sched' \in SchedState
    <3> DEFINE taken == [sched EXCEPT !.due = @ \ {d}, !.wf = d.wf, !.cron = d.cron,
                                      !.recorded = FALSE]
    <3>1. sched' = [taken EXCEPT !.pc = "skip"] \/ sched' = [taken EXCEPT !.pc = "exec"]
      BY <1>11, Zenon DEF RunOne
    <3>2. [taken EXCEPT !.pc = "skip"] \in SchedState /\ [taken EXCEPT !.pc = "exec"] \in SchedState
      BY <1>0, SchedUpdates DEF TypeOK
    <3> QED
      BY <3>1, <3>2
  <2> QED
    BY <1>0, <1>11, <2>2, <2>3 DEF TypeOK, RunOne, tally, Runners
<1>12. CASE RecordSkip
  <2>1. sched' \in SchedState
    <3>1. \/ sched' = [sched EXCEPT !.pc = "advance", !.recorded = TRUE]
          \/ sched' = [sched EXCEPT !.pc = "advance"]
      BY <1>12, Zenon DEF RecordSkip
    <3>2. sched \in SchedState
      BY <1>0 DEF TypeOK
    <3> QED
      BY <3>1, <3>2, SchedUpdates
  <2>2. StatementRuns(Scheduler) \/ StatementFails(Scheduler)
    BY <1>12, Zenon DEF RecordSkip
  <2>3. fire' = Handled(sched.wf) \/ fire' = fire
    BY <1>12, Zenon DEF RecordSkip
  <2>4. fire' \in [Workflows -> {"armed", "listed", "done"}]
    BY <1>0, <2>3 DEF TypeOK, Handled
  <2> QED
    BY <1>0, <1>12, <2>1, <2>2, <2>4, StatementTyped DEF TypeOK, RecordSkip, service
<1>13. CASE AdvanceSchedule
  <2>1. sched.cron \in CronTexts /\ sched.wf \in Workflows
    BY <1>0 DEF TypeOK, SchedState
  <2>2. sched' \in SchedState
    <3>1. CASE CronParses(sched.cron)
      <4>1. NextRun(sched.cron, clock) \in Nat
        BY <1>0, <2>1, <3>1, NextRunType DEF TypeOK
      <4> QED
        <5>1. sched' = [sched EXCEPT !.pc = "mark", !.next = NextRun(sched.cron, clock)]
          BY <1>13, <3>1, Zenon DEF AdvanceSchedule
        <5>2. sched \in SchedState
          BY <1>0 DEF TypeOK
        <5> QED
          BY <5>1, <5>2, <4>1, SchedUpdates
    <3>2. CASE ~CronParses(sched.cron)
      BY <1>13, <3>2, NextEntryTyped, <1>0 DEF AdvanceSchedule
    <3> QED
      BY <3>1, <3>2
  <2>3. wfs' \in [Workflows -> WorkflowRow] /\ fire' \in [Workflows -> {"armed", "listed", "done"}]
    <3>1. CASE UNCHANGED <<wfs, fire>>
      BY <1>0, <3>1 DEF TypeOK
    <3>2. CASE WriteSchedule(sched.wf, sched.cron, FALSE, NoTime)
      <4>1. FALSE \in BOOLEAN /\ NoTime \in Nat \cup {NoTime}
        OBVIOUS
      <4> QED
        BY <1>0, <2>1, <3>2, <4>1, WriteTyped, Zenon
    <3> QED
      BY <1>13, <3>1, <3>2, Zenon DEF AdvanceSchedule
  <2> QED
    BY <1>0, <1>13, <2>2, <2>3 DEF TypeOK, AdvanceSchedule, service, tally
<1>14. CASE MarkScheduleRun
  <2>1. sched' \in SchedState
    BY <1>0, <1>14, NextEntryTyped DEF MarkScheduleRun
  <2>2. wfs' \in [Workflows -> WorkflowRow] /\ fire' \in [Workflows -> {"armed", "listed", "done"}]
    <3>1. CASE UNCHANGED <<wfs, fire>>
      BY <1>0, <3>1 DEF TypeOK
    <3>2. CASE /\ wfs' = [wfs EXCEPT ![sched.wf].next = IF Present(sched.wf) THEN sched.next ELSE @]
               /\ fire' = [fire EXCEPT ![sched.wf] = "armed"]
      BY <1>0, <3>2 DEF TypeOK, WorkflowRow, SchedState
    <3> QED BY <1>14, <3>1, <3>2, Zenon DEF MarkScheduleRun
  <2> QED
    BY <1>0, <1>14, <2>1, <2>2 DEF TypeOK, MarkScheduleRun, StatementRuns, StatementFails, service
<1>15. CASE SchedulerPanics \/ Crash \/ Exit
  BY <1>0, <1>15, DiesTyped DEF TypeOK, SchedulerPanics, Crash, Exit, tally
<1>16. CASE Terminate \/ Restart \/ Tick
  BY <1>0, <1>16 DEF TypeOK, Terminate, Restart, Tick, service, tally
<1>17. CASE UNCHANGED vars
  BY <1>0, <1>17 DEF TypeOK, vars
<1> QED
  BY <1>1, <1>2, <1>3, <1>4, <1>5, <1>6, <1>7, <1>8, <1>9, <1>10, <1>11, <1>12, <1>13,
     <1>14, <1>15, <1>16, <1>17 DEF Next, SchedulerStep

-----------------------------------------------------------------------------
\* The scheduler calls Execute from runOne and resumes there.
LEMMA LinkStep == CountInv /\ [Next]_vars => SchedulerLink'
<1> SUFFICES ASSUME CountInv, [Next]_vars PROVE SchedulerLink'
  OBVIOUS
<1>0. TypeOK /\ SchedulerLink /\ Scheduler \in Runners /\ Scheduler \notin Requests
  BY SchedulerAssumption DEF CountInv, Runners
<1>1. CASE UNCHANGED <<run, sched>>
  BY <1>0, <1>1 DEF SchedulerLink
<1>2. ASSUME NEW w \in Workflows, DeleteWorkflow(w) PROVE SchedulerLink'
  BY <1>0, <1>2 DEF SchedulerLink, DeleteWorkflow, TypeOK, RunState
<1>3. ASSUME NEW r \in Requests, NEW w \in Workflows, StartRequest(r, w) PROVE SchedulerLink'
  BY <1>0, <1>3 DEF SchedulerLink, StartRequest, TypeOK
<1>4. ASSUME NEW r \in Runners, NEW b \in BOOLEAN, Return(r, b), run[r].pc # "idle"
      PROVE SchedulerLink'
  BY <1>0, <1>4 DEF SchedulerLink, Return, TypeOK, IdleRun
<1>5. ASSUME NEW r \in Runners, ExecuteStep(r) PROVE SchedulerLink'
  <2>1. run[r].pc # "idle"
    BY <1>5 DEF ExecuteStep, ExecuteGet, ExecuteCreate, ExecuteCount, ExecuteEngine,
                ExecuteFinish, ExecuteUncount
  <2>2. CASE UNCHANGED sched /\ \A q \in Runners : q # r => run'[q] = run[q]
    BY <1>0, <2>1, <2>2 DEF SchedulerLink
  <2>3. \/ Return(r, TRUE) \/ Return(r, FALSE)
        \/ UNCHANGED sched /\ \A q \in Runners : q # r => run'[q] = run[q]
    BY <1>0, <1>5 DEF TypeOK, ExecuteStep, ExecuteGet, ExecuteCreate, ExecuteCount, ExecuteEngine,
                ExecuteFinish, ExecuteUncount
  <2> QED
    BY <1>4, <2>1, <2>2, <2>3
<1>6. ASSUME NEW r \in Requests, ClientLeaves(r) PROVE SchedulerLink'
  BY <1>0, <1>6 DEF SchedulerLink, ClientLeaves, TypeOK
<1>7. ASSUME NEW r \in Requests, RequestPanics(r) PROVE SchedulerLink'
  BY <1>4, <1>7 DEF RequestPanics, Runners
<1>8. CASE Poll
  BY <1>0, <1>8 DEF SchedulerLink, Poll, TypeOK, SchedState, service
<1>9. ASSUME NEW d \in sched.due, RunOne(d) PROVE SchedulerLink'
  BY <1>0, <1>9 DEF SchedulerLink, RunOne, TypeOK, SchedState
<1>10. CASE RecordSkip \/ AdvanceSchedule \/ MarkScheduleRun
  BY <1>0, <1>10 DEF SchedulerLink, RecordSkip, AdvanceSchedule, MarkScheduleRun, service
<1>11. CASE SchedulerPanics \/ Crash \/ Exit
  BY <1>0, <1>11 DEF SchedulerLink, SchedulerPanics, Crash, Exit, Dies, IdleRun
<1>12. ASSUME \/ \E w \in Workflows, d \in Definitions : CreateWorkflow(w, d) \/ UpdateWorkflow(w, d)
              \/ \E e \in Editors, w \in Workflows, c \in CronTexts : SetScheduleCompute(e, w, c)
              \/ \E e \in Editors : SetScheduleWrite(e)
              \/ \E w \in Workflows, c \in CronTexts : DisableSchedule(w, c)
              \/ Terminate \/ Restart \/ Tick \/ UNCHANGED vars
       PROVE  UNCHANGED <<run, sched>>
  BY <1>12 DEF CreateWorkflow, UpdateWorkflow, SetScheduleCompute, SetScheduleWrite,
               DisableSchedule, Terminate, Restart, Tick, service, vars
<1> QED
  BY <1>1, <1>2, <1>3, <1>5, <1>6, <1>7, <1>8, <1>9, <1>10, <1>11, <1>12 DEF Next, SchedulerStep

-----------------------------------------------------------------------------
\* A step that moves no goroutine across the counted parts keeps the counts.
LEMMA CountsUnmoved ==
    ASSUME CountersExact, UNCHANGED <<active, inFlight>>,
           \A r \in Runners : /\ run'[r].wf = run[r].wf
                              /\ run'[r].pc = "idle" <=> run[r].pc = "idle"
                              /\ run'[r].pc \in {"engine", "finish", "uncount"}
                                   <=> run[r].pc \in {"engine", "finish", "uncount"}
    PROVE  CountersExact'
<1>1. Busy' = Busy /\ \A w : Counted(w)' = Counted(w)
  BY DEF Busy, Counted
<1> QED
  BY <1>1 DEF CountersExact, Busy

\* A step in which goroutine r enters Execute.
LEMMA CountsEnter ==
    ASSUME CountersExact, NEW r \in Runners, run[r].pc = "idle", run'[r].pc = "get",
           inFlight \in Nat, inFlight' = inFlight + 1, UNCHANGED active,
           \A q \in Runners : q # r => run'[q] = run[q]
    PROVE  CountersExact'
<1>1. Busy' = Busy \cup {r} /\ r \notin Busy
  BY DEF Busy
<1>2. \A w : Counted(w)' = Counted(w)
  BY DEF Counted
<1>3. Cardinality(Busy') = Cardinality(Busy) + 1
  BY <1>1, RunnersFinite, FS_AddElement
<1> QED
  BY <1>2, <1>3 DEF CountersExact, Busy

\* A step in which goroutine r leaves Execute before it was counted.
LEMMA CountsLeaveEarly ==
    ASSUME CountersExact, NEW r \in Runners, run[r].pc \in {"get", "create"}, run'[r].pc = "idle",
           inFlight' = inFlight - 1, UNCHANGED active,
           \A q \in Runners : q # r => run'[q] = run[q]
    PROVE  CountersExact'
<1>1. Busy' = Busy \ {r} /\ r \in Busy
  BY DEF Busy
<1>2. \A w : Counted(w)' = Counted(w)
  BY DEF Counted
<1>3. Cardinality(Busy') = Cardinality(Busy) - 1
  BY <1>1, RunnersFinite, FS_RemoveElement
<1> QED
  BY <1>2, <1>3 DEF CountersExact, Busy

\* The increment of activeByWorkflow.
LEMMA CountsIncrement ==
    ASSUME TypeOK, CountersExact, NEW r \in Runners, ExecuteCount(r)
    PROVE  CountersExact'
<1>0. PICK v \in Workflows : v = run[r].wf
  BY DEF TypeOK, RunState
<1>1. \A q \in Runners : run'[q].wf = run[q].wf /\ (q # r => run'[q] = run[q])
  BY DEF ExecuteCount, TypeOK, RunState
<1>2. run[r].pc = "count" /\ run'[r].pc = "engine"
  BY DEF ExecuteCount, TypeOK, RunState
<1>3. Counted(v)' = Counted(v) \cup {r} /\ r \notin Counted(v)
  BY <1>0, <1>1, <1>2 DEF Counted
<1>4. \A w : w # v => Counted(w)' = Counted(w)
  BY <1>0, <1>1, <1>2 DEF Counted
<1>5. Busy' = Busy
  BY <1>1, <1>2 DEF Busy
<1>6. Cardinality(Counted(v)') = Cardinality(Counted(v)) + 1
  BY <1>3, RunnersFinite, FS_AddElement
<1>7. active' = [active EXCEPT ![v] = @ + 1] /\ inFlight' = inFlight
  BY <1>0 DEF ExecuteCount
<1>8. \A w \in Workflows : active'[w] = Cardinality(Counted(w)')
  BY <1>0, <1>4, <1>6, <1>7 DEF CountersExact, TypeOK
<1> QED
  BY <1>5, <1>7, <1>8 DEF CountersExact, Busy

\* The deferred decrements, at the end of Execute or in a recovered panic.
LEMMA CountsDecrement ==
    ASSUME TypeOK, CountersExact, NEW r \in Runners, run[r].pc \in {"engine", "finish", "uncount"},
           Uncount(run[r].wf), run'[r].pc = "idle", inFlight' = inFlight - 1,
           \A q \in Runners : q # r => run'[q] = run[q]
    PROVE  CountersExact'
<1>0. PICK v \in Workflows : v = run[r].wf
  BY DEF TypeOK, RunState
<1>1. Counted(v)' = Counted(v) \ {r} /\ r \in Counted(v)
  BY <1>0 DEF Counted
<1>2. \A w : w # v => Counted(w)' = Counted(w)
  BY <1>0 DEF Counted
<1>3. Busy' = Busy \ {r} /\ r \in Busy
  BY DEF Busy
<1>4. Cardinality(Counted(v)') = Cardinality(Counted(v)) - 1
  BY <1>1, RunnersFinite, FS_RemoveElement
<1>5. Cardinality(Busy') = Cardinality(Busy) - 1
  BY <1>3, RunnersFinite, FS_RemoveElement
<1>6. \A w \in Workflows : active'[w] = Cardinality(Counted(w)')
  BY <1>0, <1>2, <1>4 DEF CountersExact, TypeOK, Uncount
<1> QED
  BY <1>5, <1>6 DEF CountersExact, Busy

\* Nothing is counted after the process has died.
LEMMA CountsReset == Dies => CountersExact'
<1> SUFFICES ASSUME Dies PROVE CountersExact'
  OBVIOUS
<1>1. \A r \in Runners : run'[r].pc = "idle"
  BY DEF Dies, IdleRun
<1>2. Busy' = {} /\ \A w : Counted(w)' = {}
  BY <1>1 DEF Busy, Counted
<1> QED
  BY <1>2, FS_EmptySet DEF CountersExact, Dies, Busy

\* Every step keeps the counters exact.
LEMMA CountStep == CountInv /\ [Next]_vars => CountersExact'
<1> SUFFICES ASSUME CountInv, [Next]_vars PROVE CountersExact'
  OBVIOUS
<1>0. TypeOK /\ CountersExact /\ SchedulerLink /\ Scheduler \in Runners /\ Requests \subseteq Runners
  BY DEF CountInv, Runners
<1>1. CASE UNCHANGED <<active, inFlight, run>>
  BY <1>0, <1>1, CountsUnmoved
<1>2. ASSUME NEW w \in Workflows, DeleteWorkflow(w) PROVE CountersExact'
  BY <1>0, <1>2, CountsUnmoved DEF DeleteWorkflow, TypeOK, RunState
<1>3. ASSUME NEW r \in Requests, NEW w \in Workflows, StartRequest(r, w) PROVE CountersExact'
  BY <1>0, <1>3, CountsEnter DEF StartRequest, TypeOK, IdleRun
<1>4. ASSUME NEW r \in Runners, NEW b \in BOOLEAN, Return(r, b)
      PROVE  run'[r].pc = "idle" /\ inFlight' = inFlight - 1 /\ \A q \in Runners : q # r => run'[q] = run[q]
  BY <1>0, <1>4 DEF Return, TypeOK, IdleRun
<1>5. ASSUME NEW r \in Runners, ExecuteStep(r) PROVE CountersExact'
  <2>1. CASE ExecuteGet(r) \/ ExecuteCreate(r)
    <3>1. run[r].pc \in {"get", "create"} /\ UNCHANGED active
      BY <2>1 DEF ExecuteGet, ExecuteCreate
    <3>2. CASE Return(r, TRUE) \/ Return(r, FALSE)
      BY <1>0, <1>4, <3>1, <3>2, CountsLeaveEarly
    <3>3. CASE /\ UNCHANGED inFlight
               /\ \/ run' = [run EXCEPT ![r].pc = "create", ![r].def = wfs[run[r].wf].def]
                  \/ run' = [run EXCEPT ![r].pc = "count"]
      BY <1>0, <3>1, <3>3, CountsUnmoved DEF TypeOK, RunState
    <3> QED
      BY <2>1, <3>2, <3>3, Zenon DEF ExecuteGet, ExecuteCreate
  <2>2. CASE ExecuteCount(r)
    BY <1>0, <2>2, CountsIncrement
  <2>3. CASE ExecuteEngine(r) \/ ExecuteFinish(r)
    <3>1. /\ run[r].pc \in {"engine", "finish"} /\ UNCHANGED <<active, inFlight>>
          /\ run' = [run EXCEPT ![r].pc = "finish"] \/ run' = [run EXCEPT ![r].pc = "uncount"]
      BY <2>3 DEF ExecuteEngine, ExecuteFinish
    <3> QED
      BY <1>0, <3>1, CountsUnmoved DEF TypeOK, RunState
  <2>4. CASE ExecuteUncount(r)
    BY <1>0, <1>4, <2>4, CountsDecrement DEF ExecuteUncount
  <2> QED
    BY <1>5, <2>1, <2>2, <2>3, <2>4 DEF ExecuteStep
<1>6. ASSUME NEW r \in Requests, ClientLeaves(r) PROVE CountersExact'
  BY <1>0, <1>6, CountsUnmoved DEF ClientLeaves, TypeOK, RunState
<1>7. ASSUME NEW r \in Requests, RequestPanics(r) PROVE CountersExact'
  BY <1>0, <1>4, <1>7, CountsDecrement DEF RequestPanics
<1>8. ASSUME NEW d \in sched.due, RunOne(d) PROVE CountersExact'
  <2>1. CASE UNCHANGED <<run, inFlight>>
    BY <1>0, <1>8, <2>1, CountsUnmoved DEF RunOne
  <2>2. CASE /\ run' = [run EXCEPT ![Scheduler] = [IdleRun EXCEPT !.pc = "get", !.wf = d.wf]]
             /\ inFlight' = inFlight + 1
    <3>1. run[Scheduler].pc = "idle" /\ UNCHANGED active
      BY <1>0, <1>8 DEF RunOne, SchedulerLink
    <3> QED
      BY <1>0, <2>2, <3>1, CountsEnter DEF TypeOK, IdleRun
  <2> QED
    BY <1>8, <2>1, <2>2, Zenon DEF RunOne
<1>9. CASE SchedulerPanics \/ Crash \/ Exit
  BY <1>9, CountsReset DEF SchedulerPanics, Crash, Exit
<1>10. ASSUME \/ \E w \in Workflows, d \in Definitions : CreateWorkflow(w, d) \/ UpdateWorkflow(w, d)
              \/ \E e \in Editors, w \in Workflows, c \in CronTexts : SetScheduleCompute(e, w, c)
              \/ \E e \in Editors : SetScheduleWrite(e)
              \/ \E w \in Workflows, c \in CronTexts : DisableSchedule(w, c)
              \/ Poll \/ RecordSkip \/ AdvanceSchedule \/ MarkScheduleRun
              \/ Terminate \/ Restart \/ Tick \/ UNCHANGED vars
       PROVE  UNCHANGED <<active, inFlight, run>>
  BY <1>10 DEF CreateWorkflow, UpdateWorkflow, SetScheduleCompute, SetScheduleWrite, DisableSchedule,
               Poll, RecordSkip, AdvanceSchedule, MarkScheduleRun, Terminate, Restart, Tick, service, vars
<1> QED
  BY <1>1, <1>2, <1>3, <1>5, <1>6, <1>7, <1>8, <1>9, <1>10 DEF Next, SchedulerStep

\* The service starts with every goroutine at rest and every counter at zero.
LEMMA CountInit == Init => CountInv
<1> SUFFICES ASSUME Init PROVE CountInv
  OBVIOUS
<1>1. TypeOK
  <2>1. [state |-> "new", def |-> AnyDef, cron |-> BadCron, enabled |-> FALSE, next |-> NoTime] \in WorkflowRow
    BY IdleTypes DEF WorkflowRow, CronTexts
  <2> QED
    BY <2>1, IdleTypes DEF Init, TypeOK
<1>2. \A r \in Runners : run[r].pc = "idle"
  BY DEF Init, IdleRun
<1>3. Busy = {} /\ \A w : Counted(w) = {}
  BY <1>2 DEF Busy, Counted
<1>4. CountersExact
  BY <1>3, FS_EmptySet DEF CountersExact, Busy, Init
<1>5. SchedulerLink
  BY <1>2 DEF SchedulerLink, Runners
<1> QED
  BY <1>1, <1>4, <1>5 DEF CountInv

\* The inductive invariant of the counters.
LEMMA CountInvariant == Spec => []CountInv
<1>1. CountInv /\ [Next]_vars => CountInv'
  BY TypeStep, LinkStep, CountStep DEF CountInv
<1> QED
  BY CountInit, <1>1, PTL DEF Spec

\* Type correctness of the scheduler, the service and their tables.
THEOREM TypeCorrect == Spec => []TypeOK
<1>1. CountInv => TypeOK
  BY DEF CountInv
<1> QED
  BY CountInvariant, <1>1, PTL

\* The reference counts Execute keeps are exact in every reachable state:
\* through early returns, failed statements, recovered panics and crashes.
THEOREM CountersAreExact == Spec => []CountersExact
<1>1. CountInv => CountersExact
  BY DEF CountInv
<1> QED
  BY CountInvariant, <1>1, PTL

-----------------------------------------------------------------------------
\* The schedule columns: what SetSchedule is about to write and what the
\* scheduler has read come from expressions that parse.
ArmedInv ==
    /\ EnabledIsArmed
    /\ AdvanceParses
    /\ \A e \in Editors : edit[e].pc = "write" => CronParses(edit[e].cron)

\* A step that leaves rows, list and editors alone keeps the invariant.
LEMMA ArmedFrame ==
    ASSUME ArmedInv, UNCHANGED <<wfs, edit>>,
           /\ sched'.due \subseteq sched.due
           /\ sched'.pc \in {"skip", "exec", "advance", "mark"} =>
                /\ sched.pc \in {"skip", "exec", "advance", "mark"} /\ sched'.cron = sched.cron
    PROVE  ArmedInv'
BY DEF ArmedInv, EnabledIsArmed, AdvanceParses, Present

\* UpdateSchedule on a present row keeps enabled schedules armed.
LEMMA ArmedWrite ==
    ASSUME TypeOK, EnabledIsArmed, NEW w \in Workflows, NEW c, NEW b \in BOOLEAN, NEW n,
           Present(w), b => CronParses(c) /\ n # NoTime, WriteSchedule(w, c, b, n)
    PROVE  EnabledIsArmed'
BY DEF TypeOK, WorkflowRow, EnabledIsArmed, Present, WriteSchedule

\* Every step keeps enabled schedules armed and the scheduler's list parseable.
LEMMA ArmedStep == CountInv /\ ArmedInv /\ [Next]_vars => ArmedInv'
<1> SUFFICES ASSUME TypeOK, SchedulerLink, ArmedInv, [Next]_vars PROVE ArmedInv'
  BY DEF CountInv
<1>0. EnabledIsArmed /\ AdvanceParses /\ sched.wf \in Workflows
  BY DEF ArmedInv, TypeOK, SchedState
<1>1. ASSUME NEW w \in Workflows, NEW d \in Definitions, CreateWorkflow(w, d) \/ UpdateWorkflow(w, d)
      PROVE ArmedInv'
  <2>1. EnabledIsArmed'
    <3>1. \A v \in Workflows : /\ wfs'[v].enabled = wfs[v].enabled /\ wfs'[v].cron = wfs[v].cron
                               /\ wfs'[v].next = wfs[v].next /\ (Present(v) => Present(v)')
      BY <1>1 DEF TypeOK, WorkflowRow, Present, CreateWorkflow, UpdateWorkflow
    <3> QED
      BY <1>0, <3>1 DEF EnabledIsArmed
  <2> QED
    BY <1>1, <2>1 DEF ArmedInv, AdvanceParses, CreateWorkflow, UpdateWorkflow
<1>2. ASSUME NEW w \in Workflows, DeleteWorkflow(w) PROVE ArmedInv'
  <2>1. EnabledIsArmed'
    BY <1>0, <1>2 DEF TypeOK, WorkflowRow, EnabledIsArmed, Present, DeleteWorkflow
  <2> QED
    BY <1>2, <2>1 DEF ArmedInv, AdvanceParses, DeleteWorkflow
<1>3. ASSUME NEW e \in Editors, NEW w \in Workflows, NEW c \in CronTexts, SetScheduleCompute(e, w, c)
      PROVE ArmedInv'
  BY <1>3 DEF ArmedInv, EnabledIsArmed, AdvanceParses, Present, TypeOK, EditState, SetScheduleCompute
<1>4. ASSUME NEW e \in Editors, SetScheduleWrite(e) PROVE ArmedInv'
  <2>1. edit[e].wf \in Workflows /\ CronParses(edit[e].cron) /\ edit[e].next # NoTime /\ TRUE \in BOOLEAN
    BY <1>4 DEF ArmedInv, TypeOK, EditState, SetScheduleWrite, NoTime
  <2>2. EnabledIsArmed'
    <3>1. CASE Present(edit[e].wf) /\ WriteSchedule(edit[e].wf, edit[e].cron, TRUE, edit[e].next)
      BY <1>0, <2>1, <3>1 DEF TypeOK, WorkflowRow, EnabledIsArmed, Present, WriteSchedule
    <3>2. CASE UNCHANGED wfs
      BY <1>0, <3>2 DEF EnabledIsArmed, Present
    <3> QED
      BY <1>4, <3>1, <3>2, Zenon DEF SetScheduleWrite
  <2> QED
    BY <1>4, <2>2 DEF ArmedInv, AdvanceParses, SetScheduleWrite, IdleEdit, TypeOK
<1>5. ASSUME NEW w \in Workflows, NEW c \in CronTexts, DisableSchedule(w, c) PROVE ArmedInv'
  <2>1. EnabledIsArmed'
    BY <1>0, <1>5, ArmedWrite DEF DisableSchedule
  <2> QED
    BY <1>5, <2>1 DEF ArmedInv, AdvanceParses, DisableSchedule
<1>6. ASSUME NEW r \in Runners, NEW b \in BOOLEAN, Return(r, b), UNCHANGED <<wfs, edit>>,
             r = Scheduler => sched.pc = "exec"
      PROVE  ArmedInv'
  BY <1>6, ArmedFrame DEF Return, TypeOK, SchedState
<1>7. CASE Poll
  BY <1>0, <1>7 DEF ArmedInv, EnabledIsArmed, AdvanceParses, Present, Due, Poll, TypeOK, SchedState
<1>8. ASSUME NEW d \in sched.due, RunOne(d) PROVE ArmedInv'
  <2>1. CronParses(d.cron)
    BY <1>0 DEF AdvanceParses
  <2>2. sched'.due \subseteq sched.due /\ sched'.cron = d.cron
    BY <1>8, TakenFields
  <2> QED
    BY <1>8, <2>1, <2>2 DEF ArmedInv, EnabledIsArmed, AdvanceParses, Present, RunOne
<1>9. CASE RecordSkip
  BY <1>9, ArmedFrame DEF RecordSkip, TypeOK, SchedState
<1>10. CASE AdvanceSchedule
  <2>1. CronParses(sched.cron)
    BY <1>0, <1>10 DEF AdvanceParses, AdvanceSchedule
  <2> QED
    BY <1>10, <2>1, ArmedFrame DEF AdvanceSchedule, TypeOK, SchedState
<1>11. CASE MarkScheduleRun
  <2>1. sched'.due = sched.due /\ sched'.pc \in {"wait", "loop"} /\ sched.next \in Nat
    BY <1>11 DEF MarkScheduleRun, NextEntry, Waiting, TypeOK, SchedState
  <2>2. EnabledIsArmed'
    BY <1>0, <1>11, <2>1 DEF MarkScheduleRun, EnabledIsArmed, Present, TypeOK, WorkflowRow, NoTime
  <2> QED
    BY <1>11, <2>1, <2>2 DEF ArmedInv, AdvanceParses, MarkScheduleRun
<1>12. ASSUME Dies, UNCHANGED wfs PROVE ArmedInv'
  BY <1>12 DEF ArmedInv, EnabledIsArmed, AdvanceParses, Present, Dies, Waiting, IdleEdit
<1>13. ASSUME UNCHANGED <<wfs, sched, edit>> PROVE ArmedInv'
  BY <1>13, ArmedFrame
<1>14. ASSUME NEW r \in Runners, ExecuteStep(r) PROVE ArmedInv'
  <2>1. UNCHANGED <<wfs, edit>> /\ run[r].pc # "idle"
    BY <1>14 DEF ExecuteStep, ExecuteGet, ExecuteCreate, ExecuteCount, ExecuteEngine,
                 ExecuteFinish, ExecuteUncount, tally
  <2>2. Return(r, TRUE) \/ Return(r, FALSE) \/ UNCHANGED sched
    BY <1>14, Zenon DEF ExecuteStep, ExecuteGet, ExecuteCreate, ExecuteCount, ExecuteEngine,
                 ExecuteFinish, ExecuteUncount
  <2>3. r = Scheduler => sched.pc = "exec"
    BY <2>1 DEF SchedulerLink
  <2> QED
    BY <1>6, <1>13, <2>1, <2>2, <2>3, Zenon
<1>15. ASSUME NEW r \in Requests, RequestPanics(r) PROVE ArmedInv'
  <2>1. r \in Runners /\ r # Scheduler
    BY SchedulerAssumption DEF Runners
  <2> QED
    BY <1>6, <1>15, <2>1, Zenon DEF RequestPanics
<1>16. CASE SchedulerPanics \/ Crash \/ Exit
  BY <1>12, <1>16 DEF SchedulerPanics, Crash, Exit
<1>17. ASSUME \/ \E r \in Requests, w \in Workflows : StartRequest(r, w)
              \/ \E r \in Requests : ClientLeaves(r)
              \/ Terminate \/ Restart \/ Tick \/ UNCHANGED vars
       PROVE  ArmedInv'
  BY <1>13, <1>17 DEF StartRequest, ClientLeaves, Terminate, Restart, Tick, vars
<1> QED
  BY <1>1, <1>2, <1>3, <1>4, <1>5, <1>7, <1>8, <1>9, <1>10, <1>11, <1>14, <1>15, <1>16, <1>17
  DEF Next, SchedulerStep

\* The inductive invariant of the schedule columns.
LEMMA ArmedInvariant == Spec => []ArmedInv
<1>1. Init => ArmedInv
  BY DEF Init, ArmedInv, EnabledIsArmed, AdvanceParses, Waiting, IdleEdit
<1> QED
  BY CountInvariant, ArmedStep, <1>1, PTL DEF Spec

\* An enabled schedule always has an expression that parses and a next run, in
\* whatever order users, stale edits and the scheduler write its columns, and
\* the error branch of advanceSchedule, which disables it, is dead code.
THEOREM EnabledStaysArmed == Spec => []EnabledCanFire
<1>1. ArmedInv => EnabledCanFire
  BY DEF ArmedInv, EnabledCanFire
<1> QED
  BY ArmedInvariant, <1>1, PTL

-----------------------------------------------------------------------------
(* What a failure costs.                                                    *)

\* The scheduler is about to move the schedule of w on.
MovingOn(w) == sched.wf = w /\ sched.pc \in {"advance", "mark"}

\* A firing of w is spoilt unless something unexpected saves it: it is being moved
\* past without a row, or its run is over and the schedule was not moved on.
Owing(w) == IF MovingOn(w) THEN ~sched.recorded ELSE fire[w] = "done"

\* SIGTERM has come, and the statements it cancels may yet spoil a firing of w: w
\* waits in the list, is being run or skipped, or has its row and must be moved on.
Exposed(w) ==
    /\ proc = "draining"
    /\ \/ \E d \in sched.due : d.wf = w
       \/ sched.wf = w /\ sched.pc \in {"skip", "exec"}
       \/ MovingOn(w) /\ sched.recorded

\* Every firing of w that is or may be spoilt by what has failed so far.
Balance(w) == mishaps[w] + (IF Owing(w) THEN 1 ELSE 0) + (IF Exposed(w) THEN 1 ELSE 0)

\* The scheduler's context is cancelled by SIGTERM only, its goroutine runs the
\* entry runOne works on, and the list has every workflow once at most and no longer
\* the one being worked on.
ListInv ==
    /\ ~run[Scheduler].left
    /\ sched.pc = "exec" => run[Scheduler].wf = sched.wf
    /\ \A d, e \in sched.due : d.wf = e.wf => d = e
    /\ sched.pc \in {"skip", "exec", "advance", "mark"} => \A d \in sched.due : d.wf # sched.wf

LedgerInv == \A w \in Workflows : Balance(w) <= faults + stops

\* Every step keeps the scheduler's list in order.
LEMMA ListStep ==
    ASSUME CountInv, AdvanceParses, ListInv, [Next]_vars
    PROVE  ListInv'
<1>0. TypeOK /\ SchedulerLink /\ Scheduler \in Runners /\ Scheduler \notin Requests
  BY SchedulerAssumption DEF CountInv, Runners
<1>1. ASSUME UNCHANGED sched, run'[Scheduler] = run[Scheduler]
      PROVE  ListInv'
  BY <1>1 DEF ListInv
<1>2. ASSUME Dies PROVE ListInv'
  BY <1>0, <1>2 DEF Dies, ListInv, Waiting, IdleRun
<1>3. ASSUME NEW r \in Runners, ExecuteStep(r) PROVE ListInv'
  <2>1. CASE r # Scheduler
    <3>1. UNCHANGED sched /\ run'[Scheduler] = run[Scheduler]
      BY <1>0, <1>3, <2>1 DEF ExecuteStep, ExecuteGet, ExecuteCreate, ExecuteCount, ExecuteEngine,
                    ExecuteFinish, ExecuteUncount, Return, TypeOK
    <3> QED BY <1>1, <3>1
  <2>2. CASE r = Scheduler
    <3>1. sched.pc = "exec"
      BY <1>0, <1>3, <2>2 DEF SchedulerLink, ExecuteStep, ExecuteGet, ExecuteCreate, ExecuteCount,
                    ExecuteEngine, ExecuteFinish, ExecuteUncount
    <3>2. ASSUME NEW b \in BOOLEAN, Return(Scheduler, b) PROVE ListInv'
      <4>1. /\ sched'.pc = "advance" /\ sched'.wf = sched.wf /\ sched'.due = sched.due
            /\ ~run'[Scheduler].left
        BY <1>0, <3>2 DEF Return, TypeOK, SchedState, IdleRun
      <4> QED BY <3>1, <4>1 DEF ListInv
    <3>3. CASE /\ UNCHANGED sched
               /\ run'[Scheduler].wf = run[Scheduler].wf /\ run'[Scheduler].left = run[Scheduler].left
      BY <3>3 DEF ListInv
    <3>4. CASE ExecuteCount(Scheduler) \/ ExecuteEngine(Scheduler) \/ ExecuteFinish(Scheduler)
      BY <1>0, <3>3, <3>4 DEF ExecuteCount, ExecuteEngine, ExecuteFinish, TypeOK, RunState
    <3>5. CASE ExecuteGet(Scheduler)
      <4>1. CASE /\ run' = [run EXCEPT ![Scheduler].pc = "create", ![Scheduler].def = wfs[run[Scheduler].wf].def]
                 /\ UNCHANGED sched
        BY <1>0, <3>3, <4>1 DEF TypeOK, RunState
      <4> QED BY <3>2, <3>5, <4>1, Zenon DEF ExecuteGet
    <3>6. CASE ExecuteCreate(Scheduler)
      <4>1. CASE run' = [run EXCEPT ![Scheduler].pc = "count"] /\ UNCHANGED sched
        BY <1>0, <3>3, <4>1 DEF TypeOK, RunState
      <4> QED BY <3>2, <3>6, <4>1, Zenon DEF ExecuteCreate
    <3>7. CASE ExecuteUncount(Scheduler)
      BY <3>2, <3>7 DEF ExecuteUncount
    <3> QED BY <1>3, <2>2, <3>4, <3>5, <3>6, <3>7 DEF ExecuteStep
  <2> QED BY <2>1, <2>2
<1>4. CASE Poll
  <2> DEFINE D == {[wf |-> w, cron |-> wfs[w].cron] : w \in {v \in Workflows : Due(v)}}
  <2>1. sched'.pc = "loop" /\ sched'.due = D /\ UNCHANGED run
    BY <1>0, <1>4 DEF Poll, TypeOK, SchedState, service
  <2>2. \A d, e \in D : d.wf = e.wf => d = e
    OBVIOUS
  <2> QED BY <2>1, <2>2 DEF ListInv
<1>5. ASSUME NEW d \in sched.due, RunOne(d) PROVE ListInv'
  <2>1. sched'.due = sched.due \ {d} /\ sched'.wf = d.wf
    <3>1. PICK p \in {"skip", "exec"} :
            sched' = [[sched EXCEPT !.due = @ \ {d}, !.wf = d.wf, !.cron = d.cron, !.recorded = FALSE]
                        EXCEPT !.pc = p]
      BY <1>5, Zenon DEF RunOne
    <3> QED BY <1>0, <3>1 DEF TypeOK, SchedState
  <2>2. CASE UNCHANGED run /\ sched'.pc = "skip"
    BY <2>1, <2>2 DEF ListInv
  <2>3. CASE run' = [run EXCEPT ![Scheduler] = [IdleRun EXCEPT !.pc = "get", !.wf = d.wf]]
    <3>1. run'[Scheduler].wf = d.wf /\ ~run'[Scheduler].left
      BY <1>0, <2>3 DEF TypeOK, IdleRun
    <3> QED BY <2>1, <3>1 DEF ListInv
  <2>4. \/ sched' = [[sched EXCEPT !.due = @ \ {d}, !.wf = d.wf, !.cron = d.cron, !.recorded = FALSE]
                        EXCEPT !.pc = "skip"] /\ UNCHANGED run
        \/ run' = [run EXCEPT ![Scheduler] = [IdleRun EXCEPT !.pc = "get", !.wf = d.wf]]
    BY <1>5, Zenon DEF RunOne
  <2> QED BY <1>0, <2>2, <2>3, <2>4 DEF TypeOK, SchedState
<1>6. CASE RecordSkip
  <2>1. /\ sched.pc = "skip" /\ sched'.pc = "advance" /\ sched'.wf = sched.wf
        /\ sched'.due = sched.due /\ UNCHANGED run
    BY <1>0, <1>6 DEF RecordSkip, TypeOK, SchedState, service
  <2> QED BY <2>1 DEF ListInv
<1>7. NextEntry.pc \in {"wait", "loop"} /\ NextEntry.due = sched.due
  BY DEF NextEntry, Waiting
<1>8. CASE AdvanceSchedule
  <2>1. CronParses(sched.cron) /\ UNCHANGED run
    BY <1>8 DEF AdvanceParses, AdvanceSchedule, service
  <2>2. /\ sched.pc = "advance" /\ sched'.pc = "mark" /\ sched'.wf = sched.wf
        /\ sched'.due = sched.due
    BY <1>0, <1>8, <2>1 DEF AdvanceSchedule, TypeOK, SchedState
  <2> QED BY <2>1, <2>2 DEF ListInv
<1>9. CASE MarkScheduleRun
  BY <1>7, <1>9 DEF MarkScheduleRun, ListInv, service
<1>10. CASE SchedulerPanics \/ Crash \/ Exit
  BY <1>2, <1>10 DEF SchedulerPanics, Crash, Exit
<1>11. ASSUME NEW w \in Workflows, DeleteWorkflow(w) PROVE ListInv'
  BY <1>0, <1>11 DEF DeleteWorkflow, ListInv, TypeOK, RunState
<1>12. ASSUME NEW r \in Requests, NEW w \in Workflows, StartRequest(r, w) PROVE ListInv'
  BY <1>0, <1>1, <1>12 DEF StartRequest, TypeOK
<1>13. ASSUME NEW r \in Requests, ClientLeaves(r) \/ RequestPanics(r) PROVE ListInv'
  BY <1>0, <1>1, <1>13 DEF ClientLeaves, RequestPanics, Return, TypeOK
<1>14. ASSUME \/ \E w \in Workflows, d \in Definitions : CreateWorkflow(w, d) \/ UpdateWorkflow(w, d)
              \/ \E e \in Editors, w \in Workflows, c \in CronTexts : SetScheduleCompute(e, w, c)
              \/ \E e \in Editors : SetScheduleWrite(e)
              \/ \E w \in Workflows, c \in CronTexts : DisableSchedule(w, c)
       PROVE  ListInv'
  BY <1>1, <1>14, Zenon DEF CreateWorkflow, UpdateWorkflow, SetScheduleCompute, SetScheduleWrite,
     DisableSchedule, service
<1>15. CASE Terminate \/ Restart \/ Tick \/ UNCHANGED vars
  BY <1>1, <1>15, Zenon DEF Terminate, Restart, Tick, vars, service
<1> QED
  BY <1>3, <1>4, <1>5, <1>6, <1>8, <1>9, <1>10, <1>11, <1>12, <1>13, <1>14, <1>15
  DEF Next, SchedulerStep

\* A statement of the scheduler that fails does so by a fault, or after SIGTERM.
LEMMA SchedulerFailure ==
    ASSUME ListInv, StatementFails(Scheduler)
    PROVE  (proc = "draining" /\ faults' = faults) \/ faults' = faults + 1
BY DEF ListInv, StatementFails, Cancelled

\* Every step of the scheduler's run of Execute keeps the books.
LEMMA LedgerExecute ==
    ASSUME CountInv, ListInv, LedgerInv, ExecuteStep(Scheduler)
    PROVE  LedgerInv'
<1>0. /\ TypeOK /\ Scheduler \in Runners /\ sched \in SchedState
      /\ sched.pc = "exec" /\ run[Scheduler].wf = sched.wf
      /\ faults \in Nat /\ stops \in Nat /\ mishaps \in [Workflows -> Nat]
      /\ fire \in [Workflows -> {"armed", "listed", "done"}]
  BY DEF CountInv, SchedulerLink, ListInv, Runners, TypeOK, ExecuteStep, ExecuteGet, ExecuteCreate,
     ExecuteCount, ExecuteEngine, ExecuteFinish, ExecuteUncount
<1>1. UNCHANGED <<proc, stops, mishaps>>
  BY DEF ExecuteStep, ExecuteGet, ExecuteCreate, ExecuteCount, ExecuteEngine, ExecuteFinish,
     ExecuteUncount, tally
<1>2. faults' = faults \/ faults' = faults + 1
  BY SchedulerFailure, Zenon DEF StatementRuns, ExecuteStep, ExecuteGet, ExecuteCreate, ExecuteCount,
     ExecuteEngine, ExecuteFinish, ExecuteUncount, tally
<1>3. CASE UNCHANGED <<sched, fire>>
  BY <1>0, <1>1, <1>2, <1>3 DEF LedgerInv, Balance, Owing, Exposed, MovingOn
<1>4. ASSUME NEW b \in BOOLEAN, Return(Scheduler, b)
      PROVE  /\ sched'.pc = "advance" /\ sched'.wf = sched.wf /\ sched'.due = sched.due
             /\ sched'.recorded = b
  BY <1>0, <1>4 DEF Return, SchedState
<1>5. ASSUME Return(Scheduler, TRUE),
             \A w \in Workflows : w # sched.wf => fire'[w] = fire[w]
      PROVE  LedgerInv'
  <2> SUFFICES ASSUME NEW w \in Workflows PROVE Balance(w)' <= faults' + stops'
    BY DEF LedgerInv
  <2>1. Balance(w) <= faults + stops
    BY DEF LedgerInv
  <2>2. Owing(w)' => Owing(w)
    BY <1>0, <1>4, <1>5 DEF Owing, MovingOn
  <2>3. Exposed(w)' => Exposed(w)
    BY <1>0, <1>1, <1>4, <1>5 DEF Exposed, MovingOn
  <2> QED BY <1>0, <1>1, <1>2, <2>1, <2>2, <2>3 DEF Balance
<1>6. ASSUME Return(Scheduler, FALSE), StatementFails(Scheduler), UNCHANGED fire
      PROVE  LedgerInv'
  <2> SUFFICES ASSUME NEW w \in Workflows PROVE Balance(w)' <= faults' + stops'
    BY DEF LedgerInv
  <2>1. Balance(w) <= faults + stops
    BY DEF LedgerInv
  <2>2. CASE w # sched.wf
    <3>1. Owing(w)' = Owing(w) /\ Exposed(w)' = Exposed(w)
      BY <1>0, <1>1, <1>4, <1>6, <2>2 DEF Owing, Exposed, MovingOn
    <3> QED BY <1>0, <1>1, <1>2, <2>1, <3>1 DEF Balance
  <2>3. CASE w = sched.wf
    <3>1. ~Exposed(w)'
      BY <1>0, <1>4, <1>6, <2>3 DEF Exposed, MovingOn, ListInv
    <3>2. proc = "draining" => Exposed(w)
      BY <1>0, <2>3 DEF Exposed
    <3>3. (proc = "draining" /\ faults' = faults) \/ faults' = faults + 1
      BY <1>6, SchedulerFailure
    <3> QED BY <1>0, <1>1, <2>1, <3>1, <3>2, <3>3 DEF Balance
  <2> QED BY <2>2, <2>3
<1>7. CASE ExecuteUncount(Scheduler)
  <2>1. fire' = Handled(sched.wf) /\ Return(Scheduler, TRUE)
    BY <1>0, <1>7 DEF ExecuteUncount
  <2>2. \A w \in Workflows : w # sched.wf => fire'[w] = fire[w]
    BY <1>0, <2>1 DEF Handled
  <2> QED BY <1>5, <2>1, <2>2
<1>8. CASE ExecuteGet(Scheduler) \/ ExecuteCreate(Scheduler)
  <2>1. UNCHANGED fire
    BY <1>8 DEF ExecuteGet, ExecuteCreate
  <2>2. \/ Return(Scheduler, TRUE)
        \/ Return(Scheduler, FALSE) /\ StatementFails(Scheduler)
        \/ UNCHANGED sched
    BY <1>8, Zenon DEF ExecuteGet, ExecuteCreate
  <2> QED BY <1>3, <1>5, <1>6, <2>1, <2>2
<1>9. CASE ExecuteCount(Scheduler) \/ ExecuteEngine(Scheduler) \/ ExecuteFinish(Scheduler)
  BY <1>3, <1>9 DEF ExecuteCount, ExecuteEngine, ExecuteFinish
<1> QED BY <1>7, <1>8, <1>9 DEF ExecuteStep

\* Every other step of the scheduler keeps the books.
LEMMA LedgerScheduler ==
    ASSUME CountInv, AdvanceParses, ListInv, ListInv', LedgerInv,
           \/ Poll \/ \E d \in sched.due : RunOne(d)
           \/ RecordSkip \/ AdvanceSchedule \/ MarkScheduleRun
    PROVE  LedgerInv'
<1>0. /\ TypeOK /\ sched \in SchedState /\ sched.wf \in Workflows
      /\ faults \in Nat /\ stops \in Nat /\ mishaps \in [Workflows -> Nat]
      /\ fire \in [Workflows -> {"armed", "listed", "done"}]
  BY DEF CountInv, TypeOK, SchedState
<1> SUFFICES ASSUME NEW w \in Workflows PROVE Balance(w)' <= faults' + stops'
  BY DEF LedgerInv
<1>1. Balance(w) <= faults + stops /\ UNCHANGED <<proc, stops>>
  BY DEF LedgerInv, Poll, RunOne, RecordSkip, AdvanceSchedule, MarkScheduleRun, tally
<1>2. CASE Poll
  <2>1. /\ UNCHANGED <<faults, mishaps>> /\ sched'.pc = "loop" /\ proc = "up"
        /\ sched.pc = "wait" /\ (fire'[w] = "done" => fire[w] = "done")
    BY <1>0, <1>2 DEF Poll, SchedState, tally
  <2>2. ~Exposed(w)' /\ (Owing(w)' => Owing(w))
    BY <1>1, <2>1 DEF Exposed, Owing, MovingOn
  <2> QED BY <1>0, <1>1, <2>1, <2>2 DEF Balance
<1>3. ASSUME NEW d \in sched.due, RunOne(d) PROVE Balance(w)' <= faults' + stops'
  <2>1. d.wf \in Workflows
    BY <1>0, DueTyped
  <2>2. PICK p \in {"skip", "exec"} :
          sched' = [[sched EXCEPT !.due = @ \ {d}, !.wf = d.wf, !.cron = d.cron, !.recorded = FALSE]
                      EXCEPT !.pc = p]
    BY <1>3, Zenon DEF RunOne
  <2>3. /\ sched'.pc \in {"skip", "exec"} /\ sched'.wf = d.wf /\ sched'.due \subseteq sched.due
        /\ sched.pc = "loop" /\ UNCHANGED faults
    BY <1>0, <1>3, <2>2 DEF SchedState, RunOne
  <2>4. Exposed(w)' => Exposed(w)
    BY <1>1, <2>3 DEF Exposed, MovingOn
  <2>5. CASE fire[d.wf] = "done" /\ w = d.wf
    <3>1. mishaps'[w] = mishaps[w] + 1 /\ fire'[w] = "listed"
      BY <1>0, <1>3, <2>5 DEF RunOne
    <3>2. Owing(w) /\ ~Owing(w)'
      BY <2>3, <2>5, <3>1 DEF Owing, MovingOn
    <3> QED BY <1>0, <1>1, <2>3, <2>4, <3>1, <3>2 DEF Balance
  <2>6. CASE ~(fire[d.wf] = "done" /\ w = d.wf)
    <3>1. mishaps'[w] = mishaps[w] /\ fire'[w] = fire[w]
      BY <1>0, <1>3, <2>6 DEF RunOne
    <3>2. Owing(w)' => Owing(w)
      BY <2>3, <3>1 DEF Owing, MovingOn
    <3> QED BY <1>0, <1>1, <2>3, <2>4, <3>1, <3>2 DEF Balance
  <2> QED BY <2>5, <2>6
<1>4. CASE RecordSkip
  <2>1. /\ sched.pc = "skip" /\ sched'.pc = "advance" /\ sched'.wf = sched.wf
        /\ sched'.due = sched.due /\ UNCHANGED mishaps
    BY <1>0, <1>4 DEF RecordSkip, SchedState
  <2>2. CASE StatementRuns(Scheduler)
    <3>1. UNCHANGED faults
      BY <2>2 DEF StatementRuns
    <3>2. \/ sched'.recorded /\ (w # sched.wf => fire'[w] = fire[w])
          \/ StatementFails(Scheduler)
      BY <1>0, <1>4 DEF RecordSkip, SchedState, Handled
    <3>3. CASE sched'.recorded /\ (w # sched.wf => fire'[w] = fire[w])
      <4>1. (Owing(w)' => Owing(w)) /\ (Exposed(w)' => Exposed(w))
        BY <1>1, <2>1, <3>3 DEF Owing, Exposed, MovingOn
      <4> QED BY <1>0, <1>1, <2>1, <3>1, <4>1 DEF Balance
    <3>4. CASE StatementFails(Scheduler)
      BY <2>2, <3>4, <3>1, <1>0 DEF StatementRuns, StatementFails
    <3> QED BY <3>2, <3>3, <3>4
  <2>3. CASE ~StatementRuns(Scheduler)
    <3>1. StatementFails(Scheduler) /\ UNCHANGED fire /\ sched'.recorded = sched.recorded
      BY <1>0, <1>4, <2>3 DEF RecordSkip, SchedState
    <3>2. CASE w # sched.wf
      <4>1. Owing(w)' = Owing(w) /\ Exposed(w)' = Exposed(w)
        BY <1>1, <2>1, <3>1, <3>2 DEF Owing, Exposed, MovingOn
      <4>2. faults' = faults \/ faults' = faults + 1
        BY <3>1, SchedulerFailure
      <4> QED BY <1>0, <1>1, <2>1, <4>1, <4>2 DEF Balance
    <3>3. CASE w = sched.wf
      <4>1. Owing(w)' => ~Exposed(w)'
        BY <2>1, <3>1, <3>3 DEF Owing, Exposed, MovingOn, ListInv
      <4>2. proc = "draining" => Exposed(w)
        BY <2>1, <3>3 DEF Exposed
      <4>3. proc # "draining" => ~Exposed(w)'
        BY <1>1 DEF Exposed
      <4>4. (proc = "draining" /\ faults' = faults) \/ faults' = faults + 1
        BY <3>1, SchedulerFailure
      <4> QED BY <1>0, <1>1, <2>1, <4>1, <4>2, <4>3, <4>4 DEF Balance
    <3> QED BY <3>2, <3>3
  <2> QED BY <2>2, <2>3
<1>5. CASE AdvanceSchedule
  <2>1. CronParses(sched.cron)
    BY <1>5 DEF AdvanceParses, AdvanceSchedule
  <2>2. /\ sched.pc = "advance" /\ sched'.pc = "mark" /\ sched'.wf = sched.wf
        /\ sched'.due = sched.due /\ sched'.recorded = sched.recorded
        /\ UNCHANGED <<fire, faults, mishaps>>
    BY <1>0, <1>5, <2>1 DEF AdvanceSchedule, SchedState, tally
  <2>3. Owing(w)' = Owing(w) /\ Exposed(w)' = Exposed(w)
    BY <1>1, <2>2 DEF Owing, Exposed, MovingOn
  <2> QED BY <1>0, <1>1, <2>2, <2>3 DEF Balance
<1>6. CASE MarkScheduleRun
  <2>1. /\ sched.pc = "mark" /\ sched'.pc \in {"wait", "loop"} /\ sched'.due = sched.due
    BY <1>6 DEF MarkScheduleRun, NextEntry, Waiting
  <2>2. faults' = faults \/ faults' = faults + 1
    BY <1>6, SchedulerFailure, Zenon DEF MarkScheduleRun, StatementRuns
  <2>3. CASE w # sched.wf
    <3>1. mishaps'[w] = mishaps[w] /\ fire'[w] = fire[w]
      BY <1>0, <1>6, <2>3 DEF MarkScheduleRun
    <3>2. (Owing(w)' => Owing(w)) /\ (Exposed(w)' => Exposed(w))
      BY <1>1, <2>1, <2>3, <3>1 DEF Owing, Exposed, MovingOn
    <3> QED BY <1>0, <1>1, <2>2, <3>1, <3>2 DEF Balance
  <2>4. CASE w = sched.wf
    <3>1. ~Exposed(w)'
      BY <2>1, <2>4 DEF Exposed, MovingOn, ListInv
    <3>2. CASE /\ mishaps'[w] = IF Present(w) /\ ~sched.recorded THEN mishaps[w] + 1 ELSE mishaps[w]
               /\ fire'[w] = "armed"
      <4>1. ~Owing(w)' /\ (~sched.recorded => Owing(w))
        BY <2>1, <2>4, <3>2 DEF Owing, MovingOn
      <4> QED BY <1>0, <1>1, <2>2, <3>1, <3>2, <4>1 DEF Balance
    <3>3. CASE StatementFails(Scheduler) /\ UNCHANGED mishaps
      <4>1. (proc = "draining" /\ faults' = faults) \/ faults' = faults + 1
        BY <3>3, SchedulerFailure
      <4>2. proc = "draining" => Owing(w) \/ Exposed(w)
        BY <2>1, <2>4 DEF Owing, Exposed, MovingOn
      <4> QED BY <1>0, <1>1, <3>1, <3>3, <4>1, <4>2 DEF Balance
    <3>4. \/ /\ fire' = [fire EXCEPT ![sched.wf] = "armed"]
             /\ mishaps' = [mishaps EXCEPT ![sched.wf] =
                              IF Present(sched.wf) /\ ~sched.recorded THEN @ + 1 ELSE @]
          \/ StatementFails(Scheduler) /\ UNCHANGED mishaps
      BY <1>6, Zenon DEF MarkScheduleRun
    <3>5. ASSUME /\ fire' = [fire EXCEPT ![sched.wf] = "armed"]
                 /\ mishaps' = [mishaps EXCEPT ![sched.wf] =
                              IF Present(sched.wf) /\ ~sched.recorded THEN @ + 1 ELSE @]
          PROVE  Balance(w)' <= faults' + stops'
      BY <1>0, <2>4, <3>2, <3>5
    <3> QED BY <3>3, <3>4, <3>5
  <2> QED BY <2>3, <2>4
<1> QED BY <1>2, <1>3, <1>4, <1>5, <1>6

\* Every step keeps the books: a failure adds one to what may be spoilt, and
\* nothing else does.
LEMMA LedgerStep ==
    ASSUME CountInv, AdvanceParses, ListInv, ListInv', LedgerInv, [Next]_vars
    PROVE  LedgerInv'
<1>0. /\ TypeOK /\ SchedulerLink /\ Scheduler \in Runners /\ Scheduler \notin Requests
      /\ sched \in SchedState
      /\ faults \in Nat /\ stops \in Nat /\ mishaps \in [Workflows -> Nat]
      /\ fire \in [Workflows -> {"armed", "listed", "done"}]
  BY SchedulerAssumption DEF CountInv, TypeOK, Runners
<1>1. ASSUME UNCHANGED <<sched, stops, mishaps>>, faults' = faults \/ faults' = faults + 1,
             proc' = proc \/ proc' # "draining",
             \A w \in Workflows : fire'[w] = "done" => fire[w] = "done"
      PROVE  LedgerInv'
  <2> SUFFICES ASSUME NEW w \in Workflows PROVE Balance(w)' <= faults' + stops'
    BY DEF LedgerInv
  <2>1. (Owing(w)' => Owing(w)) /\ (Exposed(w)' => Exposed(w))
    BY <1>1 DEF Owing, Exposed, MovingOn
  <2> QED BY <1>0, <1>1, <2>1 DEF LedgerInv, Balance
<1>2. ASSUME Dies, UNCHANGED <<fire, faults, mishaps>>,
             \/ stops' = stops + 1
             \/ stops' = stops /\ (proc = "draining" \/ sched.pc = "exec")
      PROVE  LedgerInv'
  <2> SUFFICES ASSUME NEW w \in Workflows PROVE Balance(w)' <= faults' + stops'
    BY DEF LedgerInv
  <2>1. Balance(w) <= faults + stops
    BY DEF LedgerInv
  <2>2. ~Exposed(w)' /\ (Owing(w)' => fire[w] = "done")
    BY <1>2 DEF Dies, Exposed, Owing, MovingOn, Waiting
  <2>3. fire[w] = "done" => Owing(w) \/ (MovingOn(w) /\ sched.recorded)
    BY DEF Owing
  <2>4. MovingOn(w) /\ sched.recorded /\ stops' = stops => Exposed(w)
    BY <1>0, <1>2 DEF MovingOn, Exposed
  <2> QED BY <1>0, <1>2, <2>1, <2>2, <2>3, <2>4 DEF Balance
<1>3. CASE Crash
  BY <1>2, <1>3 DEF Crash
<1>4. CASE Exit
  BY <1>2, <1>4 DEF Exit, tally
<1>5. CASE SchedulerPanics
  BY <1>0, <1>2, <1>5 DEF SchedulerPanics, SchedulerLink, tally
<1>6. CASE Terminate
  <2> SUFFICES ASSUME NEW w \in Workflows PROVE Balance(w)' <= faults' + stops'
    BY DEF LedgerInv
  <2>1. ~Exposed(w) /\ (Owing(w)' = Owing(w)) /\ UNCHANGED <<mishaps, faults>> /\ stops' = stops + 1
    BY <1>6 DEF Terminate, Exposed, Owing, MovingOn
  <2> QED BY <1>0, <2>1 DEF LedgerInv, Balance
<1>7. CASE Restart
  BY <1>1, <1>7 DEF Restart, tally
<1>8. ASSUME NEW r \in Runners, r # Scheduler, ExecuteStep(r) PROVE LedgerInv'
  <2>1. UNCHANGED <<proc, sched, stops, mishaps, fire>>
    BY <1>8 DEF ExecuteStep, ExecuteGet, ExecuteCreate, ExecuteCount, ExecuteEngine,
       ExecuteFinish, ExecuteUncount, Return, tally
  <2>2. faults' = faults \/ faults' = faults + 1
    BY <1>8, Zenon DEF StatementRuns, StatementFails, ExecuteStep, ExecuteGet, ExecuteCreate,
       ExecuteCount, ExecuteEngine, ExecuteFinish, ExecuteUncount, tally
  <2> QED BY <1>1, <2>1, <2>2
<1>9. ASSUME NEW r \in Requests, RequestPanics(r) PROVE LedgerInv'
  BY <1>0, <1>1, <1>9 DEF RequestPanics, Return, tally
<1>10. ASSUME NEW w \in Workflows, NEW c, NEW b, NEW n, WriteSchedule(w, c, b, n)
       PROVE  \A v \in Workflows : fire'[v] = "done" => fire[v] = "done"
  BY <1>0, <1>10 DEF WriteSchedule
<1>11. ASSUME NEW e \in Editors, SetScheduleWrite(e) PROVE LedgerInv'
  <2>1. edit[e].wf \in Workflows
    BY <1>0 DEF TypeOK, EditState
  <2>2. WriteSchedule(edit[e].wf, edit[e].cron, TRUE, edit[e].next) \/ UNCHANGED fire
    BY <1>11, Zenon DEF SetScheduleWrite
  <2>3. \A v \in Workflows : fire'[v] = "done" => fire[v] = "done"
    BY <1>10, <2>1, <2>2, Zenon
  <2> QED BY <1>1, <1>11, <2>3 DEF SetScheduleWrite, tally
<1>12. ASSUME NEW w \in Workflows, NEW c \in CronTexts, DisableSchedule(w, c) PROVE LedgerInv'
  <2>1. \A v \in Workflows : fire'[v] = "done" => fire[v] = "done"
    BY <1>10, <1>12, Zenon DEF DisableSchedule
  <2> QED BY <1>1, <1>12, <2>1 DEF DisableSchedule, tally
<1>13. ASSUME NEW w \in Workflows, DeleteWorkflow(w) PROVE LedgerInv'
  BY <1>0, <1>1, <1>13 DEF DeleteWorkflow, tally
<1>14. ASSUME \/ \E w \in Workflows, d \in Definitions : CreateWorkflow(w, d) \/ UpdateWorkflow(w, d)
              \/ \E e \in Editors, w \in Workflows, c \in CronTexts : SetScheduleCompute(e, w, c)
              \/ \E r \in Requests, w \in Workflows : StartRequest(r, w)
              \/ \E r \in Requests : ClientLeaves(r)
              \/ Tick \/ UNCHANGED vars
       PROVE  LedgerInv'
  <2>1. UNCHANGED <<proc, sched, faults, stops, mishaps, fire>>
    BY <1>14, Zenon DEF CreateWorkflow, UpdateWorkflow, SetScheduleCompute, StartRequest,
       ClientLeaves, Tick, vars, tally
  <2> QED BY <1>1, <2>1
<1> QED
  BY <1>3, <1>4, <1>5, <1>6, <1>7, <1>8, <1>9, <1>11, <1>12, <1>13, <1>14,
     LedgerExecute, LedgerScheduler DEF Next, SchedulerStep

\* A failed statement, a refusal, a crash or a SIGTERM spoils at most one firing
\* of a workflow, however many workflows, requests, editors and failures there
\* are; nothing else spoils one.
THEOREM FailuresCostAFiringEach == Spec => []FailuresCostOneEach
<1>1. Init => ListInv /\ LedgerInv
  BY DEF Init, ListInv, LedgerInv, Balance, Owing, Exposed, MovingOn, IdleRun, Waiting, Runners
<1>2. CountInv /\ ArmedInv /\ ListInv /\ LedgerInv /\ [Next]_vars => (ListInv /\ LedgerInv)'
  BY ListStep, LedgerStep DEF ArmedInv
<1>3. TypeOK /\ LedgerInv => FailuresCostOneEach
  <2> SUFFICES ASSUME TypeOK, LedgerInv, NEW w \in Workflows PROVE mishaps[w] <= faults + stops
    BY DEF FailuresCostOneEach
  <2>1. mishaps[w] \in Nat /\ faults \in Nat /\ stops \in Nat /\ Balance(w) <= faults + stops
    BY DEF TypeOK, LedgerInv
  <2> QED BY <2>1 DEF Balance
<1> QED
  BY CountInvariant, ArmedInvariant, TypeCorrect, <1>1, <1>2, <1>3, PTL DEF Spec

-----------------------------------------------------------------------------
\* Firing once.  While nothing fails, a firing that has been handled and not
\* yet moved on is the one advanceSchedule is working on.
OnceInv ==
    /\ proc = "up" /\ faults = 0 /\ stops = 0
    /\ ~run[Scheduler].left
    /\ sched.pc = "exec" => run[Scheduler].wf = sched.wf
    /\ \A w \in Workflows : fire[w] = "done" => sched.pc \in {"advance", "mark"} /\ sched.wf = w

\* No failed statement, no crash or signal, no panicking definition.
NothingFails == MaxFaults = 0 /\ MaxStops = 0 /\ "panics" \notin Definitions

\* Without faults a statement of the scheduler runs.
LEMMA NoFailure ==
    ASSUME NothingFails, OnceInv
    PROVE  ~Cancelled(Scheduler) /\ \A r : StatementFails(r) => run[r].left /\ UNCHANGED faults
BY DEF NothingFails, OnceInv, Cancelled, StatementFails

\* Every step keeps the handled firings where they can be moved on.
LEMMA OnceStep ==
    ASSUME NothingFails, CountInv, AdvanceParses, OnceInv, [Next]_vars
    PROVE  OnceInv'
<1>0. TypeOK /\ SchedulerLink /\ Scheduler \in Runners /\ Scheduler \notin Requests
  BY SchedulerAssumption DEF CountInv, Runners
<1>1. ASSUME UNCHANGED <<proc, faults, stops, sched>>, run'[Scheduler] = run[Scheduler],
             \A w \in Workflows : fire'[w] = "done" => fire[w] = "done"
      PROVE  OnceInv'
  BY <1>1 DEF OnceInv
<1>2. ASSUME NEW w \in Workflows, NEW d \in Definitions, CreateWorkflow(w, d) \/ UpdateWorkflow(w, d)
      PROVE OnceInv'
  BY <1>1, <1>2 DEF CreateWorkflow, UpdateWorkflow, service, tally
<1>3. ASSUME NEW w \in Workflows, DeleteWorkflow(w) PROVE OnceInv'
  BY <1>0, <1>3 DEF OnceInv, DeleteWorkflow, TypeOK, RunState, tally
<1>4. ASSUME NEW w \in Workflows, NEW c, NEW b, NEW n, WriteSchedule(w, c, b, n)
      PROVE  \A v \in Workflows : fire'[v] = "done" => fire[v] = "done"
  BY <1>0, <1>4 DEF WriteSchedule, TypeOK
<1>5. ASSUME NEW e \in Editors, NEW w \in Workflows, NEW c \in CronTexts, SetScheduleCompute(e, w, c)
      PROVE OnceInv'
  BY <1>1, <1>5 DEF SetScheduleCompute, service, tally
<1>6. ASSUME NEW e \in Editors, SetScheduleWrite(e) PROVE OnceInv'
  <2>1. edit[e].wf \in Workflows
    BY <1>0 DEF TypeOK, EditState
  <2>2. WriteSchedule(edit[e].wf, edit[e].cron, TRUE, edit[e].next) \/ UNCHANGED fire
    BY <1>6, Zenon DEF SetScheduleWrite
  <2>3. \A v \in Workflows : fire'[v] = "done" => fire[v] = "done"
    BY <1>4, <2>1, <2>2, Zenon
  <2> QED
    BY <1>1, <1>6, <2>3 DEF SetScheduleWrite, service, tally
<1>7. ASSUME NEW w \in Workflows, NEW c \in CronTexts, DisableSchedule(w, c) PROVE OnceInv'
  <2>1. \A v \in Workflows : fire'[v] = "done" => fire[v] = "done"
    BY <1>4, <1>7, Zenon DEF DisableSchedule
  <2> QED
    BY <1>1, <1>7, <2>1 DEF DisableSchedule, service, tally
<1>8. ASSUME NEW r \in Requests, NEW w \in Workflows, StartRequest(r, w) PROVE OnceInv'
  BY <1>0, <1>1, <1>8 DEF StartRequest, TypeOK, tally
<1>9. ASSUME NEW r \in Requests, ClientLeaves(r) PROVE OnceInv'
  BY <1>0, <1>1, <1>9 DEF ClientLeaves, TypeOK, tally
<1>10. ASSUME NEW r \in Runners, ExecuteStep(r) PROVE OnceInv'
  <2>1. UNCHANGED <<proc, faults, stops>>
    BY <1>10, NoFailure, Zenon DEF ExecuteStep, ExecuteGet, ExecuteCreate, ExecuteCount, ExecuteEngine,
                    ExecuteFinish, ExecuteUncount, StatementRuns, tally
  <2>2. run[r].pc # "idle" /\ run[r].wf \in Workflows
    BY <1>0, <1>10 DEF ExecuteStep, ExecuteGet, ExecuteCreate, ExecuteCount, ExecuteEngine,
                ExecuteFinish, ExecuteUncount, TypeOK, RunState
  <2>3. CASE r # Scheduler
    <3>1. UNCHANGED <<sched, fire>> /\ run'[Scheduler] = run[Scheduler]
      BY <1>0, <1>10, <2>3 DEF ExecuteStep, ExecuteGet, ExecuteCreate, ExecuteCount, ExecuteEngine,
                    ExecuteFinish, ExecuteUncount, Return, TypeOK
    <3> QED
      BY <1>1, <2>1, <3>1
  <2>4. CASE r = Scheduler
    <3>1. sched.pc = "exec" /\ run[Scheduler].wf = sched.wf
      BY <2>2, <2>4 DEF CountInv, SchedulerLink, OnceInv
    <3>2. \A w \in Workflows : fire[w] # "done"
      BY <3>1 DEF OnceInv
    <3>3. ASSUME NEW b \in BOOLEAN, Return(Scheduler, b)
          PROVE  sched'.pc = "advance" /\ sched'.wf = sched.wf /\ ~run'[Scheduler].left
      BY <1>0, <3>3 DEF Return, TypeOK, SchedState, IdleRun
    <3>4. CASE ExecuteUncount(Scheduler)
      <4>1. sched'.pc = "advance" /\ sched'.wf = sched.wf /\ ~run'[Scheduler].left
        BY <3>3, <3>4 DEF ExecuteUncount
      <4>2. fire' = Handled(sched.wf)
        BY <3>1, <3>4 DEF ExecuteUncount
      <4>3. \A w \in Workflows : fire'[w] = "done" => w = sched.wf
        BY <1>0, <3>2, <4>2 DEF Handled, TypeOK
      <4> QED
        BY <2>1, <4>1, <4>3 DEF OnceInv
    <3>5. CASE UNCHANGED fire /\ (Return(Scheduler, TRUE) \/ Return(Scheduler, FALSE))
      <4>1. sched'.pc = "advance" /\ ~run'[Scheduler].left
        BY <3>3, <3>5
      <4> QED
        BY <2>1, <3>2, <3>5, <4>1 DEF OnceInv
    <3>6. CASE /\ UNCHANGED <<fire, sched>>
               /\ run'[Scheduler].wf = run[Scheduler].wf /\ run'[Scheduler].left = run[Scheduler].left
      BY <2>1, <3>2, <3>6 DEF OnceInv
    <3>7. CASE ExecuteCount(Scheduler) \/ ExecuteEngine(Scheduler) \/ ExecuteFinish(Scheduler)
      BY <1>0, <3>6, <3>7 DEF ExecuteCount, ExecuteEngine, ExecuteFinish, TypeOK, RunState
    <3>8. CASE ExecuteGet(Scheduler)
      <4>1. CASE /\ run' = [run EXCEPT ![Scheduler].pc = "create", ![Scheduler].def = wfs[run[Scheduler].wf].def]
                 /\ UNCHANGED <<fire, sched>>
        BY <1>0, <3>6, <4>1 DEF TypeOK, RunState
      <4> QED
        BY <3>5, <3>8, <4>1, Zenon DEF ExecuteGet
    <3>9. CASE ExecuteCreate(Scheduler)
      <4>1. CASE run' = [run EXCEPT ![Scheduler].pc = "count"] /\ UNCHANGED <<fire, sched>>
        BY <1>0, <3>6, <4>1 DEF TypeOK, RunState
      <4> QED
        BY <3>5, <3>9, <4>1, Zenon DEF ExecuteCreate
    <3> QED
      BY <1>10, <2>4, <3>4, <3>7, <3>8, <3>9 DEF ExecuteStep
  <2> QED
    BY <2>3, <2>4
<1>11. CASE Poll
  BY <1>0, <1>11 DEF OnceInv, Poll, TypeOK, SchedState, service, tally
<1>12. ASSUME NEW d \in sched.due, RunOne(d) PROVE OnceInv'
  <2>1. \A w \in Workflows : fire'[w] # "done"
    <3>1. d.wf \in Workflows /\ \A w \in Workflows : fire[w] # "done"
      BY <1>0, <1>12, DueTyped DEF OnceInv, RunOne
    <3>2. UNCHANGED fire
      BY <1>12, <3>1 DEF RunOne
    <3> QED BY <3>1, <3>2
  <2>2. UNCHANGED <<proc, faults, stops>>
    BY <1>12, Zenon DEF RunOne, tally
  <2>3. CASE /\ sched' = [[sched EXCEPT !.due = @ \ {d}, !.wf = d.wf, !.cron = d.cron, !.recorded = FALSE]
                            EXCEPT !.pc = "skip"]
             /\ UNCHANGED run
    <3>1. sched'.pc = "skip"
      BY <1>0, <2>3 DEF TypeOK, SchedState
    <3> QED
      BY <2>1, <2>2, <2>3, <3>1 DEF OnceInv
  <2>4. CASE run' = [run EXCEPT ![Scheduler] = [IdleRun EXCEPT !.pc = "get", !.wf = d.wf]]
    <3>1. run'[Scheduler].wf = d.wf /\ ~run'[Scheduler].left
      BY <1>0, <2>4 DEF TypeOK, IdleRun
    <3>2. sched'.wf = d.wf
      BY <1>0, <1>12, TakenFields
    <3> QED
      BY <2>1, <2>2, <3>1, <3>2 DEF OnceInv
  <2> QED
    BY <1>12, <2>3, <2>4, Zenon DEF RunOne
<1>13. CASE RecordSkip
  <2>1. StatementRuns(Scheduler)
    BY <1>13, NoFailure DEF RecordSkip, OnceInv, StatementFails, NothingFails
  <2> QED
    <3>1. sched'.pc = "advance" /\ sched'.wf = sched.wf /\ sched.pc = "skip"
      BY <1>0, <1>13 DEF RecordSkip, TypeOK, SchedState
    <3>2. UNCHANGED <<proc, faults, stops, run>>
      BY <1>13, <2>1 DEF RecordSkip, StatementRuns, service
    <3>3. fire' = Handled(sched.wf) \/ fire' = fire
      BY <1>13, Zenon DEF RecordSkip
    <3>4. \A w \in Workflows : fire'[w] = "done" => w = sched.wf
      BY <1>0, <3>1, <3>3 DEF OnceInv, Handled, TypeOK
    <3> QED
      BY <3>1, <3>2, <3>4 DEF OnceInv
<1>14. CASE AdvanceSchedule
  <2>1. CronParses(sched.cron)
    BY <1>14 DEF AdvanceParses, AdvanceSchedule
  <2> QED
    BY <1>0, <1>14, <2>1 DEF OnceInv, AdvanceSchedule, TypeOK, SchedState, service, tally
<1>15. CASE MarkScheduleRun
  <2>1. ~StatementFails(Scheduler)
    BY NoFailure DEF OnceInv, NothingFails, StatementFails
  <2>2. sched.pc = "mark" /\ fire' = [fire EXCEPT ![sched.wf] = "armed"] /\ UNCHANGED faults
    BY <1>15, <2>1 DEF MarkScheduleRun, StatementRuns
  <2>3. \A w \in Workflows : fire'[w] # "done"
    BY <1>0, <2>2 DEF OnceInv, TypeOK, SchedState
  <2>4. sched'.pc # "exec"
    BY <1>15 DEF MarkScheduleRun, NextEntry, Waiting
  <2> QED
    BY <1>15, <2>2, <2>3, <2>4 DEF OnceInv, MarkScheduleRun, service
<1>16. ASSUME NEW r \in Runners PROVE run[r].def # "panics"
  BY <1>0 DEF TypeOK, RunState, NothingFails
<1>17. ~SchedulerPanics /\ \A r \in Requests : ~RequestPanics(r)
  BY <1>0, <1>16 DEF SchedulerPanics, RequestPanics, Runners
<1>19. ~Crash /\ ~Exit /\ ~Terminate /\ ~Restart
  BY DEF Crash, Exit, Terminate, Restart, OnceInv, NothingFails
<1>18. CASE Tick \/ UNCHANGED vars
  BY <1>1, <1>18 DEF Tick, service, vars
<1> QED
  BY <1>2, <1>3, <1>5, <1>6, <1>7, <1>8, <1>9, <1>10, <1>11, <1>12, <1>13, <1>14, <1>15, <1>17, <1>18, <1>19
  DEF Next, SchedulerStep

\* While nothing fails, no firing is handled twice, however polls, runs,
\* skips, schedule edits, deletions and clients that leave interleave.
THEOREM FiresOnce ==
    ASSUME NothingFails
    PROVE  Spec => FireOnce
<1>1. Init => OnceInv
  BY DEF Init, OnceInv, IdleRun, Waiting, Runners
<1>2. CountInv /\ ArmedInv /\ OnceInv /\ [Next]_vars => OnceInv'
  BY OnceStep DEF ArmedInv
<1>3. OnceInv /\ TypeOK /\ TypeOK' /\ [Next]_vars
        => [sched.pc = "loop" /\ sched'.pc \in {"skip", "exec"} => fire[sched'.wf] # "done"]_vars
  BY DEF OnceInv, TypeOK, SchedState
<1>4. Spec => []OnceInv
  BY CountInvariant, ArmedInvariant, <1>1, <1>2, PTL DEF Spec
<1> QED
  BY <1>3, <1>4, TypeCorrect, PTL DEF Spec, FireOnce

-----------------------------------------------------------------------------
(* A schedule moves on.                                                     *)

\* A step of another goroutine, or one of the scheduler's own that does not
\* compute a next run, does not lead it from "advance" to "mark".
LEMMA OnlyAdvanceMarks ==
    ASSUME CountInv, [Next]_vars, sched.pc = "advance", sched'.pc = "mark"
    PROVE  AdvanceSchedule
<1>0. TypeOK /\ SchedulerLink /\ run[Scheduler].pc = "idle"
  BY DEF CountInv, SchedulerLink
<1>1. sched' # sched /\ sched' # Waiting
  BY DEF Waiting
<1>2. ASSUME NEW r \in Runners, ExecuteStep(r) PROVE FALSE
  <2>1. r # Scheduler
    BY <1>0, <1>2 DEF ExecuteStep, ExecuteGet, ExecuteCreate, ExecuteCount, ExecuteEngine,
                      ExecuteFinish, ExecuteUncount
  <2>2. sched' = sched
    BY <1>2, <2>1 DEF ExecuteStep, ExecuteGet, ExecuteCreate, ExecuteCount, ExecuteEngine,
                      ExecuteFinish, ExecuteUncount, Return
  <2> QED BY <1>1, <2>2
<1>3. ASSUME NEW r \in Requests, ClientLeaves(r) \/ RequestPanics(r) PROVE FALSE
  <2>1. r # Scheduler
    BY SchedulerAssumption
  <2>2. sched' = sched
    BY <1>3, <2>1 DEF ClientLeaves, RequestPanics, Return
  <2> QED BY <1>1, <2>2
<1>4. ASSUME NEW r \in Requests, NEW w \in Workflows, StartRequest(r, w) PROVE FALSE
  BY <1>1, <1>4 DEF StartRequest
<1>5. ASSUME NEW w \in Workflows, DeleteWorkflow(w) PROVE FALSE
  BY <1>1, <1>5 DEF DeleteWorkflow
<1>6. ~SchedulerPanics /\ ~Crash /\ ~Exit
  BY <1>1 DEF SchedulerPanics, Crash, Exit, Dies
<1>7. ~Poll /\ ~RecordSkip /\ ~MarkScheduleRun /\ \A d \in sched.due : ~RunOne(d)
  BY DEF Poll, RecordSkip, MarkScheduleRun, RunOne
<1>8. ~(\/ \E w \in Workflows, d \in Definitions : CreateWorkflow(w, d) \/ UpdateWorkflow(w, d)
        \/ \E e \in Editors, w \in Workflows, c \in CronTexts : SetScheduleCompute(e, w, c)
        \/ \E e \in Editors : SetScheduleWrite(e)
        \/ \E w \in Workflows, c \in CronTexts : DisableSchedule(w, c)
        \/ Terminate \/ Restart \/ Tick \/ UNCHANGED vars)
  BY <1>1 DEF CreateWorkflow, UpdateWorkflow, SetScheduleCompute, SetScheduleWrite,
              DisableSchedule, Terminate, Restart, Tick, service, vars
<1> QED
  BY <1>2, <1>3, <1>4, <1>5, <1>6, <1>7, <1>8 DEF Next, SchedulerStep

\* The next firing of an expression that has one is after the moment it is
\* computed at, however late that is.
LEMMA NextRunIsLater ==
    ASSUME NEW c \in Nat, c # 0, NEW t \in Nat
    PROVE  NextRun(c, t) > t
<1>1. /\ t \div c \in Nat /\ t % c \in Nat /\ t % c < c
      /\ t = c * (t \div c) + (t % c)
  OBVIOUS
<1>2. ((t \div c) + 1) * c = c * (t \div c) + c
  BY <1>1
<1>3. ((t \div c) + 1) * c > t
  BY <1>1, <1>2
<1> QED BY <1>3 DEF NextRun

\* The next run that is written after a firing lies after the moment it was
\* computed at, so that what was missed meanwhile is not made up for, as long as
\* every expression that parses names a date at all: "0 0 30 2 *" is all that the
\* refuted MarkMovesOn takes.
THEOREM SchedulesMoveOn ==
    ASSUME 0 \notin Crons
    PROVE  Spec => MarkMovesOn
<1>1. CountInv /\ [Next]_vars =>
        [sched.pc = "advance" /\ sched'.pc = "mark" => sched'.next > clock]_vars
  <2> SUFFICES ASSUME CountInv, [Next]_vars, sched.pc = "advance", sched'.pc = "mark"
               PROVE  sched'.next > clock
    OBVIOUS
  <2>1. AdvanceSchedule
    BY OnlyAdvanceMarks
  <2>2. sched \in SchedState /\ clock \in Nat
    BY DEF CountInv, TypeOK
  <2>3. sched.cron \in Crons \/ sched.cron = BadCron
    BY <2>2 DEF SchedState, CronTexts
  <2>4. CASE CronParses(sched.cron)
    <3>1. sched' = [sched EXCEPT !.pc = "mark", !.next = NextRun(sched.cron, clock)]
      BY <2>1, <2>4 DEF AdvanceSchedule
    <3>2. sched'.next = NextRun(sched.cron, clock)
      BY <2>2, <3>1 DEF SchedState
    <3>3. sched.cron \in Nat /\ sched.cron # 0
      BY <2>3, <2>4, SchedulerAssumption DEF CronParses
    <3> QED BY <2>2, <3>2, <3>3, NextRunIsLater
  <2>5. CASE ~CronParses(sched.cron)
    BY <2>1, <2>5 DEF AdvanceSchedule, NextEntry, Waiting
  <2> QED BY <2>4, <2>5
<1> QED BY <1>1, CountInvariant, PTL DEF Spec, MarkMovesOn

=============================================================================
