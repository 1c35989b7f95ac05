-------------------------- MODULE WorkflowScheduler --------------------------
(***************************************************************************)
(* The scheduler's poll loop, the workflow service's Execute, and the      *)
(* schedule and execution rows both share through PostgreSQL.              *)
(*                                                                         *)
(* One server process runs one scheduler goroutine and any number of HTTP  *)
(* requests.  Every database statement is one atomic step, everything a    *)
(* goroutine does between two statements (or two uses of activeMu) belongs *)
(* to the step before it.  The database survives a crash, the process's    *)
(* memory does not.                                                        *)
(*                                                                         *)
(* Abstractions.  An execution row is identified with the goroutine that   *)
(* inserted it, because FinishExecution by that goroutine is the only      *)
(* statement that ever updates it; once the goroutine has let go of a row  *)
(* that still says 'running', the row is remembered in orphans.  The       *)
(* finished rows, names, audit records and schedule_last_run (which is     *)
(* written and shown, never read by the code) are left out.                *)
(***************************************************************************)
EXTENDS Integers, FiniteSets

CONSTANTS
    Workflows,   \* identifiers of rows of the workflows table
    Requests,    \* goroutines serving POST /workflows/{id}/execute
    Scheduler,   \* the scheduler goroutine
    Editors,     \* goroutines serving PUT /workflows/{id}/schedule
    Crons,       \* the well-formed cron expressions users save (see NextRun)
    Definitions, \* what the saved definitions do when run: "ok" or "panics"
    MaxTime,     \* the clock stops here
    MaxFaults,   \* bound on failed statements and memory-pressure refusals
    MaxStops,    \* bound on crashes and SIGTERMs
    ClientsLeave \* whether a client may disconnect while its request runs

ASSUME SchedulerAssumption ==
    /\ Workflows # {}
    /\ Scheduler \notin Requests
    /\ IsFiniteSet(Requests)
    /\ Crons \subseteq Nat
    /\ Definitions \subseteq {"ok", "panics"} /\ Definitions # {}
    /\ MaxTime \in Nat /\ MaxFaults \in Nat /\ MaxStops \in Nat
    /\ ClientsLeave \in BOOLEAN

Runners == Requests \cup {Scheduler}

-----------------------------------------------------------------------------
(* Cron expressions.  A positive c fires at the multiples of c; 0 stands    *)
(* for one that parses and fires on no date ("0 0 30 2 *"); BadCron stands  *)
(* for every text that does not parse, the column's default '' included.    *)

BadCron == -1
CronTexts == Crons \cup {BadCron}
CronParses(c) == c # BadCron

NoTime == -1     \* SQL NULL
ZeroTime == 0    \* time.Time{}, before every instant the clock shows

\* Faulty variant: a time that is now counts as the next.
NextRunOrNow(c, t) == IF c = 0 THEN ZeroTime ELSE ((t + c - 1) \div c) * c

\* cron.Schedule.Next: the first firing strictly after t, the zero time when
\* there is none.
NextRun(c, t) == IF c = 0 THEN ZeroTime ELSE ((t \div c) + 1) * c

-----------------------------------------------------------------------------
VARIABLES
    proc,      \* the server process: "up", "draining" after SIGTERM, or "down"
    clock,     \* time.Now()
    wfs,       \* the workflows table
    orphans,   \* workflows with a 'running' row that no goroutine will finish
    active,    \* Service.activeByWorkflow (an absent key reads as 0)
    inFlight,  \* Service.inFlight
    run,       \* the local state of Service.Execute in each goroutine
    sched,     \* the local state of Scheduler.tick
    edit,      \* the local state of Service.SetSchedule with enabled = true
    faults,    \* failures injected so far
    stops,     \* crashes and SIGTERMs so far
    fire,      \* history variable: what became of each workflow's present
               \* schedule_next_run: "armed", "listed" by a poll, or "done"
    mishaps    \* history variable: how many of each workflow's firings were
               \* moved past without a row, or taken up again after their run

service == <<active, inFlight, run>>
tally == <<clock, faults, stops, mishaps>>
vars == <<proc, clock, wfs, orphans, active, inFlight, run, sched, edit,
          faults, stops, fire, mishaps>>

WorkflowRow == [state   : {"new", "present", "deleted"},
                def     : Definitions,
                cron    : CronTexts,
                enabled : BOOLEAN,
                next    : Nat \cup {NoTime}]

\* pc names the statement Execute is about to perform.  gone: the row was
\* deleted with its workflow.  left: the request's context is cancelled.
RunState == [pc   : {"idle", "get", "create", "count", "engine", "finish", "uncount"},
             wf   : Workflows,
             def  : Definitions,
             gone : BOOLEAN,
             left : BOOLEAN]

\* due is the unvisited rest of the list DueSchedules returned, wf and cron
\* the entry runOne works on, next what advanceSchedule computed, recorded
\* whether this firing has left an execution row (or its workflow is gone).
SchedState == [pc       : {"wait", "loop", "skip", "exec", "advance", "mark"},
               due      : SUBSET [wf : Workflows, cron : CronTexts],
               wf       : Workflows,
               cron     : CronTexts,
               next     : Nat,
               recorded : BOOLEAN]

EditState == [pc : {"idle", "write"}, wf : Workflows, cron : CronTexts, next : Nat]

\* Every variable stays in its domain.
TypeOK ==
    /\ proc \in {"up", "draining", "down"}
    /\ clock \in Nat
    /\ wfs \in [Workflows -> WorkflowRow]
    /\ orphans \in SUBSET Workflows
    /\ active \in [Workflows -> Nat]
    /\ inFlight \in Nat
    /\ run \in [Runners -> RunState]
    /\ sched \in SchedState
    /\ edit \in [Editors -> EditState]
    /\ faults \in Nat
    /\ stops \in Nat
    /\ fire \in [Workflows -> {"armed", "listed", "done"}]
    /\ mishaps \in [Workflows -> Nat]

-----------------------------------------------------------------------------
AnyWf == CHOOSE w \in Workflows : TRUE
AnyDef == CHOOSE d \in Definitions : TRUE

IdleRun == [pc |-> "idle", wf |-> AnyWf, def |-> AnyDef, gone |-> FALSE, left |-> FALSE]
IdleEdit == [pc |-> "idle", wf |-> AnyWf, cron |-> BadCron, next |-> 0]
Waiting == [pc |-> "wait", due |-> {}, wf |-> AnyWf, cron |-> BadCron,
            next |-> 0, recorded |-> FALSE]

Init ==
    /\ proc = "up"
    /\ clock = 1
    /\ wfs = [w \in Workflows |-> [state |-> "new", def |-> AnyDef, cron |-> BadCron,
                                   enabled |-> FALSE, next |-> NoTime]]
    /\ orphans = {}
    /\ active = [w \in Workflows |-> 0]
    /\ inFlight = 0
    /\ run = [r \in Runners |-> IdleRun]
    /\ sched = Waiting
    /\ edit = [e \in Editors |-> IdleEdit]
    /\ faults = 0
    /\ stops = 0
    /\ fire = [w \in Workflows |-> "armed"]
    /\ mishaps = [w \in Workflows |-> 0]

-----------------------------------------------------------------------------
(* The database.  A statement fails when its context is cancelled (the      *)
(* client left, or the scheduler's context at SIGTERM), or when the         *)
(* connection breaks, which uses up a fault.  A failed statement may or may *)
(* not have been applied: the error can be the loss of the answer.          *)

Cancelled(r) == run[r].left \/ (r = Scheduler /\ proc = "draining")

StatementFails(r) ==
    \/ Cancelled(r) /\ UNCHANGED faults
    \/ faults < MaxFaults /\ faults' = faults + 1

StatementRuns(r) == ~Cancelled(r) /\ UNCHANGED faults

Present(w) == wfs[w].state = "present"

-----------------------------------------------------------------------------
(* The HTTP handlers of a workflow row.                                     *)

\* POST /workflows: the row takes the columns' defaults, no schedule.
CreateWorkflow(w, d) ==
    /\ proc = "up"
    /\ wfs[w].state = "new"
    /\ wfs' = [wfs EXCEPT ![w].state = "present", ![w].def = d]
    /\ UNCHANGED <<proc, orphans, service, sched, edit, tally, fire>>

\* PUT /workflows/{id}: replaces the definition, leaves the schedule columns.
UpdateWorkflow(w, d) ==
    /\ proc = "up"
    /\ Present(w)
    /\ wfs' = [wfs EXCEPT ![w].def = d]
    /\ UNCHANGED <<proc, orphans, service, sched, edit, tally, fire>>

\* DELETE /workflows/{id}: its execution rows go with it (ON DELETE CASCADE).
DeleteWorkflow(w) ==
    /\ proc = "up"
    /\ Present(w)
    /\ wfs' = [wfs EXCEPT ![w] = [@ EXCEPT !.state = "deleted", !.cron = BadCron,
                                           !.enabled = FALSE, !.next = NoTime]]
    /\ orphans' = orphans \ {w}
    /\ run' = [r \in Runners |->
                 IF run[r].wf = w /\ run[r].pc \in {"count", "engine", "finish"}
                 THEN [run[r] EXCEPT !.gone = TRUE]
                 ELSE run[r]]
    /\ fire' = [fire EXCEPT ![w] = "armed"]
    /\ UNCHANGED <<proc, active, inFlight, sched, edit, tally>>

\* Repository.UpdateSchedule on an existing row.
WriteSchedule(w, c, enabled, next) ==
    /\ wfs' = [wfs EXCEPT ![w] = [@ EXCEPT !.cron = c, !.enabled = enabled, !.next = next]]
    /\ fire' = [fire EXCEPT ![w] = "armed"]

\* Faulty variant: an enabled expression is saved without being parsed.
SetScheduleUnparsed(e, w, c) ==
    /\ proc = "up"
    /\ edit[e].pc = "idle"
    /\ Present(w)
    /\ edit' = [edit EXCEPT ![e] = [pc |-> "write", wf |-> w, cron |-> c,
                                    next |-> NextRun(c, clock)]]
    /\ UNCHANGED <<proc, wfs, orphans, service, sched, tally, fire>>

\* SetSchedule with enabled = true, up to the UPDATE: the row exists, the
\* expression parses, the next firing is computed from now.  Any failure
\* here returns before anything is written.
SetScheduleCompute(e, w, c) ==
    /\ proc = "up"
    /\ edit[e].pc = "idle"
    /\ Present(w)
    /\ CronParses(c)
    /\ edit' = [edit EXCEPT ![e] = [pc |-> "write", wf |-> w, cron |-> c,
                                    next |-> NextRun(c, clock)]]
    /\ UNCHANGED <<proc, wfs, orphans, service, sched, tally, fire>>

\* SetSchedule's UPDATE, with what was computed before it; ErrNotFound when
\* the workflow was deleted in between.
SetScheduleWrite(e) ==
    LET w == edit[e].wf IN
    /\ edit[e].pc = "write"
    /\ edit' = [edit EXCEPT ![e] = IdleEdit]
    /\ \/ Present(w) /\ WriteSchedule(w, edit[e].cron, TRUE, edit[e].next)
       \/ ~Present(w) /\ UNCHANGED <<wfs, fire>>
    /\ UNCHANGED <<proc, orphans, service, sched, tally>>

\* SetSchedule with enabled = false: one UPDATE, the expression unvalidated.
DisableSchedule(w, c) ==
    /\ proc = "up"
    /\ Present(w)
    /\ WriteSchedule(w, c, FALSE, NoTime)
    /\ UNCHANGED <<proc, orphans, service, sched, edit, tally>>

-----------------------------------------------------------------------------
(* Service.Execute, step by step, in goroutine r.                           *)

\* The firing a poll listed is over, unless the schedule was written since.
Handled(w) == [fire EXCEPT ![w] = IF @ = "listed" THEN "done" ELSE @]

\* What follows Execute: a request's handler answers, the scheduler's runOne
\* logs the error and advances the schedule.
Return(r, recorded) ==
    /\ run' = [run EXCEPT ![r] = IdleRun]
    /\ inFlight' = inFlight - 1
    /\ sched' = IF r = Scheduler
                THEN [sched EXCEPT !.pc = "advance", !.recorded = recorded]
                ELSE sched

\* POST /workflows/{id}/execute reaches Execute.
StartRequest(r, w) ==
    /\ proc = "up"
    /\ run[r].pc = "idle"
    /\ wfs[w].state # "new"
    /\ run' = [run EXCEPT ![r] = [IdleRun EXCEPT !.pc = "get", !.wf = w]]
    /\ inFlight' = inFlight + 1
    /\ UNCHANGED <<proc, wfs, orphans, active, sched, edit, tally, fire>>

\* repo.Get and the validation of what it read (always valid: Create and
\* Update validated it), then the memory-pressure check.
ExecuteGet(r) ==
    LET w == run[r].wf IN
    /\ run[r].pc = "get"
    /\ \/ /\ StatementRuns(r) /\ Present(w)
          /\ run' = [run EXCEPT ![r].pc = "create", ![r].def = wfs[w].def]
          /\ UNCHANGED <<inFlight, sched>>
       \/ StatementRuns(r) /\ ~Present(w) /\ Return(r, TRUE)
       \/ StatementFails(r) /\ Return(r, FALSE)
    /\ UNCHANGED <<proc, clock, wfs, orphans, active, edit, stops, fire, mishaps>>

\* repo.CreateExecution: the foreign key refuses a deleted workflow.
ExecuteCreate(r) ==
    LET w == run[r].wf IN
    /\ run[r].pc = "create"
    /\ \/ /\ StatementRuns(r) /\ Present(w)
          /\ run' = [run EXCEPT ![r].pc = "count"]
          /\ UNCHANGED <<inFlight, sched, orphans>>
       \/ StatementRuns(r) /\ ~Present(w) /\ Return(r, TRUE) /\ UNCHANGED orphans
       \/ /\ StatementFails(r) /\ Return(r, FALSE)
          /\ \/ UNCHANGED orphans
             \/ Present(w) /\ orphans' = orphans \cup {w}
    /\ UNCHANGED <<proc, clock, wfs, active, edit, stops, fire, mishaps>>

\* Faulty variant: the increment is missing.
ExecuteUncounted(r) ==
    /\ run[r].pc = "count"
    /\ run' = [run EXCEPT ![r].pc = "engine"]
    /\ UNCHANGED <<proc, wfs, orphans, active, inFlight, sched, edit, tally, fire>>

\* activeByWorkflow[workflowID]++ under activeMu.
ExecuteCount(r) ==
    /\ run[r].pc = "count"
    /\ active' = [active EXCEPT ![run[r].wf] = @ + 1]
    /\ run' = [run EXCEPT ![r].pc = "engine"]
    /\ UNCHANGED <<proc, wfs, orphans, inFlight, sched, edit, tally, fire>>

\* engine.Run returns a result or an error: which of the two only decides
\* the status FinishExecution writes.
ExecuteEngine(r) ==
    /\ run[r].pc = "engine"
    /\ run[r].def # "panics"
    /\ run' = [run EXCEPT ![r].pc = "finish"]
    /\ UNCHANGED <<proc, wfs, orphans, active, inFlight, sched, edit, tally, fire>>

\* The row r inserted stays 'running' with nobody left to update it.
Orphan(r) == orphans \cup (IF run[r].gone THEN {} ELSE {run[r].wf})

\* repo.FinishExecution, with the context Execute was called with.
ExecuteFinish(r) ==
    /\ run[r].pc = "finish"
    /\ \/ StatementRuns(r) /\ UNCHANGED orphans
       \/ StatementFails(r) /\ (UNCHANGED orphans \/ orphans' = Orphan(r))
    /\ run' = [run EXCEPT ![r].pc = "uncount"]
    /\ UNCHANGED <<proc, clock, wfs, active, inFlight, sched, edit, stops, fire, mishaps>>

\* Faulty variant: the decrement is missing.
UncountMissing(w) == UNCHANGED active

\* The deferred activeByWorkflow[workflowID]-- under activeMu.
Uncount(w) == active' = [active EXCEPT ![w] = @ - 1]

ExecuteUncount(r) ==
    /\ run[r].pc = "uncount"
    /\ Uncount(run[r].wf)
    /\ Return(r, TRUE)
    /\ fire' = IF r = Scheduler THEN Handled(run[r].wf) ELSE fire
    /\ UNCHANGED <<proc, wfs, orphans, edit, tally>>

\* The client of request r disconnects: its context is cancelled.
ClientLeaves(r) ==
    /\ ClientsLeave
    /\ run[r].pc # "idle" /\ ~run[r].left
    /\ run' = [run EXCEPT ![r].left = TRUE]
    /\ UNCHANGED <<proc, wfs, orphans, active, inFlight, sched, edit, tally, fire>>

-----------------------------------------------------------------------------
(* The process.                                                             *)

\* Every goroutine is gone; the rows they had inserted and not finished stay.
Dies ==
    /\ proc' = "down"
    /\ orphans' = orphans \cup {w \in Workflows : \E r \in Runners :
                      /\ run[r].wf = w /\ ~run[r].gone
                      /\ run[r].pc \in {"count", "engine", "finish"}}
    /\ active' = [w \in Workflows |-> 0]
    /\ inFlight' = 0
    /\ run' = [r \in Runners |-> IdleRun]
    /\ sched' = Waiting
    /\ edit' = [e \in Editors |-> IdleEdit]

\* A node executor panics below an HTTP request: Execute's deferred calls
\* run and the Recover middleware answers 500.
RequestPanics(r) ==
    /\ run[r].pc = "engine" /\ run[r].def = "panics"
    /\ orphans' = Orphan(r)
    /\ Uncount(run[r].wf)
    /\ Return(r, TRUE)
    /\ UNCHANGED <<proc, wfs, edit, tally, fire>>

\* The same panic in the scheduler goroutine, which nothing recovers.
SchedulerPanics ==
    /\ run[Scheduler].pc = "engine" /\ run[Scheduler].def = "panics"
    /\ Dies
    /\ UNCHANGED <<wfs, tally, fire>>

Crash ==
    /\ proc # "down"
    /\ stops < MaxStops /\ stops' = stops + 1
    /\ Dies
    /\ UNCHANGED <<clock, wfs, faults, fire, mishaps>>

\* SIGTERM cancels the scheduler's context and closes the listener; requests
\* already running keep theirs.
Terminate ==
    /\ proc = "up"
    /\ stops < MaxStops /\ stops' = stops + 1
    /\ proc' = "draining"
    /\ UNCHANGED <<clock, wfs, orphans, service, sched, edit, faults, fire, mishaps>>

\* srv.Shutdown returns when the requests are done, or at its timeout; main
\* returns without waiting for the scheduler.
Exit ==
    /\ proc = "draining"
    /\ Dies
    /\ UNCHANGED <<wfs, tally, fire>>

\* The supervisor starts the server again.
Restart ==
    /\ proc = "down"
    /\ proc' = "up"
    /\ UNCHANGED <<wfs, orphans, service, sched, edit, tally, fire>>

Tick ==
    /\ clock < MaxTime
    /\ clock' = clock + 1
    /\ UNCHANGED <<proc, wfs, orphans, service, sched, edit, faults, stops, fire, mishaps>>

-----------------------------------------------------------------------------
(* The scheduler.                                                           *)

\* The WHERE clause of Repository.DueSchedules.
Due(w) == wfs[w].enabled /\ wfs[w].next # NoTime /\ wfs[w].next <= clock

\* Scheduler.tick queries the due workflows.  Nothing happens when the query
\* fails or returns no row.
Poll ==
    /\ proc = "up" /\ sched.pc = "wait"
    /\ \E w \in Workflows : Due(w)
    /\ sched' = [sched EXCEPT !.pc = "loop",
                     !.due = {[wf |-> w, cron |-> wfs[w].cron] : w \in {v \in Workflows : Due(v)}}]
    /\ fire' = [w \in Workflows |-> IF Due(w) /\ fire[w] = "armed" THEN "listed" ELSE fire[w]]
    /\ UNCHANGED <<proc, wfs, orphans, service, edit, tally>>

\* runOne takes the next workflow of the list (the query has no ORDER BY)
\* and asks IsWorkflowInFlight: skip it, or call Execute.
RunOne(d) ==
    LET taken == [sched EXCEPT !.due = @ \ {d}, !.wf = d.wf, !.cron = d.cron,
                               !.recorded = FALSE]
    IN
    /\ sched.pc = "loop" /\ d \in sched.due
    /\ \/ /\ active[d.wf] > 0
          /\ sched' = [taken EXCEPT !.pc = "skip"]
          /\ UNCHANGED <<run, inFlight>>
       \/ /\ active[d.wf] = 0
          /\ sched' = [taken EXCEPT !.pc = "exec"]
          /\ run' = [run EXCEPT ![Scheduler] = [IdleRun EXCEPT !.pc = "get", !.wf = d.wf]]
          /\ inFlight' = inFlight + 1
    /\ IF fire[d.wf] = "done"
       THEN /\ mishaps' = [mishaps EXCEPT ![d.wf] = @ + 1]
            /\ fire' = [fire EXCEPT ![d.wf] = "listed"]
       ELSE UNCHANGED <<mishaps, fire>>
    /\ UNCHANGED <<proc, clock, wfs, orphans, active, edit, faults, stops>>

\* On to the next entry of the list, or back to the select.
NextEntry == [Waiting EXCEPT !.pc = IF sched.due = {} THEN "wait" ELSE "loop",
                             !.due = sched.due]

\* Faulty variant: an overlapping run is skipped without a record.
SkipSilently ==
    /\ sched.pc = "skip"
    /\ sched' = [sched EXCEPT !.pc = "advance"]
    /\ fire' = Handled(sched.wf)
    /\ UNCHANGED <<proc, clock, wfs, orphans, service, edit, faults, stops, mishaps>>

\* RecordSkippedSchedule; its failure is only logged.
RecordSkip ==
    /\ sched.pc = "skip"
    /\ \/ /\ StatementRuns(Scheduler)
          /\ sched' = [sched EXCEPT !.pc = "advance", !.recorded = TRUE]
          /\ fire' = Handled(sched.wf)
       \/ /\ StatementFails(Scheduler)
          /\ sched' = [sched EXCEPT !.pc = "advance"]
          /\ UNCHANGED fire
    /\ UNCHANGED <<proc, clock, wfs, orphans, service, edit, stops, mishaps>>

\* advanceSchedule computes the next firing from now and from the expression
\* in the list; when that does not parse it disables the schedule instead.
AdvanceSchedule ==
    /\ sched.pc = "advance"
    /\ IF CronParses(sched.cron)
       THEN /\ sched' = [sched EXCEPT !.pc = "mark", !.next = NextRun(sched.cron, clock)]
            /\ UNCHANGED <<wfs, fire>>
       ELSE /\ sched' = NextEntry
            /\ IF Present(sched.wf) /\ ~Cancelled(Scheduler)
               THEN WriteSchedule(sched.wf, sched.cron, FALSE, NoTime)
               ELSE UNCHANGED <<wfs, fire>>
    /\ UNCHANGED <<proc, orphans, service, edit, tally>>

\* Faulty variant: only schedule_last_run is written.
MarkLastRunOnly ==
    /\ sched.pc = "mark"
    /\ sched' = NextEntry
    /\ UNCHANGED <<proc, wfs, orphans, service, edit, tally, fire>>

\* Repository.MarkScheduleRun: an UPDATE of the row as it now is, whatever
\* became of its schedule since the list was read; its failure is only logged.
MarkScheduleRun ==
    LET w == sched.wf
        written == /\ wfs' = [wfs EXCEPT ![w].next = IF Present(w) THEN sched.next ELSE @]
                   /\ fire' = [fire EXCEPT ![w] = "armed"]
                   /\ mishaps' = [mishaps EXCEPT ![w] =
                                    IF Present(w) /\ ~sched.recorded THEN @ + 1 ELSE @]
    IN
    /\ sched.pc = "mark"
    /\ \/ StatementRuns(Scheduler) /\ written
       \/ StatementFails(Scheduler) /\ (written \/ UNCHANGED <<wfs, fire, mishaps>>)
    /\ sched' = NextEntry
    /\ UNCHANGED <<proc, clock, orphans, service, edit, stops>>

-----------------------------------------------------------------------------
ExecuteStep(r) ==
    \/ ExecuteGet(r) \/ ExecuteCreate(r) \/ ExecuteCount(r)
    \/ ExecuteEngine(r) \/ ExecuteFinish(r) \/ ExecuteUncount(r)

SchedulerStep ==
    \/ Poll
    \/ \E d \in sched.due : RunOne(d)
    \/ RecordSkip \/ AdvanceSchedule \/ MarkScheduleRun
    \/ SchedulerPanics

Next ==
    \/ \E w \in Workflows, d \in Definitions : CreateWorkflow(w, d) \/ UpdateWorkflow(w, d)
    \/ \E w \in Workflows : DeleteWorkflow(w)
    \/ \E e \in Editors, w \in Workflows, c \in CronTexts : SetScheduleCompute(e, w, c)
    \/ \E e \in Editors : SetScheduleWrite(e)
    \/ \E w \in Workflows, c \in CronTexts : DisableSchedule(w, c)
    \/ \E r \in Requests, w \in Workflows : StartRequest(r, w)
    \/ \E r \in Runners : ExecuteStep(r)
    \/ \E r \in Requests : ClientLeaves(r) \/ RequestPanics(r)
    \/ SchedulerStep
    \/ Crash \/ Terminate \/ Exit \/ Restart
    \/ Tick

Spec == Init /\ [][Next]_vars

\* The Go runtime runs every goroutine that can run, engine.Run and
\* srv.Shutdown end by their timeouts, and the server is restarted when it is
\* down.  Users, clients, failures and the clock owe nothing.
Fairness ==
    /\ WF_vars(SchedulerStep)
    /\ \A r \in Runners : WF_vars(ExecuteStep(r))
    /\ \A r \in Requests : WF_vars(RequestPanics(r))
    /\ \A e \in Editors : WF_vars(SetScheduleWrite(e))
    /\ WF_vars(Exit)
    /\ WF_vars(Restart)

FairSpec == Spec /\ Fairness

-----------------------------------------------------------------------------
(* What the service promises whatever fails.                                *)

\* The goroutines between their increment and their decrement for workflow w.
Counted(w) == {r \in Runners : run[r].wf = w /\ run[r].pc \in {"engine", "finish", "uncount"}}

\* IsWorkflowInFlight and ShutdownStatus read true counts: activeByWorkflow
\* counts exactly the goroutines inside the counted part of Execute and
\* inFlight the calls of Execute, on every way out of it (early return, failed
\* statement, recovered panic), so a workflow can neither be skipped for ever
\* on behalf of a run that is over nor look idle while one is running.
CountersExact ==
    /\ \A w \in Workflows : active[w] = Cardinality(Counted(w))
    /\ inFlight = Cardinality({r \in Runners : run[r].pc # "idle"})

\* The row of an enabled schedule parses and has a next run.  (With a NULL next
\* run it would never match DueSchedules again.)
EnabledIsArmed ==
    \A w \in Workflows : wfs[w].enabled => /\ Present(w)
                                           /\ CronParses(wfs[w].cron)
                                           /\ wfs[w].next # NoTime

\* What the scheduler has read parses too, when it comes to advanceSchedule (its
\* comment: "this shouldn't happen").
AdvanceParses ==
    /\ \A d \in sched.due : CronParses(d.cron)
    /\ sched.pc \in {"skip", "exec", "advance", "mark"} => CronParses(sched.cron)

\* An enabled schedule can fire, and fire again: users, a stale SetSchedule and
\* the scheduler's unconditional MarkScheduleRun write its columns in any order
\* and never leave it without a next run, and the scheduler never disables a
\* schedule behind its owner's back.
EnabledCanFire == EnabledIsArmed /\ AdvanceParses

\* Every failure costs a workflow one firing at most.  A firing is spoilt when
\* the schedule is moved past it without Execute or RecordSkippedSchedule having
\* reported a row, or when it is taken up again after its run was completed or
\* recorded.  Only failed statements, refusals, crashes and SIGTERMs spoil one,
\* each no more than one of any workflow, whatever stage of runOne it meets,
\* however many entries the list still has, and however often a panicking
\* definition takes the process down meanwhile.
FailuresCostOneEach == \A w \in Workflows : mishaps[w] <= faults + stops

\* A firing is handled once as long as nothing fails: the scheduler never takes up a
\* workflow on account of a schedule_next_run whose run it has already completed
\* or recorded as skipped, however its polls interleave with schedule edits.
FireOnce ==
    [][sched.pc = "loop" /\ sched'.pc \in {"skip", "exec"} => fire[sched'.wf] # "done"]_vars

(* Liveness. *)

\* A due schedule is acted on: it does not stay due for ever, through failed
\* statements, a crash and a restart.
DueIsHandled == \A w \in Workflows : Due(w) ~> ~Due(w)

\* A due workflow whose definition runs is not starved by one that does not
\* (FR-08, Isolation).
HealthyNotStarved ==
    \A w \in Workflows : (Due(w) /\ wfs[w].def = "ok") ~> ~(Due(w) /\ wfs[w].def = "ok")

-----------------------------------------------------------------------------
(* What the documentation says and the code does not do.                    *)

\* FR-08: after a server restart the scheduler resumes without double-firing any
\* workflow whose fire time was already handled.
RestartFiresNoneTwice ==
    [][sched.pc = "loop" /\ sched'.pc \in {"skip", "exec"} /\ stops > 0
         => fire[sched'.wf] # "done"]_vars

\* FR-08.6: the scheduler skips a workflow whose previous run is in flight.
NoOverlap ==
    run[Scheduler].pc = "engine" =>
        \A r \in Requests : run[r].pc = "engine" => run[r].wf # run[Scheduler].wf

\* SetSchedule's comment: disabling clears schedule_next_run.
DisabledHasNoNextRun == \A w \in Workflows : ~wfs[w].enabled => wfs[w].next = NoTime

\* FR-08: clearing the schedule stops future dispatches.
PausedNotDispatched ==
    [][run[Scheduler].pc = "get" /\ run'[Scheduler].pc = "create"
         => wfs[run[Scheduler].wf].enabled]_vars

\* FR-08: a run in progress at crash time is marked failed on reboot.
StuckRowsResolved == \A w \in Workflows : w \in orphans ~> w \notin orphans

\* Execute's comment: the record is persisted whether the run succeeds or
\* fails, so the history reflects reality.
FinishIsRecorded ==
    [][\A r \in Runners : run[r].pc = "finish" /\ run'[r].pc = "uncount"
         => orphans' = orphans]_vars

\* NextRun's comment: the next time strictly after from, so that the row is
\* not due again as soon as it is marked.
MarkMovesOn == [][sched.pc = "advance" /\ sched'.pc = "mark" => sched'.next > clock]_vars

=============================================================================
