------------------------------ MODULE RunLifecycle ------------------------------
(***************************************************************************)
(* The runs of one project on one branch: the run manager (daemon/runs.ts), *)
(* the durable log of each run (runLogs.ts), the registry of projection     *)
(* plans (projectionPlanStore.ts), their materialization in the canvas      *)
(* (canvasProjectionCoordinator.ts) and what a restart makes of runs that   *)
(* were under way (runRecovery.ts).                                         *)
(*                                                                          *)
(* A run writes three files, plan registry, event log and summary, and then *)
(* the canvas; the daemon may be killed, and each write may fail, between   *)
(* any two.  Every event of the agent but its last is a "text".  Run ids    *)
(* are used once.  Capacity, session ids, artifacts and the pinned          *)
(* capabilities are left out, and so are runs of the node studio, which     *)
(* have no plan.                                                            *)
(***************************************************************************)
EXTENDS Naturals, Sequences, SequencesExt, FiniteSets

CONSTANTS
    Runs,           \* run ids, in the order of their creation
    Tasks,
    TaskOf,         \* the task of each run
    MaxTexts,       \* bound: events of an agent before its last
    MaxFaults       \* bound: processes that are killed and operations that fail, and further runs

ASSUME RunAssumption ==
    /\ Runs \subseteq Nat
    /\ TaskOf \in [Runs -> Tasks]
    /\ MaxTexts \in Nat /\ MaxFaults \in Nat

VARIABLES
    daemon,     \* "up", "closing" or "down"
    faults,
    summary,    \* summary.json of each run
    log,        \* events.jsonl of each run
    torn,       \* its end is cut off, or its last record missing in events.idx
    plans,      \* the projection plan of each run in the registry
    canvas,     \* what the canvas holds a materialization receipt for
    tasks,      \* the tasks of the canvas
    run,        \* #runs and the creations under way
    leases,     \* #taskRunLeases
    mutating,   \* #taskMutationLeases: operations of withIdleTasks
    deletion,   \* #projectDeletionReservations
    recovery,   \* #runLogRecovery, with the run it is at
    cancel,     \* cancelPromise of each run, and who waits for it
    seen        \* history: what a subscriber that is always there was sent

disk == <<summary, log, torn, plans, canvas, tasks>>
locks == <<leases, mutating, deletion>>
vars == <<daemon, faults, disk, run, locks, recovery, cancel, seen>>

Ends == {"done", "error", "cancelled"}
Statuses == Ends \cup {"interrupted"}
Reasons == {"end_turn", "error", "cancelled"}
\* A plan with task proposals stays pending after its materialization.
Plans == {"partial", "complete", "proposals"}
NoPlan == [kind |-> "none", state |-> "none"]

Event(id, what, status, plan) == [id |-> id, what |-> what, status |-> status, plan |-> plan]
Text(id) == Event(id, "text", "none", "none")
DoneEvent(id, reason) == Event(id, "done", reason, "none")
Close(id, status, plan) == Event(id, "close", status, plan)
\* What a write that failed half way leaves of a record: a line without its end, and the
\* next record is written on the same line.
Cut(event) == Event(event.id, "cut", "none", "none")
Closes(events) == {e \in Range(events) : e.what = "close"}

NoRun == [pc |-> "absent", asked |-> FALSE, aborted |-> FALSE, reason |-> "none",
    settled |-> FALSE, logError |-> FALSE, manifest |-> FALSE, complete |-> FALSE,
    status |-> "none", plan |-> "none", queue |-> <<>>]
NoRecovery == [pc |-> "no", left |-> {}, plan |-> "none"]

\* Where a run is: known to #runs from "starting" on, closed from "closed" on.
Finishing == {"append", "summarize", "ready", "dismiss", "broadcast"}
Executing == {"starting", "prepare", "agent", "settle", "collect", "flush", "plan"} \cup Finishing
Busy == Executing \cup {"recovering", "closed"}
RunPcs == Busy \cup {"absent", "gone"}

Init ==
    /\ daemon = "up"
    /\ faults = 0
    /\ summary = [r \in Runs |-> "none"]
    /\ log = [r \in Runs |-> <<>>]
    /\ torn = [r \in Runs |-> FALSE]
    /\ plans = [r \in Runs |-> NoPlan]
    /\ canvas = [r \in Runs |-> "none"]
    /\ tasks = Tasks
    /\ run = [r \in Runs |-> NoRun]
    /\ leases = [t \in Tasks |-> {}]
    /\ mutating = {}
    /\ deletion = "no"
    /\ recovery = NoRecovery
    /\ cancel = [r \in Runs |-> "none"]
    /\ seen = [r \in Runs |-> <<>>]

\* Bounds: a behaviour with a second run, or with texts, has less of the rest.
Begun == {r \in Runs : run[r] # NoRun \/ summary[r] # "none" \/ seen[r] # <<>>}
Texts(r) == Cardinality({i \in DOMAIN seen[r] : seen[r][i].what = "text"})
Within == faults + Cardinality(Begun) <= MaxFaults
NextInLine(r) ==
    /\ Within
    /\ \A q \in Runs : Texts(q) = 0 /\ (q < r => q \in Begun)

\* An operation outside the process fails, or the process is killed.
Fault == Within /\ faults' = faults + 1
NoFault == UNCHANGED faults

At(r, pc) == daemon # "down" /\ run[r].pc = pc
Release(r) == leases' = [leases EXCEPT ![TaskOf[r]] = @ \ {r}]

\* #publish: the event is sent to the subscribers and queued for the log.
NextId(r) == Len(seen[r]) + 1
Publish(r, event, next) ==
    /\ seen' = [seen EXCEPT ![r] = Append(@, event)]
    /\ run' = [run EXCEPT ![r] = [next EXCEPT !.queue = Append(@, event)]]
\* Mutant: every done counts.
PublishEveryDone(r, reason, next) ==
    LET said == IF next.asked THEN "cancelled" ELSE reason IN
    Publish(r, DoneEvent(NextId(r), said), [next EXCEPT !.reason = said])

\* #publishAgentEvent of a done: only the first counts, and a cancelled run says so.
PublishDone(r, reason, next) ==
    LET said == IF next.asked THEN "cancelled" ELSE reason IN
    IF next.reason # "none"
    THEN run' = [run EXCEPT ![r] = next] /\ UNCHANGED seen
    ELSE Publish(r, DoneEvent(NextId(r), said), [next EXCEPT !.reason = said])

StatusFor(reason) == IF reason = "end_turn" THEN "done" ELSE reason
-----------------------------------------------------------------------------
(* create, #createReserved *)

\* The first access to the logs in a process starts the recovery.
Open == recovery' = IF recovery.pc = "no" THEN [recovery EXCEPT !.pc = "interrupt"] ELSE recovery

\* #reserveRun: the task is free of runs and of destructive commands.
Create(r) ==
    LET t == TaskOf[r] IN
    /\ daemon = "up"
    /\ run[r].pc = "absent"
    /\ NextInLine(r)
    /\ log[r] = <<>> /\ seen[r] = <<>>
    /\ deletion = "no"
    /\ t \notin mutating
    /\ leases[t] = {}
    /\ leases' = [leases EXCEPT ![t] = {r}]
    /\ run' = [run EXCEPT ![r] = [NoRun EXCEPT !.pc = "recovering"]]
    /\ Open
    /\ UNCHANGED <<daemon, faults, disk, mutating, deletion, cancel, seen>>

\* validateReserved and the checks after the recovery, up to the entry in #runs.
Accept(r) ==
    /\ At(r, "recovering")
    /\ recovery.pc \in {"done", "failed"}
    /\ \/ /\ recovery.pc = "done"
          /\ daemon = "up"
          /\ TaskOf[r] \in tasks
          /\ summary[r] = "none"
          /\ run' = [run EXCEPT ![r].pc = "starting"]
          /\ UNCHANGED <<faults, leases>>
       \/ /\ recovery.pc = "failed" \/ daemon # "up" \/ TaskOf[r] \notin tasks \/ summary[r] # "none"
          /\ run' = [run EXCEPT ![r] = NoRun]
          /\ Release(r)
          /\ NoFault
    /\ UNCHANGED <<daemon, disk, mutating, deletion, recovery, cancel, seen>>

\* logStore.start.  A run whose start failed still finishes, without artifacts.
Start(r) ==
    /\ At(r, "starting")
    /\ \/ /\ summary' = [summary EXCEPT ![r] = "active"]
          /\ run' = [run EXCEPT ![r].pc = "prepare"]
          /\ UNCHANGED <<faults, seen>>
       \/ /\ Fault
          /\ summary' \in {summary, [summary EXCEPT ![r] = "active"]}
          /\ PublishDone(r, "error", [run[r] EXCEPT !.pc = "flush", !.status = "error"])
    /\ UNCHANGED <<daemon, log, torn, plans, canvas, tasks, locks, recovery, cancel>>
-----------------------------------------------------------------------------
(* #execute *)

\* The catch block: who stopped the run decides what it says, before its own error.
Caught(r) ==
    LET self == run[r]
        reason == IF self.asked THEN "cancelled"
                  ELSE IF self.reason # "none" THEN self.reason
                  ELSE IF self.aborted THEN "cancelled" ELSE "error"
    IN /\ PublishDone(r, reason, [self EXCEPT
            !.pc = "collect", !.settled = @ \/ self.pc = "agent", !.complete = FALSE,
            !.status = StatusFor(reason)])
       /\ IF self.asked \/ self.aborted THEN NoFault ELSE Fault

\* Context, watcher and session of the run; an abort is noticed between them.
Prepare(r) ==
    /\ At(r, "prepare")
    /\ \/ ~run[r].aborted /\ run' = [run EXCEPT ![r].pc = "agent"] /\ UNCHANGED <<faults, seen>>
       \/ Caught(r)
    /\ UNCHANGED <<daemon, disk, locks, recovery, cancel>>

\* The transport runs: it emits events, and settles with a result or an error.
Emit(r) ==
    /\ At(r, "agent")
    /\ \/ /\ Texts(r) < MaxTexts /\ Cardinality(Begun) = 1
          /\ Publish(r, Text(NextId(r)), run[r])
       \/ /\ run[r].reason = "none"
          /\ \E reason \in {"end_turn", "error"} : PublishDone(r, reason, run[r])
    /\ UNCHANGED <<daemon, faults, disk, locks, recovery, cancel>>

Return(r) ==
    /\ At(r, "agent")
    /\ \/ /\ ~run[r].asked /\ ~run[r].aborted
          /\ run' = [run EXCEPT ![r].pc = "settle", ![r].settled = TRUE]
          /\ UNCHANGED <<faults, seen>>
       \/ Caught(r)
    /\ UNCHANGED <<daemon, disk, locks, recovery, cancel>>

\* The delay for the watcher, which an abort ends; then the end of the turn is told.
Settle(r) ==
    /\ At(r, "settle")
    /\ \/ /\ ~run[r].aborted
          /\ LET reason == IF run[r].reason = "none" THEN "end_turn" ELSE run[r].reason IN
             PublishDone(r, reason, [run[r] EXCEPT
                !.pc = "collect", !.complete = TRUE, !.status = StatusFor(reason)])
          /\ NoFault
       \/ Caught(r)
    /\ UNCHANGED <<daemon, disk, locks, recovery, cancel>>

\* closeRun of the artifacts; when it fails it is tried again as incomplete, for the
\* reason that was told.
Collect(r) ==
    /\ At(r, "collect")
    /\ \/ run' = [run EXCEPT ![r].manifest = TRUE, ![r].pc = "flush"] /\ NoFault
       \/ /\ Fault
          /\ run[r].complete
          /\ run' = [run EXCEPT ![r].complete = FALSE, ![r].status =
                StatusFor(IF run[r].asked THEN "cancelled" ELSE run[r].reason)]
       \/ Fault /\ ~run[r].complete /\ run' = [run EXCEPT ![r].pc = "flush"]
    /\ UNCHANGED <<daemon, disk, locks, recovery, cancel, seen>>
-----------------------------------------------------------------------------
(* The event log *)

\* A record that is appended; or it is not, or in part, or events.idx does not know it:
\* nobody repairs the file, in a process that goes on or after it.
Appended(r, event) == log' = [log EXCEPT ![r] = Append(@, event)] /\ torn' = [torn EXCEPT ![r] = FALSE]
NotAppended(r, event) ==
    \/ UNCHANGED <<log, torn>>
    \/ /\ \E record \in {event, Cut(event)} : log' = [log EXCEPT ![r] = Append(@, record)]
       /\ torn' = [torn EXCEPT ![r] = TRUE]
\* inspectEventLogTail: a cut record and the one behind it are a line that nobody reads.
Legible(r) == \A e \in Range(log[r]) : e.what # "cut"

\* The tail of the run writes the events in their order, whatever the run does.
Write(r) ==
    /\ daemon # "down"
    /\ run[r].queue # <<>>
    /\ \/ /\ NoFault
          /\ Appended(r, Head(run[r].queue))
          /\ run' = [run EXCEPT ![r].queue = Tail(@)]
       \/ /\ Fault
          /\ NotAppended(r, Head(run[r].queue))
          /\ run' = [run EXCEPT ![r].queue = Tail(@), ![r].logError = TRUE]
    /\ UNCHANGED <<daemon, summary, plans, canvas, tasks, locks, recovery, cancel, seen>>
-----------------------------------------------------------------------------
(* #finish *)

Flush(r) ==
    /\ At(r, "flush")
    /\ run[r].queue = <<>>
    /\ run' = [run EXCEPT
         ![r].status = IF run[r].logError THEN "error" ELSE @,
         ![r].pc = IF run[r].manifest THEN "plan" ELSE "append"]
    /\ UNCHANGED <<daemon, faults, disk, locks, recovery, cancel, seen>>

\* createPending: earlier plans of the task that are still pending are dismissed.
IsPending(r) == plans[r].state = "pending"
Superseded(r) == {q \in Runs : q # r /\ TaskOf[q] = TaskOf[r] /\ IsPending(q)}
Settled(R) == [q \in Runs |-> IF q \in R THEN [plans[q] EXCEPT !.state = "dismissed"] ELSE plans[q]]
PlansOf(r) ==
    IF run[r].status = "done" /\ run[r].complete THEN {"complete", "proposals"} ELSE {"partial"}
CreatePlan(r) ==
    /\ At(r, "plan")
    /\ \/ \E kind \in PlansOf(r) :
            /\ plans' = [Settled(Superseded(r)) EXCEPT ![r] = [kind |-> kind, state |-> "pending"]]
            /\ run' = [run EXCEPT ![r].plan = kind, ![r].pc = "append"]
            /\ NoFault
       \/ /\ Fault
          /\ run' = [run EXCEPT ![r].status = "error", ![r].pc = "append"]
          /\ plans' = plans
    /\ UNCHANGED <<daemon, summary, log, torn, canvas, tasks, locks, recovery, cancel, seen>>

\* The close is in the messages from here on.  A close that could not be written, or
\* whose summary could not, becomes an error and loses its plan.
OwnClose(r) == Close(NextId(r), run[r].status, run[r].plan)
Spoilt(r) == run' = [run EXCEPT ![r].status = "error", ![r].plan = "none", ![r].pc = "broadcast"]

\* Mutant: the failure of the append is not told.
AppendCloseBlindly(r) ==
    /\ At(r, "append")
    /\ \/ NoFault /\ Appended(r, OwnClose(r)) /\ run' = [run EXCEPT ![r].pc = "summarize"]
       \/ Fault /\ NotAppended(r, OwnClose(r)) /\ run' = [run EXCEPT ![r].pc = "broadcast"]
    /\ UNCHANGED <<daemon, summary, plans, canvas, tasks, locks, recovery, cancel, seen>>

AppendClose(r) ==
    /\ At(r, "append")
    /\ \/ NoFault /\ Appended(r, OwnClose(r)) /\ run' = [run EXCEPT ![r].pc = "summarize"]
       \/ Fault /\ NotAppended(r, OwnClose(r)) /\ Spoilt(r)
    /\ UNCHANGED <<daemon, summary, plans, canvas, tasks, locks, recovery, cancel, seen>>

Summarize(r) ==
    /\ At(r, "summarize")
    /\ \/ /\ summary' = [summary EXCEPT ![r] = run[r].status]
          /\ run' = [run EXCEPT ![r].pc = IF run[r].plan = "none" THEN "broadcast" ELSE "ready"]
          /\ NoFault
       \/ /\ Fault
          /\ summary' \in {summary, [summary EXCEPT ![r] = run[r].status]}
          /\ Spoilt(r)
    /\ UNCHANGED <<daemon, log, torn, plans, canvas, tasks, locks, recovery, cancel, seen>>

\* onProjectionPlanReady: commitLatest of MaterializeProjectionPlan, whose reducer
\* refuses a task that is gone and returns its argument for a plan it has a receipt of.
Materialize(r, kind) ==
    /\ TaskOf[r] \in tasks
    /\ canvas' = [canvas EXCEPT ![r] = IF @ = "none" THEN kind ELSE @]
Ready(r) ==
    /\ At(r, "ready")
    /\ \/ /\ NoFault
          /\ Materialize(r, run[r].plan)
          /\ run' = [run EXCEPT ![r].pc = IF run[r].plan = "proposals" THEN "broadcast" ELSE "dismiss"]
       \/ /\ IF TaskOf[r] \in tasks THEN Fault ELSE NoFault
          /\ run' = [run EXCEPT ![r].pc = "broadcast"]
          /\ UNCHANGED canvas
    /\ UNCHANGED <<daemon, summary, log, torn, plans, tasks, locks, recovery, cancel, seen>>

Dismiss(r) ==
    /\ At(r, "dismiss")
    /\ \/ plans' = Settled({r}) /\ NoFault
       \/ Fault /\ UNCHANGED plans
    /\ run' = [run EXCEPT ![r].pc = "broadcast"]
    /\ UNCHANGED <<daemon, summary, log, torn, canvas, tasks, locks, recovery, cancel, seen>>

Broadcast(r) ==
    /\ At(r, "broadcast")
    /\ seen' = [seen EXCEPT ![r] = Append(@, OwnClose(r))]
    /\ run' = [run EXCEPT ![r].pc = "closed"]
    /\ UNCHANGED <<daemon, faults, disk, locks, recovery, cancel>>

\* Mutant: who waits for the run is not answered.
EndSilently(r) ==
    /\ At(r, "closed")
    /\ run' = [run EXCEPT ![r] = [NoRun EXCEPT !.pc = "gone"]]
    /\ Release(r)
    /\ UNCHANGED <<daemon, faults, disk, mutating, deletion, recovery, cancel, seen>>

\* onRunFinished has returned: who waits for the run is answered, its lease is free.
End(r) ==
    /\ At(r, "closed")
    /\ run' = [run EXCEPT ![r] = [NoRun EXCEPT !.pc = "gone"]]
    /\ Release(r)
    /\ cancel' = [cancel EXCEPT ![r] = IF @ = "waiting" THEN "none" ELSE @]
    /\ UNCHANGED <<daemon, faults, disk, mutating, deletion, recovery, seen>>
-----------------------------------------------------------------------------
(* subscribe, cancel, close *)

\* What a subscriber finds in the messages: the close is there while the run finishes.
Offered(r) == Range(seen[r]) \cup (IF run[r].pc \in Finishing THEN {OwnClose(r)} ELSE {})

\* #cancelRun up to its first await, for the runs in R that nobody cancelled before.
\* A transport that has settled has nothing to stop: the abort follows at once.
CancelAll(R) ==
    LET new == {r \in R : run[r].pc \in Executing /\ cancel[r] = "none"}
        Asked(self) == [self EXCEPT
            !.asked = self.reason = "none",
            !.aborted = @ \/ (self.settled /\ self.reason = "none")]
    IN
    /\ cancel' = [r \in Runs |-> IF r \notin new THEN cancel[r]
                                 ELSE IF run[r].settled THEN "waiting" ELSE "asked"]
    /\ run' = [r \in Runs |-> IF r \in new THEN Asked(run[r]) ELSE run[r]]
Cancel(r) ==
    /\ daemon = "up"
    /\ run[r].pc \in Executing
    /\ cancel[r] = "none"
    /\ CancelAll({r})
    /\ UNCHANGED <<daemon, faults, disk, locks, recovery, seen>>

\* transport.cancel has returned: the signal is aborted.  The run may be over by now.
Abort(r) ==
    /\ daemon # "down"
    /\ cancel[r] = "asked"
    /\ cancel' = [cancel EXCEPT ![r] = IF run[r].pc \in Busy THEN "waiting" ELSE "none"]
    /\ run' = [run EXCEPT ![r].aborted = run[r].pc \in Busy]
    /\ UNCHANGED <<daemon, faults, disk, locks, recovery, seen>>

CloseManager ==
    /\ daemon = "up"
    /\ daemon' = "closing"
    /\ CancelAll(Runs)
    /\ UNCHANGED <<faults, disk, locks, recovery, seen>>
-----------------------------------------------------------------------------
(* Destructive commands and the deletion of the project *)

\* Mutant: the task may have a run.
BeginAnyMutation(t) ==
    /\ daemon = "up"
    /\ Open
    /\ IF recovery.pc # "done" THEN UNCHANGED mutating
       ELSE /\ deletion = "no"
            /\ t \in tasks \ mutating
            /\ mutating' = mutating \cup {t}
    /\ UNCHANGED <<daemon, faults, disk, run, leases, deletion, cancel, seen>>

\* withIdleTasks, after the recovery.
BeginMutation(t) ==
    /\ daemon = "up"
    /\ Open
    /\ IF recovery.pc # "done" THEN UNCHANGED mutating
       ELSE /\ deletion = "no"
            /\ t \in tasks \ mutating
            /\ leases[t] = {}
            /\ mutating' = mutating \cup {t}
    /\ UNCHANGED <<daemon, faults, disk, run, leases, deletion, cancel, seen>>
\* The command is committed, or refused.
DeleteTask(t) ==
    /\ daemon # "down"
    /\ t \in mutating \cap tasks
    /\ tasks' = tasks \ {t}
    /\ UNCHANGED <<daemon, faults, summary, log, torn, plans, canvas, run, locks, recovery, cancel, seen>>

EndMutation(t) ==
    /\ daemon # "down"
    /\ t \in mutating
    /\ mutating' = mutating \ {t}
    /\ UNCHANGED <<daemon, faults, disk, run, leases, deletion, recovery, cancel, seen>>
\* reconcileProjectionPlansForCanvasTasks, after a command and in every GET /canvas.
Reconcile ==
    LET orphans == {r \in Runs : IsPending(r) /\ TaskOf[r] \notin tasks} IN
    /\ daemon # "down"
    /\ recovery.pc = "done"
    /\ orphans # {}
    /\ plans' = Settled(orphans)
    /\ UNCHANGED <<daemon, faults, summary, log, torn, canvas, tasks, run, locks, recovery, cancel, seen>>

\* beginProjectDeletion: the fence first, then the recovery, then the look for work.
BeginDeletion ==
    /\ daemon = "up"
    /\ deletion = "no"
    /\ deletion' = "fenced"
    /\ Open
    /\ UNCHANGED <<daemon, faults, disk, run, leases, mutating, cancel, seen>>
\* Mutant: only the entries of #runs count, not the creations under way.
CheckRunsOnly ==
    /\ daemon # "down"
    /\ deletion = "fenced"
    /\ recovery.pc \in {"done", "failed"}
    /\ deletion' = IF /\ recovery.pc = "done" /\ mutating = {}
                      /\ \A r \in Runs : run[r].pc \notin Executing
                   THEN "held" ELSE "no"
    /\ UNCHANGED <<daemon, faults, disk, run, leases, mutating, recovery, cancel, seen>>

CheckDeletion ==
    /\ daemon # "down"
    /\ deletion = "fenced"
    /\ recovery.pc \in {"done", "failed"}
    /\ deletion' = IF /\ recovery.pc = "done" /\ mutating = {}
                      /\ \A r \in Runs : run[r].pc \notin Busy
                   THEN "held" ELSE "no"
    /\ UNCHANGED <<daemon, faults, disk, run, leases, mutating, recovery, cancel, seen>>
\* evictProject and endProjectDeletion of a deletion that failed afterwards.
EndDeletion ==
    /\ daemon # "down"
    /\ deletion = "held"
    /\ deletion' = "no"
    /\ run' = [r \in Runs |-> NoRun]
    /\ recovery' = NoRecovery
    /\ UNCHANGED <<daemon, faults, disk, leases, mutating, cancel, seen>>
-----------------------------------------------------------------------------
(* recoverInterruptedTaskRuns *)

\* prepareInterruptedRecovery: every summary that is not terminal is rewritten.
Interrupt(r) ==
    /\ daemon # "down"
    /\ recovery.pc = "interrupt"
    /\ summary[r] = "active"
    /\ \/ summary' = [summary EXCEPT ![r] = "interrupted"] /\ UNCHANGED <<faults, recovery>>
       \/ Fault /\ recovery' = [recovery EXCEPT !.pc = "failed"] /\ UNCHANGED summary
    /\ UNCHANGED <<daemon, log, torn, plans, canvas, tasks, run, locks, cancel, seen>>

ListInterrupted ==
    /\ daemon # "down"
    /\ recovery.pc = "interrupt"
    /\ \A r \in Runs : summary[r] # "active"
    /\ recovery' = [pc |-> "next", left |-> {r \in Runs : summary[r] = "interrupted"}, plan |-> "none"]
    /\ UNCHANGED <<daemon, faults, disk, run, locks, cancel, seen>>

Recovering(pc) == daemon # "down" /\ recovery.pc = pc /\ recovery.left # {}
Current == CHOOSE r \in recovery.left : TRUE
RecoverNext == recovery' = [pc |-> "next", left |-> recovery.left \ {Current}, plan |-> "none"]
RecoverAt(pc, plan) == recovery' = [recovery EXCEPT !.pc = pc, !.plan = plan]

RecoveryEnds ==
    /\ daemon # "down"
    /\ recovery.pc = "next"
    /\ recovery.left = {}
    /\ recovery' = [recovery EXCEPT !.pc = "done"]
    /\ UNCHANGED <<daemon, faults, disk, run, locks, cancel, seen>>

\* terminalClose: the last record, when the index and the file agree about it.  The index
\* has its place, also on a line with a cut record before it.
HasTerminalClose(r) == log[r] # <<>> /\ Last(log[r]).what = "close"

\* Mutant: a durable close is not looked for.
RecoverEveryRun ==
    /\ Recovering("next")
    /\ RecoverAt("plan", "none")
    /\ UNCHANGED <<daemon, faults, disk, run, locks, cancel, seen>>

\* A damaged log is left alone; a durable close is authoritative, and its plan is
\* materialized if the registry still has it as pending; otherwise the run is settled.
RecoverRun ==
    /\ Recovering("next")
    /\ LET r == Current IN
       IF torn[r] THEN RecoverNext
       ELSE IF ~HasTerminalClose(r) THEN RecoverAt("plan", "none")
       ELSE IF IsPending(r) /\ plans[r].kind = Last(log[r]).plan THEN RecoverAt("ready", plans[r].kind)
       ELSE RecoverNext
    /\ UNCHANGED <<daemon, faults, disk, run, locks, cancel, seen>>

\* Manifest and recoverInterrupted: a settled plan stays settled, a pending one becomes
\* partial; when either fails the close goes without a plan.
RecoverPlan ==
    /\ Recovering("plan")
    /\ LET r == Current IN
       \/ /\ plans[r].state # "dismissed"
          /\ plans' = [plans EXCEPT ![r] = [kind |-> "partial", state |-> "pending"]]
          /\ RecoverAt("append", "partial")
          /\ NoFault
       \/ /\ IF plans[r].state = "dismissed" THEN NoFault ELSE Fault
          /\ RecoverAt("append", "none")
          /\ UNCHANGED plans
    /\ UNCHANGED <<daemon, summary, log, torn, canvas, tasks, run, locks, cancel, seen>>

RecoveredClose(r) ==
    Close(IF log[r] = <<>> THEN 1 ELSE Last(log[r]).id + 1, "interrupted", recovery.plan)
\* Mutant: the log is not inspected.
RecoverAppendBlindly ==
    /\ Recovering("append")
    /\ LET r == Current
           close == RecoveredClose(r)
       IN \/ /\ NoFault
             /\ Appended(r, close)
             /\ IF recovery.plan = "none" THEN RecoverNext ELSE RecoverAt("ready", recovery.plan)
          \/ Fault /\ NotAppended(r, close) /\ RecoverNext
    /\ UNCHANGED <<daemon, summary, plans, canvas, tasks, run, locks, cancel, seen>>

\* appendInterruptedCloseIfMissing: a log with a line that nobody reads gets no close.
RecoverAppend ==
    /\ Recovering("append")
    /\ LET r == Current
           close == RecoveredClose(r)
       IN \/ /\ NoFault /\ Legible(r)
             /\ Appended(r, close)
             /\ IF recovery.plan = "none" THEN RecoverNext ELSE RecoverAt("ready", recovery.plan)
          \/ Fault /\ Legible(r) /\ NotAppended(r, close) /\ RecoverNext
          \/ NoFault /\ ~Legible(r) /\ RecoverNext /\ UNCHANGED <<log, torn>>
    /\ UNCHANGED <<daemon, summary, plans, canvas, tasks, run, locks, cancel, seen>>

RecoverReady ==
    /\ Recovering("ready")
    /\ \/ /\ NoFault
          /\ Materialize(Current, recovery.plan)
          /\ IF recovery.plan = "proposals" THEN RecoverNext ELSE RecoverAt("dismiss", "none")
       \/ /\ IF TaskOf[Current] \in tasks THEN Fault ELSE NoFault
          /\ RecoverNext
          /\ UNCHANGED canvas
    /\ UNCHANGED <<daemon, summary, log, torn, plans, tasks, run, locks, cancel, seen>>

RecoverDismiss ==
    /\ Recovering("dismiss")
    /\ \/ plans' = Settled({Current}) /\ NoFault
       \/ Fault /\ UNCHANGED plans
    /\ RecoverNext
    /\ UNCHANGED <<daemon, summary, log, torn, canvas, tasks, run, locks, cancel, seen>>
-----------------------------------------------------------------------------
(* Processes *)

\* The process is gone, and an append with it like one that fails.
Underway(r) ==
    IF run[r].queue # <<>> THEN {Head(run[r].queue)}
    ELSE IF run[r].pc = "append" THEN {OwnClose(r)}
    ELSE IF Recovering("append") /\ r = Current /\ Legible(r) THEN {RecoveredClose(r)} ELSE {}
Stop ==
    /\ daemon' = "down"
    /\ run' = [r \in Runs |-> NoRun]
    /\ leases' = [t \in Tasks |-> {}]
    /\ mutating' = {}
    /\ deletion' = "no"
    /\ recovery' = NoRecovery
    /\ cancel' = [r \in Runs |-> "none"]
    /\ UNCHANGED <<summary, plans, canvas, tasks, seen>>

Crash ==
    /\ daemon # "down"
    /\ Fault
    /\ Stop
    /\ \/ UNCHANGED <<log, torn>>
       \/ \E r \in Runs : \E event \in Underway(r) : NotAppended(r, event)
Exit ==
    /\ daemon = "closing"
    /\ \A r \in Runs : run[r].pc \notin Busy /\ run[r].queue = <<>>
    /\ Stop
    /\ UNCHANGED <<faults, log, torn>>

Boot == daemon = "down" /\ daemon' = "up" /\ UNCHANGED <<faults, disk, run, locks, recovery, cancel, seen>>
-----------------------------------------------------------------------------
Execute(r) ==
    \/ Accept(r) \/ Start(r) \/ Prepare(r) \/ Return(r) \/ Settle(r) \/ Collect(r)
    \/ Flush(r) \/ CreatePlan(r) \/ AppendClose(r) \/ Summarize(r) \/ Ready(r) \/ Dismiss(r)
    \/ Broadcast(r) \/ End(r)
Recover ==
    \/ \E r \in Runs : Interrupt(r)
    \/ ListInterrupted \/ RecoverRun \/ RecoverPlan \/ RecoverAppend \/ RecoverReady
    \/ RecoverDismiss \/ RecoveryEnds

Next ==
    \/ \E r \in Runs :
         Create(r) \/ Execute(r) \/ Emit(r) \/ Write(r) \/ Cancel(r) \/ Abort(r)
    \/ \E t \in Tasks : BeginMutation(t) \/ DeleteTask(t) \/ EndMutation(t)
    \/ Reconcile \/ BeginDeletion \/ CheckDeletion \/ EndDeletion
    \/ Recover
    \/ CloseManager \/ Crash \/ Exit \/ Boot

\* The daemon goes on with what it has begun.  The agent may take for ever, but a
\* transport that is told to stop ends its process.
Fairness ==
    /\ \A r \in Runs :
         /\ WF_vars(run[r].pc # "agent" /\ Execute(r))
         /\ WF_vars(cancel[r] # "none" /\ Return(r))
         /\ WF_vars(Write(r))
         /\ WF_vars(Abort(r))
    /\ WF_vars(Recover)

Spec == Init /\ [][Next]_vars
FairSpec == Spec /\ Fairness
-----------------------------------------------------------------------------
(* Properties *)

\* The shape of the state.
Events == [id : Nat, what : {"text", "done", "close", "cut"}, status : Statuses \cup Reasons \cup {"none"},
    plan : Plans \cup {"none"}]
RunStates == [pc : RunPcs, asked : BOOLEAN, aborted : BOOLEAN, reason : Reasons \cup {"none"},
    settled : BOOLEAN, logError : BOOLEAN, manifest : BOOLEAN, complete : BOOLEAN,
    status : Ends \cup {"none"}, plan : Plans \cup {"none"}, queue : Seq(Events)]
RecoveryPcs == {"no", "interrupt", "next", "plan", "append", "ready", "dismiss", "done", "failed"}

TypeOK ==
    /\ daemon \in {"up", "closing", "down"}
    /\ faults \in Nat
    /\ summary \in [Runs -> {"none", "active"} \cup Statuses]
    /\ log \in [Runs -> Seq(Events)]
    /\ torn \in [Runs -> BOOLEAN]
    /\ plans \in [Runs -> [kind : Plans \cup {"none"}, state : {"none", "pending", "dismissed"}]]
    /\ canvas \in [Runs -> Plans \cup {"none"}]
    /\ tasks \subseteq Tasks
    /\ run \in [Runs -> RunStates]
    /\ leases \in [Tasks -> SUBSET Runs]
    /\ mutating \subseteq Tasks
    /\ deletion \in {"no", "fenced", "held"}
    /\ recovery \in [pc : RecoveryPcs, left : SUBSET Runs, plan : Plans \cup {"none"}]
    /\ cancel \in [Runs -> {"none", "asked", "waiting"}]
    /\ seen \in [Runs -> Seq(Events)]

\* A run is one story.  Its stream tells one end and closes once: nothing follows its
\* close, a close follows the done, and the two agree, however a cancellation, the end of
\* the agent, the delay after it and a failing file interleave (runs.ts, the comment in
\* cancel).  The records of its log have growing ids, and those before its close are what
\* the subscribers were told under them.  Whatever append failed in part and was followed
\* by another, in the same process or the next, such damage is not hidden behind a good
\* end: a log closed as done or cancelled has everything that was told, in its place, and
\* a recovery puts its close only behind a log that can be read from its beginning
\* (runLogs.ts, the comment before appendInterruptedCloseIfMissing).  A run closed as an
\* error may have a log that stops being readable before the close.
OneStream ==
    \A r \in Runs :
        /\ \A i, j \in DOMAIN seen[r] :
            /\ seen[r][i].what = "close" => i = Len(seen[r])
            /\ seen[r][i].what = "done" /\ seen[r][j].what = "done" => i = j
            /\ seen[r][i].what = "close" =>
                 \E k \in 1..(i - 1) :
                    /\ seen[r][k].what = "done"
                    /\ seen[r][i].status \in {StatusFor(seen[r][k].status), "error"}
        /\ \A i, j \in DOMAIN log[r] : i < j => log[r][i].id < log[r][j].id
        /\ \A e \in Range(log[r]) :
            e.what \notin {"close", "cut"} => e.id <= Len(seen[r]) /\ seen[r][e.id] = e
        /\ \A j \in DOMAIN log[r] :
            log[r][j].what = "close" /\ log[r][j].status # "error" =>
                /\ \A i \in 1..(j - 1) : log[r][i].what # "cut"
                /\ log[r][j].status # "interrupted" =>
                     log[r][j].id = j /\ \A i \in 1..(j - 1) : log[r][i] = seen[r][i]

\* A close that was broadcast as done or cancelled, or with a plan, is in the log for
\* ever, with that plan, at the place that the index has for it: no crash turns the run
\* into an interrupted one.
ToldIsDurable ==
    \A r \in Runs : \A e \in Closes(seen[r]) :
        e.status # "error" \/ e.plan # "none" => e \in Range(log[r])

\* The plan of a run follows its durable close.  The canvas holds nothing of a run but the
\* plan of such a close (docs/CANVAS.md: a node appears only after the durable close), and
\* the registry agrees with it: a recovery that finds the close does not make a complete
\* plan a partial one (runRecovery.ts, the comment before terminalClose).
PlanFollowsClose ==
    \A r \in Runs :
        /\ canvas[r] # "none" => \E e \in Closes(log[r]) : e.plan = canvas[r]
        /\ log[r] # <<>> /\ ~torn[r] =>
             LET last == Last(log[r]) IN last.what = "close" /\ last.plan # "none" => plans[r].kind = last.plan

\* A task has one run at a time, and it is not deleted under it.
TaskIsReserved ==
    \A r \in Runs : run[r].pc \in Executing =>
        /\ TaskOf[r] \in tasks
        /\ \A q \in Runs \ {r} : TaskOf[q] = TaskOf[r] => run[q].pc \notin Executing

\* While the deletion of the project holds it, nothing else is under way in it: no run,
\* no destructive command and no recovery of old runs.
DeletionIsExclusive ==
    deletion = "held" =>
        /\ mutating = {} /\ recovery.pc = "done"
        /\ \A r \in Runs : run[r].pc \notin Busy

\* A cancellation is answered, after the run is over, if the process does not die
\* (docs/AGENT-BACKEND.md, POST /runs/:id/cancel).
Cancelled == \A r \in Runs : cancel[r] = "asked" ~> cancel[r] = "none"
=============================================================================
