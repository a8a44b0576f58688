------------------------------ MODULE RunFollower ------------------------------
(***************************************************************************)
(* How a page of the browser follows the runs of one task                  *)
(* (src/src/canvas/runController.ts over src/src/agent/taskRunClient.ts    *)
(* and taskRunHttpClient.ts), against what the daemon offers it: the list  *)
(* of runs, the durable log in pages, and an event stream over a bounded   *)
(* window of memory (daemon/runs.ts, serverCore.ts, runLogs.ts).           *)
(*                                                                         *)
(* RunLifecycle has a run from the inside; here it emits events, closes,   *)
(* materializes and ends, or is interrupted by a crash of the daemon.  The *)
(* page may lose any answer and any stream, may be reloaded, and may start *)
(* a run whose creation it is never told of.  Permissions, ghosts,         *)
(* sessions and the wording of a progress line are left out, and so are    *)
(* the runs of other tasks: they share nothing with these.                 *)
(***************************************************************************)
EXTENDS Naturals, Sequences, SequencesExt, Nothing

CONSTANTS
  MaxRuns,       \* bound: runs of the task
  MaxEvents,     \* bound: agent events of each run
  Window,        \* EVENT_HISTORY_LIMIT
  PageSize,      \* entries of a page of the log
  MaxFaults      \* bound: lost answers, broken streams, crashes, page loads

ASSUME BoundsAssumption ==
  /\ {MaxRuns, Window, PageSize} \subseteq Nat \ {0}
  /\ MaxEvents \in [1..MaxRuns -> Nat]
  /\ MaxFaults \in Nat

VARIABLES
  log,       \* [run -> its events, a close last], durable
  first,     \* [run -> id of the oldest event in memory]
  stage,     \* [run -> where it is]
  order,     \* the runs there are, oldest first
  held,      \* runs the run manager has in memory
  canvas,    \* [outputs, reviewed]: runs whose plan is materialized, settled
  posts,     \* creations that are under way
  shown,     \* the canvas as the page's store has it
  runtime,   \* what the page shows of the task: a run and its phase
  claimed,   \* the task is in #claimedTaskIds
  pending,   \* the request runTask or recoverTask waits for
  follow,    \* the ActiveExecution
  entries,   \* [run -> ids in #logsByRunId]
  settled,   \* #settledRunIds
  offered,   \* #deliveredPlanIds
  streamed,  \* history: active runs this page streamed to their end
  faults

daemon == <<log, first, stage, order, held, canvas, posts>>
record == <<entries, settled, offered, streamed>>
page == <<shown, runtime, claimed, pending, follow, record>>
pageVars == <<daemon, page, faults>>

Runs == 1..MaxRuns
Phases == {"queued", "running", "done", "interrupted"}

\* A task without a run is not shown as one.
ASSUME NothingAssumption == None \notin [run : Runs, phase : Phases]

Text == [event |-> "agent-event"]
CloseOf(status, plan) == [event |-> "close", status |-> status, plan |-> plan]
HasClose(r) == log[r] # <<>> /\ Last(log[r]).event = "close"

Exists(r) == stage[r] # "none"
Busy(r) == stage[r] \in {"running", "finishing", "closing"}

\* GET of a run: its status is terminal as soon as the run finishes, before its close.
\* The list reads summary.json, which is terminal only after the close; that it may say
\* so earlier here makes the model the wider one.
IsActive(r) == stage[r] = "running"
StatusOf(r) == IF HasClose(r) THEN Last(log[r]).status ELSE "done"

Older(q, r) == \E i, j \in DOMAIN order : i <= j /\ order[i] = q /\ order[j] = r

NoPage(canvasRead) ==
  /\ shown = canvasRead
  /\ runtime = None
  /\ claimed = FALSE
  /\ pending = None
  /\ follow = None
  /\ entries = [r \in Runs |-> {}]
  /\ settled = {} /\ offered = {} /\ streamed = {}

PageInit ==
  /\ log = [r \in Runs |-> <<>>]
  /\ first = [r \in Runs |-> 1]
  /\ stage = [r \in Runs |-> "none"]
  /\ order = <<>>
  /\ held = {}
  /\ canvas = [outputs |-> {}, reviewed |-> {}]
  /\ posts = {}
  /\ NoPage(canvas)
  /\ faults = 0
-----------------------------------------------------------------------------
(* The daemon. *)

\* The answer to POST /runs, if the page still waits for it.
AnswerPost(r, at) ==
  pending' = IF pending # None /\ pending.at = "post" /\ pending.run = r
             THEN [pending EXCEPT !.at = at] ELSE pending

\* A task has one active run; a run that is not accepted leaves no trace.
Create(r) ==
  /\ r \in posts
  /\ posts' = posts \ {r}
  /\ \/ /\ ~\E q \in Runs : Busy(q)
        /\ stage' = [stage EXCEPT ![r] = "running"]
        /\ held' = held \cup {r}
        /\ order' = Append(order, r)
        /\ AnswerPost(r, "created")
     \/ /\ UNCHANGED <<stage, order, held>>
        /\ AnswerPost(r, "reconcile")
  /\ UNCHANGED <<log, first, canvas, shown, runtime, claimed, follow, record, faults>>

\* #publish: memory keeps the last events only.
Publish(r) ==
  /\ stage[r] = "running" /\ Len(log[r]) < MaxEvents[r]
  /\ log' = [log EXCEPT ![r] = Append(@, Text)]
  /\ first' = [first EXCEPT ![r] = Max({@, Len(log[r]) + 2 - Window})]
  /\ UNCHANGED <<stage, order, held, canvas, posts, page, faults>>

\* #finish: the summary, then the durable close, then the canvas; only then
\* are the subscribers told.
Finish(r) ==
  /\ stage[r] = "running"
  /\ stage' = [stage EXCEPT ![r] = "finishing"]
  /\ UNCHANGED <<log, first, order, held, canvas, posts, page, faults>>

Close(r) ==
  /\ stage[r] = "finishing"
  /\ \E plan \in BOOLEAN : log' = [log EXCEPT ![r] = Append(@, CloseOf("done", plan))]
  /\ stage' = [stage EXCEPT ![r] = "closing"]
  /\ UNCHANGED <<first, order, held, canvas, posts, page, faults>>

\* autoMaterializeProjectionPlan, which may fail.
Materialize(r) ==
  /\ stage[r] = "closing"
  /\ \/ Last(log[r]).plan /\ canvas' = [canvas EXCEPT !.outputs = @ \cup {r}]
     \/ UNCHANGED canvas
  /\ stage' = [stage EXCEPT ![r] = "ended"]
  /\ UNCHANGED <<log, first, order, held, posts, page, faults>>

\* #trimFinishedRuns
Forget(r) ==
  /\ stage[r] = "ended" /\ r \in held
  /\ held' = held \ {r}
  /\ UNCHANGED <<log, first, stage, order, canvas, posts, page, faults>>

\* Somebody accepts or dismisses the plan of a closed run.
Review(r) ==
  /\ stage[r] = "ended" /\ Last(log[r]).plan /\ r \notin canvas.reviewed
  /\ canvas' = [canvas EXCEPT !.reviewed = @ \cup {r}]
  /\ UNCHANGED <<log, first, stage, order, held, posts, page, faults>>

\* The daemon is killed and started again: what was running is interrupted
\* before anything is read from the log, and every connection is lost.
Restart ==
  /\ faults < MaxFaults
  /\ held # {} \/ posts # {}
  /\ faults' = faults + 1
  /\ held' = {} /\ posts' = {}
  /\ \E plan \in BOOLEAN :
       log' = [r \in Runs |-> IF Busy(r) /\ ~HasClose(r)
                              THEN Append(log[r], CloseOf("interrupted", plan)) ELSE log[r]]
  /\ stage' = [r \in Runs |-> IF Busy(r) THEN "ended" ELSE stage[r]]
  /\ canvas' = [canvas EXCEPT !.outputs = @ \cup {r \in Runs : Busy(r) /\ Last(log'[r]).plan}]
  /\ pending' = IF pending # None /\ pending.at = "post"
                THEN [pending EXCEPT !.at = "reconcile"] ELSE pending
  /\ follow' = IF follow # None /\ follow.at = "stream"
               THEN [follow EXCEPT !.at = "failed"] ELSE follow
  /\ UNCHANGED <<first, order, shown, runtime, claimed, record>>

DaemonStep ==
  \/ \E r \in Runs : Create(r) \/ Publish(r) \/ Finish(r) \/ Close(r) \/ Materialize(r)
                     \/ Forget(r) \/ Review(r)
  \/ Restart
-----------------------------------------------------------------------------
(* The controller: starting and recovering a run. *)

\* An answer is lost, a request times out, a stream breaks, a page is left.
Fault == faults < MaxFaults /\ faults' = faults + 1

\* #beginExecution
Begin(r, at, application, refresh, phase) ==
  /\ pending' = None
  /\ follow' = [run |-> r, at |-> at, cursor |-> 0, application |-> application,
                refresh |-> refresh, next |-> 0, early |-> TRUE]
  /\ runtime' = [run |-> r, phase |-> IF phase = "queued" THEN "running" ELSE phase]
  /\ UNCHANGED <<shown, claimed, record>>

\* runTask, up to the request.
RunTask ==
  /\ ~claimed
  /\ {q \in Runs : stage[q] = "none"} \ posts # {}
  /\ \E r \in Runs :
       /\ r = Min({q \in Runs : stage[q] = "none" /\ q \notin posts})
       /\ posts' = posts \cup {r}
       /\ runtime' = [run |-> r, phase |-> "queued"]
       /\ pending' = [at |-> "post", run |-> r]
  /\ claimed' = TRUE
  /\ UNCHANGED <<log, first, stage, order, held, canvas, shown, follow, record, faults>>

Created ==
  /\ pending # None /\ pending.at = "created"
  /\ Begin(pending.run, "attach", "live", TRUE, "queued")
  /\ UNCHANGED <<daemon, faults>>

PostFails ==
  /\ pending # None /\ pending.at \in {"post", "created"}
  /\ Fault
  /\ pending' = [pending EXCEPT !.at = "reconcile"]
  /\ UNCHANGED <<daemon, shown, runtime, claimed, follow, record>>

\* reconcileTaskRun: only a run that can be seen is followed.
ReconcileRun ==
  /\ pending # None /\ pending.at = "reconcile"
  /\ Exists(pending.run)
  /\ Begin(pending.run, "replay", IF IsActive(pending.run) THEN "replay-active" ELSE "replay-history",
           TRUE, "queued")
  /\ UNCHANGED <<daemon, faults>>

GiveUp ==
  /\ pending # None
  /\ \/ pending.at = "reconcile" /\ ~Exists(pending.run) /\ UNCHANGED faults
     \/ pending.at \in {"reconcile", "list"} /\ Fault
  /\ pending' = None
  /\ claimed' = FALSE
  /\ runtime' = IF pending.at = "reconcile" THEN None ELSE runtime
  /\ UNCHANGED <<daemon, shown, follow, record>>

\* recoverTask: the store is read, then the list of runs.
Recover ==
  /\ ~claimed
  /\ claimed' = TRUE
  /\ pending' = [at |-> "list", outputs |-> shown.outputs]
  /\ UNCHANGED <<daemon, shown, runtime, follow, record, faults>>

List ==
  /\ pending # None /\ pending.at = "list"
  /\ pending' = [at |-> "listed", outputs |-> pending.outputs,
                 active |-> {r \in Runs : IsActive(r)},
                 terminal |-> {r \in Runs : Exists(r) /\ ~IsActive(r)},
                 status |-> [r \in Runs |-> StatusOf(r)]]
  /\ UNCHANGED <<daemon, shown, runtime, claimed, follow, record, faults>>

\* The active run, or else the newest that ended, if it is not settled yet.
ToRecover(active, terminal) ==
  IF active \ settled # {} THEN active \ settled
  ELSE {r \in terminal \ settled : \A q \in terminal : Older(q, r)}

Recovered ==
  /\ pending # None /\ pending.at = "listed"
  /\ LET runs == ToRecover(pending.active, pending.terminal) IN
     \/ /\ runs = {}
        /\ pending' = None
        /\ claimed' = FALSE
        /\ UNCHANGED <<shown, runtime, follow, record>>
     \/ \E r \in runs :
          LET active == r \in pending.active
              made == r \in pending.outputs IN
          Begin(r, "replay", IF active /\ ~made THEN "replay-active" ELSE "replay-history",
                active /\ ~made,
                IF active THEN (IF made THEN "done" ELSE "running") ELSE pending.status[r])
  /\ UNCHANGED <<daemon, faults>>
-----------------------------------------------------------------------------
(* The controller: following a run. *)

At(step) == follow # None /\ follow.at = step

\* Mutant: a replayed event moves the phase like a live one.
MovedAlways(application) == [runtime EXCEPT !.phase = "running"]

\* #markRunning is for live events; a replay leaves the phase alone.
Moved(application) ==
  IF application = "live" THEN [runtime EXCEPT !.phase = "running"] ELSE runtime

\* #applyAgentEvent for the events after the cursor up to `upto'.
Apply(upto, application) ==
  LET ids == {i \in (follow.cursor + 1)..upto : log[follow.run][i].event = "agent-event"} IN
  /\ entries' = [entries EXCEPT ![follow.run] = @ \cup ids]
  /\ runtime' = IF ids = {} THEN runtime ELSE Moved(application)
  /\ UNCHANGED <<settled, offered, streamed>>

\* A page of the log, read from the cursor on, up to its end or a close.
ReadPage(application, whenRead) ==
  LET r == follow.run
      end == IF follow.cursor + PageSize < Len(log[r]) THEN follow.cursor + PageSize ELSE Len(log[r]) IN
  /\ Apply(end, application)
  /\ follow' = [follow EXCEPT !.cursor = end,
       !.early = TRUE,
       !.at = CASE end > 0 /\ log[r][end].event = "close" -> "close"
                [] end = Len(log[r]) -> whenRead
                [] OTHER -> @]
  /\ UNCHANGED <<daemon, shown, claimed, pending, faults>>

\* #replayLog
ReplayLog == At("replay") /\ ReadPage(follow.application, "attach")

\* Mutant: an event just out of the window is not missed.
ReplayGapLate(after, r) == after > 0 /\ after + 2 < first[r]

\* subscribe
ReplayGap(after, r) == after > 0 /\ after + 1 < first[r]

\* attachRun, and streamRunEvents of the daemon.  The history may hold the
\* close of a run that is still to be materialized.
Attach ==
  /\ follow # None /\ follow.at \in {"attach", "reattach"}
  /\ LET r == follow.run IN
     follow' =
       IF r \notin held THEN [follow EXCEPT !.at = "failed"]
       ELSE IF ReplayGap(follow.cursor, r)
         THEN [follow EXCEPT !.at = IF @ = "attach" THEN "gap" ELSE "failed"]
       ELSE [follow EXCEPT !.at = "stream", !.early = HasClose(r),
               !.next = IF follow.cursor < first[r] THEN first[r] ELSE follow.cursor + 1]
  /\ UNCHANGED <<daemon, shown, runtime, claimed, pending, record, faults>>

\* The missing range is read from the log before the stream is opened again.
FillGap == At("gap") /\ ReadPage("live", "reattach")

ReceiveEvent ==
  /\ At("stream") /\ follow.next <= Len(log[follow.run])
  /\ log[follow.run][follow.next].event = "agent-event"
  /\ entries' = [entries EXCEPT ![follow.run] = @ \cup {follow.next}]
  /\ runtime' = Moved("live")
  /\ follow' = [follow EXCEPT !.cursor = follow.next, !.next = @ + 1]
  /\ UNCHANGED <<daemon, shown, claimed, pending, settled, offered, streamed, faults>>

\* #finish tells those that listen when the plan has been materialized.
Told(r) == stage[r] = "ended"

ReceiveClose ==
  /\ At("stream") /\ follow.next = Len(log[follow.run]) /\ HasClose(follow.run)
  /\ follow.early \/ Told(follow.run)
  /\ follow' = [follow EXCEPT !.at = "close"]
  /\ UNCHANGED <<daemon, shown, runtime, claimed, pending, record, faults>>

\* A read fails, a stream breaks, the reload after the close fails.
Breaks ==
  /\ follow # None /\ follow.at # "failed"
  /\ follow.at = "close" => follow.refresh
  /\ Fault
  /\ follow' = [follow EXCEPT !.at = "failed"]
  /\ UNCHANGED <<daemon, shown, runtime, claimed, pending, record>>

\* Mutant: a plan is offered only when the canvas was reloaded for it.
OffersRefreshed(r, doc) == r \notin offered \cup doc.reviewed /\ follow.refresh

\* isPlanReviewSettled on the document that is shown.
Offers(r, doc) == r \notin offered \cup doc.reviewed

\* #settle
SettleRun ==
  /\ At("close")
  /\ LET r == follow.run
         close == Last(log[r]) IN
     /\ shown' = IF follow.refresh THEN canvas ELSE shown
     /\ settled' = settled \cup {r}
     /\ runtime' = [run |-> r, phase |-> close.status]
     /\ streamed' = IF follow.refresh /\ ~follow.early THEN streamed \cup {r} ELSE streamed
     /\ offered' = IF close.plan /\ Offers(r, shown') THEN offered \cup {r} ELSE offered
  /\ follow' = None
  /\ claimed' = FALSE
  /\ UNCHANGED <<daemon, pending, entries, faults>>

\* Mutant: a follow that failed keeps the task.
KeptClaim == claimed

\* #beginExecution, when the follow is over.
ReleasedClaim == FALSE

Failed ==
  /\ At("failed")
  /\ follow' = None
  /\ claimed' = ReleasedClaim
  /\ UNCHANGED <<daemon, shown, runtime, pending, record, faults>>

\* The store reads the canvas for reasons of its own.
RefreshCanvas ==
  /\ shown # canvas
  /\ shown' = canvas
  /\ UNCHANGED <<daemon, runtime, claimed, pending, follow, record, faults>>

\* The page is loaded again; what it had sent stays under way.
LoadPage ==
  /\ Fault
  /\ shown' = canvas /\ runtime' = None /\ claimed' = FALSE /\ pending' = None /\ follow' = None
  /\ entries' = [r \in Runs |-> {}]
  /\ settled' = {} /\ offered' = {} /\ streamed' = {}
  /\ UNCHANGED daemon

Initiate == RunTask \/ Recover \/ RefreshCanvas \/ LoadPage
Proceed ==
  \/ Created \/ ReconcileRun \/ GiveUp \/ List \/ Recovered
  \/ ReplayLog \/ Attach \/ FillGap \/ ReceiveEvent \/ ReceiveClose \/ SettleRun \/ Failed
Lose == PostFails \/ Breaks

PageNext == DaemonStep \/ Initiate \/ Proceed \/ Lose

\* A run that was started ends, a request is answered, and the page goes on
\* when it can.
Fairness ==
  /\ \A r \in Runs : WF_pageVars(Create(r)) /\ WF_pageVars(Finish(r)) /\ WF_pageVars(Close(r)) /\ WF_pageVars(Materialize(r))
  /\ WF_pageVars(Proceed)

PageSpec == PageInit /\ [][PageNext]_pageVars /\ Fairness
-----------------------------------------------------------------------------
(* What the page owes its user. *)

\* Once a page has read part of a run it misses none of what follows: an
\* event between the old cursor and the new one is in its log, whether it
\* came from the durable log, the window of memory or the live stream
\* (ReplayGap of subscribe against attachRun's 409).
FollowsOn ==
  [][ (/\ follow # None /\ follow' # None /\ follow.run = follow'.run
       /\ follow.cursor > 0 /\ follow'.cursor > follow.cursor)
      => \A i \in (follow.cursor + 1)..follow'.cursor :
           log[follow.run][i].event = "agent-event" => i \in entries'[follow.run] ]_pageVars

\* A run the page has shown as over is not shown as running again, whatever
\* part of its log is replayed to it afterwards (#applyAgentEvent).
NotRevived ==
  [][ (/\ runtime # None /\ runtime' # None /\ runtime.run = runtime'.run
       /\ runtime.phase \in {"done", "interrupted"})
      => runtime'.phase \in {"done", "interrupted"} ]_pageVars

\* Whichever way a page learns of the end of a run, nothing of it is missing.  One that
\* followed the run shows the outputs that were materialized: the close is sent after
\* the canvas is written and the page reads the canvas after the close (#finish against
\* #settle).  And a plan of a run that it settled is in front of its user or reviewed.
NothingMissed ==
  \A r \in settled :
    /\ r \in streamed /\ r \in canvas.outputs => r \in shown.outputs
    /\ Last(log[r]).plan => r \in offered \cup canvas.reviewed

\* A task is not claimed forever: when a request or a stream fails, the next
\* runTask or recoverTask of the page is not refused as busy.
Released == claimed ~> ~claimed
============================================================================
