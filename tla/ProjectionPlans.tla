---------------------------- MODULE ProjectionPlans ----------------------------
(***************************************************************************)
(* How a run's projection plan is settled: the canvas document with its    *)
(* receipts (CanvasDocument), the daemon's registry of plans               *)
(* (daemon/projectionPlanStore.ts), and the requests that go from one to   *)
(* the other (daemon/canvasProjectionCoordinator.ts and the canvas routes  *)
(* of daemon/serverCore.ts).                                               *)
(*                                                                         *)
(* A run closes with a pending plan and materializes its outputs; the user *)
(* then accepts some of its proposals, takes its graph, or dismisses it.   *)
(* A request looks the plan up, commits against the revision its browser   *)
(* showed, and then settles the registry: three steps, and the daemon may  *)
(* die after any of them.  RunLifecycle has what happens before the close. *)
(***************************************************************************)
EXTENDS CanvasDocument

CONSTANTS
  Browsers,      \* each with at most one request in flight
  Start,         \* the documents a branch is opened with
  MaxEdits       \* bound: client commands

\* A branch is opened with what users have made: no plan has receipts there.
ASSUME StartAssumption ==
  \A d \in Start :
    /\ \A n \in DOMAIN d.nodes : DOMAIN d.nodes[n] = NodeFields
    /\ \A i \in DOMAIN d.edges : DOMAIN d.edges[i] = EdgeFields /\ d.edges[i].plan = None

VARIABLES
  registry,      \* [plan -> "none", "pending" or "dismissed"], durable
  run,           \* [plan -> where its run is: "due", "closed", "ended"]
  request,       \* [browser -> the request it waits for]
  edits          \* client commands so far

vars == <<document, registry, run, request, edits>>

Idle == [at |-> "idle"]

Init ==
  /\ \E d \in Start : nodes = d.nodes /\ tasks = d.tasks /\ edges = d.edges
                     /\ collections = d.collections
  /\ receipts = {}
  /\ registry = [p \in Plans |-> "none"]
  /\ run = [p \in Plans |-> "due"]
  /\ request = [b \in Browsers |-> Idle]
  /\ edits = 0

\* A task with a run that has not ended is reserved (withIdleTasks).
Reserved == {Plan[p].task : p \in {x \in Plans : run[x] = "closed"}}

\* A command that was to be committed at an older revision is refused.
Stale(r) == IF r.at = "looked" THEN Idle ELSE r
Answer(b, next) ==
  request' = [x \in Browsers |-> IF x = b THEN next ELSE Stale(request[x])]

\* POST /canvas/commands with an ordinary command, from any browser.
Edit ==
  /\ edits < MaxEdits
  /\ PlainCommand
  /\ request' = [b \in Browsers |-> Stale(request[b])]
  /\ edits' = edits + 1
  /\ UNCHANGED <<registry, run>>

\* A deletion needs the tasks it removes to be idle, and then reconciles the
\* registry with the tasks it left.
Delete(b) ==
  /\ request[b] = Idle
  /\ edits < MaxEdits
  /\ DestructiveCommand
  /\ Reserved \cap DOMAIN tasks \subseteq DOMAIN tasks'
  /\ Answer(b, [at |-> "read", live |-> DOMAIN tasks'])
  /\ edits' = edits + 1
  /\ UNCHANGED <<registry, run>>

\* GET /canvas reads the document, and then reconciles the registry with it.
Read(b) ==
  /\ request[b] = Idle
  /\ request' = [request EXCEPT ![b] = [at |-> "read", live |-> DOMAIN tasks]]
  /\ UNCHANGED <<document, registry, run, edits>>

\* dismissPendingForMissingTasks, with the tasks that were read.
Reconcile(b) ==
  /\ request[b].at = "read"
  /\ registry' = [p \in Plans |->
       IF registry[p] = "pending" /\ Plan[p].task \notin request[b].live
       THEN "dismissed" ELSE registry[p]]
  /\ request' = [request EXCEPT ![b] = Idle]
  /\ UNCHANGED <<document, run, edits>>

\* createPending, then the durable close: the older pending plans of the task
\* are closed.
CloseRun(p) ==
  /\ run[p] = "due"
  /\ Plan[p].task \in DOMAIN tasks
  /\ \A q \in Plans : run[q] = "closed" => Plan[q].task # Plan[p].task
  /\ registry' = [q \in Plans |->
       IF q = p THEN "pending"
       ELSE IF registry[q] = "pending" /\ Plan[q].task = Plan[p].task THEN "dismissed"
       ELSE registry[q]]
  /\ run' = [run EXCEPT ![p] = "closed"]
  /\ UNCHANGED <<document, request, edits>>

\* autoMaterializeProjectionPlan: at the latest revision, whatever the
\* registry says; a failure is logged and the run ends all the same.
AutoMaterialize(p) ==
  /\ run[p] = "closed"
  /\ \/ PlanCommand("materialize", p) /\ request' = [b \in Browsers |-> Stale(request[b])]
     \/ UNCHANGED <<document, request>>
  /\ run' = [run EXCEPT ![p] = "ended"]
  /\ UNCHANGED <<registry, edits>>

Satisfied(command, p) ==
  CASE command = "materialize" -> Has("materialization", p) \/ Has("plan-dismissal", p)
    [] command = "accept"      -> Has("proposal-acceptance", p) \/ Has("plan-dismissal", p)
    [] command = "dismiss"     -> Has("plan-dismissal", p)
    [] command = "graph"       -> Has("graph-materialization", p)

Settles(command) == command \in {"accept", "dismiss"}

\* commitProjectionPlanCommand up to the commit: the plan is looked up and the
\* document read.  A plan that is not pending is refused, at once.
Ask(b, command, p) ==
  /\ request[b] = Idle
  /\ registry[p] = "pending"
  /\ command = "graph" => Plan[p].graph # <<>>
  /\ ~Satisfied(command, p)
  /\ request' = [request EXCEPT ![b] = [at |-> "looked", command |-> command, plan |-> p]]
  /\ UNCHANGED <<document, registry, run, edits>>

\* planCommandAlreadySatisfied: the receipt is there, and only the registry
\* is repaired.
Replay(b, command, p) ==
  /\ request[b] = Idle
  /\ registry[p] = "pending"
  /\ Satisfied(command, p) /\ Settles(command)
  /\ request' = [request EXCEPT ![b] = [at |-> "settle", plan |-> p]]
  /\ UNCHANGED <<document, registry, run, edits>>

\* The command is applied to the revision the browser showed.
Commit(b) ==
  LET r == request[b] IN
  /\ r.at = "looked"
  /\ PlanCommand(r.command, r.plan)
  /\ Answer(b, IF Settles(r.command) THEN [at |-> "settle", plan |-> r.plan] ELSE Idle)
  /\ UNCHANGED <<registry, run, edits>>

\* The reducer or the disk refuses it.
Refuse(b) ==
  /\ request[b].at = "looked"
  /\ request' = [request EXCEPT ![b] = Idle]
  /\ UNCHANGED <<document, registry, run, edits>>

\* dismissProjectionPlan
Settle(b) ==
  /\ request[b].at = "settle"
  /\ registry' = [registry EXCEPT ![request[b].plan] = "dismissed"]
  /\ request' = [request EXCEPT ![b] = Idle]
  /\ UNCHANGED <<document, run, edits>>

\* The daemon dies: requests are lost, the runs it had closed are recovered.
Crash ==
  /\ \E b \in Browsers : request[b] # Idle
  /\ request' = [b \in Browsers |-> Idle]
  /\ UNCHANGED <<document, registry, run, edits>>

PlanCommands == {"materialize", "accept", "dismiss", "graph"}

Next ==
  \/ Edit
  \/ \E b \in Browsers : Delete(b) \/ Read(b) \/ Reconcile(b) \/ Commit(b) \/ Refuse(b) \/ Settle(b)
  \/ \E b \in Browsers, p \in Plans, command \in PlanCommands :
       Ask(b, command, p) \/ Replay(b, command, p)
  \/ \E p \in Plans : CloseRun(p) \/ AutoMaterialize(p)
  \/ Crash

Spec == Init /\ [][Next]_vars
-----------------------------------------------------------------------------
(* Properties. *)

\* The nodes and the tasks the receipts of a plan name.
NodesOf(p) == {w[2] : w \in Materialized(p)}
TasksOf(p) == {a[2] : a \in Says("proposal-acceptance", p)}

\* What an edge of the agent's may join: no command modelled here, which leaves out
\* those on instances and decomposition plans, forges one, redraws one or copies one
\* as the agent's, so each of them is still what a receipt of its
\* plan accounts for.  Nothing in validateInvariants asserts it.
AgentEdgesReceipted ==
  \A i \in DOMAIN edges :
    LET e == edges[i] IN
    e.plan # None =>
      CASE e.relation = "produced"   -> e.from = Plan[e.plan].task /\ e.to \in NodesOf(e.plan)
        [] e.relation = "derived"    -> {e.from, e.to} \subseteq NodesOf(e.plan)
        [] e.relation = "data"       -> {e.from, e.to} \subseteq NodesOf(e.plan)
        [] e.relation = "source"     -> e.from \in NodesOf(e.plan) /\ e.to \in TasksOf(e.plan)
        [] e.relation = "depends-on" -> {e.from, e.to} \subseteq TasksOf(e.plan)

\* A receipt is permanent evidence (docs/CANVAS.md): whatever is deleted
\* around it, it is never taken back or rewritten, except that outcomes are
\* added to a materialization; what a receipt says was made is never made
\* again; and once a plan is dismissed none of its outputs or proposals is.
ReceiptsStand ==
  [][/\ \A r \in receipts : \E s \in receipts' :
          /\ s.kind = r.kind /\ s.plan = r.plan
          /\ IF r.kind = "materialization" THEN r.says \subseteq s.says ELSE s.says = r.says
     /\ \A n \in DOMAIN nodes' :
          nodes'[n].by \notin {"user", "copied"} =>
            \/ n \in DOMAIN nodes /\ nodes[n].by = nodes'[n].by
            \/ \A w \in Materialized(PlanOf(nodes'[n].by)) : w[1] # nodes'[n].by
     /\ \A p \in Plans :
          Has("plan-dismissal", p) =>
            /\ Says("materialization", p)' = Says("materialization", p)
            /\ Accepted(p)' = Accepted(p)]_<<nodes, receipts>>
==============================================================================
