---------------------------- MODULE CanvasDocument ----------------------------
(***************************************************************************)
(* The canvas document and the commands of the shared reducer that change  *)
(* its structure (src/src/canvas/commands.ts), with the validation every   *)
(* result must pass (validateInvariants in src/src/canvas/model.ts).       *)
(*                                                                         *)
(* CanvasReducer takes the reducer as an opaque function; this module says *)
(* what it does.  applyCanvasCommand clones the document, runs one         *)
(* handler, and asserts the result: here a command is a guard (what its    *)
(* handler checks) and an assignment, and Step conjoins the validation of  *)
(* the result, so a command that throws anywhere is simply not enabled.    *)
(*                                                                         *)
(* Geometry, titles, order keys, skills, executions and bindings are left  *)
(* out, and with them the commands that touch nothing else; `blank' is all *)
(* that is kept of a node's text and payload.  An id of deterministicCanvasId *)
(* is the key it is made from: the node of output o is o, the task of      *)
(* proposal q is q, a copy of x made for the collection c is <<c, x>>.     *)
(***************************************************************************)
EXTENDS Naturals, Sequences, FiniteSets, Functions, Nothing

CONSTANTS
  UserTasks, UserNodes, UserCollections, UserEdges,  \* ids a client may choose
  UserLinks,     \* {[relation, role]} a client draws edges with
  Types,         \* node type ids
  Plan,          \* [id -> [task, outputs, proposals, graph, wires]]
  Output,        \* [output key -> [type, role, from, shown]]
  Inputs,        \* [proposal key -> set of output keys]
  MaxPicked      \* bound: entities one command names

NodeFields == {"home", "coll", "parent", "by", "blank", "type"}
EdgeFields == {"from", "to", "relation", "role", "plan"}

VARIABLES
  nodes,         \* [id -> [home, coll, parent, by, blank, type]]
  tasks,         \* [id -> [coll, by]]
  collections,   \* set of ids
  edges,         \* [id -> [from, to, relation, role, plan]]
  receipts       \* set of [kind, plan, says]

document == <<nodes, tasks, collections, edges, receipts>>

Plans == DOMAIN Plan
OutputsOf(p) == Range(Plan[p].outputs)
KeysOf(p) == OutputsOf(p) \cup Plan[p].proposals \cup DOMAIN Plan[p].graph
PlanOf(key) == CHOOSE p \in Plans : key \in KeysOf(p)

\* What a plan makes is named by the plan's id, its kind and its key in the
\* plan, and its wires join nodes of its graph (inspectGraphMaterializationPlan).
ASSUME PlanAssumption ==
  \A p \in Plans :
    /\ OutputsOf(p) \cap DOMAIN Plan[p].graph = {}
    /\ \A w \in Plan[p].wires : {w[1], w[2]} \subseteq DOMAIN Plan[p].graph
    /\ \A q \in Plans : p # q => KeysOf(p) \cap KeysOf(q) = {}
IsOutput(n) == nodes[n].by \notin {"user", "copied"}

(***************************************************************************)
(* validateInvariants                                                      *)
(***************************************************************************)
Says(kind, p) == UNION {r.says : r \in {s \in receipts : s.kind = kind /\ s.plan = p}}
Has(kind, p) == \E r \in receipts : r.kind = kind /\ r.plan = p
Materialized(p) == Says("materialization", p) \cup Says("graph-materialization", p)
Accepted(p) == {a[1] : a \in Says("proposal-acceptance", p)}

IsOneToOne(pairs) ==
  \A a, b \in pairs : a[1] = b[1] \/ a[2] = b[2] => a = b

ReceiptsValid ==
  /\ \A r, s \in receipts : r.kind = s.kind /\ r.plan = s.plan => r = s
  /\ \A r \in receipts : r.kind # "plan-dismissal" => IsOneToOne(r.says)
  /\ \A p \in Plans : Accepted(p) \cap Says("plan-dismissal", p) = {}

TasksValid ==
  \A t \in DOMAIN tasks :
    /\ tasks[t].coll \in collections \cup {None}
    /\ tasks[t].by # "user" =>
         <<tasks[t].by, t>> \in Says("proposal-acceptance", PlanOf(tasks[t].by))

NodesValid ==
  \A n \in DOMAIN nodes :
    /\ nodes[n].parent \in DOMAIN nodes \cup {None}
    /\ nodes[n].home \in DOMAIN tasks \cup {None}
    /\ nodes[n].coll \in collections \cup {None}
    /\ nodes[n].parent # None => nodes[n].home = None /\ nodes[n].coll = None
    /\ nodes[n].home = None \/ nodes[n].coll = None
    /\ IsOutput(n) =>
         /\ nodes[n].home \in {None, Plan[PlanOf(nodes[n].by)].task}
         /\ <<nodes[n].by, n>> \in Materialized(PlanOf(nodes[n].by))
         /\ \A m \in DOMAIN nodes : nodes[m].by = nodes[n].by => m = n

\* validateContainment: in every set of children, one has a parent outside it.
Children == {n \in DOMAIN nodes : nodes[n].parent # None}
Acyclic ==
  \A S \in SUBSET Children :
    S # {} => \E n \in S : nodes[n].parent \notin S

\* canvasEdgeTopologyIssue
TopologyFits(e) ==
  LET node(x) == x \in DOMAIN nodes
      task(x) == x \in DOMAIN tasks IN
  /\ e.from # e.to
  /\ e.relation = "modified"   => node(e.from) /\ task(e.to)
  /\ e.relation = "produced"   => task(e.from) /\ node(e.to)
  /\ e.relation \in {"derived", "data"} => node(e.from) /\ node(e.to)
  /\ e.relation = "depends-on" => task(e.from) /\ task(e.to)

Semantics(e) == <<e.from, e.to, e.relation, e.role>>

EdgesValid ==
  \A i \in DOMAIN edges :
    /\ {edges[i].from, edges[i].to} \subseteq DOMAIN nodes \cup DOMAIN tasks
    /\ TopologyFits(edges[i])
    /\ \A j \in DOMAIN edges : Semantics(edges[j]) = Semantics(edges[i]) => i = j

\* assertCanvasDocument
Valid == ReceiptsValid /\ TasksValid /\ NodesValid /\ Acyclic /\ EdgesValid
-----------------------------------------------------------------------------
(* Helpers of the handlers. *)
Picks(S) == {P \in SUBSET S : P # {} /\ Cardinality(P) <= MaxPicked}
\* Both maps; where they overlap, the first.
Over(f, g) ==
  [x \in DOMAIN f \cup DOMAIN g |-> IF x \in DOMAIN f THEN f[x] ELSE g[x]]
Put(f, x, v) == Over([y \in {x} |-> v], f)
Without(f, S) == Restrict(f, DOMAIN f \ S)
Touching(S) == {i \in DOMAIN edges : edges[i].from \in S \/ edges[i].to \in S}

\* ensureEntityIdAvailable: the three kinds share one namespace.
Taken == DOMAIN nodes \cup DOMAIN tasks \cup collections

UserTask(c) == [coll |-> c, by |-> "user"]
UserEdge(f, t, link) ==
  [from |-> f, to |-> t, relation |-> link.relation, role |-> link.role, plan |-> None]
AgentEdge(f, t, relation, role, p) ==
  [from |-> f, to |-> t, relation |-> relation, role |-> role, plan |-> p]

\* removeEntities
RemoveEntities(gone) ==
  /\ nodes' = Without(nodes, gone)
  /\ tasks' = Without(tasks, gone)
  /\ edges' = Without(edges, Touching(gone))

\* isEmptyUserOutputSlot; a user's node holds no artifact.
IsEmptySlot(n) == nodes[n].by = "user" /\ nodes[n].blank

IsContext(e) == e.role \in {"full", "summary"}
-----------------------------------------------------------------------------
(* The commands on tasks and nodes. *)

CreateTask ==
  \E t \in UserTasks \ Taken, c \in collections \cup {None} :
    /\ tasks' = Put(tasks, t, UserTask(c))
    /\ UNCHANGED <<nodes, collections, edges, receipts>>

CreateNode ==
  \E n \in UserNodes \ Taken, home \in DOMAIN tasks \cup {None},
     c \in collections \cup {None}, parent \in DOMAIN nodes \cup {None},
     blank \in BOOLEAN, type \in Types :
    /\ nodes' = Put(nodes, n, [home |-> home, coll |-> c, parent |-> parent,
                               by |-> "user", blank |-> blank, type |-> type])
    /\ UNCHANGED <<tasks, collections, edges, receipts>>

UpdateNodeContent ==
  \E n \in DOMAIN nodes, blank \in BOOLEAN :
    /\ nodes' = [nodes EXCEPT ![n].blank = blank]
    /\ UNCHANGED <<tasks, collections, edges, receipts>>

\* n is m or lies somewhere below it: m is in every set that holds n and, with
\* a child, its parent.
IsWithin(n, m) ==
  \A S \in SUBSET DOMAIN nodes :
    n \in S /\ (\A x \in S \cap Children : nodes[x].parent \in S) => m \in S

ReparentNodes ==
  \E moving \in Picks(DOMAIN nodes), parent \in DOMAIN nodes \cup {None} :
    /\ \A n, m \in moving : n # m => ~IsWithin(n, m)
    /\ parent # None => \A n \in moving : ~IsWithin(parent, n)
    /\ nodes' = [n \in DOMAIN nodes |->
         IF n \notin moving THEN nodes[n]
         ELSE IF parent = None THEN [nodes[n] EXCEPT !.parent = None]
         ELSE [nodes[n] EXCEPT !.parent = parent, !.home = None, !.coll = None]]
    /\ UNCHANGED <<tasks, collections, edges, receipts>>

\* The last view of a task takes the task along.
DeleteNode ==
  \E n \in DOMAIN nodes :
    LET t == nodes[n].home
        last == t # None /\ \A m \in DOMAIN nodes : nodes[m].home = t => m = n IN
    /\ RemoveEntities(IF last THEN {n, t} ELSE {n})
    /\ UNCHANGED <<collections, receipts>>

DuplicateNode ==
  \E n \in DOMAIN nodes, copy \in UserNodes \ Taken :
    /\ nodes' = Put(nodes, copy, [nodes[n] EXCEPT !.parent = None, !.by = "copied"])
    /\ UNCHANGED <<tasks, collections, edges, receipts>>

DetachNodeFromTask ==
  \E n \in DOMAIN nodes :
    /\ nodes' = [nodes EXCEPT ![n].home = None]
    /\ UNCHANGED <<tasks, collections, edges, receipts>>

AssignNodeToTask ==
  \E n \in DOMAIN nodes, t \in DOMAIN tasks :
    /\ IsOutput(n) => Plan[PlanOf(nodes[n].by)].task = t
    /\ nodes' = [nodes EXCEPT ![n].home = t, ![n].coll = None]
    /\ UNCHANGED <<tasks, collections, edges, receipts>>

\* deleteTask: the views stay, in the task's collection if it had one.
DeleteTask ==
  \E t \in DOMAIN tasks :
    /\ tasks' = Without(tasks, {t})
    /\ nodes' = [n \in DOMAIN nodes |->
         IF nodes[n].home # t THEN nodes[n]
         ELSE [nodes[n] EXCEPT !.home = None,
                 !.coll = IF tasks[t].coll # None THEN tasks[t].coll ELSE @]]
    /\ edges' = Without(edges, Touching({t}))
    /\ UNCHANGED <<collections, receipts>>

DeleteTaskAndViews ==
  \E t \in DOMAIN tasks :
    /\ RemoveEntities({t} \cup {n \in DOMAIN nodes : nodes[n].home = t})
    /\ UNCHANGED <<collections, receipts>>

\* Mutant: the copied inputs keep the plan they came from.
DuplicateTaskWithOrigin ==
  \E s \in DOMAIN tasks, t \in UserTasks \ Taken :
    /\ tasks' = Put(tasks, t, UserTask(tasks[s].coll))
    /\ edges' = Over([i \in {<<"draft", t, j>> : j \in {k \in DOMAIN edges : edges[k].to = s}}
                        |-> [edges[i[3]] EXCEPT !.to = t]], edges)
    /\ UNCHANGED <<nodes, collections, receipts>>

\* The goal and the inputs are copied, and the inputs are now the user's.
DuplicateTaskAsDraft ==
  \E s \in DOMAIN tasks, t \in UserTasks \ Taken :
    LET ids == {<<"draft", t, i>> : i \in {j \in DOMAIN edges : edges[j].to = s}} IN
    /\ ids \cap DOMAIN edges = {}
    /\ tasks' = Put(tasks, t, UserTask(tasks[s].coll))
    /\ edges' = Over([i \in ids |-> [edges[i[3]] EXCEPT !.to = t, !.plan = None]], edges)
    /\ UNCHANGED <<nodes, collections, receipts>>

-----------------------------------------------------------------------------
(* The commands on edges, and on a task with its inputs. *)

CreateEdge ==
  \E i \in UserEdges \ DOMAIN edges, link \in UserLinks,
     f, t \in DOMAIN nodes \cup DOMAIN tasks :
    /\ TopologyFits(UserEdge(f, t, link))
    /\ edges' = Put(edges, i, UserEdge(f, t, link))
    /\ UNCHANGED <<nodes, tasks, collections, receipts>>

\* Only the user's own edges can be redrawn.
UpdateEdge ==
  \E i \in DOMAIN edges, link \in UserLinks, f, t \in DOMAIN nodes \cup DOMAIN tasks :
    /\ edges[i].plan = None
    /\ TopologyFits(UserEdge(f, t, link))
    /\ edges' = [edges EXCEPT ![i] = UserEdge(f, t, link)]
    /\ UNCHANGED <<nodes, tasks, collections, receipts>>

DeleteEdge ==
  \E i \in DOMAIN edges :
    /\ edges' = Without(edges, {i})
    /\ UNCHANGED <<nodes, tasks, collections, receipts>>

\* The context edges into the slot become inputs of the task: one for each
\* source (promotedTaskInputsForOutputSlot), `full' if one of them was.
CreateTaskForOutputSlot ==
  \E n \in DOMAIN nodes, t \in UserTasks \ Taken :
    LET promoted == {i \in DOMAIN edges : edges[i].to = n /\ IsContext(edges[i])}
        sources == {edges[i].from : i \in promoted}
        roleOf(x) == IF \E i \in promoted : edges[i].from = x /\ edges[i].role = "full"
                     THEN "full" ELSE "summary"
        inputs == [i \in {<<"slot-input", t, x>> : x \in sources} |->
          UserEdge(i[3], t, [relation |-> IF i[3] \in DOMAIN tasks THEN "depends-on" ELSE "source",
                             role |-> roleOf(i[3])])] IN
    /\ IsEmptySlot(n)
    /\ nodes[n].home = None
    /\ DOMAIN inputs \cap DOMAIN edges = {}
    /\ tasks' = Put(tasks, t, UserTask(nodes[n].coll))
    /\ nodes' = [nodes EXCEPT ![n].home = t, ![n].coll = None]
    /\ edges' = Over(inputs, Without(edges, promoted))
    /\ UNCHANGED <<collections, receipts>>

\* Only a node can be a modified input; the roles are the client's.
CreateDerivedTask ==
  \E t \in UserTasks \ Taken, from \in Picks(DOMAIN nodes \cup DOMAIN tasks),
     relation \in {"source", "modified"}, c \in collections \cup {None} :
    LET ids == {<<"derived-source", t, x>> : x \in from} IN
    /\ relation = "modified" => from \subseteq DOMAIN nodes
    /\ ids \cap DOMAIN edges = {}
    /\ tasks' = Put(tasks, t, UserTask(c))
    /\ edges' = Over([i \in ids |->
         UserEdge(i[3], t, [relation |-> relation, role |-> "full"])], edges)
    /\ UNCHANGED <<nodes, collections, receipts>>
-----------------------------------------------------------------------------
(* The commands on collections. *)
Members(c) == {t \in DOMAIN tasks : tasks[t].coll = c} \cup {n \in DOMAIN nodes : nodes[n].coll = c}
Homed(S) == {n \in DOMAIN nodes : nodes[n].home \in S}

SetCollection(S, c) ==
  /\ nodes' = [n \in DOMAIN nodes |-> IF n \in S THEN [nodes[n] EXCEPT !.coll = c] ELSE nodes[n]]
  /\ tasks' = [t \in DOMAIN tasks |-> IF t \in S THEN [tasks[t] EXCEPT !.coll = c] ELSE tasks[t]]

CollectionOf(x) == IF x \in DOMAIN tasks THEN tasks[x].coll ELSE nodes[x].coll

CreateCollection ==
  \E c \in UserCollections \ Taken, S \in Picks(DOMAIN nodes \cup DOMAIN tasks) :
    /\ \A x \in S : CollectionOf(x) = None
    /\ \A n \in S \cap DOMAIN nodes : nodes[n].home = None
    /\ SetCollection(S, c)
    /\ collections' = collections \cup {c}
    /\ UNCHANGED <<edges, receipts>>

AssignToCollection ==
  \E c \in collections, S \in Picks(DOMAIN nodes \cup DOMAIN tasks) :
    /\ \A n \in S \cap DOMAIN nodes : nodes[n].home = None
    /\ SetCollection(S, c)
    /\ UNCHANGED <<collections, edges, receipts>>

RemoveFromCollection ==
  \E c \in collections : \E S \in Picks(Members(c)) :
    /\ SetCollection(S, None)
    /\ UNCHANGED <<collections, edges, receipts>>

\* DissolveCollection and DeleteCollection
DissolveCollection ==
  \E c \in collections :
    /\ SetCollection(Members(c), None)
    /\ collections' = collections \ {c}
    /\ UNCHANGED <<edges, receipts>>

DeleteCollectionAndContents ==
  \E c \in collections :
    /\ RemoveEntities(Members(c) \cup Homed(Members(c)))
    /\ collections' = collections \ {c}
    /\ UNCHANGED receipts

\* Members and the views of member tasks are copied, with the edges between
\* them; a copy is the user's own.
DuplicateCollection ==
  \E c \in collections, d \in UserCollections \ Taken :
    LET copied == Members(c) \cup Homed(Members(c))
        ids == {<<d, x>> : x \in copied}
        between == {i \in DOMAIN edges : {edges[i].from, edges[i].to} \subseteq copied}
        edgeIds == {<<"duplicate", d, i>> : i \in between} IN
    /\ ids \cap Taken = {}
    /\ edgeIds \cap DOMAIN edges = {}
    /\ tasks' = Over([i \in {<<d, t>> : t \in copied \cap DOMAIN tasks} |-> UserTask(d)], tasks)
    /\ nodes' = Over([i \in {<<d, n>> : n \in copied \cap DOMAIN nodes} |->
         LET home == nodes[i[2]].home IN
         [nodes[i[2]] EXCEPT !.parent = None, !.by = "copied",
            !.home = IF home \in copied THEN <<d, home>> ELSE None,
            !.coll = IF home \in copied THEN None ELSE d]], nodes)
    /\ edges' = Over([i \in edgeIds |->
         [edges[i[3]] EXCEPT !.from = <<d, @>>, !.to = <<d, @>>, !.plan = None]], edges)
    /\ collections' = collections \cup {d}
    /\ UNCHANGED receipts
-----------------------------------------------------------------------------
(* The trusted plans. *)
OutputNode(o, p) ==
  [home |-> Plan[p].task, coll |-> None, parent |-> None, by |-> o,
   blank |-> TRUE, type |-> Output[o].type]

\* The edges of the outputs in `fresh', where `at' says which node an output is.
ProducedEdges(p, fresh, at) ==
  [i \in {<<"produced", o>> : o \in fresh} |->
     AgentEdge(Plan[p].task, at[i[2]], "produced", Output[i[2]].role, p)]
DerivedEdges(p, fresh, at) ==
  [i \in {<<"derived", o[1], o[2]>> : o \in {x \in (DOMAIN at) \X (DOMAIN at) :
            x[1] \in Output[x[2]].from /\ (x[1] \in fresh \/ x[2] \in fresh)}} |->
     AgentEdge(at[i[2]], at[i[3]], "derived", "full", p)]

\* An output takes over the one empty slot of its type in the task, unless an
\* earlier output took it; otherwise it gets a node of its own.
Adopted(p, o) ==
  {n \in Homed({Plan[p].task}) :
     /\ IsEmptySlot(n) /\ nodes[n].type = Output[o].type
     /\ \A m \in Homed({Plan[p].task}) :
          IsEmptySlot(m) /\ nodes[m].type = Output[o].type => m = n
     /\ \A k \in DOMAIN Plan[p].outputs : Plan[p].outputs[k] = o =>
          \A j \in 1..(k - 1) : LET before == Output[Plan[p].outputs[j]] IN
            before.shown => before.type # Output[o].type}

\* Mutant: a plan that was dismissed before it was materialized still is.
ReplaysItself(command, p) ==
  CASE command = "materialize" -> Has("materialization", p)
    [] command = "accept"      -> Has("proposal-acceptance", p) \/ Has("plan-dismissal", p)
    [] command = "dismiss"     -> Has("plan-dismissal", p)
    [] command = "graph"       -> Has("graph-materialization", p)

\* A command whose plan has the receipt already is answered with the document.
IsIdempotentReplay(command, p) ==
  CASE command = "materialize" -> Has("materialization", p) \/ Has("plan-dismissal", p)
    [] command = "accept"      -> Has("proposal-acceptance", p) \/ Has("plan-dismissal", p)
    [] command = "dismiss"     -> Has("plan-dismissal", p)
    [] command = "graph"       -> Has("graph-materialization", p)

\* The outputs that are shown are made, each with what it derives from.
MaterializeProjectionPlan(p) ==
  LET at == [o \in {x \in OutputsOf(p) : Output[x].shown} |->
               IF Adopted(p, o) = {} THEN o ELSE CHOOSE n \in Adopted(p, o) : TRUE]
      own == {o \in DOMAIN at : at[o] = o}
      new == Over(ProducedEdges(p, DOMAIN at, at), DerivedEdges(p, DOMAIN at, at)) IN
  /\ Plan[p].task \in DOMAIN tasks
  /\ own \cap Taken = {}
  /\ DOMAIN new \cap DOMAIN edges = {}
  /\ nodes' = Over([o \in own |-> OutputNode(o, p)],
       [n \in DOMAIN nodes |->
          IF \E o \in DOMAIN at \ own : at[o] = n
          THEN [nodes[n] EXCEPT !.by = CHOOSE o \in DOMAIN at \ own : at[o] = n]
          ELSE nodes[n]])
  /\ edges' = Over(new, edges)
  /\ receipts' = receipts \cup {[kind |-> "materialization", plan |-> p,
                                 says |-> {<<o, at[o]>> : o \in DOMAIN at}]}
  /\ UNCHANGED <<tasks, collections>>

\* The outputs the chosen proposals read, and all they derive from.
Lineage(p, chosen) ==
  LET direct == UNION {Inputs[q] : q \in chosen} IN
  {o \in OutputsOf(p) : \A S \in SUBSET OutputsOf(p) :
     direct \subseteq S /\ (\A x \in S : Output[x].from \subseteq S) => o \in S}

\* An output that has a receipt is never made a second time.
MissingOutputs(p, required) ==
  {o \in required : \A w \in Says("materialization", p) : w[1] # o}

\* requireExistingProposalInputNode
StillThere(p, required) ==
  \A w \in Says("materialization", p) :
    w[1] \in required =>
      w[2] \in DOMAIN nodes /\ nodes[w[2]].by = w[1] /\ nodes[w[2]].type = Output[w[1]].type

\* The user may edit the dependencies, within the proposals chosen.
DependencyGraphs(chosen) ==
  {d \in [chosen -> SUBSET chosen] :
     \A S \in SUBSET chosen : S # {} => \E q \in S : d[q] \cap S = {}}

\* The inputs of the proposals chosen, and what each of them waits for.
ProposalEdges(p, chosen, needs, at) ==
  Over([i \in {<<"proposal-source", x[1], x[2]>> :
          x \in {y \in OutputsOf(p) \X chosen : y[1] \in Inputs[y[2]]}} |->
          AgentEdge(at[i[2]], i[3], "source", "full", p)],
       [i \in {<<"proposal-dependency", x[1], x[2]>> :
          x \in {y \in chosen \X chosen : y[1] \in needs[y[2]]}} |->
          AgentEdge(i[2], i[3], "depends-on", "summary", p)])

\* What is accepted is settled for good, and so is what is not.
AcceptTaskProposals(p) ==
  \E chosen \in SUBSET Plan[p].proposals \ {{}} : \E needs \in DependencyGraphs(chosen) :
    LET required == Lineage(p, chosen)
        fresh == MissingOutputs(p, required)
        made == Says("materialization", p) \cup {<<o, o>> : o \in fresh}
        at == [o \in {w[1] : w \in made} |-> (CHOOSE w \in made : w[1] = o)[2]]
        derived == DerivedEdges(p, fresh, at)
        new == Over(ProducedEdges(p, fresh, at), ProposalEdges(p, chosen, needs, at)) IN
    /\ Plan[p].task \in DOMAIN tasks
    /\ Has("materialization", p)
    /\ StillThere(p, required)
    /\ (fresh \cup chosen) \cap Taken = {}
    /\ DOMAIN new \cap DOMAIN edges = {}
    /\ \A i \in DOMAIN derived \cap DOMAIN edges : edges[i] = derived[i]
    /\ nodes' = Over([o \in fresh |-> OutputNode(o, p)], nodes)
    /\ tasks' = Over([q \in chosen |-> [coll |-> tasks[Plan[p].task].coll, by |-> q]], tasks)
    /\ edges' = Over(new, Over(derived, edges))
    /\ receipts' =
         {r \in receipts : r.kind # "materialization" \/ r.plan # p}
         \cup {[kind |-> "materialization", plan |-> p, says |-> made],
               [kind |-> "proposal-acceptance", plan |-> p, says |-> {<<q, q>> : q \in chosen}]}
         \cup {[kind |-> "plan-dismissal", plan |-> p, says |-> rest] :
                 rest \in {Plan[p].proposals \ chosen} \ {{}}}
    /\ UNCHANGED collections

DismissPlan(p) ==
  /\ Plan[p].task \in DOMAIN tasks
  /\ receipts' = receipts \cup {[kind |-> "plan-dismissal", plan |-> p,
                                 says |-> Plan[p].proposals \ Accepted(p)]}
  /\ UNCHANGED <<nodes, tasks, collections, edges>>

\* A graph is made whole: its roots are views of the task, the rest lie inside.
MaterializeGraphPlan(p) ==
  LET graph == Plan[p].graph
      new == [i \in {<<"wire", w[1], w[2]>> : w \in Plan[p].wires} |->
                AgentEdge(i[2], i[3], "data", "none", p)] IN
  /\ Plan[p].task \in DOMAIN tasks
  /\ DOMAIN graph \cap Taken = {}
  /\ DOMAIN new \cap DOMAIN edges = {}
  /\ nodes' = Over([n \in DOMAIN graph |->
       [home |-> IF graph[n] = None THEN Plan[p].task ELSE None, coll |-> None,
        parent |-> graph[n], by |-> n, blank |-> FALSE, type |-> CHOOSE t \in Types : TRUE]],
       nodes)
  /\ edges' = Over(new, edges)
  /\ receipts' = receipts \cup {[kind |-> "graph-materialization", plan |-> p,
                                 says |-> {<<n, n>> : n \in DOMAIN graph}]}
  /\ UNCHANGED <<tasks, collections>>
-----------------------------------------------------------------------------
(* applyCanvasCommand: the handler's guard, its changes, and the validation. *)

\* Commands a client sends as they are; isTaskDestructiveCanvasCommand sets
\* four of them apart.
PlainCommand ==
  /\ \/ CreateTask \/ DuplicateTaskAsDraft \/ CreateTaskForOutputSlot \/ CreateDerivedTask
     \/ CreateNode \/ UpdateNodeContent \/ ReparentNodes \/ DuplicateNode
     \/ DetachNodeFromTask \/ AssignNodeToTask
     \/ CreateEdge \/ UpdateEdge \/ DeleteEdge
     \/ CreateCollection \/ AssignToCollection \/ RemoveFromCollection
     \/ DissolveCollection \/ DuplicateCollection
  /\ Valid'

DestructiveCommand ==
  /\ DeleteNode \/ DeleteTask \/ DeleteTaskAndViews \/ DeleteCollectionAndContents
  /\ Valid'

\* Commands that name a plan.
PlanCommand(command, p) ==
  /\ ~IsIdempotentReplay(command, p)
  /\ \/ command = "materialize" /\ MaterializeProjectionPlan(p)
     \/ command = "accept"      /\ AcceptTaskProposals(p)
     \/ command = "dismiss"     /\ DismissPlan(p)
     \/ command = "graph"       /\ MaterializeGraphPlan(p)
  /\ Valid'
==============================================================================
