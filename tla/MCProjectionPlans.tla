--------------------------- MODULE MCProjectionPlans ---------------------------
(***************************************************************************)
(* A small instance of ProjectionPlans: one run of the task t1, whose plan *)
(* p1 shows the output o2 and keeps o1, which o2 derives from and the      *)
(* proposal q1 reads, and which also has a graph of two nodes.             *)
(***************************************************************************)
EXTENDS ProjectionPlans, TLC

CONSTANTS t1, t2, n1, n2, n3, c1, c2, e1, e2, o1, o2, q1, q2, g1, g2, p1, type, b1, b2

MCPlan ==
  p1 :> [task |-> t1, outputs |-> <<o1, o2>>, proposals |-> {q1, q2},
         graph |-> (g1 :> None) @@ (g2 :> g1), wires |-> {<<g1, g2>>}]

MCOutput ==
  (o1 :> [type |-> type, role |-> "full", from |-> {}, shown |-> FALSE]) @@
  (o2 :> [type |-> type, role |-> "summary", from |-> {o1}, shown |-> TRUE])

MCInputs == (q1 :> {o1}) @@ (q2 :> {o2})

MCLinks == {[relation |-> "source", role |-> "full"]}

\* A canvas whose task has an empty slot, and a note that feeds the slot; and
\* one whose task lies in a collection, with a note of its own.
MCNode == [home |-> None, coll |-> None, parent |-> None, by |-> "user",
           blank |-> FALSE, type |-> type]
MCStart ==
  {[nodes |-> (n1 :> [MCNode EXCEPT !.home = t1, !.blank = TRUE]) @@ (n2 :> MCNode),
    tasks |-> t1 :> UserTask(None),
    edges |-> e1 :> [from |-> n2, to |-> n1, relation |-> "source", role |-> "full", plan |-> None],
    collections |-> {}],
   [nodes |-> n1 :> [MCNode EXCEPT !.home = t1],
    tasks |-> t1 :> UserTask(c1), edges |-> <<>>, collections |-> {c1}]}
==============================================================================
