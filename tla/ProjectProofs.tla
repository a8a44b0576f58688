---------------------------- MODULE ProjectProofs ----------------------------
(***************************************************************************)
(* Theorems about the projects of a directory: about ProjectCatalog, which *)
(* keeps them, and then about ProjectLease, which lets one daemon write to *)
(* each. The two parts share no state and no invariant.                    *)
(***************************************************************************)
EXTENDS ProjectCatalog, ProjectLease, FiniteSetTheorems, TLAPS
-----------------------------------------------------------------------------
(***************************************************************************)
(* Theorems about ProjectCatalog, for any number of projects: what the      *)
(* catalog lists is there, what was deleted stays deleted, and work is lost *)
(* to a deletion only, with kills between any two file operations.          *)
(***************************************************************************)

Shape ==
    /\ catalog \subseteq Projects
    /\ dir \in [Projects -> Directory \cup {None}]
    /\ tombstone \in [Projects -> Directory \cup {None}]
    /\ staging \subseteq Projects
    /\ op \in [kind : Kinds, id : Projects \cup {None}, todo : Seq(Steps)]
    /\ passed \subseteq Projects /\ open \subseteq Projects
    /\ created \subseteq Projects /\ answered \subseteq Projects /\ deleted \subseteq Projects

\* What is left to do of an operation.
ListTodo == {<<"read", "describe", "answer">>, <<"describe", "answer">>, <<"answer">>}
RequireTodo == {<<"read", "ready", "answer">>, <<"ready", "answer">>, <<"answer">>}
OpenTodo == {<<"read", "touch", "answer">>, <<"touch", "answer">>, <<"answer">>}
CreateTodo ==
    {<<"read", "new", "stage", "publish", "ready", "add", "answer">>,
     <<"new", "stage", "publish", "ready", "add", "answer">>,
     <<"stage", "publish", "ready", "add", "answer">>,
     <<"publish", "ready", "add", "answer">>,
     <<"ready", "add", "answer">>, <<"add", "answer">>, <<"answer">>, <<"discard">>}
DeleteTodo ==
    {<<"read", "ready", "free", "quarantine", "remove", "clean", "answer">>,
     <<"ready", "free", "quarantine", "remove", "clean", "answer">>,
     <<"free", "quarantine", "remove", "clean", "answer">>,
     <<"quarantine", "remove", "clean", "answer">>,
     <<"remove", "clean", "answer">>, <<"clean", "answer">>, <<"answer">>, <<"rollback">>}

Routes ==
    /\ op.kind = "list" => op.todo \in ListTodo
    /\ op.kind = "requireReady" => op.todo \in RequireTodo
    /\ op.kind = "markOpened" => op.todo \in OpenTodo
    /\ op.kind = "create" => op.todo \in CreateTodo
    /\ op.kind = "delete" => op.todo \in DeleteTodo

\* The step an operation is at.
Now == Head(op.todo)

\* The project an operation is about: one that was given out, from the read on.
Subject ==
    /\ op.kind = "list" => op.id = None
    /\ op.kind = "requireReady" => op.id \in Projects /\ (Now # "read" => op.id \in created)
    /\ op.kind \in {"markOpened", "delete"} => op.id \in created
    /\ op.kind = "create" => IF Now \in {"read", "new"} THEN op.id = None ELSE op.id \in created

\* Ids that were never given out are nowhere.
Born ==
    /\ catalog \cup passed \cup open \cup answered \cup deleted \subseteq created
    /\ \A p \in Projects : tombstone[p] # None => p \in created

\* A directory in place has its marker; one that was moved aside was not under a reset.
Sound ==
    \A p \in Projects :
        /\ dir[p] # None => dir[p].marker # "gone"
        /\ tombstone[p] # None => ~tombstone[p].journal

\* Where a reset is still to be finished nobody works, nor is anybody let in.
LetIn(p) ==
    \/ p \in passed \cup open
    \/ op.id = p /\ op.kind = "markOpened"
    \/ op.id = p /\ op.kind = "requireReady" /\ Now = "answer"
Untouched ==
    \A p \in Projects : dir[p] # None /\ ~IsCurrent(dir[p]) => dir[p].state # "work" /\ ~LetIn(p)

\* A project that is being created is nobody's yet.
Creating ==
    op.kind = "create" /\ Now \notin {"read", "new"} =>
        /\ op.id \notin answered \cup deleted \cup passed \cup open
        /\ tombstone[op.id] = None
        /\ dir[op.id] # None => dir[op.id].state # "work"
        /\ Now \in {"ready", "add", "answer"} => dir[op.id] # None

\* Where the directory of a project that is being deleted is.
Deleting ==
    op.kind = "delete" =>
        /\ Now # "read" => op.id \notin deleted
        /\ Now \in {"free", "quarantine"} => IsCurrent(dir[op.id])
        /\ Now = "quarantine" => tombstone[op.id] = None
        /\ Now \in {"remove", "rollback"} => dir[op.id] = None /\ HasMarker(tombstone[op.id])
        /\ Now \in {"clean", "answer"} => dir[op.id] = None /\ op.id \notin catalog
        /\ Now = "clean" => tombstone[op.id] # None

IInv ==
    /\ Shape /\ Routes /\ Subject /\ Born /\ Sound /\ Untouched /\ Creating /\ Deleting
    /\ ListedIsThere /\ DeletedStaysDeleted
-----------------------------------------------------------------------------
(* Where an operation goes *)

USE DEF Kinds, Steps

\* The next step, for each kind of operation.
NextOf(kind, step) ==
    CASE kind = "list" /\ step = "read" -> "describe"
      [] kind = "create" /\ step = "read" -> "new"
      [] kind = "markOpened" /\ step = "read" -> "touch"
      [] kind \in {"requireReady", "delete"} /\ step = "read" -> "ready"
      [] step = "new" -> "stage"
      [] step = "stage" -> "publish"
      [] step = "publish" -> "ready"
      [] kind = "create" /\ step = "ready" -> "add"
      [] kind = "delete" /\ step = "ready" -> "free"
      [] step = "free" -> "quarantine"
      [] step = "quarantine" -> "remove"
      [] step = "remove" -> "clean"
      [] OTHER -> "answer"

LEMMA Todos ==
    /\ ListTodo \cup RequireTodo \cup OpenTodo \cup CreateTodo \cup DeleteTodo \subseteq Seq(Steps)
    /\ \A s \in ListTodo : Head(s) \in {"read", "describe", "answer"}
    /\ \A s \in RequireTodo : Head(s) \in {"read", "ready", "answer"}
    /\ \A s \in OpenTodo : Head(s) \in {"read", "touch", "answer"}
    /\ \A s \in CreateTodo :
         Head(s) \in {"read", "new", "stage", "publish", "ready", "add", "answer", "discard"}
    /\ \A s \in DeleteTodo :
         Head(s) \in {"read", "ready", "free", "quarantine", "remove", "clean", "answer", "rollback"}
<1>1. ListTodo \cup RequireTodo \cup OpenTodo \subseteq Seq(Steps)
    BY DEF ListTodo, RequireTodo, OpenTodo
<1>2. CreateTodo \subseteq Seq(Steps)  BY DEF CreateTodo
<1>3. DeleteTodo \subseteq Seq(Steps)  BY DEF DeleteTodo
<1>4. \A s \in ListTodo : Head(s) \in {"read", "describe", "answer"}  BY DEF ListTodo
<1>5. \A s \in RequireTodo : Head(s) \in {"read", "ready", "answer"}  BY DEF RequireTodo
<1>6. \A s \in OpenTodo : Head(s) \in {"read", "touch", "answer"}  BY DEF OpenTodo
<1>7. \A s \in CreateTodo :
         Head(s) \in {"read", "new", "stage", "publish", "ready", "add", "answer", "discard"}
    BY DEF CreateTodo
<1>8. \A s \in DeleteTodo :
         Head(s) \in {"read", "ready", "free", "quarantine", "remove", "clean", "answer", "rollback"}
    BY DEF DeleteTodo
<1> QED BY <1>1, <1>2, <1>3, <1>4, <1>5, <1>6, <1>7, <1>8

LEMMA TailOfList ==
    ASSUME NEW s \in ListTodo, Head(s) \notin {"answer"}
    PROVE  Tail(s) \in ListTodo /\ Head(Tail(s)) = NextOf("list", Head(s))
<1>1. CASE s = <<"read", "describe", "answer">>
    <2>1. Tail(s) = <<"describe", "answer">>  BY <1>1
    <2>2. Head(s) = "read" /\ Head(Tail(s)) = "describe"  BY <1>1, <2>1
    <2> QED BY <2>1, <2>2 DEF ListTodo, NextOf
<1>2. CASE s = <<"describe", "answer">>
    <2>1. Tail(s) = <<"answer">>  BY <1>2
    <2>2. Head(s) = "describe" /\ Head(Tail(s)) = "answer"  BY <1>2, <2>1
    <2> QED BY <2>1, <2>2 DEF ListTodo, NextOf
<1>3. Head(<<"answer">>) = "answer"  OBVIOUS
<1> QED BY <1>1, <1>2, <1>3 DEF ListTodo

LEMMA TailOfRequire ==
    ASSUME NEW s \in RequireTodo, Head(s) \notin {"answer"}
    PROVE  Tail(s) \in RequireTodo /\ Head(Tail(s)) = NextOf("requireReady", Head(s))
<1>1. CASE s = <<"read", "ready", "answer">>
    <2>1. Tail(s) = <<"ready", "answer">>  BY <1>1
    <2>2. Head(s) = "read" /\ Head(Tail(s)) = "ready"  BY <1>1, <2>1
    <2> QED BY <2>1, <2>2 DEF RequireTodo, NextOf
<1>2. CASE s = <<"ready", "answer">>
    <2>1. Tail(s) = <<"answer">>  BY <1>2
    <2>2. Head(s) = "ready" /\ Head(Tail(s)) = "answer"  BY <1>2, <2>1
    <2> QED BY <2>1, <2>2 DEF RequireTodo, NextOf
<1>3. Head(<<"answer">>) = "answer"  OBVIOUS
<1> QED BY <1>1, <1>2, <1>3 DEF RequireTodo

LEMMA TailOfOpen ==
    ASSUME NEW s \in OpenTodo, Head(s) \notin {"answer"}
    PROVE  Tail(s) \in OpenTodo /\ Head(Tail(s)) = NextOf("markOpened", Head(s))
<1>1. CASE s = <<"read", "touch", "answer">>
    <2>1. Tail(s) = <<"touch", "answer">>  BY <1>1
    <2>2. Head(s) = "read" /\ Head(Tail(s)) = "touch"  BY <1>1, <2>1
    <2> QED BY <2>1, <2>2 DEF OpenTodo, NextOf
<1>2. CASE s = <<"touch", "answer">>
    <2>1. Tail(s) = <<"answer">>  BY <1>2
    <2>2. Head(s) = "touch" /\ Head(Tail(s)) = "answer"  BY <1>2, <2>1
    <2> QED BY <2>1, <2>2 DEF OpenTodo, NextOf
<1>3. Head(<<"answer">>) = "answer"  OBVIOUS
<1> QED BY <1>1, <1>2, <1>3 DEF OpenTodo

LEMMA TailOfCreate ==
    ASSUME NEW s \in CreateTodo, Head(s) \notin {"answer", "discard"}
    PROVE  Tail(s) \in CreateTodo /\ Head(Tail(s)) = NextOf("create", Head(s))
<1>1. CASE s = <<"read", "new", "stage", "publish", "ready", "add", "answer">>
    <2>1. Tail(s) = <<"new", "stage", "publish", "ready", "add", "answer">>  BY <1>1
    <2>2. Head(s) = "read" /\ Head(Tail(s)) = "new"  BY <1>1, <2>1
    <2> QED BY <2>1, <2>2 DEF CreateTodo, NextOf
<1>2. CASE s = <<"new", "stage", "publish", "ready", "add", "answer">>
    <2>1. Tail(s) = <<"stage", "publish", "ready", "add", "answer">>  BY <1>2
    <2>2. Head(s) = "new" /\ Head(Tail(s)) = "stage"  BY <1>2, <2>1
    <2> QED BY <2>1, <2>2 DEF CreateTodo, NextOf
<1>3. CASE s = <<"stage", "publish", "ready", "add", "answer">>
    <2>1. Tail(s) = <<"publish", "ready", "add", "answer">>  BY <1>3
    <2>2. Head(s) = "stage" /\ Head(Tail(s)) = "publish"  BY <1>3, <2>1
    <2> QED BY <2>1, <2>2 DEF CreateTodo, NextOf
<1>4. CASE s = <<"publish", "ready", "add", "answer">>
    <2>1. Tail(s) = <<"ready", "add", "answer">>  BY <1>4
    <2>2. Head(s) = "publish" /\ Head(Tail(s)) = "ready"  BY <1>4, <2>1
    <2> QED BY <2>1, <2>2 DEF CreateTodo, NextOf
<1>5. CASE s = <<"ready", "add", "answer">>
    <2>1. Tail(s) = <<"add", "answer">>  BY <1>5
    <2>2. Head(s) = "ready" /\ Head(Tail(s)) = "add"  BY <1>5, <2>1
    <2> QED BY <2>1, <2>2 DEF CreateTodo, NextOf
<1>6. CASE s = <<"add", "answer">>
    <2>1. Tail(s) = <<"answer">>  BY <1>6
    <2>2. Head(s) = "add" /\ Head(Tail(s)) = "answer"  BY <1>6, <2>1
    <2> QED BY <2>1, <2>2 DEF CreateTodo, NextOf
<1>7. Head(<<"answer">>) = "answer" /\ Head(<<"discard">>) = "discard"  OBVIOUS
<1> QED BY <1>1, <1>2, <1>3, <1>4, <1>5, <1>6, <1>7 DEF CreateTodo

LEMMA TailOfDelete ==
    ASSUME NEW s \in DeleteTodo, Head(s) \notin {"answer", "rollback"}
    PROVE  Tail(s) \in DeleteTodo /\ Head(Tail(s)) = NextOf("delete", Head(s))
<1>1. CASE s = <<"read", "ready", "free", "quarantine", "remove", "clean", "answer">>
    <2>1. Tail(s) = <<"ready", "free", "quarantine", "remove", "clean", "answer">>  BY <1>1
    <2>2. Head(s) = "read" /\ Head(Tail(s)) = "ready"  BY <1>1, <2>1
    <2> QED BY <2>1, <2>2 DEF DeleteTodo, NextOf
<1>2. CASE s = <<"ready", "free", "quarantine", "remove", "clean", "answer">>
    <2>1. Tail(s) = <<"free", "quarantine", "remove", "clean", "answer">>  BY <1>2
    <2>2. Head(s) = "ready" /\ Head(Tail(s)) = "free"  BY <1>2, <2>1
    <2> QED BY <2>1, <2>2 DEF DeleteTodo, NextOf
<1>3. CASE s = <<"free", "quarantine", "remove", "clean", "answer">>
    <2>1. Tail(s) = <<"quarantine", "remove", "clean", "answer">>  BY <1>3
    <2>2. Head(s) = "free" /\ Head(Tail(s)) = "quarantine"  BY <1>3, <2>1
    <2> QED BY <2>1, <2>2 DEF DeleteTodo, NextOf
<1>4. CASE s = <<"quarantine", "remove", "clean", "answer">>
    <2>1. Tail(s) = <<"remove", "clean", "answer">>  BY <1>4
    <2>2. Head(s) = "quarantine" /\ Head(Tail(s)) = "remove"  BY <1>4, <2>1
    <2> QED BY <2>1, <2>2 DEF DeleteTodo, NextOf
<1>5. CASE s = <<"remove", "clean", "answer">>
    <2>1. Tail(s) = <<"clean", "answer">>  BY <1>5
    <2>2. Head(s) = "remove" /\ Head(Tail(s)) = "clean"  BY <1>5, <2>1
    <2> QED BY <2>1, <2>2 DEF DeleteTodo, NextOf
<1>6. CASE s = <<"clean", "answer">>
    <2>1. Tail(s) = <<"answer">>  BY <1>6
    <2>2. Head(s) = "clean" /\ Head(Tail(s)) = "answer"  BY <1>6, <2>1
    <2> QED BY <2>1, <2>2 DEF DeleteTodo, NextOf
<1>7. Head(<<"answer">>) = "answer" /\ Head(<<"rollback">>) = "rollback"  OBVIOUS
<1> QED BY <1>1, <1>2, <1>3, <1>4, <1>5, <1>6, <1>7 DEF DeleteTodo

LEMMA StepOf ==
    ASSUME Shape, Routes
    PROVE  /\ Doing("describe") => op.kind = "list"
           /\ \A s \in {"new", "stage", "publish", "add", "discard"} : Doing(s) => op.kind = "create"
           /\ \A s \in {"free", "quarantine", "remove", "clean", "rollback"} : Doing(s) => op.kind = "delete"
           /\ Doing("touch") => op.kind = "markOpened"
           /\ Doing("ready") => op.kind \in {"requireReady", "create", "delete"}
           /\ \A s \in Steps : Doing(s) => op.kind # "idle" /\ Now = s
<1>1. op.kind \in Kinds  BY DEF Shape
<1> QED BY <1>1, Todos DEF Routes, Doing, Now

LEMMA DoneIs ==
    ASSUME Shape, Routes, op.kind # "idle", Now \notin {"answer", "discard", "rollback"}, Done
    PROVE  /\ op' \in [kind : Kinds, id : Projects \cup {None}, todo : Seq(Steps)]
           /\ op'.kind = op.kind /\ op'.id = op.id
           /\ Routes'
           /\ Now' = NextOf(op.kind, Now)
<1>1. op \in [kind : Kinds, id : Projects \cup {None}, todo : Seq(Steps)]  BY DEF Shape
<1>2. op'.kind = op.kind /\ op'.id = op.id /\ op'.todo = Tail(op.todo)  BY <1>1 DEF Done
<1>3. Routes' /\ Now' = NextOf(op.kind, Now)
    BY <1>1, <1>2, TailOfList, TailOfRequire, TailOfOpen, TailOfCreate, TailOfDelete
    DEF Routes, Now
<1>4. op'.todo \in Seq(Steps)
    BY <1>1, <1>2, <1>3, Todos DEF Routes
<1> QED BY <1>1, <1>2, <1>3, <1>4 DEF Done

\* An operation ends or is ended.
LEMMA FailIs ==
    ASSUME op' = NoOp
    PROVE  /\ op' \in [kind : Kinds, id : Projects \cup {None}, todo : Seq(Steps)]
           /\ Routes' /\ Subject' /\ Creating' /\ Deleting'
           /\ \A p \in Projects : LetIn(p)' => p \in passed' \cup open'
BY DEF NoOp, Routes, Subject, Creating, Deleting, LetIn

\* It goes on to take back what it has done.
LEMMA BackIs ==
    ASSUME Shape, NEW back \in {"discard", "rollback"}, op' = [op EXCEPT !.todo = <<back>>],
           op.kind = IF back = "discard" THEN "create" ELSE "delete"
    PROVE  /\ op' \in [kind : Kinds, id : Projects \cup {None}, todo : Seq(Steps)]
           /\ op'.kind = op.kind /\ op'.id = op.id
           /\ Routes'
           /\ Now' = back
<1>1. op \in [kind : Kinds, id : Projects \cup {None}, todo : Seq(Steps)]  BY DEF Shape
<1>2. <<back>> \in Seq(Steps) /\ Head(<<back>>) = back  OBVIOUS
<1>3. op'.kind = op.kind /\ op'.id = op.id /\ op'.todo = <<back>>  BY <1>1
<1> QED BY <1>1, <1>2, <1>3 DEF Routes, Now, CreateTodo, DeleteTodo

USE DEF NextOf

\* The document is read, or the read throws.
LEMMA ReadStep == ASSUME IInv, Read \/ ReadFails PROVE IInv'
<1> USE DEF IInv
<1>1. UNCHANGED <<files, history>> /\ Doing("read")  BY DEF Read, ReadFails
<1>2. op.kind # "idle" /\ Now = "read"  BY <1>1, StepOf
<1>3. CASE Fail
    BY <1>1, <1>3, FailIs
    DEF Fail, files, history, Shape, Born, Sound, Untouched, LetIn, ListedIsThere, DeletedStaysDeleted
<1>4. CASE Done /\ (op.id = None \/ op.id \in catalog)
    <2>1. /\ op' \in [kind : Kinds, id : Projects \cup {None}, todo : Seq(Steps)]
          /\ op'.kind = op.kind /\ op'.id = op.id
          /\ Routes'
          /\ Now' = NextOf(op.kind, "read")
        BY <1>2, <1>4, DoneIs
    <2>2. op.kind \in Kinds  BY DEF Shape
    <2>3. Shape' /\ Born' /\ Sound' /\ ListedIsThere' /\ DeletedStaysDeleted'
        BY <1>1, <2>1 DEF files, history, Shape, Born, Sound, ListedIsThere, DeletedStaysDeleted
    <2>4. Subject' /\ Creating'
        BY <1>1, <1>2, <1>4, <2>1, <2>2, CatalogAssumption DEF files, history, Subject, Born, Creating
    <2>5. Deleting'
        BY <1>1, <1>2, <1>4, <2>1, CatalogAssumption
        DEF files, history, Subject, Deleting, DeletedStaysDeleted, Born, Shape
    <2>6. Untouched'
        BY <1>1, <1>2, <2>1 DEF files, history, Untouched, LetIn
    <2> QED BY <2>1, <2>3, <2>4, <2>5, <2>6
<1> QED BY <1>3, <1>4 DEF Read, ReadFails
-----------------------------------------------------------------------------
(* Steps that only begin, end or pass on *)

\* Without a change of the files, and with nobody let in, an operation may start.
LEMMA Starts ==
    ASSUME IInv, UNCHANGED <<files, created, answered, deleted>>,
           passed' \subseteq passed, open' \subseteq open,
           NEW kind \in Kinds, NEW id \in Projects \cup {None}, NEW todo \in Seq(Steps),
           Begin(kind, id, todo), Routes', Head(todo) = "read",
           kind \in {"markOpened", "delete"} => id \in passed,
           kind = "requireReady" => id \in Projects,
           kind \in {"list", "create"} => id = None
    PROVE  IInv'
<1> USE DEF IInv
<1>1. /\ op' \in [kind : Kinds, id : Projects \cup {None}, todo : Seq(Steps)]
      /\ op'.kind = kind /\ op'.id = id /\ Now' = "read"
    BY DEF Begin, Now
<1>2. Shape' /\ Born' /\ Sound' /\ ListedIsThere' /\ DeletedStaysDeleted'
    BY <1>1 DEF files, Shape, Born, Sound, ListedIsThere, DeletedStaysDeleted
<1>3. Subject' /\ Creating' /\ Deleting'
    BY <1>1 DEF Subject, Creating, Deleting, Born
<1>4. \A p \in Projects : LetIn(p)' => LetIn(p)
    BY <1>1 DEF LetIn
<1>5. Untouched'  BY <1>4 DEF files, Untouched
<1> QED BY <1>2, <1>3, <1>5

LEMMA BeginStep ==
    ASSUME IInv,
           List \/ Create \/ \E p \in Projects : RequireReady(p) \/ MarkOpened(p) \/ Delete(p)
    PROVE  IInv'
<1> DEFINE listing == <<"read", "describe", "answer">>
           requiring == <<"read", "ready", "answer">>
           opening == <<"read", "touch", "answer">>
           creating == <<"read", "new", "stage", "publish", "ready", "add", "answer">>
           deleting == <<"read", "ready", "free", "quarantine", "remove", "clean", "answer">>
<1>1. /\ listing \in ListTodo /\ requiring \in RequireTodo /\ opening \in OpenTodo
      /\ creating \in CreateTodo /\ deleting \in DeleteTodo
    BY DEF ListTodo, RequireTodo, OpenTodo, CreateTodo, DeleteTodo
<1>2. \A s \in {listing, requiring, opening, creating, deleting} : s \in Seq(Steps) /\ Head(s) = "read"
  <2>1. /\ listing \in Seq(Steps) /\ requiring \in Seq(Steps) /\ opening \in Seq(Steps)
        /\ creating \in Seq(Steps) /\ deleting \in Seq(Steps)
      BY <1>1, Todos
  <2>2. /\ Head(listing) = "read" /\ Head(requiring) = "read" /\ Head(opening) = "read"
        /\ Head(creating) = "read" /\ Head(deleting) = "read"
      OBVIOUS
  <2> QED BY <2>1, <2>2
<1>3. CASE List
    BY <1>1, <1>2, <1>3, Starts DEF List, Begin, Routes, history
<1>4. CASE Create
    BY <1>1, <1>2, <1>4, Starts DEF Create, Begin, Routes, history
<1>5. ASSUME NEW p \in Projects, RequireReady(p) PROVE IInv'
    BY <1>1, <1>2, <1>5, Starts DEF RequireReady, Begin, Routes, history
<1>6. ASSUME NEW p \in Projects, MarkOpened(p) PROVE IInv'
    BY <1>1, <1>2, <1>6, Starts DEF MarkOpened, Begin, Routes
<1>7. ASSUME NEW p \in Projects, Delete(p) PROVE IInv'
    BY <1>1, <1>2, <1>7, Starts DEF Delete, Begin, Routes
<1> QED BY <1>3, <1>4, <1>5, <1>6, <1>7

\* The operation is over, with nothing said.
LEMMA Ends ==
    ASSUME IInv, UNCHANGED <<files, created, answered, deleted>>,
           passed' \subseteq passed, open' \subseteq open, op' = NoOp
    PROVE  IInv'
BY FailIs
DEF IInv, files, Shape, Born, Sound, Untouched, LetIn, ListedIsThere, DeletedStaysDeleted

\* One step on, without a change of the files.
LEMMA Passes ==
    ASSUME IInv, UNCHANGED <<files, history>>, op.kind # "idle",
           Now \in {"describe", "ready", "free", "touch"}, Done,
           Now = "ready" => IsCurrent(dir[op.id]),
           Now = "free" => tombstone[op.id] = None
    PROVE  IInv'
<1> USE DEF IInv
<1>1. /\ op' \in [kind : Kinds, id : Projects \cup {None}, todo : Seq(Steps)]
      /\ op'.kind = op.kind /\ op'.id = op.id
      /\ Routes'
      /\ Now' = NextOf(op.kind, Now)
    BY DoneIs
<1>2. op.kind \in Kinds  BY DEF Shape
<1>3. Shape' /\ Born' /\ Sound' /\ ListedIsThere' /\ DeletedStaysDeleted'
    BY <1>1 DEF files, history, Shape, Born, Sound, ListedIsThere, DeletedStaysDeleted
<1>4. /\ Now = "describe" => op.kind = "list"
      /\ Now = "touch" => op.kind = "markOpened"
      /\ Now = "free" => op.kind = "delete"
    BY StepOf DEF Doing, Now
<1>5. Subject'
    BY <1>1, <1>2, <1>4 DEF history, Subject
<1>6. Creating'
    BY <1>1, <1>2, <1>4 DEF files, history, Creating, IsCurrent, HasMarker
<1>7. Deleting'
    BY <1>1, <1>2, <1>4 DEF files, history, Deleting
<1>8. Untouched'
    BY <1>1, <1>2, <1>4 DEF files, history, Untouched, LetIn
<1> QED BY <1>1, <1>3, <1>5, <1>6, <1>7, <1>8

LEMMA PassStep == ASSUME IInv, Describe \/ Ready \/ Free \/ Touch PROVE IInv'
<1>1. UNCHANGED <<files, history>>  BY DEF Describe, Ready, Free, Touch
<1>2. \A s \in Steps : Doing(s) => op.kind # "idle" /\ Now = s  BY StepOf DEF IInv
<1>3. CASE Fail  BY <1>1, <1>3, Ends DEF Fail, history
<1>4. CASE Done
  <2>1. CASE Describe  BY <1>1, <1>2, <1>4, <2>1, Passes DEF Describe
  <2>2. CASE Ready  BY <1>1, <1>2, <1>4, <2>2, Passes DEF Ready
  <2>3. CASE Free /\ tombstone[op.id] = None  BY <1>1, <1>2, <1>4, <2>3, Passes DEF Free
  <2>4. CASE Free /\ tombstone[op.id] # None  BY <1>1, <2>4, Ends DEF Free, Fail, history
  <2>5. CASE Touch  BY <1>1, <1>2, <1>4, <2>5, Passes DEF Touch
  <2> QED BY <2>1, <2>2, <2>3, <2>4, <2>5
<1> QED BY <1>3, <1>4 DEF Describe, Ready, Free, Touch

LEMMA NotReadyStep == ASSUME IInv, NotReady PROVE IInv'
<1> USE DEF IInv
<1>1. UNCHANGED <<files, history>> /\ Doing("ready")  BY DEF NotReady
<1>2. CASE op.kind = "create"
  <2>1. /\ op' \in [kind : Kinds, id : Projects \cup {None}, todo : Seq(Steps)]
        /\ op'.kind = "create" /\ op'.id = op.id /\ Routes' /\ Now' = "discard"
      BY <1>2, BackIs DEF NotReady
  <2>2. Now = "ready"  BY <1>1, StepOf
  <2>3. Shape' /\ Born' /\ Sound' /\ ListedIsThere' /\ DeletedStaysDeleted'
      BY <1>1, <2>1 DEF files, history, Shape, Born, Sound, ListedIsThere, DeletedStaysDeleted
  <2>4. Subject' /\ Creating' /\ Deleting' /\ Untouched'
      BY <1>1, <1>2, <2>1, <2>2
      DEF files, history, Subject, Creating, Deleting, Untouched, LetIn
  <2> QED BY <2>1, <2>3, <2>4
<1>3. CASE op.kind # "create"
    BY <1>1, <1>3, Ends DEF NotReady, Fail, history
<1> QED BY <1>2, <1>3

LEMMA CrashStep == ASSUME IInv, Crash PROVE IInv'
BY Ends DEF Crash
-----------------------------------------------------------------------------
(* Steps that change the files *)

LEMMA RestoreStep == ASSUME IInv, NEW p \in Projects, Restore(p) PROVE IInv'
<1> USE DEF IInv
<1>1. /\ p \in catalog /\ tombstone[p] # None /\ HasMarker(tombstone[p]) /\ dir[p] = None
      /\ UNCHANGED <<catalog, staging, op, history>> /\ Doing("read")
    BY DEF Restore, Tombstones
<1>2. Now = "read" /\ op.kind # "idle"  BY <1>1, StepOf
<1>3. /\ dir' \in [Projects -> Directory \cup {None}]
      /\ tombstone' \in [Projects -> Directory \cup {None}]
      /\ dir'[p] = tombstone[p] /\ tombstone'[p] = None
      /\ \A q \in Projects \ {p} : dir'[q] = dir[q] /\ tombstone'[q] = tombstone[q]
    BY DEF Restore, Shape
<1>4. tombstone[p].marker = "current" /\ ~tombstone[p].journal
    BY <1>1 DEF HasMarker, Sound
<1>5. IsCurrent(dir'[p])  BY <1>1, <1>3, <1>4 DEF IsCurrent, HasMarker
<1>6. p \notin deleted  BY <1>1 DEF DeletedStaysDeleted
<1>7. Shape'  BY <1>1, <1>3 DEF Shape, history
<1>8. Routes' /\ Subject'  BY <1>1 DEF Routes, Subject, Now, history
<1>9. Born' /\ Sound'  BY <1>1, <1>3, <1>4 DEF Born, Sound, history
<1>10. Untouched'  BY <1>1, <1>3, <1>5 DEF Untouched, LetIn, Now, history
<1>11. Creating' /\ Deleting'  BY <1>1, <1>2 DEF Creating, Deleting, Now, history
<1>12. ListedIsThere'  BY <1>1, <1>3, <1>4 DEF ListedIsThere, HasMarker, history, Shape
<1>13. DeletedStaysDeleted'  BY <1>1, <1>3, <1>6 DEF DeletedStaysDeleted, history, Shape
<1> QED BY <1>7, <1>8, <1>9, <1>10, <1>11, <1>12, <1>13

LEMMA FinishDeletionStep == ASSUME IInv, NEW p \in Projects, FinishDeletion(p) PROVE IInv'
<1> USE DEF IInv
<1>1. /\ p \notin catalog /\ tombstone[p] # None
      /\ UNCHANGED <<catalog, dir, staging, history>> /\ Doing("read")
    BY DEF FinishDeletion, Tombstones
<1>2. Now = "read" /\ op.kind # "idle"  BY <1>1, StepOf
<1>3. /\ tombstone' \in [Projects -> Directory \cup {None}]
      /\ \A q \in Projects \ {p} : tombstone'[q] = tombstone[q]
      /\ tombstone'[p] # None => ~tombstone'[p].journal
  <2>1. tombstone[p] \in Directory /\ ~tombstone[p].journal  BY <1>1 DEF Shape, Sound
  <2>2. CASE tombstone' = [tombstone EXCEPT ![p] = None]  BY <2>2 DEF Shape
  <2>3. CASE tombstone' = [tombstone EXCEPT ![p].marker = "gone"]
    <3>1. [tombstone[p] EXCEPT !.marker = "gone"] \in Directory
          /\ ~[tombstone[p] EXCEPT !.marker = "gone"].journal
        BY <2>1 DEF Directory, Markers
    <3> QED BY <2>3, <3>1 DEF Shape
  <2> QED BY <2>2, <2>3 DEF FinishDeletion
<1>4. CASE UNCHANGED op
  <2>1. Shape' /\ Routes' /\ Subject' /\ Born' /\ Sound'
      BY <1>1, <1>3, <1>4 DEF Shape, Routes, Subject, Born, Sound, Now, history
  <2>2. Untouched' /\ Creating' /\ Deleting' /\ ListedIsThere' /\ DeletedStaysDeleted'
      BY <1>1, <1>2, <1>3, <1>4
      DEF Untouched, LetIn, Creating, Deleting, ListedIsThere, DeletedStaysDeleted, Now, history, Shape
  <2> QED BY <2>1, <2>2
<1>5. CASE Fail
  <2>1. Shape' /\ Born' /\ Sound' /\ Untouched' /\ ListedIsThere' /\ DeletedStaysDeleted'
      BY <1>1, <1>3, <1>5, FailIs
      DEF Fail, Shape, Born, Sound, Untouched, LetIn, ListedIsThere, DeletedStaysDeleted, history
  <2> QED BY <2>1, <1>5, FailIs DEF Fail
<1> QED BY <1>4, <1>5 DEF FinishDeletion

\* A step of a reset leaves the directory, its marker and what is no state of old.
LEMMA ResetIs ==
    ASSUME IInv, NEW p \in Projects, Reset(p)
    PROVE  /\ UNCHANGED <<catalog, tombstone, staging, history>>
           /\ dir[p] # None /\ ~IsCurrent(dir[p])
           /\ dir' \in [Projects -> Directory \cup {None}]
           /\ dir'[p] # None /\ dir'[p].marker # "gone"
           /\ dir'[p].state \in {dir[p].state, "none"}
           /\ \A q \in Projects \ {p} : dir'[q] = dir[q]
<1>1. UNCHANGED <<catalog, tombstone, staging, history>>  BY DEF Reset
<1>2. dir[p] # None /\ ~IsCurrent(dir[p]) /\ dir[p].marker # "gone"
    BY DEF Reset, IsResettable, IsCurrent, HasMarker
<1>3. dir[p] \in Directory /\ dir \in [Projects -> Directory \cup {None}]
    BY <1>2 DEF IInv, Shape
<1>4. PICK d \in Directory :
         /\ dir' = [dir EXCEPT ![p] = d]
         /\ d.marker # "gone" /\ d.state \in {dir[p].state, "none"}
  <2>1. CASE dir' = [dir EXCEPT ![p].journal = TRUE]
    <3> DEFINE d == [dir[p] EXCEPT !.journal = TRUE]
    <3>1. d \in Directory /\ d.marker = dir[p].marker /\ d.state = dir[p].state
        BY <1>3 DEF Directory
    <3> QED BY <1>2, <1>3, <2>1, <3>1
  <2>2. CASE dir' = [dir EXCEPT ![p].state = "none"]
    <3> DEFINE d == [dir[p] EXCEPT !.state = "none"]
    <3>1. d \in Directory /\ d.marker = dir[p].marker /\ d.state = "none"
        BY <1>3 DEF Directory
    <3> QED BY <1>2, <1>3, <2>2, <3>1
  <2>3. CASE dir' = [dir EXCEPT ![p].marker = "current"]
    <3> DEFINE d == [dir[p] EXCEPT !.marker = "current"]
    <3>1. d \in Directory /\ d.marker = "current" /\ d.state = dir[p].state
        BY <1>3 DEF Directory, Markers
    <3> QED BY <1>2, <1>3, <2>3, <3>1
  <2>4. CASE dir' = [dir EXCEPT ![p].journal = FALSE]
    <3> DEFINE d == [dir[p] EXCEPT !.journal = FALSE]
    <3>1. d \in Directory /\ d.marker = dir[p].marker /\ d.state = dir[p].state
        BY <1>3 DEF Directory
    <3> QED BY <1>2, <1>3, <2>4, <3>1
  <2> QED BY <2>1, <2>2, <2>3, <2>4 DEF Reset
<1> QED BY <1>1, <1>2, <1>3, <1>4, CatalogAssumption

LEMMA ResetStep ==
    ASSUME IInv, ReadyResets \/ \E p \in Projects : DescribeResets(p)
    PROVE  IInv'
<1> USE DEF IInv
<1>1. \E p \in Projects : Reset(p) /\ op' = op /\ (Now = "ready" \/ Now = "describe") /\ op.kind # "idle"
  <2>1. CASE ReadyResets
    <3>1. op.kind \in {"requireReady", "create", "delete"} /\ Now = "ready"
        BY <2>1, StepOf DEF ReadyResets
    <3>2. op.id \in Projects  BY <3>1 DEF Subject, Shape
    <3> QED BY <2>1, <3>1, <3>2 DEF ReadyResets
  <2>2. CASE \E p \in Projects : DescribeResets(p)  BY <2>2, StepOf DEF DescribeResets
  <2> QED BY <2>1, <2>2
<1>2. PICK p \in Projects : Reset(p) /\ op' = op /\ (Now = "ready" \/ Now = "describe")
    BY <1>1
<1>3. /\ UNCHANGED <<catalog, tombstone, staging, history, op>>
      /\ dir[p] # None /\ ~IsCurrent(dir[p])
      /\ dir' \in [Projects -> Directory \cup {None}]
      /\ dir'[p] # None /\ dir'[p].marker # "gone"
      /\ dir'[p].state \in {dir[p].state, "none"}
      /\ \A q \in Projects \ {p} : dir'[q] = dir[q]
    BY <1>2, ResetIs
<1>4. Shape' /\ Routes' /\ Subject' /\ Born' /\ Sound'
    BY <1>3 DEF Shape, Routes, Subject, Born, Sound, Now, history
<1>5. Untouched'  BY <1>3 DEF Untouched, LetIn, Now, history
<1>6. Creating'
  <2>1. op.id \in created /\ Now \notin {"read", "new"} /\ op.kind = "create" => op.id \in Projects
      BY DEF Shape
  <2> QED BY <1>3, <2>1 DEF Creating, Now, history, Subject, Shape
<1>7. Deleting'  BY <1>2, <1>3 DEF Deleting, Now, history
<1>8. ListedIsThere' /\ DeletedStaysDeleted'
    BY <1>3 DEF ListedIsThere, DeletedStaysDeleted, history, Shape
<1> QED BY <1>4, <1>5, <1>6, <1>7, <1>8
-----------------------------------------------------------------------------
(* The steps of a creation *)

LEMMA NewStep == ASSUME IInv, New PROVE IInv'
<1> USE DEF IInv
<1>1. PICK p \in Projects \ created :
        /\ Doing("new")
        /\ op' = [op EXCEPT !.id = p, !.todo = Tail(@)]
        /\ created' = created \cup {p}
        /\ UNCHANGED <<files, passed, open, answered, deleted>>
        /\ dir[p] = None
    BY DEF New
<1>2. op.kind = "create" /\ Now = "new"  BY <1>1, StepOf
<1>3. /\ op' \in [kind : Kinds, id : Projects \cup {None}, todo : Seq(Steps)]
      /\ op'.kind = "create" /\ op'.id = p
      /\ Routes' /\ Now' = "stage"
  <2>1. op \in [kind : Kinds, id : Projects \cup {None}, todo : Seq(Steps)]  BY DEF Shape
  <2>2. op'.kind = "create" /\ op'.id = p /\ op'.todo = Tail(op.todo)  BY <1>1, <1>2, <2>1
  <2>3. op.todo \in CreateTodo /\ Head(op.todo) = "new"  BY <1>2 DEF Routes, Now
  <2>4. Tail(op.todo) \in CreateTodo /\ Head(Tail(op.todo)) = "stage"  BY <2>3, TailOfCreate
  <2>5. op'.todo \in Seq(Steps)  BY <2>2, <2>4, Todos
  <2> QED BY <1>1, <2>1, <2>2, <2>4, <2>5 DEF Routes, Now
<1>4. p \notin catalog \cup passed \cup open \cup answered \cup deleted /\ tombstone[p] = None
    BY DEF Born
<1>5. Shape' /\ Subject' /\ Born' /\ Sound'
    BY <1>1, <1>3 DEF files, Shape, Subject, Born, Sound
<1>6. Untouched'
    BY <1>1, <1>3, <1>4 DEF files, Untouched, LetIn
<1>7. Creating' /\ Deleting'
    BY <1>1, <1>3, <1>4 DEF files, Creating, Deleting
<1>8. ListedIsThere' /\ DeletedStaysDeleted'
    BY <1>1 DEF files, ListedIsThere, DeletedStaysDeleted
<1> QED BY <1>3, <1>5, <1>6, <1>7, <1>8

LEMMA StageStep == ASSUME IInv, Stage PROVE IInv'
<1> USE DEF IInv
<1>1. /\ UNCHANGED <<catalog, dir, tombstone, history>> /\ Doing("stage")
      /\ staging' \in {staging, staging \cup {op.id}}
      /\ Done \/ Fail
    BY DEF Stage
<1>2. op.kind = "create" /\ Now = "stage"  BY <1>1, StepOf
<1>3. op.id \in Projects /\ op.id \in created  BY <1>2 DEF Subject, Shape
<1>4. Born' /\ Sound' /\ ListedIsThere' /\ DeletedStaysDeleted'
    BY <1>1 DEF history, Born, Sound, ListedIsThere, DeletedStaysDeleted
<1>5. CASE Fail
    BY <1>1, <1>3, <1>4, <1>5, FailIs DEF Fail, history, Shape, Untouched, LetIn
<1>6. CASE Done
  <2>1. /\ op' \in [kind : Kinds, id : Projects \cup {None}, todo : Seq(Steps)]
        /\ op'.kind = "create" /\ op'.id = op.id /\ Routes' /\ Now' = "publish"
      BY <1>2, <1>6, DoneIs
  <2>2. Shape' /\ Subject'  BY <1>1, <1>3, <2>1 DEF history, Shape, Subject
  <2>3. Untouched' /\ Creating' /\ Deleting'
      BY <1>1, <1>2, <2>1 DEF history, Untouched, LetIn, Creating, Deleting
  <2> QED BY <1>4, <2>1, <2>2, <2>3
<1> QED BY <1>1, <1>5, <1>6

LEMMA PublishStep == ASSUME IInv, Publish PROVE IInv'
<1> USE DEF IInv
<1>1. /\ UNCHANGED <<catalog, tombstone, history>> /\ Doing("publish")
      /\ staging' = staging \ {op.id}
      /\ \/ dir' = [dir EXCEPT ![op.id] = Blank] /\ Done
         \/ dir' = dir /\ Fail
    BY DEF Publish
<1>2. op.kind = "create" /\ Now = "publish"  BY <1>1, StepOf
<1>3. /\ op.id \in Projects /\ op.id \in created
      /\ op.id \notin answered \cup deleted \cup passed \cup open
    BY <1>2 DEF Subject, Shape, Creating
<1>4. CASE dir' = dir /\ Fail
    BY <1>1, <1>4, FailIs
    DEF Fail, history, Shape, Born, Sound, Untouched, LetIn, ListedIsThere, DeletedStaysDeleted
<1>5. CASE dir' = [dir EXCEPT ![op.id] = Blank] /\ Done
  <2>1. /\ op' \in [kind : Kinds, id : Projects \cup {None}, todo : Seq(Steps)]
        /\ op'.kind = "create" /\ op'.id = op.id /\ Routes' /\ Now' = "ready"
      BY <1>2, <1>5, DoneIs
  <2>2. /\ Blank \in Directory /\ Blank # None /\ IsCurrent(Blank)
        /\ Blank.marker = "current" /\ Blank.state = "none"
    <3>1. Blank \in Directory  BY DEF Blank, Directory, Markers
    <3> QED BY <3>1, CatalogAssumption DEF Blank, IsCurrent, HasMarker
  <2>3. /\ dir' \in [Projects -> Directory \cup {None}]
        /\ dir'[op.id] = Blank
        /\ \A q \in Projects \ {op.id} : dir'[q] = dir[q]
      BY <1>3, <1>5, <2>2 DEF Shape
  <2>4. Shape' /\ Subject' /\ Born'
      BY <1>1, <1>3, <2>1, <2>3 DEF history, Shape, Subject, Born
  <2>5. Sound'  BY <1>1, <2>2, <2>3 DEF Sound
  <2>6. Untouched'  BY <1>1, <1>2, <2>1, <2>2, <2>3 DEF history, Untouched, LetIn
  <2>7. Creating' /\ Deleting'
      BY <1>1, <1>2, <2>1, <2>2, <2>3 DEF history, Creating, Deleting
  <2>8. ListedIsThere' /\ DeletedStaysDeleted'
      BY <1>1, <1>3, <2>3 DEF history, ListedIsThere, DeletedStaysDeleted, Shape
  <2> QED BY <2>1, <2>4, <2>5, <2>6, <2>7, <2>8
<1> QED BY <1>1, <1>4, <1>5

LEMMA AddStep == ASSUME IInv, Add PROVE IInv'
<1> USE DEF IInv
<1>1. /\ UNCHANGED <<dir, tombstone, staging, history>> /\ Doing("add")
      /\ catalog' \in {catalog, catalog \cup {op.id}}
      /\ Done \/ op' = [op EXCEPT !.todo = <<"discard">>]
    BY DEF Add, Write
<1>2. op.kind = "create" /\ Now = "add"  BY <1>1, StepOf
<1>3. /\ op.id \in Projects /\ op.id \in created
      /\ op.id \notin answered \cup deleted \cup passed \cup open
      /\ dir[op.id] # None
    BY <1>2 DEF Subject, Shape, Creating
<1>4. /\ op' \in [kind : Kinds, id : Projects \cup {None}, todo : Seq(Steps)]
      /\ op'.kind = "create" /\ op'.id = op.id /\ Routes'
      /\ Now' \in {"answer", "discard"}
  <2>1. CASE Done  BY <1>2, <2>1, DoneIs
  <2>2. CASE op' = [op EXCEPT !.todo = <<"discard">>]  BY <1>2, <2>2, BackIs
  <2> QED BY <1>1, <2>1, <2>2
<1>5. Shape' /\ Subject' /\ Born' /\ Sound'
    BY <1>1, <1>3, <1>4 DEF history, Shape, Subject, Born, Sound
<1>6. Untouched' /\ Creating' /\ Deleting'
    BY <1>1, <1>2, <1>4 DEF history, Untouched, LetIn, Creating, Deleting
<1>7. ListedIsThere' /\ DeletedStaysDeleted'
    BY <1>1, <1>3 DEF history, ListedIsThere, DeletedStaysDeleted
<1> QED BY <1>4, <1>5, <1>6, <1>7

LEMMA DiscardStep == ASSUME IInv, Discard PROVE IInv'
<1> USE DEF IInv
<1>1. /\ UNCHANGED <<catalog, tombstone, staging, history>> /\ Doing("discard")
      /\ dir' = [dir EXCEPT ![op.id] = None]
      /\ Fail
    BY DEF Discard
<1>2. op.kind = "create" /\ Now = "discard"  BY <1>1, StepOf
<1>3. op.id \in Projects /\ op.id \notin answered
    BY <1>2 DEF Subject, Shape, Creating
<1>4. /\ dir' \in [Projects -> Directory \cup {None}]
      /\ dir'[op.id] = None
      /\ \A q \in Projects \ {op.id} : dir'[q] = dir[q]
    BY <1>1, <1>3 DEF Shape
<1>5. Shape' /\ Born' /\ Sound' /\ Untouched'
    BY <1>1, <1>4, FailIs DEF Fail, history, Shape, Born, Sound, Untouched, LetIn
<1>6. ListedIsThere' /\ DeletedStaysDeleted'
    BY <1>1, <1>3, <1>4 DEF history, ListedIsThere, DeletedStaysDeleted, Shape
<1> QED BY <1>1, <1>5, <1>6, FailIs DEF Fail
-----------------------------------------------------------------------------
(* The steps of a deletion *)

LEMMA QuarantineStep == ASSUME IInv, Quarantine PROVE IInv'
<1> USE DEF IInv
<1>1. UNCHANGED <<catalog, staging, history>> /\ Doing("quarantine")
    BY DEF Quarantine
<1>2. op.kind = "delete" /\ Now = "quarantine"  BY <1>1, StepOf
<1>3. /\ op.id \in Projects /\ op.id \in created
      /\ IsCurrent(dir[op.id]) /\ tombstone[op.id] = None /\ op.id \notin deleted
    BY <1>2 DEF Subject, Shape, Deleting
<1>4. CASE Fail /\ UNCHANGED <<dir, tombstone>>
    BY <1>1, <1>4, Ends DEF Fail, files, history
<1>5. CASE /\ tombstone' = [tombstone EXCEPT ![op.id] = dir[op.id]]
           /\ dir' = [dir EXCEPT ![op.id] = None]
           /\ Done
  <2>1. /\ op' \in [kind : Kinds, id : Projects \cup {None}, todo : Seq(Steps)]
        /\ op'.kind = "delete" /\ op'.id = op.id /\ Routes' /\ Now' = "remove"
      BY <1>2, <1>5, DoneIs
  <2>2. /\ dir' \in [Projects -> Directory \cup {None}]
        /\ tombstone' \in [Projects -> Directory \cup {None}]
        /\ dir'[op.id] = None /\ tombstone'[op.id] = dir[op.id]
        /\ \A q \in Projects \ {op.id} : dir'[q] = dir[q] /\ tombstone'[q] = tombstone[q]
      BY <1>3, <1>5 DEF Shape
  <2>3. HasMarker(dir[op.id]) /\ ~dir[op.id].journal  BY <1>3 DEF IsCurrent
  <2>4. Shape' /\ Subject' /\ Born'
      BY <1>1, <1>3, <2>1, <2>2 DEF history, Shape, Subject, Born
  <2>5. Sound'  BY <1>1, <2>2, <2>3 DEF Sound
  <2>6. Untouched'  BY <1>1, <1>2, <2>1, <2>2 DEF history, Untouched, LetIn
  <2>7. Creating'  BY <2>1 DEF Creating
  <2>8. Deleting'  BY <1>1, <1>3, <2>1, <2>2, <2>3 DEF history, Deleting
  <2>9. ListedIsThere'
      BY <1>1, <2>2, <2>3 DEF history, ListedIsThere, HasMarker, Shape
  <2>10. DeletedStaysDeleted'
      BY <1>1, <2>2 DEF history, DeletedStaysDeleted, Shape
  <2> QED BY <2>1, <2>4, <2>5, <2>6, <2>7, <2>8, <2>9, <2>10
<1> QED BY <1>4, <1>5 DEF Quarantine

LEMMA RemoveStep == ASSUME IInv, Remove PROVE IInv'
<1> USE DEF IInv
<1>1. /\ UNCHANGED <<dir, tombstone, staging, history>> /\ Doing("remove")
      /\ \/ catalog' = catalog \ {op.id} /\ Done
         \/ /\ catalog' \in {catalog, catalog \ {op.id}}
            /\ op' = [op EXCEPT !.todo = <<"rollback">>]
    BY DEF Remove, Write
<1>2. op.kind = "delete" /\ Now = "remove"  BY <1>1, StepOf
<1>3. /\ op.id \in created /\ op.id \notin deleted
      /\ dir[op.id] = None /\ HasMarker(tombstone[op.id])
    BY <1>2 DEF Subject, Deleting
<1>4. /\ op' \in [kind : Kinds, id : Projects \cup {None}, todo : Seq(Steps)]
      /\ op'.kind = "delete" /\ op'.id = op.id /\ Routes'
      /\ \/ Now' = "clean" /\ catalog' = catalog \ {op.id}
         \/ Now' = "rollback"
  <2>1. CASE catalog' = catalog \ {op.id} /\ Done  BY <1>2, <2>1, DoneIs
  <2>2. CASE op' = [op EXCEPT !.todo = <<"rollback">>]  BY <1>2, <2>2, BackIs
  <2> QED BY <1>1, <2>1, <2>2
<1>5. catalog' \subseteq catalog  BY <1>1
<1>6. Shape' /\ Subject' /\ Born' /\ Sound'
    BY <1>1, <1>3, <1>4, <1>5 DEF history, Shape, Subject, Born, Sound
<1>7. Untouched' /\ Creating'
    BY <1>1, <1>2, <1>4 DEF history, Untouched, LetIn, Creating
<1>8. Deleting'  BY <1>1, <1>3, <1>4 DEF history, Deleting, HasMarker
<1>9. ListedIsThere' /\ DeletedStaysDeleted'
    BY <1>1, <1>5 DEF history, ListedIsThere, DeletedStaysDeleted
<1> QED BY <1>4, <1>6, <1>7, <1>8, <1>9

LEMMA RollbackStep == ASSUME IInv, Rollback PROVE IInv'
<1> USE DEF IInv
<1>1. UNCHANGED <<catalog, staging, history>> /\ Doing("rollback") /\ Fail
    BY DEF Rollback
<1>2. op.kind = "delete" /\ Now = "rollback"  BY <1>1, StepOf
<1>3. /\ op.id \in Projects /\ op.id \notin deleted
      /\ dir[op.id] = None /\ HasMarker(tombstone[op.id])
    BY <1>2 DEF Subject, Shape, Deleting
<1>4. CASE UNCHANGED <<dir, tombstone>>
    BY <1>1, <1>4, Ends DEF Fail, files, history
<1>5. CASE /\ dir' = [dir EXCEPT ![op.id] = tombstone[op.id]]
           /\ tombstone' = [tombstone EXCEPT ![op.id] = None]
  <2>1. /\ dir' \in [Projects -> Directory \cup {None}]
        /\ tombstone' \in [Projects -> Directory \cup {None}]
        /\ dir'[op.id] = tombstone[op.id] /\ tombstone'[op.id] = None
        /\ \A q \in Projects \ {op.id} : dir'[q] = dir[q] /\ tombstone'[q] = tombstone[q]
      BY <1>3, <1>5 DEF Shape
  <2>2. tombstone[op.id] # None /\ tombstone[op.id].marker = "current" /\ ~tombstone[op.id].journal
      BY <1>3 DEF HasMarker, Sound
  <2>3. IsCurrent(dir'[op.id])  BY <2>1, <2>2 DEF IsCurrent, HasMarker
  <2>4. Shape' /\ Born' /\ Sound'
      BY <1>1, <1>3, <2>1, <2>2, FailIs DEF Fail, history, Shape, Born, Sound
  <2>5. Untouched'
      BY <1>1, <2>1, <2>3, FailIs DEF Fail, history, Untouched, LetIn
  <2>6. ListedIsThere'
      BY <1>1, <2>1, <2>2 DEF history, ListedIsThere, HasMarker, Shape
  <2>7. DeletedStaysDeleted'
      BY <1>1, <1>3, <2>1 DEF history, DeletedStaysDeleted, Shape
  <2> QED BY <1>1, <2>4, <2>5, <2>6, <2>7, FailIs DEF Fail
<1> QED BY <1>4, <1>5 DEF Rollback

LEMMA CleanStep == ASSUME IInv, Clean PROVE IInv'
<1> USE DEF IInv
<1>1. UNCHANGED <<catalog, dir, staging, history>> /\ Doing("clean")
    BY DEF Clean
<1>2. op.kind = "delete" /\ Now = "clean"  BY <1>1, StepOf
<1>3. /\ op.id \in Projects /\ op.id \in created /\ op.id \notin catalog \cup deleted
      /\ dir[op.id] = None /\ tombstone[op.id] # None
    BY <1>2 DEF Subject, Shape, Deleting
<1>4. /\ op' \in [kind : Kinds, id : Projects \cup {None}, todo : Seq(Steps)]
      /\ op'.kind = "delete" /\ op'.id = op.id /\ Routes' /\ Now' \in {"clean", "answer"}
  <2>1. CASE Done  BY <1>2, <2>1, DoneIs
  <2>2. CASE op' = op  BY <1>2, <2>2 DEF Shape, Routes, Now
  <2> QED BY <2>1, <2>2 DEF Clean
<1>5. /\ tombstone' \in [Projects -> Directory \cup {None}]
      /\ \A q \in Projects \ {op.id} : tombstone'[q] = tombstone[q]
      /\ tombstone'[op.id] # None => ~tombstone'[op.id].journal
      /\ ~Done => tombstone'[op.id] # None
  <2>1. CASE tombstone' = tombstone  BY <1>3, <2>1 DEF Shape, Sound
  <2>2. CASE tombstone' = [tombstone EXCEPT ![op.id] = None] /\ Done  BY <1>3, <2>2 DEF Shape
  <2>3. CASE tombstone' = [tombstone EXCEPT ![op.id].marker = "gone"]
    <3>1. tombstone[op.id] \in Directory /\ ~tombstone[op.id].journal
        BY <1>3 DEF Shape, Sound
    <3>2. [tombstone[op.id] EXCEPT !.marker = "gone"] \in Directory
          /\ ~[tombstone[op.id] EXCEPT !.marker = "gone"].journal
        BY <3>1 DEF Directory, Markers
    <3> QED BY <1>3, <2>3, <3>2, CatalogAssumption DEF Shape
  <2> QED BY <2>1, <2>2, <2>3 DEF Clean
<1>6. Shape' /\ Subject' /\ Born' /\ Sound'
    BY <1>1, <1>3, <1>4, <1>5 DEF history, Shape, Subject, Born, Sound
<1>7. Untouched' /\ Creating'
    BY <1>1, <1>2, <1>4 DEF history, Untouched, LetIn, Creating
<1>8. Deleting'
  <2>1. Now' = "clean" => tombstone'[op.id] # None
    <3>1. CASE Done  BY <1>2, <3>1, DoneIs
    <3> QED BY <1>5, <3>1
  <2> QED BY <1>1, <1>3, <1>4, <2>1 DEF history, Deleting
<1>9. ListedIsThere' /\ DeletedStaysDeleted'
    BY <1>1, <1>3, <1>5 DEF history, ListedIsThere, DeletedStaysDeleted, Shape
<1> QED BY <1>4, <1>6, <1>7, <1>8, <1>9
-----------------------------------------------------------------------------
(* Replies, and work in the pages *)

LEMMA AnswerStep == ASSUME IInv, Answer PROVE IInv'
<1> USE DEF IInv
<1>1. UNCHANGED <<files, created>> /\ Doing("answer") /\ op' = NoOp  BY DEF Answer
<1>2. op.kind # "idle" /\ Now = "answer"  BY <1>1, StepOf
<1>3. /\ passed' = IF op.kind = "requireReady" THEN passed \cup {op.id} ELSE passed
      /\ open' = IF op.kind = "markOpened" THEN open \cup {op.id} ELSE open
      /\ answered' = IF op.kind = "create" THEN answered \cup {op.id} ELSE answered
      /\ deleted' = IF op.kind = "delete" THEN deleted \cup {op.id} ELSE deleted
    BY DEF Answer
<1>4. op.kind \in {"requireReady", "markOpened", "create", "delete"} => op.id \in created /\ op.id \in Projects
    BY <1>2 DEF Subject, Shape
<1>5. Shape' /\ Born' /\ Sound'
    BY <1>1, <1>3, <1>4, FailIs DEF files, Shape, Born, Sound
<1>6. Untouched'
    BY <1>1, <1>2, <1>3, <1>4, FailIs DEF files, Untouched, LetIn
<1>7. ListedIsThere'
    BY <1>1, <1>2, <1>3, <1>4 DEF files, ListedIsThere, Creating, Sound
<1>8. DeletedStaysDeleted'
    BY <1>1, <1>2, <1>3, <1>4 DEF files, DeletedStaysDeleted, Deleting
<1> QED BY <1>1, <1>5, <1>6, <1>7, <1>8, FailIs

LEMMA WorkStep == ASSUME IInv, NEW p \in Projects, Work(p) PROVE IInv'
<1> USE DEF IInv
<1>1. /\ p \in open /\ dir[p] # None
      /\ dir' = [dir EXCEPT ![p].state = "work"]
      /\ UNCHANGED <<catalog, tombstone, staging, op, history>>
    BY DEF Work
<1> DEFINE d == [dir[p] EXCEPT !.state = "work"]
<1>2. dir[p] \in Directory /\ dir[p].marker = "current" /\ ~dir[p].journal
  <2>1. IsCurrent(dir[p])  BY <1>1 DEF Untouched, LetIn
  <2> QED BY <1>1, <2>1 DEF IsCurrent, HasMarker, Shape
<1>3. d \in Directory /\ d.marker = "current" /\ ~d.journal
    BY <1>2 DEF Directory
<1>4. IsCurrent(d) /\ d # None  BY <1>3, CatalogAssumption DEF IsCurrent, HasMarker
<1>5. /\ dir' \in [Projects -> Directory \cup {None}]
      /\ dir'[p] = d
      /\ \A q \in Projects \ {p} : dir'[q] = dir[q]
    BY <1>1, <1>3 DEF Shape
<1> HIDE DEF d
<1>6. Shape' /\ Routes' /\ Subject' /\ Born' /\ Sound'
    BY <1>1, <1>3, <1>5 DEF history, Shape, Routes, Subject, Born, Sound, Now
<1>7. Untouched'  BY <1>1, <1>4, <1>5 DEF history, Untouched, LetIn, Now
<1>8. Creating' /\ Deleting'
    BY <1>1, <1>4, <1>5 DEF history, Creating, Deleting, Now, Subject, Shape
<1>9. ListedIsThere' /\ DeletedStaysDeleted'
    BY <1>1, <1>3, <1>4, <1>5 DEF history, ListedIsThere, DeletedStaysDeleted, Shape
<1> QED BY <1>6, <1>7, <1>8, <1>9
-----------------------------------------------------------------------------
(* The invariant *)

LEMMA Initially == Init => IInv
<1> SUFFICES ASSUME Init PROVE IInv  OBVIOUS
<1>1. PICK old \in SUBSET Projects :
        /\ catalog = old
        /\ dir = [p \in Projects |-> IF p \in old THEN OldProject ELSE None]
        /\ tombstone = [p \in Projects |-> None]
        /\ staging = {} /\ op = NoOp /\ passed = {} /\ open = {}
        /\ created = old /\ answered = old /\ deleted = {}
    BY DEF Init
<1>2. /\ OldProject \in Directory
      /\ OldProject.marker = "schema1" /\ OldProject.state = "old"
    BY DEF OldProject, Directory, Markers
<1>3. NoOp \in [kind : Kinds, id : Projects \cup {None}, todo : Seq(Steps)] /\ NoOp.kind = "idle" /\ NoOp.id = None
    BY DEF NoOp
<1>4. Shape  BY <1>1, <1>2, <1>3 DEF Shape
<1>5. Routes /\ Subject /\ Creating /\ Deleting
    BY <1>1, <1>3 DEF Routes, Subject, Creating, Deleting
<1>6. Born /\ Sound  BY <1>1, <1>2 DEF Born, Sound
<1>7. Untouched
    BY <1>1, <1>2, <1>3 DEF Untouched, LetIn
<1>8. ListedIsThere /\ DeletedStaysDeleted
    BY <1>1, <1>2, CatalogAssumption DEF ListedIsThere, DeletedStaysDeleted
<1> QED BY <1>4, <1>5, <1>6, <1>7, <1>8 DEF IInv

LEMMA Stuttering == ASSUME IInv, UNCHANGED vars PROVE IInv'
BY DEF IInv, vars, Shape, Routes, Subject, Born, Sound, Untouched, LetIn, Creating, Deleting,
       ListedIsThere, DeletedStaysDeleted, Now

LEMMA Stepwise == IInv /\ [Next]_vars => IInv'
<1> SUFFICES ASSUME IInv, [Next]_vars PROVE IInv'  OBVIOUS
<1>1. CASE List \/ Create \/ \E p \in Projects : RequireReady(p) \/ MarkOpened(p) \/ Delete(p)
    BY <1>1, BeginStep
<1>2. CASE \E p \in Projects : Work(p)  BY <1>2, WorkStep
<1>3. CASE Settle  BY <1>3, RestoreStep, FinishDeletionStep, ResetStep DEF Settle
<1>4. CASE ReadFails \/ Read  BY <1>4, ReadStep
<1>5. CASE Describe \/ Ready \/ Free \/ Touch  BY <1>5, PassStep
<1>6. CASE ReadyResets  BY <1>6, ResetStep
<1>7. CASE NotReady  BY <1>7, NotReadyStep
<1>8. CASE New \/ Stage \/ Publish \/ Add \/ Discard
    BY <1>8, NewStep, StageStep, PublishStep, AddStep, DiscardStep
<1>9. CASE Quarantine \/ Remove \/ Rollback \/ Clean
    BY <1>9, QuarantineStep, RemoveStep, RollbackStep, CleanStep
<1>10. CASE Answer  BY <1>10, AnswerStep
<1>11. CASE Crash  BY <1>11, CrashStep
<1>12. CASE UNCHANGED vars  BY <1>12, Stuttering
<1> QED BY <1>1, <1>2, <1>3, <1>4, <1>5, <1>6, <1>7, <1>8, <1>9, <1>10, <1>11, <1>12 DEF Next, Step

LEMMA Invariance == Spec => []IInv
<1> QED BY Initially, Stepwise, PTL DEF Spec
-----------------------------------------------------------------------------
(* Results *)

\* The registry, the directories and the operation keep their shape.
THEOREM TypeCorrect == Spec => []TypeOK
<1>1. IInv => TypeOK  BY DEF IInv, Shape, TypeOK
<1> QED BY <1>1, Invariance, PTL

\* For any number of projects, and kills between any two file operations: a project
\* that was created and is listed has its directory in place, or in a tombstone that
\* the next read of the catalog moves back.
THEOREM ListedIsKept == Spec => []ListedIsThere
<1>1. IInv => ListedIsThere  BY DEF IInv
<1> QED BY <1>1, Invariance, PTL

\* No recovery and no older operation brings back a project whose deletion was answered.
THEOREM DeletionsStand == Spec => []DeletedStaysDeleted
<1>1. IInv => DeletedStaysDeleted  BY DEF IInv
<1> QED BY <1>1, Invariance, PTL

\* Where a directory may disappear, be moved, or lose its state.
LEMMA NoWorkIsLost ==
    ASSUME IInv, [Next]_vars, NEW p \in Projects, HasWork(p), p \in catalog
    PROVE  HasWork(p)'
<1> USE DEF IInv
<1>1. CASE dir'[p] = dir[p] /\ tombstone'[p] = tombstone[p]  BY <1>1 DEF HasWork
<1>2. ASSUME NEW q \in Projects, Restore(q) PROVE HasWork(p)'
  <2>1. CASE q = p  BY <1>2, <2>1 DEF Restore, Tombstones, Shape, HasWork
  <2>2. CASE q # p  BY <1>2, <2>2, <1>1 DEF Restore, Shape
  <2> QED BY <2>1, <2>2
<1>3. ASSUME NEW q \in Projects, FinishDeletion(q) PROVE HasWork(p)'
  <2>1. q # p  BY <1>3 DEF FinishDeletion
  <2> QED BY <1>1, <1>3, <2>1 DEF FinishDeletion, Shape
<1>4. CASE ReadyResets \/ \E q \in Projects : DescribeResets(q)
  <2>1. PICK q \in Projects : Reset(q)
      BY <1>4, StepOf DEF ReadyResets, DescribeResets, Subject, Shape
  <2>2. /\ UNCHANGED tombstone
        /\ dir[q] # None /\ ~IsCurrent(dir[q])
        /\ \A r \in Projects \ {q} : dir'[r] = dir[r]
      BY <2>1, ResetIs
  <2>3. CASE q = p
    <3>1. dir[p].state # "work"  BY <2>2, <2>3 DEF Untouched
    <3> QED BY <2>2, <3>1 DEF HasWork
  <2>4. CASE q # p  BY <1>1, <2>2, <2>4
  <2> QED BY <2>3, <2>4
<1>5. CASE Publish \/ Discard
  <2>1. op.kind = "create" /\ Now \in {"publish", "discard"}
      BY <1>5, StepOf DEF Publish, Discard
  <2>2. op.id \in Projects /\ (dir[op.id] # None => dir[op.id].state # "work") /\ tombstone[op.id] = None
      BY <2>1 DEF Creating, Subject, Shape
  <2>3. tombstone' = tombstone /\ \A r \in Projects \ {op.id} : dir'[r] = dir[r]
      BY <1>5, <2>2 DEF Publish, Discard, Shape
  <2>4. op.id # p  BY <2>2 DEF HasWork
  <2> QED BY <1>1, <2>3, <2>4
<1>6. CASE Quarantine
  <2>1. op.id \in Projects /\ tombstone[op.id] = None
      BY <1>6, StepOf DEF Quarantine, Deleting, Subject, Shape
  <2>2. CASE op.id = p  BY <1>6, <2>1, <2>2 DEF Quarantine, Shape, HasWork
  <2>3. CASE op.id # p  BY <1>1, <1>6, <2>1, <2>3 DEF Quarantine, Shape
  <2> QED BY <2>2, <2>3
<1>7. CASE Rollback
  <2>1. op.id \in Projects /\ dir[op.id] = None
      BY <1>7, StepOf DEF Rollback, Deleting, Subject, Shape
  <2>2. CASE op.id = p  BY <1>7, <2>1, <2>2 DEF Rollback, Shape, HasWork
  <2>3. CASE op.id # p  BY <1>1, <1>7, <2>1, <2>3 DEF Rollback, Shape
  <2> QED BY <2>2, <2>3
<1>8. CASE Clean
  <2>1. op.id \in Projects /\ op.id \notin catalog
      BY <1>8, StepOf DEF Clean, Deleting, Subject, Shape
  <2> QED BY <1>1, <1>8, <2>1 DEF Clean, Shape
<1>9. ASSUME NEW q \in Projects, Work(q) PROVE HasWork(p)'
  <2>1. CASE q = p
    <3> DEFINE d == [dir[p] EXCEPT !.state = "work"]
    <3>1. d \in Directory /\ d.state = "work"
        BY <1>9, <2>1 DEF Work, Shape, Directory
    <3>2. dir'[p] = d  BY <1>9, <2>1 DEF Work, Shape
    <3> QED BY <3>1, <3>2, CatalogAssumption DEF HasWork
  <2>2. CASE q # p  BY <1>1, <1>9, <2>2 DEF Work, Shape
  <2> QED BY <2>1, <2>2
<1>10. CASE UNCHANGED <<dir, tombstone>>  BY <1>1, <1>10
<1>11. \/ \E q \in Projects : Restore(q) \/ FinishDeletion(q) \/ DescribeResets(q) \/ Work(q)
       \/ ReadyResets \/ Publish \/ Discard \/ Quarantine \/ Rollback \/ Clean
       \/ UNCHANGED <<dir, tombstone>>
    BY DEF Next, Step, Settle, List, Create, RequireReady, MarkOpened, Delete, Begin, ReadFails, Read,
       Describe, Ready, NotReady, New, Stage, Add, Free, Remove, Touch, Answer, Crash, vars, files
<1> QED BY <1>2, <1>3, <1>4, <1>5, <1>6, <1>7, <1>8, <1>9, <1>10, <1>11

\* Work done in a page is lost to a deletion that the catalog holds, never to a reset,
\* a rollback or a restore.
THEOREM WorkSurvives == Spec => WorkKept
<1>1. IInv /\ [Next]_vars => [\A p \in Projects : HasWork(p) /\ ~HasWork(p)' => p \notin catalog]_vars
    BY NoWorkIsLost
<1> QED BY <1>1, Invariance, PTL DEF Spec, WorkKept
-----------------------------------------------------------------------------
(***************************************************************************)
(* Theorems about ProjectLease, for any number of daemons, requests and     *)
(* attempts.  What happens inside the daemons (the fence, the count of      *)
(* operations, the requests) and what happens to the lock file need         *)
(* separate invariants: neither rests on the other.                         *)
(***************************************************************************)

inside == <<fence, active, req>>
outside == <<status, lock, recovery, frozen, pc, tries, release, gap>>

InsideType ==
    /\ fence \in [Daemons -> BOOLEAN]
    /\ active \in [Daemons -> Nat]
    /\ req \in [Requests -> [at : Daemons \cup {None}, kind : RequestKinds, pc : RequestPcs]]

OutsideType ==
    /\ status \in [Daemons -> {"off", "up", "closing", "dead"}]
    /\ lock \in Daemons \cup {None}
    /\ recovery \in Daemons \cup {None}
    /\ frozen \in BOOLEAN
    /\ pc \in [Daemons -> AcquirePcs]
    /\ tries \in [Daemons -> 0..Attempts]
    /\ release \in [Daemons -> {"none", "read", "remove"}]
    /\ gap \in BOOLEAN

Running(d) == {r \in Requests : req[r].at = d /\ req[r].pc = "running"}

\* The counter of operations counts them.
Counted == \A d \in Daemons : active[d] = Cardinality(Running(d))

\* Only maintenance drains, is granted and releases; a request that is under way
\* is at a daemon.
Placed ==
    \A r \in Requests :
        /\ req[r].pc # "idle" => req[r].at \in Daemons
        /\ req[r].pc \in {"draining", "granted", "releasing"} => req[r].kind = "maintenance"

\* Maintenance has its fence up from its arrival on, and is alone behind it.
Maintains(m) == req[m].kind = "maintenance" /\ req[m].pc # "idle"
Fenced == \A m \in Requests : Maintains(m) => fence[req[m].at]
Single ==
    \A m, r \in Requests : Maintains(m) /\ Maintains(r) /\ req[m].at = req[r].at => m = r

Quiet ==
    \A m, r \in Requests :
        req[m].pc \in {"granted", "releasing"} /\ req[r].at = req[m].at => req[r].pc # "running"

InsideInv == InsideType /\ Counted /\ Placed /\ Fenced /\ Single /\ Quiet

\* The places at which a daemon has linked its lock file and not yet removed it.
OwnPcs == {"checkRecovery", "checkFrozen", "backOff", "retreat", "unlinkAgain", "unlink", "held"}
RecoveryPcs == {"reread", "remove", "rmdir"}

\* Only living processes do anything, and whoever linked the lock has started.
Living ==
    /\ \A d \in Daemons : pc[d] # "none" \/ release[d] # "none" => Alive(d)
    /\ lock # None => status[lock] # "off"

\* The exclusive mkdir: one recovery at a time.
OneRecovery == \A d \in Daemons : pc[d] \in RecoveryPcs => recovery = d

\* A daemon with a lease, or on the way to one or from one, has its own lock file there.
Owning ==
    \A d \in Daemons :
        /\ pc[d] \in OwnPcs \/ release[d] # "none" => lock = d
        /\ release[d] # "none" => pc[d] \notin OwnPcs

\* What a recovery is about to remove is the lock of a dead daemon.
Stale == \A d \in Daemons : pc[d] = "remove" => lock # None /\ ~Alive(lock)

OutsideInv == OutsideType /\ Living /\ OneRecovery /\ (gap \/ (Owning /\ Stale))
-----------------------------------------------------------------------------
(* Inside a daemon *)

USE DEF RequestKinds, RequestPcs

\* The requests under way at a daemon are finitely many.
LEMMA RunningIsFinite ==
    ASSUME NEW d
    PROVE  /\ IsFiniteSet(Running(d))
           /\ Cardinality(Running(d)) \in Nat
           /\ Cardinality(Running(d)) = 0 <=> Running(d) = {}
<1>1. Running(d) \in SUBSET Requests  BY DEF Running
<1>2. IsFiniteSet(Running(d))  BY <1>1, FS_Subset, LeaseAssumption
<1> QED BY <1>2, FS_CardinalityType, FS_EmptySet

\* A settled acquisition refuses those that await it.
LEMMA RefuseInside ==
    ASSUME InsideInv, NEW d \in Daemons, NEW R \in SUBSET Requests,
           \A r \in R : req[r].at = d /\ req[r].pc \in {"asked", "waiting"},
           Refuse(d, R)
    PROVE  InsideInv'
<1> USE DEF InsideInv
<1>1. InsideType'  BY LeaseAssumption DEF InsideType, Refuse, Idle
<1>2. \A r \in Requests : req'[r] = IF r \in R THEN Idle ELSE req[r]  BY DEF Refuse
<1>3. \A e \in Daemons : Running(e)' = Running(e)
    BY <1>2 DEF Running, Idle
<1>4. Counted'  BY <1>3 DEF Counted, Refuse
<1>5. Placed'  BY <1>2 DEF Placed, Idle
<1>6. \A m \in Requests : Maintains(m)' => Maintains(m) /\ m \notin R /\ req'[m] = req[m]
    BY <1>2 DEF Maintains, Idle
<1>7. Fenced'
  <2> SUFFICES ASSUME NEW m \in Requests, Maintains(m)' PROVE fence'[req'[m].at]
      BY DEF Fenced
  <2>1. Maintains(m) /\ m \notin R /\ req'[m] = req[m] /\ req[m].at \in Daemons
      BY <1>6 DEF Placed, Maintains
  <2>2. CASE req[m].at # d  BY <2>1, <2>2 DEF Fenced, Refuse, InsideType
  <2>3. CASE req[m].at = d
    <3>1. \A r \in R : req[r].kind # "maintenance"
        BY <2>1, <2>3 DEF Single, Maintains
    <3> QED BY <2>1, <2>3, <3>1 DEF Fenced, Refuse, InsideType
  <2> QED BY <2>2, <2>3
<1>8. Single'  BY <1>6 DEF Single
<1>9. Quiet'  BY <1>2 DEF Quiet, Idle
<1> QED BY <1>1, <1>4, <1>5, <1>7, <1>8, <1>9

\* What becomes of a request that awaited the lease.
LEMMA AfterLeaseIs ==
    ASSUME InsideType, NEW d \in Daemons, NEW r \in Requests,
           req[r].at = d, req[r].pc \in {"asked", "waiting"}
    PROVE  /\ AfterLease(d, r) \in [at : Daemons \cup {None}, kind : RequestKinds, pc : RequestPcs]
           /\ req[r].kind = "operation" /\ fence[d] => AfterLease(d, r) = Idle
           /\ req[r].kind = "maintenance" \/ ~fence[d] =>
                 AfterLease(d, r).at = d /\ AfterLease(d, r).kind = req[r].kind
           /\ req[r].kind = "operation" /\ ~fence[d] => AfterLease(d, r).pc = "running"
           /\ req[r].kind = "maintenance" =>
                 /\ AfterLease(d, r).pc \in {"granted", "draining"}
                 /\ AfterLease(d, r).pc = "granted" => active[d] = 0
<1>1. req[r] \in [at : Daemons \cup {None}, kind : RequestKinds, pc : RequestPcs]
    BY DEF InsideType
<1>2. \A p \in RequestPcs : LET q == [req[r] EXCEPT !.pc = p] IN
         q.at = d /\ q.kind = req[r].kind /\ q.pc = p
         /\ q \in [at : Daemons \cup {None}, kind : RequestKinds, pc : RequestPcs]
    BY <1>1
<1>3. CASE req[r].kind = "operation" /\ fence[d]
    BY <1>3 DEF AfterLease, Idle
<1>4. CASE req[r].kind = "operation" /\ ~fence[d]
    <2>1. AfterLease(d, r) = [req[r] EXCEPT !.pc = "running"]  BY <1>4 DEF AfterLease
    <2> QED BY <1>2, <1>4, <2>1
<1>5. CASE req[r].kind = "maintenance"
    <2>1. AfterLease(d, r) = [req[r] EXCEPT !.pc = IF active[d] = 0 THEN "granted" ELSE "draining"]
        BY <1>5 DEF AfterLease
    <2>2. CASE active[d] = 0  BY <1>2, <1>5, <2>1, <2>2
    <2>3. CASE active[d] # 0  BY <1>2, <1>5, <2>1, <2>3
    <2> QED BY <2>2, <2>3
<1> QED BY <1>1, <1>3, <1>4, <1>5

\* A lease lets those in that await it.
LEMMA AdmitInside ==
    ASSUME InsideInv, NEW d \in Daemons, NEW R \in SUBSET Requests,
           \A r \in R : req[r].at = d /\ req[r].pc \in {"asked", "waiting"},
           Admit(d, R)
    PROVE  InsideInv'
<1> USE DEF InsideInv
<1>1. Admitted(d, R) \in SUBSET Requests /\ IsFiniteSet(Admitted(d, R))
      /\ Cardinality(Admitted(d, R)) \in Nat
    <2>1. Admitted(d, R) \in SUBSET Requests  BY DEF Admitted
    <2> QED BY <2>1, FS_Subset, FS_CardinalityType, LeaseAssumption
<1>2. /\ \A r \in Requests \ R : req'[r] = req[r]
      /\ \A r \in R : req'[r] = AfterLease(d, r)
      /\ fence' = fence
    BY DEF Admit
<1>3. \A r \in R :
         /\ req'[r] \in [at : Daemons \cup {None}, kind : RequestKinds, pc : RequestPcs]
         /\ req[r].kind = "operation" /\ fence[d] => req'[r] = Idle
         /\ req[r].kind = "maintenance" \/ ~fence[d] => req'[r].at = d /\ req'[r].kind = req[r].kind
         /\ req[r].kind = "operation" /\ ~fence[d] => req'[r].pc = "running"
         /\ req[r].kind = "maintenance" =>
               req'[r].pc \in {"granted", "draining"} /\ (req'[r].pc = "granted" => active[d] = 0)
    BY <1>2, AfterLeaseIs
<1>4. \A r \in Requests : req[r].kind \in RequestKinds  BY DEF InsideType
<1>5. Idle.at = None /\ Idle.kind = "operation" /\ Idle.pc = "idle" /\ None \notin Daemons
    BY LeaseAssumption DEF Idle
<1>6. InsideType'
    <2>1. req' \in [Requests -> [at : Daemons \cup {None}, kind : RequestKinds, pc : RequestPcs]]
        BY <1>2, <1>3 DEF InsideType, Admit
    <2>2. active' \in [Daemons -> Nat]  BY <1>1 DEF InsideType, Admit
    <2> QED BY <2>1, <2>2 DEF InsideType, Admit
<1>7. \A e \in Daemons : Running(e)' = IF e = d THEN Running(d) \cup Admitted(d, R) ELSE Running(e)
    <2> SUFFICES ASSUME NEW e \in Daemons, NEW r \in Requests
                 PROVE  r \in Running(e)' <=>
                          r \in Running(e) \/ (e = d /\ r \in Admitted(d, R))
        BY <1>1 DEF Running
    <2>1. CASE r \notin R  BY <1>2, <2>1 DEF Running, Admitted
    <2>2. CASE r \in R  BY <1>3, <1>4, <1>5, <2>2 DEF Running, Admitted
    <2> QED BY <2>1, <2>2
<1>8. Counted'
    <2>1. Running(d) \cap Admitted(d, R) = {}  BY DEF Running, Admitted
    <2>2. Cardinality(Running(d) \cap Admitted(d, R)) = 0  BY <2>1, FS_EmptySet
    <2>3. Cardinality(Running(d) \cup Admitted(d, R))
            = Cardinality(Running(d)) + Cardinality(Admitted(d, R)) - 0
        BY <1>1, <2>2, RunningIsFinite, FS_Union
    <2>4. \A e \in Daemons : active'[e] =
             IF e = d THEN active[d] + Cardinality(Admitted(d, R)) ELSE active[e]
        BY DEF Admit, InsideType
    <2>5. Cardinality(Running(d)) + Cardinality(Admitted(d, R)) - 0
            = Cardinality(Running(d)) + Cardinality(Admitted(d, R))
        BY <1>1, RunningIsFinite
    <2> SUFFICES ASSUME NEW e \in Daemons PROVE active'[e] = Cardinality(Running(e)')
        BY DEF Counted
    <2>6. CASE e = d  BY <1>7, <2>3, <2>4, <2>5, <2>6 DEF Counted
    <2>7. CASE e # d  BY <1>7, <2>4, <2>7 DEF Counted
    <2> QED BY <2>6, <2>7
<1>9. Placed'
    <2> SUFFICES ASSUME NEW r \in Requests
                 PROVE  /\ req'[r].pc # "idle" => req'[r].at \in Daemons
                        /\ req'[r].pc \in {"draining", "granted", "releasing"} =>
                             req'[r].kind = "maintenance"
        BY DEF Placed
    <2>1. CASE r \notin R  BY <1>2, <2>1 DEF Placed
    <2>2. CASE r \in R  BY <1>3, <1>4, <1>5, <2>2
    <2> QED BY <2>1, <2>2
<1>10. \A m \in Requests : Maintains(m)' => Maintains(m) /\ req'[m].at = req[m].at
    <2> SUFFICES ASSUME NEW m \in Requests, Maintains(m)'
                 PROVE  Maintains(m) /\ req'[m].at = req[m].at
        OBVIOUS
    <2>1. CASE m \notin R  BY <1>2, <2>1 DEF Maintains
    <2>2. CASE m \in R  BY <1>3, <1>4, <1>5, <2>2 DEF Maintains
    <2> QED BY <2>1, <2>2
<1>11. Fenced'  BY <1>2, <1>10 DEF Fenced
<1>12. Single'  BY <1>10 DEF Single
<1>13. Quiet'
  <2> SUFFICES ASSUME NEW m \in Requests, NEW r \in Requests,
                      req'[m].pc \in {"granted", "releasing"}, req'[r].at = req'[m].at,
                      req'[r].pc = "running"
               PROVE  FALSE
      BY DEF Quiet
  <2>1. CASE m \notin R /\ r \notin R  BY <1>2, <2>1 DEF Quiet
  <2>2. CASE m \in R
    <3>1. req[m].kind = "maintenance" /\ req'[m].at = d /\ active[d] = 0
        BY <1>3, <1>4, <1>5, <2>2
    <3>2. fence[d]  BY <2>2, <3>1 DEF Fenced, Maintains
    <3>3. r \notin R  BY <1>3, <1>4, <1>5, <3>2
    <3>4. r \in Running(d)  BY <1>2, <3>1, <3>3 DEF Running
    <3> QED BY <3>1, <3>4, RunningIsFinite DEF Counted
  <2>3. CASE m \notin R /\ r \in R
    <3>1. req[m].pc \in {"granted", "releasing"} /\ req[m].at = req'[r].at  BY <1>2, <2>3
    <3>2. ~fence[d] /\ req'[r].at = d
        BY <1>3, <1>4, <1>5, <2>3
    <3> QED BY <3>1, <3>2 DEF Placed, Fenced, Maintains
  <2> QED BY <2>1, <2>2, <2>3
<1> QED BY <1>6, <1>8, <1>9, <1>11, <1>12, <1>13

\* The acquisition reaches the requests only by refusing or admitting those that await it.
LEMMA AcquireInside ==
    ASSUME NEW d \in Daemons, AcquireStep(d)
    PROVE  Refuse(d, Waiting(d)) \/ Admit(d, Waiting(d)) \/ UNCHANGED inside
<1>1. CASE Enter(d) \/ Attempt(d) \/ Link(d) \/ CheckRecovery(d) \/ CheckFrozen(d)
    BY <1>1 DEF Enter, Attempt, Link, CheckRecovery, CheckFrozen, GiveUp, Goto, local, inside
<1>2. CASE BackOff(d) \/ Retreat(d) \/ UnlinkAgain(d) \/ Unlink(d)
    BY <1>2 DEF BackOff, Retreat, UnlinkAgain, Unlink, GiveUp, Goto, local, inside
<1>3. CASE ReadOwner(d) \/ Exists(d)
    BY <1>3 DEF ReadOwner, Exists, GiveUp, Goto, local, inside
<1>4. CASE BeginRecovery(d) \/ ReadAgain(d) \/ RemoveStale(d) \/ EndRecovery(d)
    BY <1>4 DEF BeginRecovery, ReadAgain, RemoveStale, EndRecovery, Goto, local, inside
<1> QED BY <1>1, <1>2, <1>3, <1>4 DEF AcquireStep

LEMMA InsideInit == ASSUME LeaseInit PROVE InsideInv
<1>1. InsideType  BY DEF LeaseInit, InsideType, Idle
<1>2. \A r \in Requests : req[r].pc = "idle"  BY DEF LeaseInit, Idle
<1>3. \A d \in Daemons : Running(d) = {}  BY <1>2 DEF Running
<1>4. Counted  BY <1>3, FS_EmptySet DEF Counted, LeaseInit
<1> QED BY <1>1, <1>2, <1>4 DEF InsideInv, Placed, Fenced, Single, Maintains, Quiet

\* A request that has no operation running changes, and the counters stay.
LEMMA CountedSame ==
    ASSUME InsideInv, UNCHANGED active,
           \A r \in Requests : req'[r].pc = "running" \/ req[r].pc = "running" => req'[r] = req[r]
    PROVE  Counted'
<1>1. \A e \in Daemons : Running(e)' = Running(e)  BY DEF Running
<1> QED BY <1>1 DEF Counted, InsideInv

LEMMA ArriveInside ==
    ASSUME InsideInv, NEW r \in Requests, NEW d \in Daemons, NEW kind \in RequestKinds, Arrive(r, d, kind)
    PROVE  InsideInv'
<1> USE DEF InsideInv
<1>1. /\ req'[r].at = d /\ req'[r].kind = kind /\ req'[r].pc = "asked"
      /\ \A q \in Requests \ {r} : req'[q] = req[q]
      /\ req[r].pc = "idle" /\ ~fence[d] /\ UNCHANGED active
      /\ \A e \in Daemons : fence'[e] = IF e = d THEN kind = "maintenance" ELSE fence[e]
    BY DEF Arrive, InsideType
<1>2. InsideType'  BY DEF Arrive, InsideType
<1>3. Counted'
    <2>1. \A q \in Requests : req'[q].pc = "running" \/ req[q].pc = "running" => req'[q] = req[q]
        BY <1>1
    <2> QED BY <1>1, <2>1, CountedSame
<1>4. Placed'  BY <1>1 DEF Placed
<1>5. \A m \in Requests : m # r /\ Maintains(m)' =>
         Maintains(m) /\ req'[m] = req[m] /\ req[m].at \in Daemons /\ req[m].at # d
    BY <1>1 DEF Maintains, Placed, Fenced
<1>6. Fenced'
    <2> SUFFICES ASSUME NEW m \in Requests, Maintains(m)' PROVE fence'[req'[m].at]
        BY DEF Fenced
    <2>1. CASE m = r  BY <1>1, <2>1 DEF Maintains
    <2>2. CASE m # r  BY <1>1, <1>5, <2>2 DEF Fenced
    <2> QED BY <2>1, <2>2
<1>7. Single'
    <2> SUFFICES ASSUME NEW m \in Requests, NEW q \in Requests, Maintains(m)', Maintains(q)',
                        req'[m].at = req'[q].at, m # q
                 PROVE  FALSE
        BY DEF Single
    <2>1. CASE m # r /\ q # r  BY <1>5, <2>1 DEF Single
    <2>2. CASE m = r \/ q = r  BY <1>1, <1>5, <2>2
    <2> QED BY <2>1, <2>2
<1>8. Quiet'
    <2> SUFFICES ASSUME NEW m \in Requests, NEW q \in Requests,
                        req'[m].pc \in {"granted", "releasing"}, req'[q].at = req'[m].at,
                        req'[q].pc = "running"
                 PROVE  FALSE
        BY DEF Quiet
    <2> QED BY <1>1 DEF Quiet
<1> QED BY <1>2, <1>3, <1>4, <1>6, <1>7, <1>8

\* A request changes its place and nothing else.
LEMMA MoveInside ==
    ASSUME InsideInv, NEW r \in Requests, NEW p \in RequestPcs,
           req[r].pc # "idle", req[r].pc # "running", p \notin {"idle", "running"},
           p \in {"draining", "granted", "releasing"} => req[r].pc = "granted",
           req' = [req EXCEPT ![r].pc = p], UNCHANGED <<fence, active>>
    PROVE  InsideInv'
<1> USE DEF InsideInv
<1>1. /\ req'[r].at = req[r].at /\ req'[r].kind = req[r].kind /\ req'[r].pc = p
      /\ \A q \in Requests \ {r} : req'[q] = req[q]
    BY DEF InsideType
<1>2. InsideType'  BY DEF InsideType
<1>3. Running(req[r].at)' = Running(req[r].at) /\ \A e \in Daemons : Running(e)' = Running(e)
    BY <1>1 DEF Running
<1>4. Counted'  BY <1>3 DEF Counted
<1>5. Placed'  BY <1>1 DEF Placed
<1>6. \A m \in Requests : Maintains(m)' => Maintains(m) /\ req'[m].at = req[m].at
    BY <1>1 DEF Maintains
<1>7. Fenced' /\ Single'  BY <1>6 DEF Fenced, Single
<1>8. Quiet'  BY <1>1 DEF Quiet
<1> QED BY <1>2, <1>4, <1>5, <1>7, <1>8

LEMMA InsideSame == ASSUME InsideInv, UNCHANGED inside PROVE InsideInv'
<1>1. \A e : Running(e)' = Running(e)  BY DEF Running, inside
<1>2. Counted'  BY <1>1 DEF Counted, InsideInv, inside
<1> QED BY <1>2 DEF InsideInv, InsideType, Placed, Fenced, Single, Maintains, Quiet, inside

LEMMA AskInside == ASSUME InsideInv, NEW r \in Requests, Ask(r) PROVE InsideInv'
<1> DEFINE d == req[r].at
<1>1. d \in Daemons /\ req[r].pc = "asked"  BY DEF Ask, InsideInv, Placed
<1>2. {r} \in SUBSET Requests /\ \A q \in {r} : req[q].at = d /\ req[q].pc \in {"asked", "waiting"}
    BY <1>1
<1>3. \/ Refuse(d, {r})
      \/ Admit(d, {r})
      \/ req' = [req EXCEPT ![r].pc = "waiting"] /\ UNCHANGED <<fence, active>>
    BY DEF Ask
<1>4. CASE Refuse(d, {r})  BY <1>1, <1>2, <1>4, RefuseInside
<1>5. CASE Admit(d, {r})  BY <1>1, <1>2, <1>5, AdmitInside
<1>6. CASE req' = [req EXCEPT ![r].pc = "waiting"] /\ UNCHANGED <<fence, active>>
    BY <1>1, <1>6, MoveInside
<1> QED BY <1>3, <1>4, <1>5, <1>6

\* The last operation to end leaves the project to the maintenance that it wakes.
LEMMA FinishInside == ASSUME InsideInv, NEW r \in Requests, Finish(r) PROVE InsideInv'
<1> USE DEF InsideInv
<1> DEFINE d == req[r].at
           woken == {m \in Requests : req[m].at = d /\ req[m].pc = "draining" /\ active[d] = 1}
<1>1. req[r].pc = "running" /\ d \in Daemons /\ r \notin woken  BY DEF Finish, Placed
<1>2. /\ req'[r] = Idle
      /\ \A q \in Requests : q # r /\ q \notin woken => req'[q] = req[q]
      /\ \A q \in woken : IF status[d] = "up"
                          THEN /\ req'[q].at = d /\ req'[q].kind = "maintenance"
                               /\ req'[q].pc = "granted"
                          ELSE req'[q] = Idle
    BY <1>1 DEF Finish, InsideType, Placed
<1>3. Idle.at = None /\ Idle.kind = "operation" /\ Idle.pc = "idle" /\ None \notin Daemons
    BY LeaseAssumption DEF Idle
<1>4. /\ \A e \in Daemons : fence'[e] = IF e = d THEN fence[d] /\ (woken = {} \/ status[d] = "up")
                                                 ELSE fence[e]
      /\ \A e \in Daemons : active'[e] = IF e = d THEN active[d] - 1 ELSE active[e]
    BY <1>1 DEF Finish, InsideType
<1>5. \A e \in Daemons : Running(e)' = IF e = d THEN Running(d) \ {r} ELSE Running(e)
    <2> SUFFICES ASSUME NEW e \in Daemons, NEW q \in Requests
                 PROVE  q \in Running(e)' <=> q \in Running(e) /\ q # r
        BY <1>1 DEF Running
    <2>1. CASE q = r  BY <1>2, <1>3, <2>1 DEF Running
    <2>2. CASE q \in woken  BY <1>1, <1>2, <1>3, <2>2 DEF Running
    <2>3. CASE q # r /\ q \notin woken  BY <1>2, <2>3 DEF Running
    <2> QED BY <2>1, <2>2, <2>3
<1>6. r \in Running(d)  BY <1>1 DEF Running
<1>7. /\ Cardinality(Running(d) \ {r}) = active[d] - 1
      /\ active[d] - 1 \in Nat
      /\ active[d] = 1 => Running(d) \ {r} = {}
    <2>1. IsFiniteSet(Running(d) \ {r}) /\ Cardinality(Running(d) \ {r}) = Cardinality(Running(d)) - 1
        BY <1>6, RunningIsFinite, FS_RemoveElement
    <2>2. active[d] = Cardinality(Running(d)) /\ active[d] \in Nat
        BY <1>1 DEF Counted, InsideType
    <2>3. Cardinality(Running(d) \ {r}) \in Nat
          /\ (Cardinality(Running(d) \ {r}) = 0 <=> Running(d) \ {r} = {})
        BY <2>1, FS_CardinalityType, FS_EmptySet
    <2> HIDE DEF d
    <2> QED BY <2>1, <2>2, <2>3
<1>8. InsideType'
    <2>1. req' \in [Requests -> [at : Daemons \cup {None}, kind : RequestKinds, pc : RequestPcs]]
        BY DEF Finish, InsideType, Idle
    <2>2. active' \in [Daemons -> Nat]  BY <1>7 DEF Finish, InsideType
    <2>3. fence' \in [Daemons -> BOOLEAN]  BY DEF Finish, InsideType
    <2> QED BY <2>1, <2>2, <2>3 DEF InsideType
<1>9. Counted'
    <2> SUFFICES ASSUME NEW e \in Daemons PROVE active'[e] = Cardinality(Running(e)')
        BY DEF Counted
    <2>1. CASE e = d  BY <1>4, <1>5, <1>7, <2>1
    <2>2. CASE e # d  BY <1>4, <1>5, <2>2 DEF Counted
    <2> QED BY <2>1, <2>2
<1>10. Placed'
    <2> SUFFICES ASSUME NEW q \in Requests
                 PROVE  /\ req'[q].pc # "idle" => req'[q].at \in Daemons
                        /\ req'[q].pc \in {"draining", "granted", "releasing"} =>
                             req'[q].kind = "maintenance"
        BY DEF Placed
    <2>1. CASE q = r  BY <1>2, <1>3, <2>1
    <2>2. CASE q \in woken  BY <1>1, <1>2, <1>3, <2>2
    <2>3. CASE q # r /\ q \notin woken  BY <1>2, <2>3 DEF Placed
    <2> QED BY <2>1, <2>2, <2>3
<1>11. \A m \in Requests : Maintains(m)' =>
          Maintains(m) /\ req'[m].at = req[m].at /\ (m \in woken => status[d] = "up")
    <2> SUFFICES ASSUME NEW m \in Requests, Maintains(m)'
                 PROVE  Maintains(m) /\ req'[m].at = req[m].at /\ (m \in woken => status[d] = "up")
        OBVIOUS
    <2>1. CASE m = r  BY <1>2, <1>3, <2>1 DEF Maintains
    <2>2. CASE m \in woken  BY <1>2, <1>3, <2>2 DEF Maintains, Placed
    <2>3. CASE m # r /\ m \notin woken  BY <1>2, <2>3 DEF Maintains
    <2> QED BY <2>1, <2>2, <2>3
<1>12. Fenced'
    <2> SUFFICES ASSUME NEW m \in Requests, Maintains(m)' PROVE fence'[req'[m].at]
        BY DEF Fenced
    <2>1. Maintains(m) /\ req'[m].at = req[m].at /\ req[m].at \in Daemons /\ fence[req[m].at]
        BY <1>11 DEF Placed, Maintains, Fenced
    <2>2. CASE req[m].at # d  BY <1>4, <2>1, <2>2
    <2>3. CASE req[m].at = d
        <3>1. \A q \in woken : q = m  BY <2>1, <2>3 DEF Single, Placed, Maintains
        <3>2. woken = {} \/ m \in woken  BY <3>1
        <3> QED BY <1>4, <1>11, <2>1, <2>3, <3>2
    <2> QED BY <2>2, <2>3
<1>13. Single'  BY <1>11 DEF Single
<1>14. Quiet'
    <2> SUFFICES ASSUME NEW m \in Requests, NEW q \in Requests,
                        req'[m].pc \in {"granted", "releasing"}, req'[q].at = req'[m].at,
                        req'[q].pc = "running"
                 PROVE  FALSE
        BY DEF Quiet
    <2>1. q # r /\ q \notin woken /\ req'[q] = req[q]  BY <1>2, <1>3
    <2>2. CASE m \notin woken  BY <1>2, <1>3, <2>1, <2>2 DEF Quiet
    <2>3. CASE m \in woken
        <3>1. active[d] = 1 /\ req'[m].at = d  BY <1>2, <1>3, <2>3
        <3> QED BY <1>7, <2>1, <3>1 DEF Running
    <2> QED BY <2>2, <2>3
<1> QED BY <1>8, <1>9, <1>10, <1>12, <1>13, <1>14

LEMMA EndInside == ASSUME InsideInv, NEW r \in Requests, EndMaintenance(r) PROVE InsideInv'
<1> USE DEF InsideInv
<1> DEFINE d == req[r].at
<1>1. Maintains(r) /\ d \in Daemons /\ req[r].pc # "running"
    BY DEF EndMaintenance, Placed, Maintains
<1>2. /\ req'[r] = Idle /\ \A q \in Requests \ {r} : req'[q] = req[q]
      /\ UNCHANGED active
      /\ \A e \in Daemons : fence'[e] = IF e = d THEN FALSE ELSE fence[e]
    BY <1>1 DEF EndMaintenance, InsideType
<1>3. Idle.at = None /\ Idle.kind = "operation" /\ Idle.pc = "idle"  BY DEF Idle
<1>4. InsideType'  BY DEF EndMaintenance, InsideType, Idle
<1>5. Counted'
    <2>1. \A q \in Requests : req'[q].pc = "running" \/ req[q].pc = "running" => req'[q] = req[q]
        BY <1>1, <1>2, <1>3
    <2> QED BY <1>2, <2>1, CountedSame
<1>6. Placed'  BY <1>2, <1>3 DEF Placed
<1>7. \A m \in Requests : Maintains(m)' =>
         m # r /\ Maintains(m) /\ req'[m] = req[m] /\ req[m].at \in Daemons
    BY <1>2, <1>3 DEF Maintains, Placed
<1>8. Fenced'
    <2>1. \A m \in Requests : Maintains(m)' => req[m].at # d  BY <1>1, <1>7 DEF Single
    <2> QED BY <1>2, <1>7, <2>1 DEF Fenced
<1>9. Single'  BY <1>7 DEF Single
<1>10. Quiet'  BY <1>2, <1>3 DEF Quiet
<1> QED BY <1>4, <1>5, <1>6, <1>8, <1>9, <1>10

LEMMA DieInside == ASSUME InsideInv, NEW d \in Daemons, Die(d) PROVE InsideInv'
<1> USE DEF InsideInv
<1>1. /\ \A q \in Requests : req'[q] = IF req[q].at = d THEN Idle ELSE req[q]
      /\ \A e \in Daemons : fence'[e] = IF e = d THEN FALSE ELSE fence[e]
      /\ \A e \in Daemons : active'[e] = IF e = d THEN 0 ELSE active[e]
    BY DEF Die, InsideType
<1>2. Idle.at = None /\ Idle.kind = "operation" /\ Idle.pc = "idle"  BY DEF Idle
<1>3. InsideType'  BY DEF Die, InsideType, Idle
<1>4. Counted'
    <2> SUFFICES ASSUME NEW e \in Daemons PROVE active'[e] = Cardinality(Running(e)')
        BY DEF Counted
    <2>1. CASE e = d
        <3>1. Running(e)' = {}  BY <1>1, <1>2, <2>1 DEF Running
        <3> QED BY <1>1, <2>1, <3>1, FS_EmptySet
    <2>2. CASE e # d
        <3>1. Running(e)' = Running(e)  BY <1>1, <1>2, <2>2 DEF Running
        <3> QED BY <1>1, <2>2, <3>1 DEF Counted
    <2> QED BY <2>1, <2>2
<1>5. Placed'  BY <1>1, <1>2 DEF Placed
<1>6. \A m \in Requests : Maintains(m)' =>
         Maintains(m) /\ req'[m] = req[m] /\ req[m].at \in Daemons /\ req[m].at # d
    BY <1>1, <1>2 DEF Maintains, Placed
<1>7. Fenced'  BY <1>1, <1>6 DEF Fenced
<1>8. Single'  BY <1>6 DEF Single
<1>9. Quiet'  BY <1>1, <1>2 DEF Quiet
<1> QED BY <1>3, <1>4, <1>5, <1>7, <1>8, <1>9

LEMMA InsideStep == ASSUME InsideInv, [LeaseNext]_leaseVars PROVE InsideInv'
<1>1. ASSUME NEW r \in Requests, NEW d \in Daemons, NEW kind \in RequestKinds, Arrive(r, d, kind)
      PROVE  InsideInv'
    BY <1>1, ArriveInside
<1>2. ASSUME NEW r \in Requests, Ask(r) \/ Finish(r) \/ ReleaseForMaintenance(r) \/ EndMaintenance(r)
      PROVE  InsideInv'
    <2>1. CASE ReleaseForMaintenance(r)
        BY <2>1, MoveInside DEF ReleaseForMaintenance
    <2> QED BY <1>2, <2>1, AskInside, FinishInside, EndInside
<1>3. ASSUME NEW d \in Daemons, AcquireStep(d) PROVE InsideInv'
    <2>1. Waiting(d) \in SUBSET Requests
          /\ \A r \in Waiting(d) : req[r].at = d /\ req[r].pc \in {"asked", "waiting"}
        BY DEF Waiting
    <2> QED BY <1>3, <2>1, AcquireInside, RefuseInside, AdmitInside, InsideSame
<1>4. ASSUME NEW d \in Daemons, ReadReleased(d) \/ RemoveReleased(d) \/ Boot(d) \/ Close(d)
      PROVE  InsideInv'
    BY <1>4, InsideSame DEF ReadReleased, RemoveReleased, Boot, Close, local, inside
<1>5. ASSUME NEW d \in Daemons, Kill(d) PROVE InsideInv'
    BY <1>5, DieInside DEF Kill
<1>6. CASE Freeze \/ UNCHANGED leaseVars
    BY <1>6, InsideSame DEF Freeze, leaseVars, local, inside
<1> QED BY <1>1, <1>2, <1>3, <1>4, <1>5, <1>6 DEF LeaseNext, DaemonStep

LEMMA InsideIsInvariant == LeaseSpec => []InsideInv
BY InsideInit, InsideStep, PTL DEF LeaseSpec

\* While maintenance has a project, no operation and no other maintenance is at work in
\* it: the fence that is checked again after the lease, and the last operation to end.
THEOREM MaintenanceAlone == LeaseSpec => []MaintenanceIsExclusive
<1>1. InsideInv => MaintenanceIsExclusive
    BY DEF InsideInv, MaintenanceIsExclusive, Quiet, Single, Maintains
<1> QED BY <1>1, InsideIsInvariant, PTL
-----------------------------------------------------------------------------
(* The lock file *)

LEMMA OutsideInit == ASSUME LeaseInit PROVE OutsideInv
<1>1. OutsideType
    <2>1. 0 \in 0..Attempts  BY LeaseAssumption
    <2> QED BY <2>1 DEF LeaseInit, OutsideType, AcquirePcs
<1>2. Living  BY DEF LeaseInit, Living
<1>3. OneRecovery  BY DEF LeaseInit, OneRecovery, RecoveryPcs
<1>4. Owning /\ Stale  BY DEF LeaseInit, Owning, Stale, OwnPcs
<1> QED BY <1>1, <1>2, <1>3, <1>4 DEF OutsideInv

LEMMA OutsideSame == ASSUME OutsideInv, UNCHANGED outside PROVE OutsideInv'
BY DEF OutsideInv, OutsideType, Living, OneRecovery, Owning, Stale, Alive, outside

\* A step of an acquisition that leaves the files alone and enters no protected place.
LEMMA MoveOutside ==
    ASSUME OutsideInv, NEW d \in Daemons, NEW to \in AcquirePcs, Alive(d),
           pc' = [pc EXCEPT ![d] = to],
           to \in OwnPcs => pc[d] \in OwnPcs,
           to \in RecoveryPcs => pc[d] \in RecoveryPcs,
           to # "remove",
           tries' \in [Daemons -> 0..Attempts],
           UNCHANGED <<status, lockFiles, release, gap>>
    PROVE  OutsideInv'
<1> USE DEF OutsideInv
<1>1. /\ pc'[d] = to /\ \A e \in Daemons \ {d} : pc'[e] = pc[e]
      /\ UNCHANGED <<status, lock, recovery, frozen, release, gap>>
      /\ pc' \in [Daemons -> AcquirePcs]
    BY DEF OutsideType, lockFiles
<1>2. OutsideType'  BY <1>1 DEF OutsideType
<1>3. Living'  BY <1>1 DEF Living, Alive
<1>4. OneRecovery'  BY <1>1 DEF OneRecovery
<1>5. Owning => Owning'  BY <1>1 DEF Owning
<1>6. Stale => Stale'  BY <1>1 DEF Stale, Alive
<1> QED BY <1>1, <1>2, <1>3, <1>4, <1>5, <1>6

\* The places an acquisition may come to.
LEMMA AcquireMoves ==
    ASSUME OutsideInv, NEW d \in Daemons,
           Enter(d) \/ Attempt(d) \/ CheckRecovery(d) \/ CheckFrozen(d) \/ BackOff(d)
             \/ Retreat(d) \/ ReadOwner(d) \/ Exists(d)
    PROVE  OutsideInv'
<1> USE DEF AcquirePcs, OwnPcs, RecoveryPcs
<1>1. tries \in [Daemons -> 0..Attempts] /\ Attempts \in Nat
    BY LeaseAssumption DEF OutsideInv, OutsideType
<1>2. ASSUME NEW from \in AcquirePcs, GiveUp(d, from) PROVE OutsideInv'
    BY <1>1, <1>2, MoveOutside DEF GiveUp
<1>3. ASSUME NEW from \in AcquirePcs, NEW to \in AcquirePcs, Goto(d, from, to), gap' = gap,
             to \in OwnPcs => from \in OwnPcs, to \notin RecoveryPcs
      PROVE  OutsideInv'
    BY <1>1, <1>3, MoveOutside DEF Goto, local
<1>4. CASE Enter(d)  BY <1>2, <1>3, <1>4 DEF Enter
<1>5. CASE Attempt(d)
    <2>1. CASE GiveUp(d, "attempt")  BY <1>2, <2>1
    <2>2. CASE ~GiveUp(d, "attempt")
        <3>1. /\ Alive(d) /\ pc[d] = "attempt" /\ tries[d] < Attempts
              /\ tries' = [tries EXCEPT ![d] = @ + 1]
              /\ pc' = [pc EXCEPT ![d] = IF recovery # None THEN "attempt" ELSE "link"]
              /\ UNCHANGED <<status, lockFiles, release, gap>>
            BY <1>5, <2>2 DEF Attempt
        <3>2. tries' \in [Daemons -> 0..Attempts]  BY <1>1, <3>1
        <3> QED BY <3>1, <3>2, MoveOutside
    <2> QED BY <2>1, <2>2
<1>6. CASE CheckRecovery(d)  BY <1>3, <1>6 DEF CheckRecovery
<1>7. CASE CheckFrozen(d)
    <2>1. CASE Goto(d, "checkFrozen", "retreat") /\ gap' = gap  BY <1>3, <2>1
    <2>2. CASE /\ status[d] = "up" /\ pc[d] = "checkFrozen"
               /\ pc' = [pc EXCEPT ![d] = "held"]
               /\ UNCHANGED <<status, lockFiles, tries, release, gap>>
        BY <1>1, <2>2, MoveOutside DEF Alive
    <2> QED BY <1>7, <2>1, <2>2 DEF CheckFrozen
<1>8. CASE BackOff(d)  BY <1>3, <1>8 DEF BackOff
<1>9. CASE Retreat(d)  BY <1>2, <1>3, <1>9 DEF Retreat
<1>10. CASE ReadOwner(d)  BY <1>2, <1>3, <1>10 DEF ReadOwner
<1>11. CASE Exists(d)  BY <1>3, <1>11 DEF Exists
<1> QED BY <1>4, <1>5, <1>6, <1>7, <1>8, <1>9, <1>10, <1>11

\* link finds no lock file: nobody owns one, and no recovery is about to remove one.
LEMMA LinkOutside == ASSUME OutsideInv, NEW d \in Daemons, Link(d) PROVE OutsideInv'
<1> USE DEF OutsideInv
<1>1. /\ Alive(d) /\ pc[d] = "link"
      /\ pc'[d] = IF lock = None THEN "checkRecovery" ELSE "owner"
      /\ \A e \in Daemons \ {d} : pc'[e] = pc[e]
      /\ pc' \in [Daemons -> AcquirePcs]
      /\ lock' = IF lock = None THEN d ELSE lock
      /\ UNCHANGED <<status, recovery, frozen, tries, release, gap>>
    BY DEF Link, OutsideType, AcquirePcs, local
<1>2. OutsideType'  BY <1>1 DEF OutsideType
<1>3. Living'  BY <1>1 DEF Living, Alive
<1>4. OneRecovery'  BY <1>1 DEF OneRecovery, RecoveryPcs
<1>5. Owning => Owning'  BY <1>1, LeaseAssumption DEF Owning, OwnPcs
<1>6. Stale => Stale'  BY <1>1 DEF Stale, Alive
<1> QED BY <1>1, <1>2, <1>3, <1>4, <1>5, <1>6

\* A daemon removes its own lock file: no other owns one, and none is removing one.
LEMMA UnlinkOutside ==
    ASSUME OutsideInv, NEW d \in Daemons, UnlinkAgain(d) \/ Unlink(d)
    PROVE  OutsideInv'
<1> USE DEF OutsideInv
<1>1. /\ Alive(d) /\ pc[d] \in {"unlinkAgain", "unlink"}
      /\ pc'[d] \in {"attempt", "none"}
      /\ \A e \in Daemons \ {d} : pc'[e] = pc[e]
      /\ pc' \in [Daemons -> AcquirePcs]
      /\ lock' = None
      /\ UNCHANGED <<status, recovery, frozen, tries, release, gap>>
    BY DEF UnlinkAgain, Unlink, OutsideType, AcquirePcs, local
<1>2. OutsideType'  BY <1>1 DEF OutsideType
<1>3. Living'  BY <1>1 DEF Living, Alive
<1>4. OneRecovery'  BY <1>1 DEF OneRecovery, RecoveryPcs
<1>5. ASSUME Owning, Stale PROVE Owning' /\ Stale'
    <2>1. lock = d /\ release[d] = "none"  BY <1>1, <1>5 DEF Owning, OwnPcs, OutsideType
    <2>2. \A e \in Daemons \ {d} : pc[e] \notin OwnPcs /\ release[e] = "none"
        BY <1>5, <2>1 DEF Owning, OutsideType
    <2>3. Owning'  BY <1>1, <2>1, <2>2 DEF Owning, OwnPcs
    <2>4. Stale'  BY <1>1, <1>5, <2>1 DEF Stale
    <2> QED BY <2>3, <2>4
<1> QED BY <1>1, <1>2, <1>3, <1>4, <1>5

\* The steps of a recovery.
LEMMA RecoveryOutside ==
    ASSUME OutsideInv, NEW d \in Daemons,
           BeginRecovery(d) \/ ReadAgain(d) \/ RemoveStale(d) \/ EndRecovery(d)
    PROVE  OutsideInv'
<1> USE DEF OutsideInv
<1>1. CASE BeginRecovery(d)
    <2>1. /\ Alive(d) /\ pc[d] = "mkdir"
          /\ pc'[d] = IF recovery = None THEN "reread" ELSE "attempt"
          /\ \A e \in Daemons \ {d} : pc'[e] = pc[e]
          /\ pc' \in [Daemons -> AcquirePcs]
          /\ recovery' = IF recovery = None THEN d ELSE recovery
          /\ UNCHANGED <<status, lock, frozen, tries, release, gap>>
        BY <1>1 DEF BeginRecovery, OutsideType, AcquirePcs, local
    <2>2. OutsideType'  BY <2>1 DEF OutsideType
    <2>3. Living'  BY <2>1 DEF Living, Alive
    <2>4. OneRecovery'  BY <2>1, LeaseAssumption DEF OneRecovery, RecoveryPcs
    <2>5. Owning => Owning'  BY <2>1 DEF Owning, OwnPcs
    <2>6. Stale => Stale'  BY <2>1 DEF Stale, Alive
    <2> QED BY <2>1, <2>2, <2>3, <2>4, <2>5, <2>6
<1>2. CASE ReadAgain(d)
    <2>1. /\ Alive(d) /\ pc[d] = "reread"
          /\ pc'[d] = IF lock # None /\ Alive(lock) THEN "rmdir" ELSE "remove"
          /\ \A e \in Daemons \ {d} : pc'[e] = pc[e]
          /\ pc' \in [Daemons -> AcquirePcs]
          /\ gap' = (gap \/ lock = None)
          /\ UNCHANGED <<status, lock, recovery, frozen, tries, release>>
        BY <1>2 DEF ReadAgain, Goto, OutsideType, AcquirePcs, lockFiles, local
    <2>2. OutsideType'  BY <2>1 DEF OutsideType
    <2>3. Living'  BY <2>1 DEF Living, Alive
    <2>4. OneRecovery'  BY <2>1 DEF OneRecovery, RecoveryPcs
    <2>5. Owning => Owning'  BY <2>1 DEF Owning, OwnPcs
    <2>6. ~gap' /\ Stale => Stale'  BY <2>1 DEF Stale, Alive
    <2> QED BY <2>1, <2>2, <2>3, <2>4, <2>5, <2>6
<1>3. CASE RemoveStale(d)
    <2>1. /\ Alive(d) /\ pc[d] = "remove"
          /\ pc'[d] = "rmdir"
          /\ \A e \in Daemons \ {d} : pc'[e] = pc[e]
          /\ pc' \in [Daemons -> AcquirePcs]
          /\ lock' = None
          /\ UNCHANGED <<status, recovery, frozen, tries, release, gap>>
        BY <1>3 DEF RemoveStale, OutsideType, AcquirePcs, local
    <2>2. OutsideType'  BY <2>1 DEF OutsideType
    <2>3. Living'  BY <2>1 DEF Living, Alive
    <2>4. OneRecovery'  BY <2>1 DEF OneRecovery, RecoveryPcs
    <2>5. ASSUME Owning, Stale PROVE Owning' /\ Stale'
        <3>1. lock # None /\ ~Alive(lock)  BY <2>1, <2>5 DEF Stale
        <3>2. \A e \in Daemons : pc[e] \notin OwnPcs /\ release[e] = "none"
            BY <2>5, <3>1 DEF Owning, Living, OutsideType, OwnPcs
        <3>3. Owning'  BY <2>1, <3>2 DEF Owning, OwnPcs
        <3>4. \A e \in Daemons \ {d} : pc[e] # "remove"
            BY <2>1 DEF OneRecovery, RecoveryPcs
        <3>5. Stale'  BY <2>1, <3>4 DEF Stale
        <3> QED BY <3>3, <3>5
    <2> QED BY <2>1, <2>2, <2>3, <2>4, <2>5
<1>4. CASE EndRecovery(d)
    <2>1. /\ Alive(d) /\ pc[d] = "rmdir"
          /\ pc'[d] = "attempt"
          /\ \A e \in Daemons \ {d} : pc'[e] = pc[e]
          /\ pc' \in [Daemons -> AcquirePcs]
          /\ recovery' = None
          /\ UNCHANGED <<status, lock, frozen, tries, release, gap>>
        BY <1>4 DEF EndRecovery, OutsideType, AcquirePcs, local
    <2>2. OutsideType'  BY <2>1 DEF OutsideType
    <2>3. Living'  BY <2>1 DEF Living, Alive
    <2>4. OneRecovery'  BY <2>1 DEF OneRecovery, RecoveryPcs
    <2>5. Owning => Owning'  BY <2>1 DEF Owning, OwnPcs
    <2>6. Stale => Stale'  BY <2>1 DEF Stale, Alive
    <2> QED BY <2>1, <2>2, <2>3, <2>4, <2>5, <2>6
<1> QED BY <1>1, <1>2, <1>3, <1>4

\* A lease is given back: by maintenance or by a daemon that closes.
LEMMA ReleaseOutside ==
    ASSUME OutsideInv, NEW d \in Daemons, Alive(d), pc[d] = "held",
           pc' = [pc EXCEPT ![d] = "none"], release' = [release EXCEPT ![d] = "read"],
           status' \in [Daemons -> {"off", "up", "closing", "dead"}],
           \A e \in Daemons : Alive(e)' <=> Alive(e),
           \A e \in Daemons : status'[e] = "off" <=> status[e] = "off",
           UNCHANGED <<lock, recovery, frozen, tries, gap>>
    PROVE  OutsideInv'
<1> USE DEF OutsideInv
<1>1. /\ pc'[d] = "none" /\ release'[d] = "read"
      /\ \A e \in Daemons \ {d} : pc'[e] = pc[e] /\ release'[e] = release[e]
      /\ pc' \in [Daemons -> AcquirePcs]
      /\ release' \in [Daemons -> {"none", "read", "remove"}]
    BY DEF OutsideType, AcquirePcs
<1>2. OutsideType'  BY <1>1 DEF OutsideType
<1>3. Living'  BY <1>1 DEF Living, OutsideType
<1>4. OneRecovery'  BY <1>1 DEF OneRecovery, RecoveryPcs
<1>5. Owning => Owning'  BY <1>1 DEF Owning, OwnPcs
<1>6. Stale => Stale'  BY <1>1 DEF Stale, OutsideType
<1> QED BY <1>1, <1>2, <1>3, <1>4, <1>5, <1>6

\* releaseProjectLease reads the token and removes the file.
LEMMA ReleasedOutside ==
    ASSUME OutsideInv, NEW d \in Daemons, ReadReleased(d) \/ RemoveReleased(d)
    PROVE  OutsideInv'
<1> USE DEF OutsideInv
<1>1. CASE ReadReleased(d)
    <2>1. /\ release[d] = "read" /\ release'[d] \in {"remove", "none"}
          /\ \A e \in Daemons \ {d} : release'[e] = release[e]
          /\ release' \in [Daemons -> {"none", "read", "remove"}]
          /\ UNCHANGED <<status, lock, recovery, frozen, pc, tries, gap>>
        BY <1>1 DEF ReadReleased, OutsideType, lockFiles
    <2>2. OutsideType'  BY <2>1 DEF OutsideType
    <2>3. Living' /\ OneRecovery'  BY <2>1 DEF Living, Alive, OneRecovery
    <2>4. Owning => Owning'  BY <2>1 DEF Owning
    <2>5. Stale => Stale'  BY <2>1 DEF Stale, Alive
    <2> QED BY <2>1, <2>2, <2>3, <2>4, <2>5
<1>2. CASE RemoveReleased(d)
    <2>1. /\ Alive(d) /\ release[d] = "remove" /\ release'[d] = "none" /\ lock' = None
          /\ \A e \in Daemons \ {d} : release'[e] = release[e]
          /\ release' \in [Daemons -> {"none", "read", "remove"}]
          /\ UNCHANGED <<status, recovery, frozen, pc, tries, gap>>
        BY <1>2 DEF RemoveReleased, OutsideType
    <2>2. OutsideType'  BY <2>1 DEF OutsideType
    <2>3. Living' /\ OneRecovery'  BY <2>1 DEF Living, Alive, OneRecovery
    <2>4. ASSUME Owning, Stale PROVE Owning' /\ Stale'
        <3>1. lock = d /\ pc[d] \notin OwnPcs  BY <2>1, <2>4 DEF Owning
        <3>2. \A e \in Daemons \ {d} : pc[e] \notin OwnPcs /\ release[e] = "none"
            BY <2>4, <3>1 DEF Owning, OutsideType
        <3>3. Owning'  BY <2>1, <3>1, <3>2 DEF Owning
        <3>4. Stale'  BY <2>1, <2>4, <3>1 DEF Stale
        <3> QED BY <3>3, <3>4
    <2> QED BY <2>1, <2>2, <2>3, <2>4
<1> QED BY <1>1, <1>2

\* Processes start, begin to close, and die; their files stay.
LEMMA ProcessOutside ==
    ASSUME OutsideInv, NEW d \in Daemons, Boot(d) \/ Close(d) \/ Kill(d)
    PROVE  OutsideInv'
<1> USE DEF OutsideInv
<1>1. CASE Boot(d)
    <2>1. /\ status[d] = "off" /\ status'[d] = "up"
          /\ \A e \in Daemons \ {d} : status'[e] = status[e]
          /\ status' \in [Daemons -> {"off", "up", "closing", "dead"}]
          /\ UNCHANGED <<lock, recovery, frozen, pc, tries, release, gap>>
        BY <1>1 DEF Boot, OutsideType, lockFiles, local
    <2>2. lock # d  BY <2>1, LeaseAssumption DEF Living
    <2>3. OutsideType'  BY <2>1 DEF OutsideType
    <2>4. Living'  BY <2>1 DEF Living, Alive, OutsideType
    <2>5. OneRecovery' /\ (Owning => Owning')  BY <2>1 DEF OneRecovery, Owning
    <2>6. Stale => Stale'  BY <2>1, <2>2 DEF Stale, Alive, OutsideType
    <2> QED BY <2>1, <2>3, <2>4, <2>5, <2>6
<1>2. CASE Close(d)
    <2>1. /\ status[d] = "up" /\ status'[d] = "closing"
          /\ \A e \in Daemons \ {d} : status'[e] = status[e]
          /\ status' \in [Daemons -> {"off", "up", "closing", "dead"}]
          /\ UNCHANGED <<lock, recovery, frozen, tries, gap>>
        BY <1>2 DEF Close, OutsideType, lockFiles
    <2>2. \A e \in Daemons : (Alive(e)' <=> Alive(e)) /\ (status'[e] = "off" <=> status[e] = "off")
        BY <2>1 DEF Alive
    <2>3. CASE pc[d] = "held"
        <3>1. Alive(d)  BY <2>1 DEF Alive
        <3> QED BY <1>2, <2>1, <2>2, <2>3, <3>1, ReleaseOutside DEF Close
    <2>4. CASE pc[d] # "held"
        <3>1. UNCHANGED <<pc, release>>  BY <1>2, <2>4 DEF Close
        <3>2. OutsideType'  BY <2>1, <3>1 DEF OutsideType
        <3>3. Living'  BY <2>1, <2>2, <3>1 DEF Living, OutsideType
        <3>4. OneRecovery' /\ (Owning => Owning')  BY <2>1, <3>1 DEF OneRecovery, Owning
        <3>5. Stale => Stale'  BY <2>1, <2>2, <3>1 DEF Stale, OutsideType
        <3> QED BY <2>1, <3>2, <3>3, <3>4, <3>5
    <2> QED BY <2>3, <2>4
<1>3. CASE Kill(d)
    <2>1. /\ status'[d] = "dead" /\ pc'[d] = "none" /\ release'[d] = "none"
          /\ \A e \in Daemons \ {d} :
               status'[e] = status[e] /\ pc'[e] = pc[e] /\ release'[e] = release[e]
          /\ UNCHANGED <<lock, recovery, frozen, gap>>
        BY <1>3 DEF Kill, Die, OutsideType, lockFiles
    <2>2. OutsideType'
        BY <1>3, LeaseAssumption DEF Kill, Die, OutsideType, AcquirePcs, lockFiles
    <2>3. Living'  BY <2>1 DEF Living, Alive, OutsideType
    <2>4. OneRecovery'  BY <2>1 DEF OneRecovery, RecoveryPcs
    <2>5. Owning => Owning'  BY <2>1 DEF Owning, OwnPcs
    <2>6. Stale => Stale'  BY <2>1 DEF Stale, Alive, OutsideType
    <2> QED BY <2>1, <2>2, <2>3, <2>4, <2>5, <2>6
<1> QED BY <1>1, <1>2, <1>3

LEMMA OutsideStep == ASSUME InsideInv, OutsideInv, [LeaseNext]_leaseVars PROVE OutsideInv'
<1>1. ASSUME NEW r \in Requests, NEW d \in Daemons, NEW kind \in RequestKinds, Arrive(r, d, kind)
      PROVE  OutsideInv'
    BY <1>1, OutsideSame DEF Arrive, lockFiles, outside
<1>2. ASSUME NEW r \in Requests, Ask(r) PROVE OutsideInv'
    <2> DEFINE d == req[r].at
    <2>1. d \in Daemons  BY <1>2 DEF Ask, InsideInv, Placed
    <2>2. CASE UNCHANGED <<pc, tries>>
        BY <1>2, <2>2, OutsideSame DEF Ask, lockFiles, outside
    <2>3. CASE ~UNCHANGED <<pc, tries>>
        <3>1. /\ status[d] = "up" /\ pc' = [pc EXCEPT ![d] = "enter"]
              /\ tries' = [tries EXCEPT ![d] = 0]
              /\ UNCHANGED <<status, lockFiles, release, gap>>
            BY <1>2, <2>3 DEF Ask
        <3>2. tries' \in [Daemons -> 0..Attempts]
            BY <2>1, <3>1, LeaseAssumption DEF OutsideInv, OutsideType
        <3> QED BY <2>1, <3>1, <3>2, MoveOutside DEF Alive, AcquirePcs, OwnPcs, RecoveryPcs
    <2> QED BY <2>2, <2>3
<1>3. ASSUME NEW r \in Requests, Finish(r) \/ EndMaintenance(r) PROVE OutsideInv'
    BY <1>3, OutsideSame DEF Finish, EndMaintenance, lockFiles, outside
<1>4. ASSUME NEW r \in Requests, ReleaseForMaintenance(r) PROVE OutsideInv'
    <2> DEFINE d == req[r].at
    <2>1. d \in Daemons /\ pc[d] = "held"  BY <1>4 DEF ReleaseForMaintenance, InsideInv, Placed
    <2>2. Alive(d)  BY <2>1 DEF OutsideInv, Living
    <2>3. status' \in [Daemons -> {"off", "up", "closing", "dead"}] /\ status' = status
        BY <1>4 DEF ReleaseForMaintenance, OutsideInv, OutsideType
    <2> QED BY <1>4, <2>1, <2>2, <2>3, ReleaseOutside DEF ReleaseForMaintenance, lockFiles, Alive
<1>5. ASSUME NEW d \in Daemons, DaemonStep(d) PROVE OutsideInv'
    BY <1>5, AcquireMoves, LinkOutside, UnlinkOutside, RecoveryOutside, ReleasedOutside
       DEF DaemonStep, AcquireStep
<1>6. ASSUME NEW d \in Daemons, Boot(d) \/ Close(d) \/ Kill(d) PROVE OutsideInv'
    BY <1>6, ProcessOutside
<1>7. CASE Freeze
    BY <1>7 DEF Freeze, local, OutsideInv, OutsideType, Living, OneRecovery, Owning, Stale, Alive
<1>8. CASE UNCHANGED leaseVars
    BY <1>8, OutsideSame DEF leaseVars, outside
<1> QED BY <1>1, <1>2, <1>3, <1>4, <1>5, <1>6, <1>7, <1>8 DEF LeaseNext

LEMMA OutsideIsInvariant == LeaseSpec => []OutsideInv
BY OutsideInit, OutsideStep, InsideIsInvariant, PTL DEF LeaseSpec

\* A daemon that was given the lease owns the lock file, whatever other daemons link,
\* recover, give back or leave behind, unless a recovery found no lock to read (gap).
THEOREM HolderKeepsItsLock == LeaseSpec => []HolderKeepsLock
<1>1. OutsideInv => HolderKeepsLock  BY DEF OutsideInv, HolderKeepsLock, Owning, OwnPcs
<1> QED BY <1>1, OutsideIsInvariant, PTL

\* No two daemons hold the lease at a time.
THEOREM OneHolder ==
    LeaseSpec => [](gap \/ \A d, e \in Daemons : pc[d] = "held" /\ pc[e] = "held" => d = e)
<1>1. HolderKeepsLock => (gap \/ \A d, e \in Daemons : pc[d] = "held" /\ pc[e] = "held" => d = e)
    BY DEF HolderKeepsLock
<1> QED BY <1>1, HolderKeepsItsLock, PTL

\* The state has its shape; the count of operations never falls below zero.
THEOREM LeaseTypeCorrect == LeaseSpec => []LeaseTypeOK
<1>1. InsideInv /\ OutsideInv => LeaseTypeOK
    BY DEF InsideInv, InsideType, OutsideInv, OutsideType, LeaseTypeOK
<1> QED BY <1>1, InsideIsInvariant, OutsideIsInvariant, PTL
==============================================================================
