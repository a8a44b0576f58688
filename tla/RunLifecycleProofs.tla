--------------------------- MODULE RunLifecycleProofs ---------------------------
(***************************************************************************)
(* Theorems about RunLifecycle, for any runs, tasks and bounds: a task and  *)
(* a deletion are reserved, a run tells one story, and what it told and     *)
(* planned follows its durable log, whatever fails and whenever the daemon  *)
(* dies.                                                                    *)
(***************************************************************************)
EXTENDS RunLifecycle, TLAPS

(* Locks: who is busy holds the lease of the task, alone, and not while a   *)
(* destructive command works on it.                                         *)
Locks ==
    /\ \A r \in Runs : run[r].pc \in Busy => r \in leases[TaskOf[r]]
    /\ \A t \in Tasks : \A q, r \in leases[t] : q = r
    /\ \A t \in mutating : leases[t] = {}
    /\ \A r \in Runs : run[r].pc \in Executing => TaskOf[r] \in tasks
    /\ DeletionIsExclusive

-----------------------------------------------------------------------------
(* What a run has told, what it has still to write, and what is in its log. *)

\* No close is in the log of a run that has not come to it.
Unclosed == {"starting", "prepare", "agent", "settle", "collect", "flush", "plan", "append"}
\* The done was told.
Ended == {"collect", "flush", "plan"} \cup Finishing
\* Events may be waiting for the log.
Telling == {"prepare", "agent", "settle", "collect", "flush"}

\* A run that has not begun.
Fresh(r) ==
    run[r].pc \in {"recovering", "starting"} =>
        /\ seen[r] = <<>> /\ run[r].reason = "none"
        /\ log[r] = <<>> \/ (run[r].pc = "recovering" /\ summary[r] # "none")

\* The reason of a run is that of its done; a cancellation that was asked for in time is.
Reasoned(r) ==
    run[r].pc \in Executing =>
        /\ \A i \in DOMAIN seen[r] :
             /\ seen[r][i].what # "close"
             /\ seen[r][i].what = "done" => run[r].reason # "none" /\ seen[r][i].status = run[r].reason
        /\ run[r].asked => run[r].reason \in {"none", "cancelled"}
        /\ run[r].pc = "settle" => run[r].settled /\ (run[r].asked => run[r].aborted)
        /\ run[r].pc \in Ended =>
             run[r].reason # "none" /\ run[r].status \in {StatusFor(run[r].reason), "error"}
        /\ run[r].reason # "none" =>
             \E k \in DOMAIN seen[r] : seen[r][k].what = "done" /\ seen[r][k].status = run[r].reason

\* The stream of a run: numbered, with one done, and a close at its end.
Streamed(r) ==
    \A i, j \in DOMAIN seen[r] :
        /\ seen[r][i].id = i
        /\ seen[r][i].what = "close" => i = Len(seen[r])
        /\ seen[r][i].what = "done" /\ seen[r][j].what = "done" => i = j
        /\ seen[r][i].what = "close" =>
             \E k \in 1..(i - 1) :
                /\ seen[r][k].what = "done"
                /\ seen[r][i].status \in {StatusFor(seen[r][k].status), "error"}

\* An event that was told, and a part of one.
Told(r, e) == e.what \in {"text", "done"} /\ e.id \in 1..Len(seen[r]) /\ seen[r][e.id] = e
Known(r, e) == Told(r, e) \/ (e.what = "cut" /\ e.id \in 1..Len(seen[r]))

\* What waits for the log was told, in order, and comes after what is in it.
Queued(r) ==
    LET queue == run[r].queue IN
    /\ \A i \in DOMAIN queue :
         /\ Told(r, queue[i])
         /\ \A j \in DOMAIN queue : i < j => queue[i].id < queue[j].id
         /\ \A j \in DOMAIN log[r] : log[r][j].id < queue[i].id
    /\ run[r].pc \notin Telling => queue = <<>>

Logged(r) ==
    /\ \A i, j \in DOMAIN log[r] : i < j => log[r][i].id < log[r][j].id
    /\ \A i \in DOMAIN log[r] :
         Known(r, log[r][i]) \/ (log[r][i].what \in {"close", "cut"} /\ run[r].pc \notin Unclosed)

\* A close that is not an error without a plan is told when it is in the log.
InLog(r, e) == \E i \in DOMAIN log[r] : log[r][i] = e
Durable(r) ==
    /\ (\/ run[r].pc \in {"summarize", "ready", "dismiss"}
        \/ run[r].pc = "broadcast" /\ (run[r].status # "error" \/ run[r].plan # "none"))
       => InLog(r, OwnClose(r))
    /\ \A i \in DOMAIN seen[r] :
         seen[r][i].what = "close" /\ (seen[r][i].status # "error" \/ seen[r][i].plan # "none")
         => InLog(r, seen[r][i])

\* A plan is in the registry before the close that names it, and in the canvas after it.
HasClose(r, plan) == \E i \in DOMAIN log[r] : log[r][i].what = "close" /\ log[r][i].plan = plan
Planned(r) ==
    /\ run[r].pc \in (Unclosed \ {"append"}) \cup {"recovering"} => run[r].plan = "none"
    /\ run[r].pc = "append" /\ run[r].plan # "none" => plans[r].kind = run[r].plan
    /\ canvas[r] # "none" => HasClose(r, canvas[r])
    /\ HasTerminalClose(r) /\ ~torn[r] /\ Last(log[r]).plan # "none" => plans[r].kind = Last(log[r]).plan

Story(r) ==
    Fresh(r) /\ Reasoned(r) /\ Streamed(r) /\ Queued(r) /\ Logged(r) /\ Durable(r) /\ Planned(r)

(* The recovery of a process is over before its first run starts, and until *)
(* then nobody else writes the files of the run it is at.                   *)
Recovers ==
    /\ \A r \in Runs : run[r].pc \in Executing \cup {"closed"} => recovery.pc = "done"
    /\ recovery.pc \notin {"no", "interrupt", "done", "failed"} =>
         \A r \in recovery.left : summary[r] = "interrupted"
    /\ recovery.left # {} =>
         /\ recovery.pc \in {"plan", "append"} => ~torn[Current] /\ ~HasTerminalClose(Current)
         /\ recovery.pc = "append" /\ recovery.plan # "none" => plans[Current].kind = recovery.plan
         /\ recovery.pc = "ready" => HasClose(Current, recovery.plan)

IInv == TypeOK /\ Locks /\ Recovers /\ \A r \in Runs : Story(r)
-----------------------------------------------------------------------------
(* One run moves, the others stay. *)

LEMMA Others ==
    ASSUME NEW q \in Runs, Story(q),
           run'[q] = run[q], seen'[q] = seen[q], log'[q] = log[q], torn'[q] = torn[q],
           plans'[q].kind = plans[q].kind, canvas'[q] = canvas[q],
           summary'[q] = summary[q] \/ (summary[q] # "none" /\ summary'[q] # "none")
    PROVE  Story(q)'
<1>1. Fresh(q)' /\ Reasoned(q)' /\ Streamed(q)'
    BY DEF Story, Fresh, Reasoned, Streamed
<1>2. Queued(q)' /\ Logged(q)'
    BY DEF Story, Queued, Logged, Told, Known
<1>3. Durable(q)'
    BY DEF Story, Durable, InLog, OwnClose, NextId
<1>4. Planned(q)'
    BY DEF Story, Planned, HasClose, HasTerminalClose
<1> QED BY <1>1, <1>2, <1>3, <1>4 DEF Story

\* The locks see nothing of a run but whether it is busy and executes.
LEMMA SameLocks ==
    ASSUME Locks, UNCHANGED <<tasks, leases, mutating, deletion>>,
           recovery.pc = "done" => recovery'.pc = "done",
           \A q \in Runs : run'[q].pc \in Busy => run[q].pc \in Busy,
           \A q \in Runs : run'[q].pc \in Executing => run[q].pc \in Executing
    PROVE  Locks'
BY DEF Locks, DeletionIsExclusive

LEMMA Moves ==
    ASSUME IInv, NEW r \in Runs, run[r].pc \in Executing,
           UNCHANGED <<tasks, locks, recovery>>, TypeOK',
           \A q \in Runs \ {r} :
              /\ run'[q] = run[q] /\ seen'[q] = seen[q] /\ log'[q] = log[q] /\ torn'[q] = torn[q]
              /\ plans'[q].kind = plans[q].kind /\ canvas'[q] = canvas[q] /\ summary'[q] = summary[q],
           run'[r].pc \in Executing \cup {"closed"},
           Story(r)'
    PROVE  IInv'
<1>1. Locks'
    BY SameLocks DEF IInv, locks, Busy
<1>2. Recovers'
    BY DEF IInv, Recovers
<1>3. \A q \in Runs : Story(q)'
    BY Others DEF IInv
<1> QED BY <1>1, <1>2, <1>3 DEF IInv

\* What a step does to a run that was told something new.
LEMMA PublishIs ==
    ASSUME TypeOK, NEW r \in Runs, NEW event \in Events, NEW next \in RunStates,
           Publish(r, event, next)
    PROVE  /\ run' \in [Runs -> RunStates] /\ seen' \in [Runs -> Seq(Events)]
           /\ seen'[r] = Append(seen[r], event)
           /\ run'[r] = [next EXCEPT !.queue = Append(next.queue, event)]
           /\ \A q \in Runs \ {r} : run'[q] = run[q] /\ seen'[q] = seen[q]
<1> DEFINE said == [next EXCEPT !.queue = Append(next.queue, event)]
<1>1. next.queue \in Seq(Events)  BY DEF RunStates
<1>2. Append(next.queue, event) \in Seq(Events)  BY <1>1
<1>3. said \in RunStates  BY <1>2 DEF RunStates
<1>4. run' = [run EXCEPT ![r] = said]  BY DEF Publish
<1> HIDE DEF said
<1>5. run' \in [Runs -> RunStates] /\ run'[r] = said /\ \A q \in Runs \ {r} : run'[q] = run[q]
    BY <1>3, <1>4 DEF TypeOK
<1>6. /\ seen' \in [Runs -> Seq(Events)] /\ seen'[r] = Append(seen[r], event)
      /\ \A q \in Runs \ {r} : seen'[q] = seen[q]
    BY DEF Publish, TypeOK
<1> QED BY <1>5, <1>6 DEF said

\* What a done says, and the run that has said it.
Said(next, reason) == IF next.asked THEN "cancelled" ELSE reason
Spoken(next, said, event) == [next EXCEPT !.reason = said, !.queue = Append(next.queue, event)]

LEMMA PublishDoneIs ==
    ASSUME TypeOK, NEW r \in Runs, NEW reason \in Reasons, NEW next \in RunStates,
           PublishDone(r, reason, next)
    PROVE  /\ run' \in [Runs -> RunStates] /\ seen' \in [Runs -> Seq(Events)]
           /\ \A q \in Runs \ {r} : run'[q] = run[q] /\ seen'[q] = seen[q]
           /\ next.reason # "none" => run'[r] = next /\ seen'[r] = seen[r]
           /\ next.reason = "none" =>
                /\ Said(next, reason) \in Reasons
                /\ DoneEvent(NextId(r), Said(next, reason)) \in Events
                /\ seen'[r] = Append(seen[r], DoneEvent(NextId(r), Said(next, reason)))
                /\ run'[r] = Spoken(next, Said(next, reason), DoneEvent(NextId(r), Said(next, reason)))
<1> DEFINE event == DoneEvent(NextId(r), Said(next, reason))
           named == [next EXCEPT !.reason = Said(next, reason)]
<1>1. Said(next, reason) \in Reasons  BY DEF Reasons, Said
<1>2. CASE next.reason # "none"
  <2>1. run' = [run EXCEPT ![r] = next] /\ seen' = seen
      BY <1>2 DEF PublishDone
  <2>2. run \in [Runs -> RunStates] /\ seen \in [Runs -> Seq(Events)]  BY DEF TypeOK
  <2> QED BY <1>2, <2>1, <2>2
<1>3. CASE next.reason = "none"
  <2>1. named \in RunStates  BY <1>1 DEF RunStates
  <2>2. Len(seen[r]) \in Nat  BY DEF TypeOK
  <2>3. event \in Events  BY <1>1, <2>2 DEF Events, DoneEvent, Event, NextId
  <2>4. Publish(r, event, named)  BY <1>3 DEF PublishDone, Said
  <2>5. [named EXCEPT !.queue = Append(named.queue, event)]
          = Spoken(next, Said(next, reason), event)
      BY DEF RunStates, Spoken
  <2> HIDE DEF event, named
  <2>6. /\ run' \in [Runs -> RunStates] /\ seen' \in [Runs -> Seq(Events)]
        /\ seen'[r] = Append(seen[r], event)
        /\ run'[r] = [named EXCEPT !.queue = Append(named.queue, event)]
        /\ \A q \in Runs \ {r} : run'[q] = run[q] /\ seen'[q] = seen[q]
      BY <2>1, <2>3, <2>4, PublishIs
  <2> QED BY <1>1, <1>3, <2>3, <2>5, <2>6 DEF event
<1> QED BY <1>2, <1>3
-----------------------------------------------------------------------------
(* A run that tells something, and one that goes on without a word. *)

LEMMA Tells ==
    ASSUME TypeOK, NEW r \in Runs, Story(r), NEW e \in Events,
           run[r].pc \in Executing \ Finishing, run'[r].pc \in Telling,
           log'[r] = log[r], torn'[r] = torn[r], canvas'[r] = canvas[r],
           e.what \in {"text", "done"}, e.id = Len(seen[r]) + 1,
           e.what = "done" => run[r].reason = "none",
           seen'[r] = Append(seen[r], e), run'[r].queue = Append(run[r].queue, e),
           plans'[r].kind = plans[r].kind, run'[r].plan = "none"
    PROVE  Fresh(r)' /\ Streamed(r)' /\ Queued(r)' /\ Logged(r)' /\ Durable(r)' /\ Planned(r)'
<1> DEFINE s == seen[r]
           q == run[r].queue
           t == log[r]
<1>1. s \in Seq(Events) /\ q \in Seq(Events) /\ t \in Seq(Events)
    BY DEF TypeOK, RunStates
<1>2. /\ DOMAIN seen'[r] = 1..(Len(s) + 1) /\ DOMAIN s = 1..Len(s) /\ Len(s) \in Nat
      /\ seen'[r][Len(s) + 1] = e /\ \A i \in 1..Len(s) : seen'[r][i] = s[i]
      /\ Len(seen'[r]) = Len(s) + 1
    BY <1>1
<1>3. /\ DOMAIN run'[r].queue = 1..(Len(q) + 1) /\ DOMAIN q = 1..Len(q) /\ Len(q) \in Nat
      /\ run'[r].queue[Len(q) + 1] = e /\ \A i \in 1..Len(q) : run'[r].queue[i] = q[i]
    BY <1>1
<1>4. \A x : /\ Told(r, x) => Told(r, x)' /\ x.id <= Len(s)
             /\ Known(r, x) => Known(r, x)' /\ x.id <= Len(s)
    BY <1>2 DEF Told, Known
<1>5. Told(r, e)'  BY <1>2 DEF Told
<1>6. \A i \in DOMAIN s : s[i].what # "close" /\ (e.what = "done" => s[i].what # "done")
    BY DEF Story, Reasoned
<1>7. \A i \in DOMAIN t : Known(r, t[i])
    BY DEF Story, Logged, Unclosed, Executing, Finishing
<1>e. e.id = Len(s) + 1 /\ \A x \in Events : x.id \in Nat  BY DEF Events
<1> HIDE DEF s, q, t
<1>8. Streamed(r)'
  <2>0. Streamed(r)  BY DEF Story
  <2>1. \A i \in 1..Len(s) : s[i].id = i  BY <1>2, <2>0 DEF Streamed, s
  <2>2. \A i, j \in DOMAIN s : s[i].what = "done" /\ s[j].what = "done" => i = j
      BY <2>0, Zenon DEF Streamed, s
  <2>3. \A i \in 1..(Len(s) + 1) : i \in 1..Len(s) \/ i = Len(s) + 1  BY <1>2
  <2>4. \A i \in 1..(Len(s) + 1) : seen'[r][i].id = i /\ seen'[r][i].what # "close"
      BY <1>2, <1>6, <1>e, <2>1, <2>3
  <2>5. \A i, j \in 1..(Len(s) + 1) :
            seen'[r][i].what = "done" /\ seen'[r][j].what = "done" => i = j
      BY <1>2, <1>6, <2>2, <2>3
  <2> QED BY <1>2, <2>4, <2>5 DEF Streamed
<1>9. Queued(r)'
  <2>0. Queued(r)  BY DEF Story
  <2>1. \A i \in DOMAIN q : Told(r, q[i])  BY <2>0 DEF Queued, q
  <2>2. \A i, j \in DOMAIN q : i < j => q[i].id < q[j].id  BY <2>0, Zenon DEF Queued, q
  <2>3. \A i \in DOMAIN q : \A j \in DOMAIN t : t[j].id < q[i].id  BY <2>0, Zenon DEF Queued, q, t
  <2>4. \A j \in DOMAIN t : t[j].id \in Nat  BY <1>1, <1>e
  <2>5. \A i \in DOMAIN q : q[i].id \in Nat  BY <1>1, <1>e
  <2>6. \A i \in DOMAIN q : q[i].id < e.id  BY <1>e, <1>2, <1>4, <2>1, <2>5
  <2>7. \A j \in DOMAIN t : t[j].id < e.id  BY <1>e, <1>2, <1>4, <1>7, <2>4
  <2>8. \A i \in 1..(Len(q) + 1) : i \in 1..Len(q) \/ i = Len(q) + 1  BY <1>3
  <2>q. PICK queue : queue = run'[r].queue  OBVIOUS
  <2>9. \A i \in DOMAIN queue : Told(r, queue[i])'
      BY <1>3, <1>4, <1>5, <2>q, <2>1, <2>8
  <2>10. \A i, j \in DOMAIN queue : i < j => queue[i].id < queue[j].id
      BY <1>3, <2>q, <2>2, <2>6, <2>8
  <2>11. \A i \in DOMAIN queue : \A j \in DOMAIN t : t[j].id < queue[i].id
      BY <1>3, <2>q, <2>3, <2>7, <2>8
  <2>12. log'[r] = t  BY DEF t
  <2> QED BY <2>q, <2>9, <2>10, <2>11, <2>12 DEF Queued
<1>10. Logged(r)'
    BY <1>4, <1>7 DEF Story, Logged, t
<1>11. Durable(r)'
    BY <1>2, <1>6 DEF Durable, Telling
<1>12. Planned(r)'
  <2>1. run'[r].pc # "append"  BY DEF Telling
  <2> QED BY <2>1 DEF Story, Planned, HasClose, HasTerminalClose
<1>13. Fresh(r)'  BY DEF Fresh, Telling
<1> QED BY <1>8, <1>9, <1>10, <1>11, <1>12, <1>13

\* A step that leaves what was told and what is in the log.
LEMMA Goes ==
    ASSUME NEW r \in Runs, Story(r),
           run[r].pc \in Executing, run'[r].pc \in Executing,
           seen'[r] = seen[r], log'[r] = log[r], torn'[r] = torn[r],
           run'[r].queue = run[r].queue,
           run'[r].pc \in Telling \/ run[r].queue = <<>>,
           run'[r].pc \in Unclosed => run[r].pc \in Unclosed
    PROVE  Streamed(r)' /\ Queued(r)' /\ Logged(r)'
BY DEF Story, Streamed, Queued, Logged, Told, Known

LEMMA GoesPlain ==
    ASSUME NEW r \in Runs, Story(r),
           run[r].pc \in Unclosed \ {"append"}, run'[r].pc \in Unclosed \ {"starting"},
           seen'[r] = seen[r], log'[r] = log[r], torn'[r] = torn[r], canvas'[r] = canvas[r],
           plans'[r].kind = plans[r].kind,
           run'[r].queue = run[r].queue, run'[r].plan = run[r].plan,
           run'[r].pc \in Telling \/ run[r].queue = <<>>,
           Reasoned(r)'
    PROVE  Story(r)'
<1>1. run[r].pc \in Executing /\ run'[r].pc \in Executing  BY DEF Unclosed, Executing, Finishing
<1>2. Streamed(r)' /\ Queued(r)' /\ Logged(r)'  BY <1>1, Goes
<1>3. Fresh(r)'  BY DEF Fresh, Unclosed
<1>4. Durable(r)'  BY DEF Story, Durable, Unclosed, InLog
<1>5. run[r].plan = "none"  BY DEF Story, Planned
<1>6. Planned(r)'
    BY <1>5 DEF Story, Planned, HasClose, HasTerminalClose
<1> QED BY <1>2, <1>3, <1>4, <1>6 DEF Story
-----------------------------------------------------------------------------
(* #execute *)

LEMMA Faults == ASSUME TypeOK, Fault \/ NoFault \/ UNCHANGED faults PROVE faults' \in Nat
BY DEF TypeOK, Fault, NoFault

LEMMA ReasonedAfterDone ==
    ASSUME TypeOK, NEW r \in Runs, Reasoned(r), run[r].pc \in Executing,
           NEW said \in Reasons, NEW e \in Events,
           e.what = "done", e.status = said, run[r].reason = "none",
           seen'[r] = Append(seen[r], e), run'[r].reason = said,
           run'[r].asked => said = "cancelled",
           run'[r].pc # "settle",
           run'[r].pc \in Ended => run'[r].status \in {StatusFor(said), "error"}
    PROVE  Reasoned(r)'
<1> DEFINE s == seen[r]
<1>1. s \in Seq(Events)  BY DEF TypeOK
<1>2. /\ DOMAIN seen'[r] = 1..(Len(s) + 1) /\ DOMAIN s = 1..Len(s) /\ Len(s) \in Nat
      /\ seen'[r][Len(s) + 1] = e /\ \A i \in 1..Len(s) : seen'[r][i] = s[i]
    BY <1>1
<1>3. \A i \in DOMAIN s : s[i].what # "close" /\ s[i].what # "done"
    BY DEF Reasoned
<1> HIDE DEF s
<1>4. \A i \in DOMAIN seen'[r] :
        /\ seen'[r][i].what # "close"
        /\ seen'[r][i].what = "done" => seen'[r][i].status = said
  <2>1. \A i \in 1..(Len(s) + 1) : i \in 1..Len(s) \/ i = Len(s) + 1  BY <1>2
  <2> QED BY <1>2, <1>3, <2>1
<1>5. \E k \in DOMAIN seen'[r] : seen'[r][k].what = "done" /\ seen'[r][k].status = said
  <2>1. Len(s) + 1 \in DOMAIN seen'[r]  BY <1>2
  <2> QED BY <1>2, <2>1
<1>6. said # "none"  BY DEF Reasons
<1> QED BY <1>4, <1>5, <1>6 DEF Reasoned, StatusFor

LEMMA TellsDone ==
    ASSUME IInv, NEW r \in Runs, run[r].pc \in {"starting", "prepare", "agent", "settle"},
           NEW reason \in Reasons, NEW next \in RunStates, PublishDone(r, reason, next),
           next.reason = run[r].reason, next.asked = run[r].asked,
           next.queue = run[r].queue, next.plan = run[r].plan,
           next.pc \in {"agent", "collect", "flush"},
           next.pc \in Ended => next.status \in
             {StatusFor(IF next.reason = "none" THEN Said(next, reason) ELSE next.reason), "error"},
           next.reason # "none" /\ next.pc \in Ended => run[r].pc # "starting",
           summary' \in [Runs -> {"none", "active"} \cup Statuses],
           \A q \in Runs \ {r} : summary'[q] = summary[q],
           faults' \in Nat, UNCHANGED <<daemon, log, torn, plans, canvas, tasks, locks, recovery, cancel>>
    PROVE  IInv'
<1>1. TypeOK /\ Story(r)  BY DEF IInv
<1>2. /\ run' \in [Runs -> RunStates] /\ seen' \in [Runs -> Seq(Events)]
      /\ \A q \in Runs \ {r} : run'[q] = run[q] /\ seen'[q] = seen[q]
      /\ next.reason # "none" => run'[r] = next /\ seen'[r] = seen[r]
      /\ next.reason = "none" =>
           /\ Said(next, reason) \in Reasons
           /\ DoneEvent(NextId(r), Said(next, reason)) \in Events
           /\ seen'[r] = Append(seen[r], DoneEvent(NextId(r), Said(next, reason)))
           /\ run'[r] = Spoken(next, Said(next, reason), DoneEvent(NextId(r), Said(next, reason)))
    BY <1>1, PublishDoneIs
<1> DEFINE said == Said(next, reason)
           event == DoneEvent(NextId(r), said)
<1>3. TypeOK'
    BY <1>1, <1>2 DEF TypeOK, locks
<1>4. run[r].plan = "none" /\ run[r].pc \in Executing \ Finishing /\ run[r].pc \in Unclosed \ {"append"}
      /\ run'[r].pc \in Telling \cap Executing
  <2>1. run[r].pc \in Executing \ Finishing /\ run[r].pc \in Unclosed \ {"append"}
      BY DEF Executing, Finishing, Unclosed
  <2>2. run'[r].pc = next.pc  BY <1>2 DEF RunStates, Spoken
  <2> QED BY <1>1, <2>1, <2>2 DEF Story, Planned, Telling, Executing
<1>5. CASE next.reason = "none"
  <2>0. /\ said \in Reasons /\ event \in Events /\ seen'[r] = Append(seen[r], event)
        /\ run'[r] = Spoken(next, said, event)
      BY <1>2, <1>5
  <2> HIDE DEF event, said
  <2>1. /\ run'[r].pc = next.pc /\ run'[r].plan = next.plan /\ run'[r].status = next.status
        /\ run'[r].reason = said /\ run'[r].asked = next.asked
        /\ run'[r].queue = Append(next.queue, event)
      BY <2>0 DEF RunStates, Spoken
  <2>2. /\ event.what = "done" /\ event.status = said /\ event.id = Len(seen[r]) + 1
      BY DEF event, DoneEvent, Event, NextId
  <2>3. next.asked => said = "cancelled"  BY DEF said, Said
  <2>4. Reasoned(r)'
    <3>1. run'[r].pc \in Ended => run'[r].status \in {StatusFor(said), "error"}
        BY <1>5, <2>1 DEF said
    <3> QED BY <1>1, <1>4, <1>5, <2>0, <2>1, <2>2, <2>3, <3>1, ReasonedAfterDone DEF Story
  <2>5. Fresh(r)' /\ Streamed(r)' /\ Queued(r)' /\ Logged(r)' /\ Durable(r)' /\ Planned(r)'
      BY <1>1, <1>2, <1>4, <1>5, <2>0, <2>1, <2>2, Tells
  <2> QED BY <1>2, <1>3, <1>4, <2>4, <2>5, Moves DEF Story
<1>6. CASE next.reason # "none"
  <2>1. run'[r] = next /\ seen'[r] = seen[r]  BY <1>2, <1>6
  <2>2. Reasoned(r)'
    <3>1. Reasoned(r)  BY <1>1 DEF Story
    <3> QED BY <1>4, <1>6, <2>1, <3>1 DEF Reasoned
  <2>3. Story(r)'
      BY <1>1, <1>4, <2>1, <2>2, GoesPlain DEF Telling, Unclosed
  <2> QED BY <1>2, <1>3, <1>4, <2>3, Moves
<1> QED BY <1>5, <1>6

LEMMA StatusIs == \A reason \in Reasons : StatusFor(reason) \in Ends
BY DEF Reasons, Ends, StatusFor

LEMMA StartStep == ASSUME IInv, NEW r \in Runs, Start(r) PROVE IInv'
<1>1. /\ TypeOK /\ Story(r) /\ run[r].pc = "starting"
      /\ UNCHANGED <<daemon, log, torn, plans, canvas, tasks, locks, recovery, cancel>>
    BY DEF IInv, Start, At
<1>2. run[r] \in RunStates /\ run[r].reason = "none" /\ run[r].plan = "none"
    BY <1>1 DEF TypeOK, Story, Fresh, Planned, Unclosed
<1>3. CASE /\ summary' = [summary EXCEPT ![r] = "active"]
           /\ run' = [run EXCEPT ![r].pc = "prepare"]
           /\ UNCHANGED <<faults, seen>>
  <2> DEFINE next == [run[r] EXCEPT !.pc = "prepare"]
  <2>1. /\ next \in RunStates /\ next.pc = "prepare" /\ next.reason = "none"
        /\ next.queue = run[r].queue /\ next.plan = run[r].plan
      BY <1>2 DEF RunStates, RunPcs, Busy, Executing
  <2>2. run' = [run EXCEPT ![r] = next]  BY <1>3
  <2> HIDE DEF next
  <2>3. run' \in [Runs -> RunStates] /\ run'[r] = next /\ \A q \in Runs \ {r} : run'[q] = run[q]
      BY <1>1, <2>1, <2>2 DEF TypeOK
  <2>4. TypeOK'  BY <1>1, <1>3, <2>3 DEF TypeOK, locks
  <2>5. Reasoned(r)'
      BY <1>1, <1>3, <2>1, <2>3 DEF Story, Fresh, Reasoned, Ended, Finishing
  <2>6. Story(r)'
      BY <1>1, <1>3, <2>1, <2>3, <2>5, GoesPlain DEF Unclosed, Telling
  <2>7. run[r].pc \in Executing /\ run'[r].pc \in Executing  BY <1>1, <2>1, <2>3 DEF Executing
  <2> QED BY <1>1, <1>3, <2>3, <2>4, <2>6, <2>7, Moves DEF TypeOK
<1>4. CASE /\ Fault
           /\ summary' \in {summary, [summary EXCEPT ![r] = "active"]}
           /\ PublishDone(r, "error", [run[r] EXCEPT !.pc = "flush", !.status = "error"])
  <2> DEFINE next == [run[r] EXCEPT !.pc = "flush", !.status = "error"]
  <2>1. /\ next \in RunStates /\ next.pc = "flush" /\ next.reason = "none" /\ next.asked = run[r].asked
        /\ next.queue = run[r].queue /\ next.plan = run[r].plan /\ next.status = "error"
      BY <1>2 DEF RunStates, RunPcs, Busy, Executing, Ends
  <2>2. PublishDone(r, "error", next)  BY <1>4
  <2> HIDE DEF next
  <2>3. faults' \in Nat  BY <1>1, <1>4, Faults
  <2>4. /\ summary' \in [Runs -> {"none", "active"} \cup Statuses]
        /\ \A q \in Runs \ {r} : summary'[q] = summary[q]
      BY <1>1, <1>4 DEF TypeOK
  <2>5. "error" \in Reasons  BY DEF Reasons
  <2> QED BY <1>1, <1>2, <2>1, <2>2, <2>3, <2>4, <2>5, TellsDone
<1> QED BY <1>3, <1>4 DEF Start

LEMMA CaughtStep ==
    ASSUME IInv, NEW r \in Runs, run[r].pc \in {"prepare", "agent", "settle"}, Caught(r),
           UNCHANGED <<daemon, disk, locks, recovery, cancel>>
    PROVE  IInv'
<1> DEFINE reason == IF run[r].asked THEN "cancelled"
                     ELSE IF run[r].reason # "none" THEN run[r].reason
                     ELSE IF run[r].aborted THEN "cancelled" ELSE "error"
           next == [run[r] EXCEPT !.pc = "collect", !.settled = @ \/ run[r].pc = "agent",
                        !.complete = FALSE, !.status = StatusFor(reason)]
<1>1. TypeOK /\ Story(r) /\ run[r] \in RunStates  BY DEF IInv, TypeOK
<1>2. PublishDone(r, reason, next) /\ (Fault \/ NoFault)  BY DEF Caught
<1>3. run[r].reason \in Reasons \cup {"none"}  BY <1>1 DEF RunStates
<1>4. reason \in Reasons  BY <1>3 DEF Reasons
<1>5. StatusFor(reason) \in Ends  BY <1>4, StatusIs
<1>6. run[r].asked => run[r].reason \in {"none", "cancelled"}
    BY <1>1 DEF Story, Reasoned, Executing
<1>7. /\ run[r].reason # "none" => reason = run[r].reason
      /\ run[r].asked => reason = "cancelled"
    BY <1>6
<1> HIDE DEF reason
<1>8. /\ next \in RunStates /\ next.pc = "collect" /\ next.status = StatusFor(reason)
      /\ next.reason = run[r].reason /\ next.asked = run[r].asked
      /\ next.queue = run[r].queue /\ next.plan = run[r].plan
    BY <1>1, <1>5 DEF RunStates, RunPcs, Busy, Executing
<1> HIDE DEF next
<1>9. next.status = StatusFor(IF next.reason = "none" THEN Said(next, reason) ELSE next.reason)
    BY <1>7, <1>8 DEF Said
<1>10. faults' \in Nat  BY <1>1, <1>2, Faults
<1> QED BY <1>1, <1>2, <1>4, <1>8, <1>9, <1>10, TellsDone DEF disk, TypeOK

LEMMA SettleStep == ASSUME IInv, NEW r \in Runs, Settle(r) PROVE IInv'
<1>1. /\ TypeOK /\ Story(r) /\ run[r] \in RunStates /\ run[r].pc = "settle"
      /\ UNCHANGED <<daemon, disk, locks, recovery, cancel>>
    BY DEF IInv, Settle, At, TypeOK
<1>2. CASE Caught(r)  BY <1>1, <1>2, CaughtStep
<1> DEFINE reason == IF run[r].reason = "none" THEN "end_turn" ELSE run[r].reason
           next == [run[r] EXCEPT !.pc = "collect", !.complete = TRUE, !.status = StatusFor(reason)]
<1>3. CASE ~run[r].aborted /\ PublishDone(r, reason, next) /\ NoFault
  <2>1. reason \in Reasons
      BY <1>1 DEF RunStates, Reasons
  <2>2. StatusFor(reason) \in Ends  BY <2>1, StatusIs
  <2>3. ~run[r].asked  BY <1>1, <1>3 DEF Story, Reasoned, Executing
  <2>4. run[r].reason # "none" => reason = run[r].reason  OBVIOUS
  <2>5. PublishDone(r, reason, next)  BY <1>3
  <2> HIDE DEF reason
  <2>6. /\ next \in RunStates /\ next.pc = "collect" /\ next.status = StatusFor(reason)
        /\ next.reason = run[r].reason /\ next.asked = run[r].asked
        /\ next.queue = run[r].queue /\ next.plan = run[r].plan
      BY <1>1, <2>2 DEF RunStates, RunPcs, Busy, Executing
  <2> HIDE DEF next
  <2>7. next.status = StatusFor(IF next.reason = "none" THEN Said(next, reason) ELSE next.reason)
      BY <2>3, <2>4, <2>6 DEF Said
  <2>8. faults' \in Nat  BY <1>1, <1>3, Faults
  <2> QED BY <1>1, <2>1, <2>5, <2>6, <2>7, <2>8, TellsDone DEF disk, TypeOK
<1> QED BY <1>2, <1>3 DEF Settle

\* The pc of a run moves, and what else is not about its story.
LEMMA Continues ==
    ASSUME IInv, NEW r \in Runs, NEW next \in RunStates, run' = [run EXCEPT ![r] = next],
           run[r].pc \in Unclosed \ {"starting", "append"}, next.pc \in Unclosed \ {"starting"},
           next.pc \in Telling \/ run[r].queue = <<>>,
           next.queue = run[r].queue, next.plan = run[r].plan, next.reason = run[r].reason,
           next.asked = run[r].asked,
           next.pc = "settle" => next.settled /\ (next.asked => next.aborted),
           next.pc \in Ended => run[r].pc \in Ended
             /\ next.status \in {run[r].status, "error", StatusFor(run[r].reason)},
           faults' \in Nat, UNCHANGED <<daemon, disk, locks, recovery, cancel, seen>>
    PROVE  IInv'
<1>1. TypeOK /\ Story(r)  BY DEF IInv
<1>2. run' \in [Runs -> RunStates] /\ run'[r] = next /\ \A q \in Runs \ {r} : run'[q] = run[q]
    BY <1>1 DEF TypeOK
<1>3. TypeOK'  BY <1>1, <1>2 DEF TypeOK, disk, locks
<1>4. run[r].pc \in Executing /\ run'[r].pc \in Executing
    BY <1>2 DEF Unclosed, Executing, Finishing
<1>5. Reasoned(r)'
  <2>1. Reasoned(r)  BY <1>1 DEF Story
  <2> QED BY <1>2, <1>4, <2>1 DEF Reasoned
<1>6. Story(r)'
    BY <1>1, <1>2, <1>5, GoesPlain DEF disk
<1> QED BY <1>2, <1>3, <1>4, <1>6, Moves DEF disk

LEMMA PrepareStep == ASSUME IInv, NEW r \in Runs, Prepare(r) PROVE IInv'
<1>1. /\ TypeOK /\ run[r] \in RunStates /\ run[r].pc = "prepare"
      /\ UNCHANGED <<daemon, disk, locks, recovery, cancel>>
    BY DEF IInv, Prepare, At, TypeOK
<1>2. CASE Caught(r)  BY <1>1, <1>2, CaughtStep
<1>3. CASE run' = [run EXCEPT ![r].pc = "agent"] /\ UNCHANGED <<faults, seen>>
  <2> DEFINE next == [run[r] EXCEPT !.pc = "agent"]
  <2>1. /\ next \in RunStates /\ next.pc = "agent" /\ next.queue = run[r].queue
        /\ next.plan = run[r].plan /\ next.reason = run[r].reason /\ next.asked = run[r].asked
      BY <1>1 DEF RunStates, RunPcs, Busy, Executing
  <2>2. run' = [run EXCEPT ![r] = next]  BY <1>3
  <2> HIDE DEF next
  <2>3. faults' \in Nat  BY <1>1, <1>3, Faults
  <2>4. /\ run[r].pc \in Unclosed \ {"starting", "append"} /\ next.pc \in Unclosed \ {"starting"}
        /\ next.pc \in Telling /\ next.pc \notin Ended
      BY <1>1, <2>1 DEF Unclosed, Telling, Ended, Finishing
  <2> QED BY <1>1, <1>3, <2>1, <2>2, <2>3, <2>4, Continues
<1> QED BY <1>2, <1>3 DEF Prepare

LEMMA ReturnStep == ASSUME IInv, NEW r \in Runs, Return(r) PROVE IInv'
<1>1. /\ TypeOK /\ run[r] \in RunStates /\ run[r].pc = "agent"
      /\ UNCHANGED <<daemon, disk, locks, recovery, cancel>>
    BY DEF IInv, Return, At, TypeOK
<1>2. CASE Caught(r)  BY <1>1, <1>2, CaughtStep
<1>3. CASE /\ ~run[r].asked
           /\ run' = [run EXCEPT ![r].pc = "settle", ![r].settled = TRUE]
           /\ UNCHANGED <<faults, seen>>
  <2> DEFINE next == [run[r] EXCEPT !.pc = "settle", !.settled = TRUE]
  <2>1. /\ next \in RunStates /\ next.pc = "settle" /\ next.queue = run[r].queue /\ next.settled
        /\ next.plan = run[r].plan /\ next.reason = run[r].reason /\ next.asked = run[r].asked
      BY <1>1 DEF RunStates, RunPcs, Busy, Executing
  <2>2. run' = [run EXCEPT ![r] = next]  BY <1>1, <1>3 DEF TypeOK
  <2> HIDE DEF next
  <2>3. faults' \in Nat  BY <1>1, <1>3, Faults
  <2>4. /\ run[r].pc \in Unclosed \ {"starting", "append"} /\ next.pc \in Unclosed \ {"starting"}
        /\ next.pc \in Telling /\ next.pc \notin Ended
      BY <1>1, <2>1 DEF Unclosed, Telling, Ended, Finishing
  <2> QED BY <1>1, <1>3, <2>1, <2>2, <2>3, <2>4, Continues
<1> QED BY <1>2, <1>3 DEF Return

LEMMA EmitStep == ASSUME IInv, NEW r \in Runs, Emit(r) PROVE IInv'
<1>1. /\ TypeOK /\ Story(r) /\ run[r] \in RunStates /\ run[r].pc = "agent"
      /\ UNCHANGED <<daemon, faults, disk, locks, recovery, cancel>>
    BY DEF IInv, Emit, At, TypeOK
<1>2. faults' \in Nat  BY <1>1, Faults
<1>3. ASSUME NEW reason \in {"end_turn", "error"}, PublishDone(r, reason, run[r])
      PROVE  IInv'
  <2>1. reason \in Reasons  BY DEF Reasons
  <2>2. run[r].pc \in {"agent", "collect", "flush"} /\ run[r].pc \notin Ended
      BY <1>1 DEF Ended, Finishing
  <2> QED BY <1>1, <1>2, <1>3, <2>1, <2>2, TellsDone DEF disk, TypeOK
<1>4. CASE Publish(r, Text(NextId(r)), run[r])
  <2> DEFINE event == Text(NextId(r))
             s == seen[r]
  <2>1. Len(seen[r]) \in Nat /\ seen[r] \in Seq(Events)  BY <1>1 DEF TypeOK
  <2>2. event \in Events /\ event.what = "text" /\ event.id = Len(s) + 1
      BY <2>1 DEF Events, Text, Event, NextId
  <2>3. Publish(r, event, run[r])  BY <1>4
  <2> HIDE DEF event
  <2>4. /\ run' \in [Runs -> RunStates] /\ seen' \in [Runs -> Seq(Events)]
        /\ seen'[r] = Append(s, event)
        /\ run'[r] = [run[r] EXCEPT !.queue = Append(run[r].queue, event)]
        /\ \A q \in Runs \ {r} : run'[q] = run[q] /\ seen'[q] = seen[q]
      BY <1>1, <2>2, <2>3, PublishIs
  <2>5. /\ run'[r].pc = "agent" /\ run'[r].plan = run[r].plan /\ run'[r].reason = run[r].reason
        /\ run'[r].asked = run[r].asked /\ run'[r].queue = Append(run[r].queue, event)
      BY <1>1, <2>4 DEF RunStates
  <2>6. TypeOK'  BY <1>1, <1>2, <2>4 DEF TypeOK, disk, locks
  <2>7. run[r].pc \in Executing \ Finishing /\ run'[r].pc \in Telling \cap Executing /\ run'[r].pc \notin Ended
        /\ run[r].plan = "none"
      BY <1>1, <2>5 DEF Executing, Finishing, Telling, Ended, Story, Planned, Unclosed
  <2>8. Fresh(r)' /\ Streamed(r)' /\ Queued(r)' /\ Logged(r)' /\ Durable(r)' /\ Planned(r)'
      BY <1>1, <2>2, <2>4, <2>5, <2>7, Tells DEF disk
  <2>9. /\ DOMAIN seen'[r] = 1..(Len(s) + 1) /\ DOMAIN s = 1..Len(s)
        /\ seen'[r][Len(s) + 1] = event /\ \A i \in 1..Len(s) : seen'[r][i] = s[i]
      BY <2>1, <2>2, <2>4
  <2>10. Reasoned(r)'
    <3>1. Reasoned(r) /\ run[r].pc \in Executing  BY <1>1, <2>7 DEF Story
    <3>2. \A i \in 1..(Len(s) + 1) : i \in 1..Len(s) \/ i = Len(s) + 1  BY <2>1
    <3>3. \A i \in DOMAIN seen'[r] :
            /\ seen'[r][i].what # "close"
            /\ seen'[r][i].what = "done" => run[r].reason # "none" /\ seen'[r][i].status = run[r].reason
        BY <2>2, <2>9, <3>1, <3>2 DEF Reasoned
    <3>4. run[r].reason # "none" =>
            \E k \in DOMAIN seen'[r] : seen'[r][k].what = "done" /\ seen'[r][k].status = run[r].reason
      <4>1. DOMAIN s \subseteq DOMAIN seen'[r]  BY <2>1, <2>9
      <4> QED BY <2>9, <3>1, <4>1 DEF Reasoned
    <3> QED BY <2>5, <2>7, <3>1, <3>3, <3>4 DEF Reasoned
  <2> QED BY <1>1, <2>4, <2>6, <2>7, <2>8, <2>10, Moves DEF Story, disk
<1> QED BY <1>3, <1>4 DEF Emit

LEMMA CollectStep == ASSUME IInv, NEW r \in Runs, Collect(r) PROVE IInv'
<1>1. /\ TypeOK /\ Story(r) /\ run[r] \in RunStates /\ run[r].pc = "collect"
      /\ UNCHANGED <<daemon, disk, locks, recovery, cancel, seen>>
      /\ Fault \/ NoFault
    BY DEF IInv, Collect, At, TypeOK
<1>2. faults' \in Nat  BY <1>1, Faults
<1>3. /\ run[r].pc \in Unclosed \ {"starting", "append"} /\ run[r].pc \in Ended
      /\ {"collect", "flush"} \subseteq (Unclosed \ {"starting"}) \cap Telling
    BY <1>1 DEF Unclosed, Telling, Ended, Finishing
<1>4. /\ run[r].reason \in Reasons /\ run[r].status \in Statuses
      /\ run[r].asked => run[r].reason = "cancelled"
    BY <1>1, <1>3 DEF Story, Reasoned, Executing, RunStates, StatusFor, Statuses, Reasons
<1>5. CASE run' = [run EXCEPT ![r].manifest = TRUE, ![r].pc = "flush"]
  <2> DEFINE next == [run[r] EXCEPT !.manifest = TRUE, !.pc = "flush"]
  <2>1. /\ next \in RunStates /\ next.pc = "flush" /\ next.queue = run[r].queue /\ next.status = run[r].status
        /\ next.plan = run[r].plan /\ next.reason = run[r].reason /\ next.asked = run[r].asked
      BY <1>1 DEF RunStates, RunPcs, Busy, Executing
  <2>2. run' = [run EXCEPT ![r] = next]  BY <1>1, <1>5 DEF TypeOK
  <2> HIDE DEF next
  <2> QED BY <1>1, <1>2, <1>3, <2>1, <2>2, Continues
<1>6. CASE run' = [run EXCEPT ![r].pc = "flush"]
  <2> DEFINE next == [run[r] EXCEPT !.pc = "flush"]
  <2>1. /\ next \in RunStates /\ next.pc = "flush" /\ next.queue = run[r].queue /\ next.status = run[r].status
        /\ next.plan = run[r].plan /\ next.reason = run[r].reason /\ next.asked = run[r].asked
      BY <1>1 DEF RunStates, RunPcs, Busy, Executing
  <2>2. run' = [run EXCEPT ![r] = next]  BY <1>1, <1>6 DEF TypeOK
  <2> HIDE DEF next
  <2> QED BY <1>1, <1>2, <1>3, <2>1, <2>2, Continues
<1> DEFINE status == StatusFor(IF run[r].asked THEN "cancelled" ELSE run[r].reason)
<1>7. CASE run' = [run EXCEPT ![r].complete = FALSE, ![r].status = status]
  <2>1. status = StatusFor(run[r].reason) /\ status \in Ends  BY <1>4, StatusIs
  <2> HIDE DEF status
  <2> DEFINE next == [run[r] EXCEPT !.complete = FALSE, !.status = status]
  <2>2. /\ next \in RunStates /\ next.pc = "collect" /\ next.queue = run[r].queue /\ next.status = status
        /\ next.plan = run[r].plan /\ next.reason = run[r].reason /\ next.asked = run[r].asked
      BY <1>1, <2>1 DEF RunStates
  <2>3. run' = [run EXCEPT ![r] = next]  BY <1>1, <1>7 DEF TypeOK
  <2> HIDE DEF next
  <2> QED BY <1>1, <1>2, <1>3, <2>1, <2>2, <2>3, Continues
<1> QED BY <1>5, <1>6, <1>7 DEF Collect

LEMMA FlushStep == ASSUME IInv, NEW r \in Runs, Flush(r) PROVE IInv'
<1> DEFINE status == IF run[r].logError THEN "error" ELSE run[r].status
           pc == IF run[r].manifest THEN "plan" ELSE "append"
           next == [run[r] EXCEPT !.status = status, !.pc = pc]
<1>1. /\ TypeOK /\ run[r] \in RunStates /\ run[r].pc = "flush" /\ run[r].queue = <<>>
      /\ UNCHANGED <<daemon, faults, disk, locks, recovery, cancel, seen>>
      /\ run' = [run EXCEPT ![r].status = status, ![r].pc = pc]
    BY DEF IInv, Flush, At, TypeOK
<1>2. faults' \in Nat  BY <1>1, Faults
<1>3. pc \in {"plan", "append"} /\ status \in {run[r].status, "error"}  OBVIOUS
<1> HIDE DEF status, pc
<1>4. /\ next \in RunStates /\ next.pc = pc /\ next.status = status /\ next.queue = run[r].queue
      /\ next.plan = run[r].plan /\ next.reason = run[r].reason /\ next.asked = run[r].asked
    BY <1>1, <1>3 DEF RunStates, RunPcs, Busy, Executing, Finishing, Ends
<1>5. run' = [run EXCEPT ![r] = next]  BY <1>1 DEF TypeOK
<1>6. /\ run[r].pc \in Unclosed \ {"starting", "append"} /\ run[r].pc \in Ended
      /\ {"plan", "append"} \subseteq Unclosed \ {"starting"}
    BY <1>1 DEF Unclosed, Ended
<1> HIDE DEF next
<1> QED BY <1>1, <1>2, <1>3, <1>4, <1>5, <1>6, Continues
-----------------------------------------------------------------------------
(* The log *)

LEMMA Appends ==
    ASSUME NEW s \in Seq(Events), NEW e \in Events
    PROVE  /\ Append(s, e) \in Seq(Events) /\ Append(s, e) # <<>>
           /\ DOMAIN s \subseteq DOMAIN Append(s, e)
           /\ Len(s) + 1 \in DOMAIN Append(s, e) /\ Append(s, e)[Len(s) + 1] = e
           /\ Last(Append(s, e)) = e
           /\ \A i \in DOMAIN s : Append(s, e)[i] = s[i] /\ i < Len(s) + 1
           /\ \A i \in DOMAIN Append(s, e) : i \in DOMAIN s \/ i = Len(s) + 1
           /\ \A i \in DOMAIN Append(s, e) : i \in Nat
           /\ Len(s) \in Nat
BY DEF Last

\* A record more in the log of a run, with an id that follows.
LEMMA Grows ==
    ASSUME NEW r \in Runs, log[r] \in Seq(Events), NEW e \in Events, log'[r] = Append(log[r], e),
           Logged(r), \A i \in DOMAIN log[r] : log[r][i].id < e.id
    PROVE  /\ \A i, j \in DOMAIN log'[r] : i < j => log'[r][i].id < log'[r][j].id
           /\ \A i \in DOMAIN log'[r] : log'[r][i] = e \/ (i \in DOMAIN log[r] /\ log'[r][i] = log[r][i])
           /\ \A x : InLog(r, x) => InLog(r, x)'
           /\ InLog(r, e)'
           /\ \A plan : HasClose(r, plan) => HasClose(r, plan)'
           /\ e.what = "close" => HasClose(r, e.plan)'
           /\ log'[r] # <<>> /\ Last(log'[r]) = e
<1> DEFINE s == log[r]
<1>1. /\ DOMAIN s \subseteq DOMAIN log'[r]
      /\ Len(s) + 1 \in DOMAIN log'[r] /\ log'[r][Len(s) + 1] = e
      /\ log'[r] # <<>> /\ Last(log'[r]) = e
      /\ \A i \in DOMAIN s : log'[r][i] = s[i] /\ i < Len(s) + 1
      /\ \A i \in DOMAIN log'[r] : i \in DOMAIN s \/ i = Len(s) + 1
      /\ Len(s) \in Nat
    BY Appends
<1>2. \A i, j \in DOMAIN s : i < j => s[i].id < s[j].id  BY DEF Logged
<1>3. \A i \in DOMAIN s : s[i].id < e.id  OBVIOUS
<1>8. DOMAIN s \subseteq Nat  OBVIOUS
<1> HIDE DEF s
<1>4. \A i, j \in DOMAIN log'[r] : i < j => log'[r][i].id < log'[r][j].id
  <2> SUFFICES ASSUME NEW i \in DOMAIN log'[r], NEW j \in DOMAIN log'[r], i < j
               PROVE  log'[r][i].id < log'[r][j].id
      OBVIOUS
  <2>1. CASE i \in DOMAIN s /\ j \in DOMAIN s  BY <1>1, <1>2, <2>1
  <2>2. CASE i \in DOMAIN s /\ j = Len(s) + 1  BY <1>1, <1>3, <2>2
  <2>3. CASE i = Len(s) + 1  BY <1>1, <1>8, <2>3
  <2> QED BY <1>1, <2>1, <2>2, <2>3
<1>5. \A i \in DOMAIN log'[r] : log'[r][i] = e \/ (i \in DOMAIN s /\ log'[r][i] = s[i])
    BY <1>1
<1>6. /\ \A x : InLog(r, x) => InLog(r, x)'
      /\ InLog(r, e)'
    BY <1>1 DEF InLog, s
<1>7. /\ \A plan : HasClose(r, plan) => HasClose(r, plan)'
      /\ e.what = "close" => HasClose(r, e.plan)'
    BY <1>1 DEF HasClose, s
<1> QED BY <1>1, <1>4, <1>5, <1>6, <1>7 DEF s

\* What an append leaves in the log, when it leaves something.
LEMMA RecordIs ==
    ASSUME NEW r, NEW e \in Events, NEW record \in {e, Cut(e)}
    PROVE  /\ record \in Events /\ record.id = e.id
           /\ record # e => record.what = "cut"
           /\ Told(r, e) => Known(r, record)
<1>1. CASE record = e  BY <1>1 DEF Known
<1>2. CASE record = Cut(e)
  <2>1. record = [id |-> e.id, what |-> "cut", status |-> "none", plan |-> "none"]
      BY <1>2 DEF Cut, Event
  <2> QED BY <2>1 DEF Events, Told, Known
<1> QED BY <1>1, <1>2

\* What an append does to the log of a run, and to no other.
LEMMA AppendIs ==
    ASSUME TypeOK, NEW r \in Runs, NEW e \in Events, Appended(r, e) \/ NotAppended(r, e)
    PROVE  /\ log' \in [Runs -> Seq(Events)] /\ torn' \in [Runs -> BOOLEAN]
           /\ \A q \in Runs \ {r} : log'[q] = log[q] /\ torn'[q] = torn[q]
           /\ Appended(r, e) => log'[r] = Append(log[r], e)
           /\ NotAppended(r, e) =>
                \/ UNCHANGED <<log, torn>>
                \/ torn'[r] /\ \E record \in {e, Cut(e)} : log'[r] = Append(log[r], record)
<1>1. log \in [Runs -> Seq(Events)] /\ torn \in [Runs -> BOOLEAN]  BY DEF TypeOK
<1>2. CASE Appended(r, e)
  <2>1. Append(log[r], e) \in Seq(Events)  BY <1>1
  <2>2. log' = [log EXCEPT ![r] = Append(log[r], e)] /\ torn' = [torn EXCEPT ![r] = FALSE]
      BY <1>2 DEF Appended
  <2>3. Append(log[r], e) # log[r]  BY <1>1
  <2>4. NotAppended(r, e) => torn'[r]
      BY <1>1, <2>2, <2>3 DEF NotAppended
  <2> QED BY <1>1, <2>1, <2>2, <2>4
<1>3. CASE UNCHANGED <<log, torn>>
  <2>1. ~Appended(r, e)
    <3>1. Len(Append(log[r], e)) = Len(log[r]) + 1 /\ Len(log[r]) \in Nat  BY <1>1
    <3> QED BY <1>1, <1>3, <3>1 DEF Appended
  <2> QED BY <1>1, <1>3, <2>1
<1>4. CASE /\ \E record \in {e, Cut(e)} : log' = [log EXCEPT ![r] = Append(@, record)]
           /\ torn' = [torn EXCEPT ![r] = TRUE]
  <2>1. PICK record \in {e, Cut(e)} : log' = [log EXCEPT ![r] = Append(log[r], record)]
      BY <1>4
  <2>r. record \in Events  BY <2>1, RecordIs
  <2>2. Append(log[r], record) \in Seq(Events)  BY <1>1, <2>r
  <2>3. torn'[r] /\ \A q \in Runs \ {r} : torn'[q] = torn[q]  BY <1>1, <1>4
  <2>4. ~Appended(r, e)  BY <1>1, <2>3 DEF Appended
  <2> QED BY <1>1, <1>4, <2>1, <2>2, <2>3, <2>4
<1> QED BY <1>2, <1>3, <1>4 DEF NotAppended

LEMMA WriteStep == ASSUME IInv, NEW r \in Runs, Write(r) PROVE IInv'
<1> DEFINE queue == run[r].queue
<1>0. PICK head : head = Head(queue)  OBVIOUS
<1>1. /\ TypeOK /\ Story(r) /\ run[r] \in RunStates /\ queue # <<>>
      /\ UNCHANGED <<daemon, summary, plans, canvas, tasks, locks, recovery, cancel, seen>>
      /\ Fault \/ NoFault
    BY DEF IInv, Write, TypeOK
<1>2. faults' \in Nat  BY <1>1, Faults
<1>3. run[r].pc \in Telling  BY <1>1 DEF Story, Queued
<1>4. /\ run[r].pc \in Executing /\ run[r].pc \in Unclosed \ {"append"}
      /\ run[r].plan = "none"
    BY <1>1, <1>3 DEF Telling, Executing, Unclosed, Story, Planned
<1>5. queue \in Seq(Events) /\ log[r] \in Seq(Events) /\ log \in [Runs -> Seq(Events)] /\ torn \in [Runs -> BOOLEAN]
    BY <1>1 DEF RunStates, TypeOK
<1>6. /\ head \in Events /\ Tail(queue) \in Seq(Events)
      /\ 1 \in DOMAIN queue /\ head = queue[1]
      /\ \A i \in DOMAIN Tail(queue) : i + 1 \in DOMAIN queue /\ Tail(queue)[i] = queue[i + 1] /\ i \in Nat /\ 1 < i + 1
    BY <1>0, <1>1, <1>5
<1>7. /\ \A i \in DOMAIN queue : Told(r, queue[i])
      /\ \A i, j \in DOMAIN queue : i < j => queue[i].id < queue[j].id
      /\ \A i \in DOMAIN queue : \A j \in DOMAIN log[r] : log[r][j].id < queue[i].id
  <2>1. Queued(r)  BY <1>1 DEF Story
  <2> QED BY <2>1, Zenon DEF Queued
<1>8. \E error \in BOOLEAN : run' = [run EXCEPT ![r] = [run[r] EXCEPT !.queue = Tail(queue), !.logError = error]]
  <2>1. CASE run' = [run EXCEPT ![r].queue = Tail(@)]
    <3>1. [run[r] EXCEPT !.queue = Tail(queue), !.logError = run[r].logError] = [run[r] EXCEPT !.queue = Tail(queue)]
          /\ run[r].logError \in BOOLEAN
        BY <1>1 DEF RunStates
    <3> QED BY <2>1, <3>1
  <2>2. CASE run' = [run EXCEPT ![r].queue = Tail(@), ![r].logError = TRUE]
      BY <1>1, <2>2 DEF TypeOK
  <2> QED BY <2>1, <2>2 DEF Write
<1>9. PICK next \in RunStates :
        /\ run' = [run EXCEPT ![r] = next]
        /\ next.pc = run[r].pc /\ next.queue = Tail(queue) /\ next.plan = run[r].plan
        /\ next.reason = run[r].reason /\ next.asked = run[r].asked /\ next.settled = run[r].settled
        /\ next.aborted = run[r].aborted /\ next.status = run[r].status
  <2>1. PICK error \in BOOLEAN : run' = [run EXCEPT ![r] = [run[r] EXCEPT !.queue = Tail(queue), !.logError = error]]
      BY <1>8
  <2> DEFINE next == [run[r] EXCEPT !.queue = Tail(queue), !.logError = error]
  <2>2. /\ next \in RunStates
        /\ next.pc = run[r].pc /\ next.queue = Tail(queue) /\ next.plan = run[r].plan
        /\ next.reason = run[r].reason /\ next.asked = run[r].asked /\ next.settled = run[r].settled
        /\ next.aborted = run[r].aborted /\ next.status = run[r].status
      BY <1>1, <1>6 DEF RunStates
  <2> HIDE DEF next
  <2>3. run' = [run EXCEPT ![r] = next]  BY <2>1 DEF next
  <2> QED BY <2>2, <2>3
<1>10. run' \in [Runs -> RunStates] /\ run'[r] = next /\ \A q \in Runs \ {r} : run'[q] = run[q]
    BY <1>1, <1>9 DEF TypeOK
<1>11. /\ log' \in [Runs -> Seq(Events)] /\ torn' \in [Runs -> BOOLEAN]
       /\ \A q \in Runs \ {r} : log'[q] = log[q] /\ torn'[q] = torn[q]
       /\ \/ \E record \in {head, Cut(head)} : log'[r] = Append(log[r], record)
          \/ log'[r] = log[r] /\ torn'[r] = torn[r]
  <2>1. Appended(r, head) \/ NotAppended(r, head)  BY <1>0 DEF Write
  <2> QED BY <1>1, <1>6, <2>1, AppendIs
<1>12. TypeOK'  BY <1>1, <1>2, <1>10, <1>11 DEF TypeOK, locks
<1> HIDE DEF queue
<1>13. Fresh(r)' /\ Streamed(r)' /\ Reasoned(r)'
  <2>1. Fresh(r)'  BY <1>3, <1>9, <1>10 DEF Fresh, Telling
  <2>2. Streamed(r)'  BY <1>1 DEF Story, Streamed
  <2>3. Reasoned(r)'
    <3>1. Reasoned(r)  BY <1>1 DEF Story
    <3> QED BY <1>1, <1>4, <1>9, <1>10, <3>1 DEF Reasoned
  <2> QED BY <2>1, <2>2, <2>3
<1>14. Durable(r)'
  <2>1. \A i \in DOMAIN seen[r] : seen[r][i].what # "close"  BY <1>1, <1>4 DEF Story, Reasoned
  <2> QED BY <1>1, <1>3, <1>9, <1>10, <2>1 DEF Durable, Telling
<1>15. \A x : (Told(r, x) => Told(r, x)') /\ (Known(r, x) => Known(r, x)')  BY <1>1 DEF Told, Known
<1>16. Told(r, head) /\ \A j \in DOMAIN log[r] : log[r][j].id < head.id  BY <1>6, <1>7
<1>17. head.what # "close" /\ head.id \in Nat  BY <1>6, <1>16 DEF Told, Events
<1>18. Logged(r) /\ Planned(r)  BY <1>1 DEF Story
<1>19. /\ \A i \in DOMAIN next.queue : Told(r, next.queue[i]) /\ head.id < next.queue[i].id
       /\ \A i, j \in DOMAIN next.queue : i < j => next.queue[i].id < next.queue[j].id
       /\ \A i \in DOMAIN next.queue : \A j \in DOMAIN log[r] : log[r][j].id < next.queue[i].id
  <2>1. \A i \in DOMAIN next.queue : i + 1 \in DOMAIN queue /\ next.queue[i] = queue[i + 1] /\ i \in Nat /\ 1 < i + 1
      BY <1>6, <1>9
  <2>2. \A i, j \in DOMAIN next.queue : i < j => i + 1 < j + 1  BY <2>1
  <2> QED BY <1>6, <1>7, <2>1, <2>2
<1>20. CASE log'[r] = log[r] /\ torn'[r] = torn[r]
  <2>1. Queued(r)'  BY <1>3, <1>9, <1>10, <1>15, <1>19, <1>20 DEF Queued
  <2>2. Logged(r)'  BY <1>9, <1>10, <1>15, <1>18, <1>20 DEF Logged
  <2>3. Planned(r)'
      BY <1>1, <1>4, <1>9, <1>10, <1>18, <1>20 DEF Planned, HasClose, HasTerminalClose
  <2>4. Story(r)'  BY <1>13, <1>14, <2>1, <2>2, <2>3 DEF Story
  <2>5. run'[r].pc \in Executing  BY <1>4, <1>9, <1>10
  <2> QED BY <1>1, <1>4, <1>10, <1>11, <1>12, <2>4, <2>5, Moves
<1>21. CASE \E record \in {head, Cut(head)} : log'[r] = Append(log[r], record)
  <2>0. PICK record \in {head, Cut(head)} : log'[r] = Append(log[r], record)  BY <1>21
  <2>r. record \in Events /\ record.id = head.id /\ record.what # "close" /\ Known(r, record)
      BY <1>6, <1>16, <1>17, RecordIs
  <2>1. /\ \A i, j \in DOMAIN log'[r] : i < j => log'[r][i].id < log'[r][j].id
        /\ \A i \in DOMAIN log'[r] : log'[r][i] = record \/ (i \in DOMAIN log[r] /\ log'[r][i] = log[r][i])
        /\ \A plan : HasClose(r, plan) => HasClose(r, plan)'
        /\ log'[r] # <<>> /\ Last(log'[r]) = record
      BY <1>5, <1>16, <1>18, <2>0, <2>r, Grows
  <2>2. Queued(r)'
    <3>1. \A i \in DOMAIN next.queue : \A j \in DOMAIN log'[r] : log'[r][j].id < next.queue[i].id
        BY <1>19, <2>r, <2>1
    <3>2. \A i \in DOMAIN next.queue : Told(r, next.queue[i])'  BY <1>15, <1>19
    <3> QED BY <1>3, <1>9, <1>10, <1>19, <3>1, <3>2 DEF Queued
  <2>3. Logged(r)'
    <3>1. \A i \in DOMAIN log[r] : Known(r, log[r][i])
        BY <1>4, <1>18 DEF Logged
    <3>2. Known(r, record)'  BY <1>15, <2>r
    <3>3. \A i \in DOMAIN log'[r] : \E x : log'[r][i] = x /\ Known(r, x)'
        BY <1>15, <2>1, <3>1, <3>2
    <3> QED BY <2>1, <3>3 DEF Logged
  <2>4. Planned(r)'
    <3>1. ~HasTerminalClose(r)'  BY <2>r, <2>1 DEF HasTerminalClose
    <3>2. \A plan : plan = canvas[r] /\ plan # "none" => HasClose(r, plan)'
        BY <1>18, <2>1 DEF Planned
    <3>3. run'[r].plan = "none"  BY <1>4, <1>9, <1>10
    <3>4. canvas' = canvas  BY <1>1
    <3> QED BY <3>1, <3>2, <3>3, <3>4 DEF Planned
  <2>5. Story(r)'  BY <1>13, <1>14, <2>2, <2>3, <2>4 DEF Story
  <2>6. run'[r].pc \in Executing  BY <1>4, <1>9, <1>10
  <2> QED BY <1>1, <1>4, <1>10, <1>11, <1>12, <2>5, <2>6, Moves
<1> QED BY <1>11, <1>20, <1>21
-----------------------------------------------------------------------------
(* #finish *)

LEMMA NoClose ==
    ASSUME TypeOK, NEW r \in Runs, Logged(r), run[r].pc \in Unclosed
    PROVE  ~HasTerminalClose(r) /\ \A i \in DOMAIN log[r] : Known(r, log[r][i])
<1>1. \A i \in DOMAIN log[r] : Known(r, log[r][i])  BY DEF Logged
<1>2. log[r] # <<>> => Len(log[r]) \in DOMAIN log[r]  BY DEF TypeOK
<1> QED BY <1>1, <1>2 DEF HasTerminalClose, Last, Told, Known

LEMMA SettledIs ==
    ASSUME TypeOK, NEW R
    PROVE  /\ Settled(R) \in [Runs -> [kind : Plans \cup {"none"}, state : {"none", "pending", "dismissed"}]]
           /\ \A q \in Runs : Settled(R)[q].kind = plans[q].kind
<1>1. \A q \in Runs : plans[q] \in [kind : Plans \cup {"none"}, state : {"none", "pending", "dismissed"}]
    BY DEF TypeOK
<1>2. \A q \in Runs :
        /\ [plans[q] EXCEPT !.state = "dismissed"]
             \in [kind : Plans \cup {"none"}, state : {"none", "pending", "dismissed"}]
        /\ [plans[q] EXCEPT !.state = "dismissed"].kind = plans[q].kind
    BY <1>1
<1> QED BY <1>1, <1>2 DEF Settled

LEMMA CreatePlanStep == ASSUME IInv, NEW r \in Runs, CreatePlan(r) PROVE IInv'
<1>1. /\ TypeOK /\ Story(r) /\ run[r] \in RunStates /\ run[r].pc = "plan"
      /\ UNCHANGED <<daemon, summary, log, torn, canvas, tasks, locks, recovery, cancel, seen>>
      /\ Fault \/ NoFault
    BY DEF IInv, CreatePlan, At, TypeOK
<1>2. faults' \in Nat  BY <1>1, Faults
<1>3. PICK next \in RunStates :
        /\ run' = [run EXCEPT ![r] = next]
        /\ next.pc = "append" /\ next.queue = run[r].queue
        /\ next.reason = run[r].reason /\ next.asked = run[r].asked
        /\ next.status \in {run[r].status, "error"}
        /\ plans' \in [Runs -> [kind : Plans \cup {"none"}, state : {"none", "pending", "dismissed"}]]
        /\ \A q \in Runs \ {r} : plans'[q].kind = plans[q].kind
        /\ next.plan # "none" => plans'[r].kind = next.plan
  <2>1. ASSUME NEW kind \in PlansOf(r),
               plans' = [Settled(Superseded(r)) EXCEPT ![r] = [kind |-> kind, state |-> "pending"]],
               run' = [run EXCEPT ![r].plan = kind, ![r].pc = "append"]
        PROVE  \E next \in RunStates :
                 /\ run' = [run EXCEPT ![r] = next]
                 /\ next.pc = "append" /\ next.queue = run[r].queue
                 /\ next.reason = run[r].reason /\ next.asked = run[r].asked
                 /\ next.status \in {run[r].status, "error"}
                 /\ plans' \in [Runs -> [kind : Plans \cup {"none"}, state : {"none", "pending", "dismissed"}]]
                 /\ \A q \in Runs \ {r} : plans'[q].kind = plans[q].kind
                 /\ next.plan # "none" => plans'[r].kind = next.plan
    <3> DEFINE next == [run[r] EXCEPT !.plan = kind, !.pc = "append"]
    <3>1. kind \in Plans  BY DEF PlansOf, Plans
    <3>2. /\ next \in RunStates /\ next.pc = "append" /\ next.queue = run[r].queue
          /\ next.reason = run[r].reason /\ next.asked = run[r].asked
          /\ next.status = run[r].status /\ next.plan = kind
        BY <1>1, <3>1 DEF RunStates, RunPcs, Busy, Executing, Finishing
    <3>3. run' = [run EXCEPT ![r] = next]  BY <1>1, <2>1 DEF TypeOK
    <3>4. /\ plans' \in [Runs -> [kind : Plans \cup {"none"}, state : {"none", "pending", "dismissed"}]]
          /\ \A q \in Runs \ {r} : plans'[q].kind = plans[q].kind
          /\ plans'[r].kind = kind
        BY <1>1, <2>1, <3>1, SettledIs
    <3> HIDE DEF next
    <3> QED BY <3>2, <3>3, <3>4
  <2>2. ASSUME run' = [run EXCEPT ![r].status = "error", ![r].pc = "append"], plans' = plans
        PROVE  \E next \in RunStates :
                 /\ run' = [run EXCEPT ![r] = next]
                 /\ next.pc = "append" /\ next.queue = run[r].queue
                 /\ next.reason = run[r].reason /\ next.asked = run[r].asked
                 /\ next.status \in {run[r].status, "error"}
                 /\ plans' \in [Runs -> [kind : Plans \cup {"none"}, state : {"none", "pending", "dismissed"}]]
                 /\ \A q \in Runs \ {r} : plans'[q].kind = plans[q].kind
                 /\ next.plan # "none" => plans'[r].kind = next.plan
    <3> DEFINE next == [run[r] EXCEPT !.status = "error", !.pc = "append"]
    <3>1. /\ next \in RunStates /\ next.pc = "append" /\ next.queue = run[r].queue
          /\ next.reason = run[r].reason /\ next.asked = run[r].asked
          /\ next.status = "error" /\ next.plan = run[r].plan
        BY <1>1 DEF RunStates, RunPcs, Busy, Executing, Finishing, Ends
    <3>2. run' = [run EXCEPT ![r] = next]  BY <1>1, <2>2 DEF TypeOK
    <3>3. run[r].plan = "none"  BY <1>1 DEF Story, Planned, Unclosed
    <3> HIDE DEF next
    <3> QED BY <1>1, <2>2, <3>1, <3>2, <3>3 DEF TypeOK
  <2> QED BY <2>1, <2>2 DEF CreatePlan
<1>4. run' \in [Runs -> RunStates] /\ run'[r] = next /\ \A q \in Runs \ {r} : run'[q] = run[q]
    BY <1>1, <1>3 DEF TypeOK
<1>5. TypeOK'  BY <1>1, <1>2, <1>3, <1>4 DEF TypeOK, locks
<1>6. /\ run[r].pc \in Executing /\ run'[r].pc \in Executing
      /\ run[r].pc \in Unclosed /\ run[r].pc \notin Telling /\ run'[r].pc \in Ended /\ run[r].pc \in Ended
    BY <1>1, <1>3, <1>4 DEF Executing, Finishing, Unclosed, Telling, Ended
<1>7. Fresh(r) /\ Reasoned(r) /\ Queued(r) /\ Logged(r) /\ Planned(r)  BY <1>1 DEF Story
<1>8. run[r].queue = <<>>  BY <1>6, <1>7 DEF Queued
<1>9. Streamed(r)' /\ Queued(r)' /\ Logged(r)'
    BY <1>1, <1>3, <1>4, <1>6, <1>8, Goes
<1>10. Fresh(r)'  BY <1>3, <1>4 DEF Fresh
<1>11. Reasoned(r)'
    BY <1>1, <1>3, <1>4, <1>6, <1>7 DEF Reasoned
<1>12. Durable(r)'
    BY <1>1, <1>3, <1>4, <1>6, <1>7 DEF Durable, Reasoned
<1>13. Planned(r)'
  <2>1. ~HasTerminalClose(r)  BY <1>1, <1>6, <1>7, NoClose
  <2>2. canvas[r] # "none" => HasClose(r, canvas[r])  BY <1>7 DEF Planned
  <2> QED BY <1>1, <1>3, <1>4, <2>1, <2>2 DEF Planned, HasClose, HasTerminalClose
<1>14. Story(r)'  BY <1>9, <1>10, <1>11, <1>12, <1>13 DEF Story
<1> QED BY <1>1, <1>3, <1>4, <1>5, <1>6, <1>14, Moves

LEMMA AppendCloseStep == ASSUME IInv, NEW r \in Runs, AppendClose(r) PROVE IInv'
<1>0. PICK close : close = OwnClose(r)  OBVIOUS
<1>1. /\ TypeOK /\ Story(r) /\ run[r] \in RunStates /\ run[r].pc = "append"
      /\ UNCHANGED <<daemon, summary, plans, canvas, tasks, locks, recovery, cancel, seen>>
      /\ Fault \/ NoFault
    BY DEF IInv, AppendClose, At, TypeOK
<1>2. faults' \in Nat  BY <1>1, Faults
<1>3. /\ log[r] \in Seq(Events) /\ log \in [Runs -> Seq(Events)] /\ torn \in [Runs -> BOOLEAN]
      /\ Len(seen[r]) \in Nat
    BY <1>1 DEF TypeOK
<1>4. /\ close \in Events /\ close.what = "close" /\ close.id = Len(seen[r]) + 1
      /\ close.status = run[r].status /\ close.plan = run[r].plan
    BY <1>0, <1>1, <1>3 DEF OwnClose, Close, Event, NextId, Events, RunStates, Statuses, Ends
<1>5. PICK next \in RunStates :
        /\ run' = [run EXCEPT ![r] = next]
        /\ next.queue = run[r].queue /\ next.reason = run[r].reason /\ next.asked = run[r].asked
        /\ \/ /\ next.pc = "summarize" /\ next.status = run[r].status /\ next.plan = run[r].plan
              /\ Appended(r, close)
           \/ /\ next.pc = "broadcast" /\ next.status = "error" /\ next.plan = "none"
              /\ NotAppended(r, close)
  <2>1. CASE Appended(r, close) /\ run' = [run EXCEPT ![r].pc = "summarize"]
    <3> DEFINE next == [run[r] EXCEPT !.pc = "summarize"]
    <3>1. /\ next \in RunStates /\ next.pc = "summarize" /\ next.queue = run[r].queue
          /\ next.reason = run[r].reason /\ next.asked = run[r].asked
          /\ next.status = run[r].status /\ next.plan = run[r].plan
        BY <1>1 DEF RunStates, RunPcs, Busy, Executing, Finishing
    <3>2. run' = [run EXCEPT ![r] = next]  BY <1>1, <2>1 DEF TypeOK
    <3> HIDE DEF next
    <3> QED BY <2>1, <3>1, <3>2
  <2>2. CASE NotAppended(r, close) /\ Spoilt(r)
    <3> DEFINE next == [run[r] EXCEPT !.status = "error", !.plan = "none", !.pc = "broadcast"]
    <3>1. /\ next \in RunStates /\ next.pc = "broadcast" /\ next.queue = run[r].queue
          /\ next.reason = run[r].reason /\ next.asked = run[r].asked
          /\ next.status = "error" /\ next.plan = "none"
        BY <1>1 DEF RunStates, RunPcs, Busy, Executing, Finishing, Ends
    <3>2. run' = [run EXCEPT ![r] = next]  BY <1>1, <2>2 DEF TypeOK, Spoilt
    <3> HIDE DEF next
    <3> QED BY <2>2, <3>1, <3>2
  <2> QED BY <1>0, <2>1, <2>2 DEF AppendClose
<1>6. run' \in [Runs -> RunStates] /\ run'[r] = next /\ \A q \in Runs \ {r} : run'[q] = run[q]
    BY <1>1, <1>5 DEF TypeOK
<1>7. /\ log' \in [Runs -> Seq(Events)] /\ torn' \in [Runs -> BOOLEAN]
      /\ \A q \in Runs \ {r} : log'[q] = log[q] /\ torn'[q] = torn[q]
      /\ \/ next.pc = "summarize" /\ log'[r] = Append(log[r], close)
         \/ next.pc = "broadcast" /\ log'[r] = log[r] /\ torn'[r] = torn[r]
         \/ next.pc = "broadcast" /\ torn'[r] /\ \E record \in {close, Cut(close)} : log'[r] = Append(log[r], record)
    BY <1>1, <1>4, <1>5, AppendIs
<1>8. TypeOK'  BY <1>1, <1>2, <1>6, <1>7 DEF TypeOK, locks
<1>9. /\ run[r].pc \in Executing /\ run'[r].pc \in Executing /\ run'[r].pc \in Ended /\ run[r].pc \in Ended
      /\ run[r].pc \in Unclosed /\ run[r].pc \notin Telling /\ run'[r].pc \notin Telling \cup Unclosed
    BY <1>1, <1>5, <1>6 DEF Executing, Finishing, Unclosed, Telling, Ended
<1>10. Reasoned(r) /\ Streamed(r) /\ Queued(r) /\ Logged(r) /\ Planned(r)  BY <1>1 DEF Story
<1>11. Fresh(r)' /\ Streamed(r)' /\ Queued(r)' /\ Reasoned(r)'
  <2>1. Fresh(r)'  BY <1>5, <1>6 DEF Fresh
  <2>2. Streamed(r)'  BY <1>1, <1>10 DEF Streamed
  <2>3. run'[r].queue = <<>>  BY <1>5, <1>6, <1>9, <1>10 DEF Queued
  <2>4. Queued(r)'  BY <2>3 DEF Queued
  <2>5. Reasoned(r)'  BY <1>1, <1>5, <1>6, <1>9, <1>10 DEF Reasoned
  <2> QED BY <2>1, <2>2, <2>4, <2>5
<1>12. /\ ~HasTerminalClose(r) /\ \A i \in DOMAIN log[r] : Known(r, log[r][i])
       /\ \A x : Known(r, x) => Known(r, x)'
       /\ \A i \in DOMAIN seen[r] : seen[r][i].what # "close"
    BY <1>1, <1>9, <1>10, NoClose DEF Told, Known, Reasoned
<1>13. CASE log'[r] = log[r] /\ torn'[r] = torn[r] /\ next.pc = "broadcast"
  <2>1. Logged(r)'  BY <1>10, <1>12, <1>13 DEF Logged
  <2>2. Durable(r)'  BY <1>1, <1>5, <1>6, <1>12, <1>13 DEF Durable
  <2>3. Planned(r)'
      BY <1>1, <1>5, <1>6, <1>9, <1>10, <1>12, <1>13 DEF Planned, HasClose, HasTerminalClose
  <2>4. Story(r)'  BY <1>11, <2>1, <2>2, <2>3 DEF Story
  <2> QED BY <1>1, <1>6, <1>7, <1>8, <1>9, <2>4, Moves
<1>14. CASE \E record \in {close, Cut(close)} :
             /\ log'[r] = Append(log[r], record)
             /\ next.pc = "broadcast" => torn'[r]
             /\ next.pc = "summarize" => record = close
  <2>r. PICK record \in {close, Cut(close)} :
             /\ log'[r] = Append(log[r], record)
             /\ next.pc = "broadcast" => torn'[r]
             /\ next.pc = "summarize" => record = close
      BY <1>14
  <2>s. record \in Events /\ record.id = close.id /\ record.what \in {"close", "cut"}
      BY <1>4, RecordIs
  <2>0. \A i \in DOMAIN log[r] : log[r][i].id < close.id
    <3>0. \A x \in Events : x.id \in Nat  BY DEF Events
    <3>1. \A i \in DOMAIN log[r] : log[r][i].id \in Nat  BY <1>3, <3>0
    <3> QED BY <1>3, <1>4, <1>12, <3>1 DEF Told, Known
  <2>1. /\ \A i, j \in DOMAIN log'[r] : i < j => log'[r][i].id < log'[r][j].id
        /\ \A i \in DOMAIN log'[r] : log'[r][i] = record \/ (i \in DOMAIN log[r] /\ log'[r][i] = log[r][i])
        /\ InLog(r, record)'
        /\ \A plan : HasClose(r, plan) => HasClose(r, plan)'
        /\ log'[r] # <<>> /\ Last(log'[r]) = record
      BY <1>3, <1>10, <2>r, <2>s, <2>0, Grows
  <2>2. Logged(r)'
    <3>1. \A i \in DOMAIN log'[r] : \E x : log'[r][i] = x /\ (Known(r, x)' \/ x.what \in {"close", "cut"})
        BY <1>12, <2>s, <2>1
    <3> QED BY <1>9, <2>1, <3>1 DEF Logged
  <2>3. Durable(r)'
    <3>1. next.pc = "summarize" => OwnClose(r)' = close
        BY <1>0, <1>1, <1>5, <1>6 DEF OwnClose, NextId
    <3> QED BY <1>1, <1>5, <1>6, <1>12, <2>r, <2>1, <3>1 DEF Durable
  <2>4. Planned(r)'
    <3>1. \A plan : plan = canvas[r] /\ plan # "none" => HasClose(r, plan)'
        BY <1>10, <2>1 DEF Planned
    <3>2. ~torn'[r] /\ record.plan # "none" => plans[r].kind = record.plan
      <4>1. CASE next.pc = "broadcast"  BY <2>r, <4>1
      <4>2. CASE next.pc = "summarize"
          BY <1>1, <1>4, <1>10, <2>r, <4>2 DEF Planned
      <4> QED BY <1>5, <4>1, <4>2
    <3>3. canvas' = canvas /\ plans' = plans  BY <1>1
    <3>4. run'[r].pc \notin Unclosed \cup {"recovering"}  BY <1>9 DEF Executing, Finishing
    <3> QED BY <2>1, <3>1, <3>2, <3>3, <3>4 DEF Planned, Unclosed
  <2>5. Story(r)'  BY <1>11, <2>2, <2>3, <2>4 DEF Story
  <2> QED BY <1>1, <1>6, <1>7, <1>8, <1>9, <2>5, Moves
<1>15. close \in {close, Cut(close)}  OBVIOUS
<1> QED BY <1>7, <1>13, <1>14, <1>15, Zenon

\* After the append the log of the run stays, up to the broadcast.
LEMMA Finishes ==
    ASSUME IInv, NEW r \in Runs, NEW next \in RunStates, run' = [run EXCEPT ![r] = next],
           run[r].pc \in {"summarize", "ready", "dismiss"}, next.pc \in {"ready", "dismiss", "broadcast"},
           next.queue = run[r].queue, next.reason = run[r].reason, next.asked = run[r].asked,
           \/ next.status = run[r].status /\ next.plan = run[r].plan
           \/ next.pc = "broadcast" /\ next.status = "error" /\ next.plan = "none",
           summary' \in [Runs -> {"none", "active"} \cup Statuses],
           canvas' \in [Runs -> Plans \cup {"none"}],
           canvas'[r] \in {canvas[r], run[r].plan},
           \A q \in Runs \ {r} : summary'[q] = summary[q] /\ canvas'[q] = canvas[q],
           plans' \in [Runs -> [kind : Plans \cup {"none"}, state : {"none", "pending", "dismissed"}]],
           \A q \in Runs : plans'[q].kind = plans[q].kind,
           faults' \in Nat, UNCHANGED <<daemon, log, torn, tasks, locks, recovery, cancel, seen>>
    PROVE  IInv'
<1>1. TypeOK /\ Story(r)  BY DEF IInv
<1>2. run' \in [Runs -> RunStates] /\ run'[r] = next /\ \A q \in Runs \ {r} : run'[q] = run[q]
    BY <1>1 DEF TypeOK
<1>3. TypeOK'  BY <1>1, <1>2 DEF TypeOK, locks
<1>4. /\ run[r].pc \in Executing /\ run'[r].pc \in Executing /\ run'[r].pc \in Ended /\ run[r].pc \in Ended
      /\ run[r].pc \notin Telling /\ run'[r].pc \notin Telling \cup Unclosed \cup {"recovering", "settle"}
    BY <1>2 DEF Executing, Finishing, Unclosed, Telling, Ended
<1>5. Reasoned(r) /\ Streamed(r) /\ Queued(r) /\ Logged(r) /\ Planned(r) /\ Durable(r)  BY <1>1 DEF Story
<1>6. Fresh(r)' /\ Streamed(r)' /\ Queued(r)' /\ Reasoned(r)' /\ Logged(r)'
  <2>1. Fresh(r)'  BY <1>2 DEF Fresh
  <2>2. Streamed(r)'  BY <1>5 DEF Streamed
  <2>3. run'[r].queue = <<>>  BY <1>2, <1>4, <1>5 DEF Queued
  <2>4. Queued(r)'  BY <2>3 DEF Queued
  <2>5. Reasoned(r)'  BY <1>2, <1>4, <1>5 DEF Reasoned
  <2>6. Logged(r)'  BY <1>4, <1>5 DEF Logged, Told, Known
  <2> QED BY <2>1, <2>2, <2>4, <2>5, <2>6
<1>7. InLog(r, OwnClose(r))  BY <1>5 DEF Durable
<1>8. Durable(r)'
  <2>1. next.status = run[r].status /\ next.plan = run[r].plan => OwnClose(r)' = OwnClose(r)
      BY <1>2 DEF OwnClose, NextId
  <2>2. \A x : InLog(r, x) => InLog(r, x)'  BY DEF InLog
  <2>3. (next.status = run[r].status /\ next.plan = run[r].plan) => InLog(r, OwnClose(r))'
    <3>1. PICK close : close = OwnClose(r)  OBVIOUS
    <3> QED BY <1>7, <2>1, <2>2, <3>1 DEF InLog
  <2>4. \A i \in DOMAIN seen[r] : seen[r][i].what # "close"
      BY <1>4, <1>5 DEF Reasoned
  <2> QED BY <1>2, <2>3, <2>4 DEF Durable
<1>9. Planned(r)'
  <2>1. HasClose(r, run[r].plan)
      BY <1>7 DEF InLog, HasClose, OwnClose, Close, Event
  <2>2. \A plan : plan = canvas'[r] /\ plan # "none" => HasClose(r, plan)
      BY <1>5, <2>1 DEF Planned
  <2>3. \A plan : HasClose(r, plan) => HasClose(r, plan)'  BY DEF HasClose
  <2>4. PICK plan : plan = canvas'[r]  OBVIOUS
  <2>5. canvas'[r] # "none" => HasClose(r, plan)'  BY <2>2, <2>3, <2>4
  <2>6. HasTerminalClose(r)' <=> HasTerminalClose(r)  BY DEF HasTerminalClose
  <2> QED BY <1>4, <1>5, <2>4, <2>5, <2>6 DEF Planned, Unclosed, HasClose
<1>10. Story(r)'  BY <1>6, <1>8, <1>9 DEF Story
<1> QED BY <1>2, <1>3, <1>4, <1>10, Moves

\* A run that goes on with its status and plan, or is spoilt.
LEMMA NextOfRun ==
    ASSUME TypeOK, NEW r \in Runs, NEW pc \in {"ready", "dismiss", "broadcast"},
           run' = [run EXCEPT ![r].pc = pc] \/ (pc = "broadcast" /\ Spoilt(r))
    PROVE  \E next \in RunStates :
             /\ run' = [run EXCEPT ![r] = next]
             /\ next.pc = pc /\ next.queue = run[r].queue
             /\ next.reason = run[r].reason /\ next.asked = run[r].asked
             /\ \/ next.status = run[r].status /\ next.plan = run[r].plan
                \/ next.pc = "broadcast" /\ next.status = "error" /\ next.plan = "none"
<1>0. run[r] \in RunStates  BY DEF TypeOK
<1>1. CASE run' = [run EXCEPT ![r].pc = pc]
  <2> DEFINE next == [run[r] EXCEPT !.pc = pc]
  <2>1. /\ next \in RunStates /\ next.pc = pc /\ next.queue = run[r].queue
        /\ next.reason = run[r].reason /\ next.asked = run[r].asked
        /\ next.status = run[r].status /\ next.plan = run[r].plan
      BY <1>0 DEF RunStates, RunPcs, Busy, Executing, Finishing
  <2>2. run' = [run EXCEPT ![r] = next]  BY <1>1 DEF TypeOK
  <2> HIDE DEF next
  <2> QED BY <2>1, <2>2
<1>2. CASE pc = "broadcast" /\ Spoilt(r)
  <2> DEFINE next == [run[r] EXCEPT !.status = "error", !.plan = "none", !.pc = "broadcast"]
  <2>1. /\ next \in RunStates /\ next.pc = "broadcast" /\ next.queue = run[r].queue
        /\ next.reason = run[r].reason /\ next.asked = run[r].asked
        /\ next.status = "error" /\ next.plan = "none"
      BY <1>0 DEF RunStates, RunPcs, Busy, Executing, Finishing, Ends
  <2>2. run' = [run EXCEPT ![r] = next]  BY <1>2 DEF TypeOK, Spoilt
  <2> HIDE DEF next
  <2> QED BY <1>2, <2>1, <2>2
<1> QED BY <1>1, <1>2

LEMMA SummarizeStep == ASSUME IInv, NEW r \in Runs, Summarize(r) PROVE IInv'
<1>1. /\ TypeOK /\ run[r] \in RunStates /\ run[r].pc = "summarize"
      /\ UNCHANGED <<daemon, log, torn, plans, canvas, tasks, locks, recovery, cancel, seen>>
      /\ Fault \/ NoFault
    BY DEF IInv, Summarize, At, TypeOK
<1>2. faults' \in Nat  BY <1>1, Faults
<1>3. \E pc \in {"ready", "dismiss", "broadcast"} :
        run' = [run EXCEPT ![r].pc = pc] \/ (pc = "broadcast" /\ Spoilt(r))
    BY DEF Summarize
<1>4. run[r].status \in Statuses
  <2>1. Reasoned(r)  BY DEF IInv, Story
  <2> QED BY <1>1, <2>1 DEF Reasoned, Executing, Ended, Finishing, RunStates, StatusFor, Statuses, Reasons
<1>5. /\ summary' \in [Runs -> {"none", "active"} \cup Statuses]
      /\ \A q \in Runs \ {r} : summary'[q] = summary[q]
    BY <1>1, <1>4 DEF Summarize, TypeOK
<1>6. PICK pc \in {"ready", "dismiss", "broadcast"} :
        run' = [run EXCEPT ![r].pc = pc] \/ (pc = "broadcast" /\ Spoilt(r))
    BY <1>3
<1>7. PICK next \in RunStates :
        /\ run' = [run EXCEPT ![r] = next]
        /\ next.pc = pc /\ next.queue = run[r].queue
        /\ next.reason = run[r].reason /\ next.asked = run[r].asked
        /\ \/ next.status = run[r].status /\ next.plan = run[r].plan
           \/ next.pc = "broadcast" /\ next.status = "error" /\ next.plan = "none"
    BY <1>1, <1>6, NextOfRun
<1>8. /\ plans \in [Runs -> [kind : Plans \cup {"none"}, state : {"none", "pending", "dismissed"}]]
      /\ canvas \in [Runs -> Plans \cup {"none"}]
    BY <1>1 DEF TypeOK
<1> QED BY <1>1, <1>2, <1>5, <1>7, <1>8, Finishes

LEMMA ReadyStep == ASSUME IInv, NEW r \in Runs, Ready(r) PROVE IInv'
<1>1. /\ TypeOK /\ run[r] \in RunStates /\ run[r].pc = "ready"
      /\ UNCHANGED <<daemon, summary, log, torn, plans, tasks, locks, recovery, cancel, seen>>
      /\ Fault \/ NoFault
    BY DEF IInv, Ready, At, TypeOK
<1>2. faults' \in Nat  BY <1>1, Faults
<1>3. PICK pc \in {"ready", "dismiss", "broadcast"} : run' = [run EXCEPT ![r].pc = pc]
    BY DEF Ready
<1>4. /\ plans \in [Runs -> [kind : Plans \cup {"none"}, state : {"none", "pending", "dismissed"}]]
      /\ canvas \in [Runs -> Plans \cup {"none"}]
      /\ summary \in [Runs -> {"none", "active"} \cup Statuses]
      /\ run[r].plan \in Plans \cup {"none"}
    BY <1>1 DEF TypeOK, RunStates
<1>5. /\ canvas' \in [Runs -> Plans \cup {"none"}]
      /\ canvas'[r] \in {canvas[r], run[r].plan}
      /\ \A q \in Runs \ {r} : canvas'[q] = canvas[q]
    BY <1>4 DEF Ready, Materialize
<1>6. PICK next \in RunStates :
        /\ run' = [run EXCEPT ![r] = next]
        /\ next.pc = pc /\ next.queue = run[r].queue
        /\ next.reason = run[r].reason /\ next.asked = run[r].asked
        /\ \/ next.status = run[r].status /\ next.plan = run[r].plan
           \/ next.pc = "broadcast" /\ next.status = "error" /\ next.plan = "none"
    BY <1>1, <1>3, NextOfRun
<1> QED BY <1>1, <1>2, <1>4, <1>5, <1>6, Finishes

LEMMA DismissStep == ASSUME IInv, NEW r \in Runs, Dismiss(r) PROVE IInv'
<1>1. /\ TypeOK /\ run[r] \in RunStates /\ run[r].pc = "dismiss"
      /\ UNCHANGED <<daemon, summary, log, torn, canvas, tasks, locks, recovery, cancel, seen>>
      /\ Fault \/ NoFault \/ UNCHANGED faults
      /\ run' = [run EXCEPT ![r].pc = "broadcast"]
    BY DEF IInv, Dismiss, At, TypeOK
<1>2. faults' \in Nat  BY <1>1, Faults
<1>3. /\ canvas \in [Runs -> Plans \cup {"none"}]
      /\ summary \in [Runs -> {"none", "active"} \cup Statuses]
    BY <1>1 DEF TypeOK
<1>4. /\ plans' \in [Runs -> [kind : Plans \cup {"none"}, state : {"none", "pending", "dismissed"}]]
      /\ \A q \in Runs : plans'[q].kind = plans[q].kind
  <2>1. CASE plans' = Settled({r})  BY <1>1, <2>1, SettledIs
  <2>2. CASE UNCHANGED plans  BY <1>1, <2>2 DEF TypeOK
  <2> QED BY <2>1, <2>2 DEF Dismiss
<1>5. PICK next \in RunStates :
        /\ run' = [run EXCEPT ![r] = next]
        /\ next.pc = "broadcast" /\ next.queue = run[r].queue
        /\ next.reason = run[r].reason /\ next.asked = run[r].asked
        /\ \/ next.status = run[r].status /\ next.plan = run[r].plan
           \/ next.pc = "broadcast" /\ next.status = "error" /\ next.plan = "none"
    BY <1>1, NextOfRun
<1> QED BY <1>1, <1>2, <1>3, <1>4, <1>5, Finishes

LEMMA BroadcastStep == ASSUME IInv, NEW r \in Runs, Broadcast(r) PROVE IInv'
<1>0. PICK close : close = OwnClose(r)  OBVIOUS
<1> DEFINE next == [run[r] EXCEPT !.pc = "closed"]
           s == seen[r]
<1>1. /\ TypeOK /\ Story(r) /\ run[r] \in RunStates /\ run[r].pc = "broadcast"
      /\ seen' = [seen EXCEPT ![r] = Append(@, close)]
      /\ run' = [run EXCEPT ![r] = next]
      /\ UNCHANGED <<daemon, faults, disk, locks, recovery, cancel>>
    BY <1>0 DEF IInv, Broadcast, At, TypeOK
<1>2. s \in Seq(Events) /\ seen \in [Runs -> Seq(Events)] /\ Len(s) \in Nat  BY <1>1 DEF TypeOK
<1>3. /\ close \in Events /\ close.what = "close" /\ close.id = Len(s) + 1
      /\ close.status = run[r].status /\ close.plan = run[r].plan
    BY <1>0, <1>1, <1>2 DEF OwnClose, Close, Event, NextId, Events, RunStates, Statuses, Ends
<1>4. /\ next \in RunStates /\ next.pc = "closed" /\ next.queue = run[r].queue
    BY <1>1 DEF RunStates, RunPcs, Busy
<1> HIDE DEF next
<1>5. run' \in [Runs -> RunStates] /\ run'[r] = next /\ \A q \in Runs \ {r} : run'[q] = run[q]
    BY <1>1, <1>4 DEF TypeOK
<1>6. /\ seen' \in [Runs -> Seq(Events)] /\ seen'[r] = Append(s, close)
      /\ \A q \in Runs \ {r} : seen'[q] = seen[q]
    BY <1>1, <1>2, <1>3
<1>7. /\ DOMAIN seen'[r] = 1..(Len(s) + 1) /\ DOMAIN s = 1..Len(s) /\ Len(seen'[r]) = Len(s) + 1
      /\ seen'[r][Len(s) + 1] = close /\ \A i \in 1..Len(s) : seen'[r][i] = s[i]
      /\ \A i \in 1..(Len(s) + 1) : i \in 1..Len(s) \/ i = Len(s) + 1
    BY <1>2, <1>3, <1>6
<1>8. TypeOK'  BY <1>1, <1>5, <1>6 DEF TypeOK, disk, locks
<1>9. /\ run[r].pc \in Executing /\ run[r].pc \in Ended /\ run[r].pc \notin Telling
      /\ run'[r].pc = "closed"
    BY <1>1, <1>4, <1>5 DEF Executing, Finishing, Telling, Ended
<1>10. Reasoned(r) /\ Streamed(r) /\ Queued(r) /\ Logged(r) /\ Planned(r) /\ Durable(r)  BY <1>1 DEF Story
<1>11. \A i \in DOMAIN s : s[i].what # "close"  BY <1>9, <1>10 DEF Reasoned
<1>12. PICK k \in DOMAIN s :
         s[k].what = "done" /\ close.status \in {StatusFor(s[k].status), "error"}
    BY <1>3, <1>9, <1>10 DEF Reasoned
<1> HIDE DEF s
<1>13. Fresh(r)' /\ Reasoned(r)'
    BY <1>9 DEF Fresh, Reasoned, Executing, Finishing
<1>14. Streamed(r)'
  <2>1. \A i \in DOMAIN s : s[i].id = i  BY <1>10 DEF Streamed, s
  <2>2. \A i, j \in DOMAIN s : s[i].what = "done" /\ s[j].what = "done" => i = j
      BY <1>10, Zenon DEF Streamed, s
  <2>3. \A i \in 1..(Len(s) + 1) : seen'[r][i].id = i /\ (seen'[r][i].what = "close" => i = Len(s) + 1)
      BY <1>3, <1>7, <1>11, <2>1
  <2>4. \A i, j \in 1..(Len(s) + 1) : seen'[r][i].what = "done" /\ seen'[r][j].what = "done" => i = j
      BY <1>3, <1>7, <2>2
  <2>5. /\ k \in 1..((Len(s) + 1) - 1) /\ seen'[r][k].what = "done"
        /\ seen'[r][Len(s) + 1].status \in {StatusFor(seen'[r][k].status), "error"}
      BY <1>2, <1>7, <1>12
  <2> QED BY <1>7, <2>3, <2>4, <2>5 DEF Streamed
<1>15. run[r].queue = <<>> /\ run'[r].queue = <<>>
    BY <1>4, <1>5, <1>9, <1>10 DEF Queued
<1>16. Queued(r)'  BY <1>15 DEF Queued
<1>17. \A x : Known(r, x) => Known(r, x)'  BY <1>2, <1>7 DEF Told, Known, s
<1>18. Logged(r)'  BY <1>1, <1>9, <1>10, <1>17 DEF Logged, Unclosed, disk
<1>19. Durable(r)'
  <2>1. close.status # "error" \/ close.plan # "none" => InLog(r, close)
      BY <1>0, <1>1, <1>3, <1>10 DEF Durable
  <2>2. \A x : InLog(r, x) => InLog(r, x)'  BY <1>1 DEF InLog, disk
  <2>3. close.status # "error" \/ close.plan # "none" => InLog(r, close)'
      BY <2>1, <2>2
  <2>4. \A i \in DOMAIN seen'[r] : \E x : x = seen'[r][i] /\
           (x.what = "close" /\ (x.status # "error" \/ x.plan # "none") => InLog(r, x)')
      BY <1>7, <1>11, <2>3
  <2> QED BY <1>9, <2>4 DEF Durable, InLog
<1>20. Planned(r)'
    BY <1>1, <1>9, <1>10 DEF Planned, HasClose, HasTerminalClose, disk, Unclosed
<1>21. Story(r)'  BY <1>13, <1>14, <1>16, <1>18, <1>19, <1>20 DEF Story
<1> QED BY <1>1, <1>5, <1>6, <1>8, <1>9, <1>21, Moves DEF disk

\* A run that is over, or was never there.
LEMMA Leaves ==
    ASSUME NEW r \in Runs, Story(r), run'[r].pc \in {"absent", "gone"}, run'[r].queue = <<>>,
           seen'[r] = seen[r], log'[r] = log[r], torn'[r] = torn[r] \/ torn'[r],
           plans'[r].kind = plans[r].kind, canvas'[r] = canvas[r]
    PROVE  Story(r)'
<1>1. Fresh(r)' /\ Reasoned(r)' /\ Streamed(r)' /\ Queued(r)'
    BY DEF Story, Fresh, Reasoned, Streamed, Queued, Executing, Finishing
<1>2. Logged(r)'  BY DEF Story, Logged, Told, Known, Unclosed
<1>3. Durable(r)'  BY DEF Story, Durable, InLog
<1>4. Planned(r)'
    BY DEF Story, Planned, HasClose, HasTerminalClose, Unclosed
<1> QED BY <1>1, <1>2, <1>3, <1>4 DEF Story

LEMMA NoRunIs ==
    /\ NoRun \in RunStates /\ [NoRun EXCEPT !.pc = "gone"] \in RunStates
    /\ [NoRun EXCEPT !.pc = "recovering"] \in RunStates
    /\ NoRun.pc = "absent" /\ [NoRun EXCEPT !.pc = "gone"].pc = "gone"
    /\ NoRun.queue = <<>> /\ [NoRun EXCEPT !.pc = "gone"].queue = <<>>
    /\ [NoRun EXCEPT !.pc = "recovering"].pc = "recovering"
    /\ [NoRun EXCEPT !.pc = "recovering"].queue = <<>>
    /\ [NoRun EXCEPT !.pc = "recovering"].plan = "none"
    /\ [NoRun EXCEPT !.pc = "recovering"].reason = "none"
<1>1. <<>> \in Seq(Events)  OBVIOUS
<1>2. {"absent", "gone", "recovering"} \subseteq RunPcs  BY DEF RunPcs, Busy
<1>3. NoRun \in RunStates  BY <1>1, <1>2 DEF NoRun, RunStates
<1>4. \A pc \in RunPcs : [NoRun EXCEPT !.pc = pc] \in RunStates  BY <1>3 DEF RunStates
<1>5. /\ NoRun.pc = "absent" /\ NoRun.queue = <<>> /\ NoRun.plan = "none" /\ NoRun.reason = "none"
      /\ \A pc : /\ [NoRun EXCEPT !.pc = pc].pc = pc /\ [NoRun EXCEPT !.pc = pc].queue = <<>>
                 /\ [NoRun EXCEPT !.pc = pc].plan = "none" /\ [NoRun EXCEPT !.pc = pc].reason = "none"
    BY DEF NoRun
<1> QED BY <1>2, <1>3, <1>4, <1>5

\* The lease of a run is given back.
LEMMA Releases ==
    ASSUME TypeOK, Locks, NEW r \in Runs, Release(r),
           UNCHANGED <<tasks, mutating, deletion, recovery>>,
           run'[r].pc \in {"absent", "gone"}, \A q \in Runs \ {r} : run'[q] = run[q]
    PROVE  leases' \in [Tasks -> SUBSET Runs] /\ Locks'
<1>1. TaskOf \in [Runs -> Tasks]  BY RunAssumption
<1>2. /\ leases' \in [Tasks -> SUBSET Runs]
      /\ \A t \in Tasks : leases'[t] \subseteq leases[t]
      /\ \A t \in Tasks, q \in Runs \ {r} : q \in leases[t] => q \in leases'[t]
    BY <1>1 DEF Release, TypeOK
<1>3. mutating \subseteq Tasks  BY DEF TypeOK
<1>4. run'[r].pc \notin Busy  BY DEF Busy, Executing, Finishing
<1>5. \A q \in Runs : run'[q].pc \in Busy => q \in leases'[TaskOf[q]]
    BY <1>1, <1>2, <1>4 DEF Locks
<1>6. \A t \in Tasks : \A p, q \in leases'[t] : p = q  BY <1>2 DEF Locks
<1>7. \A t \in mutating : leases'[t] = {}  BY <1>2, <1>3 DEF Locks
<1>8. \A q \in Runs : run'[q].pc \in Executing => TaskOf[q] \in tasks
    BY <1>4 DEF Locks, Busy
<1>9. DeletionIsExclusive'  BY <1>4 DEF Locks, DeletionIsExclusive
<1> QED BY <1>2, <1>5, <1>6, <1>7, <1>8, <1>9 DEF Locks

\* A run that leaves gives its lease back.
LEMMA LeavesAlone ==
    ASSUME IInv, NEW r \in Runs, Release(r), NEW next \in RunStates, run' = [run EXCEPT ![r] = next],
           next.pc \in {"absent", "gone"}, next.queue = <<>>, faults' \in Nat,
           cancel' \in [Runs -> {"none", "asked", "waiting"}],
           UNCHANGED <<daemon, disk, mutating, deletion, recovery, seen>>
    PROVE  IInv'
<1>1. TypeOK /\ Locks /\ Recovers  BY DEF IInv
<1>2. run' \in [Runs -> RunStates] /\ run'[r] = next /\ \A q \in Runs \ {r} : run'[q] = run[q]
    BY <1>1 DEF TypeOK
<1>3. leases' \in [Tasks -> SUBSET Runs] /\ Locks'
    BY <1>1, <1>2, Releases DEF disk
<1>4. TypeOK'  BY <1>1, <1>2, <1>3 DEF TypeOK, disk
<1>5. Story(r)'  BY <1>2, Leaves DEF IInv, disk
<1>6. \A q \in Runs \ {r} : Story(q)'  BY <1>2, Others DEF IInv, disk
<1>7. Recovers'
  <2>1. \A q \in Runs : run'[q].pc \in Executing \cup {"closed"} => recovery'.pc = "done"
      BY <1>1, <1>2 DEF Recovers, Executing, Finishing
  <2>2. Current' = Current  BY DEF Current
  <2> QED BY <1>1, <2>1, <2>2 DEF Recovers, HasTerminalClose, HasClose, disk
<1> QED BY <1>3, <1>4, <1>5, <1>6, <1>7 DEF IInv

LEMMA EndStep == ASSUME IInv, NEW r \in Runs, End(r) PROVE IInv'
<1>1. TypeOK  BY DEF IInv
<1>2. cancel' \in [Runs -> {"none", "asked", "waiting"}]  BY <1>1 DEF End, TypeOK
<1>3. faults' \in Nat  BY <1>1, Faults DEF End
<1> QED BY <1>2, <1>3, NoRunIs, LeavesAlone DEF End
-----------------------------------------------------------------------------
(* create, cancel, close *)

LEMMA Opens ==
    ASSUME TypeOK, Recovers, Open, UNCHANGED <<summary, log, torn, plans>>,
           \A q \in Runs : run'[q].pc \in Executing \cup {"closed"} => run[q].pc \in Executing \cup {"closed"}
    PROVE  /\ recovery' \in [pc : RecoveryPcs, left : SUBSET Runs, plan : Plans \cup {"none"}]
           /\ Recovers'
           /\ recovery.pc = "done" => recovery'.pc = "done"
<1>1. recovery \in [pc : RecoveryPcs, left : SUBSET Runs, plan : Plans \cup {"none"}]  BY DEF TypeOK
<1>2. CASE recovery.pc = "no"
  <2>1. /\ recovery' \in [pc : RecoveryPcs, left : SUBSET Runs, plan : Plans \cup {"none"}]
        /\ recovery'.pc = "interrupt"
      BY <1>1, <1>2 DEF Open, RecoveryPcs
  <2> QED BY <1>2, <2>1 DEF Recovers
<1>3. CASE recovery.pc # "no"
  <2>1. recovery' = recovery  BY <1>3 DEF Open
  <2>2. Current' = Current  BY <2>1 DEF Current
  <2> QED BY <1>1, <2>1, <2>2 DEF Recovers, HasTerminalClose, HasClose
<1> QED BY <1>2, <1>3

LEMMA CreateStep == ASSUME IInv, NEW r \in Runs, Create(r) PROVE IInv'
<1> DEFINE t == TaskOf[r]
           next == [NoRun EXCEPT !.pc = "recovering"]
<1>1. /\ TypeOK /\ Locks /\ Recovers /\ Story(r)
      /\ run[r].pc = "absent" /\ log[r] = <<>> /\ seen[r] = <<>>
      /\ deletion = "no" /\ t \notin mutating /\ leases[t] = {}
      /\ leases' = [leases EXCEPT ![t] = {r}]
      /\ run' = [run EXCEPT ![r] = next]
      /\ Open
      /\ UNCHANGED <<daemon, faults, disk, mutating, deletion, cancel, seen>>
    BY DEF IInv, Create
<1>2. TaskOf \in [Runs -> Tasks] /\ t \in Tasks  BY RunAssumption
<1>3. /\ next \in RunStates /\ next.pc = "recovering" /\ next.queue = <<>>
      /\ next.plan = "none" /\ next.reason = "none"
    BY NoRunIs
<1> HIDE DEF next
<1>4. run' \in [Runs -> RunStates] /\ run'[r] = next /\ \A q \in Runs \ {r} : run'[q] = run[q]
    BY <1>1, <1>3 DEF TypeOK
<1>5. /\ leases' \in [Tasks -> SUBSET Runs] /\ leases'[t] = {r}
      /\ \A u \in Tasks \ {t} : leases'[u] = leases[u]
    BY <1>1, <1>2 DEF TypeOK
<1>6. \A q \in Runs : run'[q].pc \in Executing \cup {"closed"} => run[q].pc \in Executing \cup {"closed"}
    BY <1>3, <1>4 DEF Executing, Finishing
<1>7. /\ recovery' \in [pc : RecoveryPcs, left : SUBSET Runs, plan : Plans \cup {"none"}]
      /\ Recovers'
    BY <1>1, <1>6, Opens DEF disk
<1>8. TypeOK'  BY <1>1, <1>4, <1>5, <1>7 DEF TypeOK, disk
<1>9. Locks'
  <2>1. \A q \in Runs : run'[q].pc \in Busy => q \in leases'[TaskOf[q]]
    <3>1. \A q \in Runs \ {r} : run[q].pc \in Busy => TaskOf[q] # t  BY <1>1 DEF Locks
    <3> QED BY <1>1, <1>2, <1>4, <1>5, <3>1 DEF Locks
  <2>2. \A u \in Tasks : \A p, q \in leases'[u] : p = q  BY <1>1, <1>5 DEF Locks
  <2>3. \A u \in mutating : leases'[u] = {}  BY <1>1, <1>5 DEF Locks, TypeOK
  <2>4. \A q \in Runs : run'[q].pc \in Executing => TaskOf[q] \in tasks
      BY <1>1, <1>3, <1>4 DEF Locks, Executing, Finishing
  <2>5. DeletionIsExclusive'  BY <1>1 DEF DeletionIsExclusive
  <2> QED BY <1>1, <2>1, <2>2, <2>3, <2>4, <2>5 DEF Locks, disk
<1>10. Story(r)'
  <2>1. run'[r].pc \notin Executing \cup Telling \cup Unclosed
      BY <1>3, <1>4 DEF Executing, Finishing, Telling, Unclosed
  <2>2. Fresh(r)' /\ Reasoned(r)' /\ Streamed(r)' /\ Queued(r)'
      BY <1>1, <1>3, <1>4, <2>1 DEF Fresh, Reasoned, Streamed, Queued, disk
  <2>3. Logged(r)' /\ Durable(r)'
      BY <1>1, <1>3, <1>4 DEF Logged, Durable, disk
  <2>4. Planned(r)'
      BY <1>1, <1>3, <1>4 DEF Story, Planned, HasClose, HasTerminalClose, disk
  <2> QED BY <2>2, <2>3, <2>4 DEF Story
<1>11. \A q \in Runs \ {r} : Story(q)'  BY <1>1, <1>4, Others DEF IInv, disk
<1> QED BY <1>7, <1>8, <1>9, <1>10, <1>11 DEF IInv

LEMMA AcceptStep == ASSUME IInv, NEW r \in Runs, Accept(r) PROVE IInv'
<1>1. /\ TypeOK /\ Locks /\ Recovers /\ Story(r) /\ run[r] \in RunStates
      /\ run[r].pc = "recovering"
      /\ UNCHANGED <<daemon, disk, mutating, deletion, recovery, cancel, seen>>
    BY DEF IInv, Accept, At, TypeOK
<1>2. CASE run' = [run EXCEPT ![r] = NoRun] /\ Release(r) /\ NoFault
  <2>1. cancel' \in [Runs -> {"none", "asked", "waiting"}]  BY <1>1 DEF TypeOK
  <2>2. faults' \in Nat  BY <1>1, <1>2, Faults
  <2> QED BY <1>1, <1>2, <2>1, <2>2, NoRunIs, LeavesAlone
<1>3. CASE /\ recovery.pc = "done" /\ TaskOf[r] \in tasks /\ summary[r] = "none"
           /\ run' = [run EXCEPT ![r].pc = "starting"]
           /\ UNCHANGED <<faults, leases>>
  <2> DEFINE next == [run[r] EXCEPT !.pc = "starting"]
  <2>1. /\ next \in RunStates /\ next.pc = "starting" /\ next.queue = run[r].queue
        /\ next.plan = run[r].plan /\ next.reason = run[r].reason
      BY <1>1 DEF RunStates, RunPcs, Busy, Executing
  <2>2. run' = [run EXCEPT ![r] = next]  BY <1>3
  <2> HIDE DEF next
  <2>3. run' \in [Runs -> RunStates] /\ run'[r] = next /\ \A q \in Runs \ {r} : run'[q] = run[q]
      BY <1>1, <2>1, <2>2 DEF TypeOK
  <2>4. TypeOK'  BY <1>1, <1>3, <2>3 DEF TypeOK, disk
  <2>5. Recovers'  BY <1>1, <1>3 DEF Recovers
  <2>6. Locks'
    <3>1. run[r].pc \in Busy /\ run[r].pc \notin Executing  BY <1>1 DEF Busy, Executing, Finishing
    <3>2. deletion # "held"  BY <1>1, <3>1 DEF Locks, DeletionIsExclusive
    <3> QED BY <1>1, <1>3, <2>1, <2>3, <3>1, <3>2 DEF Locks, DeletionIsExclusive, disk
  <2>7. /\ seen[r] = <<>> /\ run[r].reason = "none" /\ log[r] = <<>> /\ run[r].plan = "none"
        /\ run[r].queue = <<>>
      BY <1>1, <1>3 DEF Story, Fresh, Planned, Queued, Telling
  <2>8. Story(r)'
    <3>1. run'[r].pc \notin Telling \cup Ended
        BY <2>1, <2>3 DEF Telling, Ended, Finishing
    <3>2. Fresh(r)' /\ Reasoned(r)' /\ Streamed(r)' /\ Queued(r)'
        BY <1>1, <2>1, <2>3, <2>7, <3>1 DEF Fresh, Reasoned, Streamed, Queued, disk
    <3>3. Logged(r)' /\ Durable(r)'
        BY <1>1, <2>1, <2>3, <2>7 DEF Logged, Durable, disk
    <3>4. Planned(r)'
        BY <1>1, <2>1, <2>3, <2>7 DEF Story, Planned, HasClose, HasTerminalClose, disk
    <3> QED BY <3>2, <3>3, <3>4 DEF Story
  <2>9. \A q \in Runs \ {r} : Story(q)'  BY <1>1, <2>3, Others DEF IInv, disk
  <2> QED BY <2>4, <2>5, <2>6, <2>8, <2>9 DEF IInv
<1> QED BY <1>2, <1>3 DEF Accept

\* A run that is asked to stop, or is stopped, goes on in the same place.
LEMMA Asks ==
    ASSUME IInv, run' \in [Runs -> RunStates],
           \A r \in Runs :
             /\ run'[r].pc = run[r].pc /\ run'[r].queue = run[r].queue /\ run'[r].reason = run[r].reason
             /\ run'[r].plan = run[r].plan /\ run'[r].status = run[r].status
             /\ run'[r].settled = run[r].settled
             /\ run'[r].asked => run[r].asked \/ run[r].reason = "none"
             /\ run[r].pc = "settle" /\ run[r].settled /\ (run[r].asked => run[r].aborted)
                  => (run'[r].asked => run'[r].aborted),
           daemon' \in {"up", "closing", "down"},
           cancel' \in [Runs -> {"none", "asked", "waiting"}],
           UNCHANGED <<faults, disk, locks, recovery, seen>>
    PROVE  IInv'
<1>1. TypeOK /\ Locks /\ Recovers  BY DEF IInv
<1>2. TypeOK'  BY <1>1 DEF TypeOK, disk, locks
<1>3. Locks'  BY <1>1, SameLocks DEF disk, locks
<1>4. Recovers'
  <2>1. Current' = Current  BY DEF Current
  <2> QED BY <1>1, <2>1 DEF Recovers, HasTerminalClose, HasClose, disk
<1>5. ASSUME NEW r \in Runs PROVE Story(r)'
  <2>1. Story(r)  BY DEF IInv
  <2>2. Fresh(r)' /\ Streamed(r)' /\ Queued(r)' /\ Logged(r)'
      BY <2>1 DEF Story, Fresh, Streamed, Queued, Logged, Told, Known, disk
  <2>3. Reasoned(r)'  BY <2>1 DEF Story, Reasoned
  <2>4. Durable(r)'
      BY <2>1 DEF Story, Durable, InLog, OwnClose, NextId, disk
  <2>5. Planned(r)'
      BY <2>1 DEF Story, Planned, HasClose, HasTerminalClose, disk
  <2> QED BY <2>2, <2>3, <2>4, <2>5 DEF Story
<1> QED BY <1>2, <1>3, <1>4, <1>5 DEF IInv

LEMMA CancelStep ==
    ASSUME IInv, NEW R \in SUBSET Runs, CancelAll(R), daemon' \in {"up", "closing", "down"},
           UNCHANGED <<faults, disk, locks, recovery, seen>>
    PROVE  IInv'
<1> DEFINE new == {r \in R : run[r].pc \in Executing /\ cancel[r] = "none"}
           Asked(self) == [self EXCEPT !.asked = self.reason = "none",
                             !.aborted = @ \/ (self.settled /\ self.reason = "none")]
<1>1. TypeOK  BY DEF IInv
<1>2. run' = [r \in Runs |-> IF r \in new THEN Asked(run[r]) ELSE run[r]]
    BY DEF CancelAll
<1>3. \A r \in Runs : run[r] \in RunStates  BY <1>1 DEF TypeOK
<1>4. \A r \in Runs :
        LET self == Asked(run[r]) IN
        /\ self \in RunStates
        /\ self.pc = run[r].pc /\ self.queue = run[r].queue /\ self.reason = run[r].reason
        /\ self.plan = run[r].plan /\ self.status = run[r].status /\ self.settled = run[r].settled
        /\ self.asked <=> run[r].reason = "none"
        /\ run[r].settled /\ run[r].reason = "none" => self.aborted
    BY <1>3 DEF RunStates
<1>5. cancel' \in [Runs -> {"none", "asked", "waiting"}]  BY <1>1 DEF CancelAll, TypeOK
<1> HIDE DEF new, Asked
<1>6. \A r \in Runs : run'[r] = Asked(run[r]) \/ run'[r] = run[r]  BY <1>2
<1>7. run' \in [Runs -> RunStates]  BY <1>2, <1>3, <1>4
<1>8. \A r \in Runs :
             /\ run'[r].pc = run[r].pc /\ run'[r].queue = run[r].queue /\ run'[r].reason = run[r].reason
             /\ run'[r].plan = run[r].plan /\ run'[r].status = run[r].status
             /\ run'[r].settled = run[r].settled
             /\ run'[r].asked => run[r].asked \/ run[r].reason = "none"
             /\ run[r].pc = "settle" /\ run[r].settled /\ (run[r].asked => run[r].aborted)
                  => (run'[r].asked => run'[r].aborted)
    BY <1>4, <1>6
<1> QED BY <1>5, <1>7, <1>8, Asks

LEMMA AbortStep == ASSUME IInv, NEW r \in Runs, Abort(r) PROVE IInv'
<1>1. /\ TypeOK /\ UNCHANGED <<daemon, faults, disk, locks, recovery, seen>>
      /\ run' = [run EXCEPT ![r].aborted = run[r].pc \in Busy]
      /\ cancel' \in [Runs -> {"none", "asked", "waiting"}]
      /\ daemon \in {"up", "closing", "down"}
    BY DEF IInv, Abort, TypeOK
<1>b. PICK stopped \in BOOLEAN : stopped <=> run[r].pc \in Busy  OBVIOUS
<1> DEFINE next == [run[r] EXCEPT !.aborted = stopped]
<1>2. run \in [Runs -> RunStates] /\ run[r] \in RunStates  BY <1>1 DEF TypeOK
<1>n. /\ next \in RunStates /\ next.pc = run[r].pc /\ next.queue = run[r].queue /\ next.reason = run[r].reason
      /\ next.plan = run[r].plan /\ next.status = run[r].status /\ next.settled = run[r].settled
      /\ next.asked = run[r].asked /\ next.aborted = stopped
    BY <1>2 DEF RunStates
<1>m. (run[r].pc \in Busy) = stopped  BY <1>b, Zenon
<1>3. run' = [run EXCEPT ![r] = next]  BY <1>1, <1>m, Zenon
<1>4. "settle" \in Busy  BY DEF Busy, Executing
<1> HIDE DEF next
<1>5. run' \in [Runs -> RunStates] /\ run'[r] = next /\ \A q \in Runs \ {r} : run'[q] = run[q]
    BY <1>2, <1>n, <1>3
<1>6. \A q \in Runs :
             /\ run'[q].pc = run[q].pc /\ run'[q].queue = run[q].queue /\ run'[q].reason = run[q].reason
             /\ run'[q].plan = run[q].plan /\ run'[q].status = run[q].status
             /\ run'[q].settled = run[q].settled
             /\ run'[q].asked => run[q].asked \/ run[q].reason = "none"
             /\ run[q].pc = "settle" /\ run[q].settled /\ (run[q].asked => run[q].aborted)
                  => (run'[q].asked => run'[q].aborted)
    BY <1>b, <1>n, <1>4, <1>5
<1> QED BY <1>1, <1>5, <1>6, Asks
-----------------------------------------------------------------------------
(* Destructive commands and the deletion of the project *)

\* A step beside the runs.
LEMMA Beside ==
    ASSUME IInv, UNCHANGED <<run, seen, log, torn, canvas>>,
           \A q \in Runs : plans'[q].kind = plans[q].kind,
           \A q \in Runs : summary'[q] = summary[q] \/ (summary[q] # "none" /\ summary'[q] # "none")
    PROVE  \A q \in Runs : Story(q)'
BY Others DEF IInv

LEMMA RecoversOn ==
    ASSUME Recovers, UNCHANGED <<run, recovery, log, torn, summary>>, TypeOK,
           \A q \in Runs : plans'[q].kind = plans[q].kind
    PROVE  Recovers'
<1>1. Current' = Current  BY DEF Current
<1>2. recovery.left # {} => Current \in Runs  BY DEF Current, TypeOK
<1> QED BY <1>1, <1>2 DEF Recovers, HasTerminalClose, HasClose

LEMMA BeginMutationStep == ASSUME IInv, NEW t \in Tasks, BeginMutation(t) PROVE IInv'
<1>1. /\ TypeOK /\ Locks /\ Recovers
      /\ Open /\ UNCHANGED <<daemon, faults, disk, run, leases, deletion, cancel, seen>>
    BY DEF IInv, BeginMutation
<1>2. /\ recovery' \in [pc : RecoveryPcs, left : SUBSET Runs, plan : Plans \cup {"none"}]
      /\ Recovers'
      /\ recovery.pc = "done" => recovery'.pc = "done"
    BY <1>1, Opens DEF disk
<1>3. UNCHANGED mutating \/ (mutating' = mutating \cup {t} /\ deletion = "no" /\ leases[t] = {})
    BY DEF BeginMutation
<1>4. TypeOK'  BY <1>1, <1>2, <1>3 DEF TypeOK, disk
<1>5. Locks'
  <2>1. CASE UNCHANGED mutating  BY <1>1, <1>2, <2>1, SameLocks DEF disk
  <2>2. CASE mutating' = mutating \cup {t} /\ deletion = "no" /\ leases[t] = {}
      BY <1>1, <2>2 DEF Locks, DeletionIsExclusive, disk
  <2> QED BY <1>3, <2>1, <2>2
<1>6. \A q \in Runs : Story(q)'  BY <1>1, Beside DEF disk
<1> QED BY <1>2, <1>4, <1>5, <1>6 DEF IInv

LEMMA DeleteTaskStep == ASSUME IInv, NEW t \in Tasks, DeleteTask(t) PROVE IInv'
<1>1. /\ TypeOK /\ Locks /\ Recovers /\ t \in mutating
      /\ tasks' = tasks \ {t}
      /\ UNCHANGED <<daemon, faults, summary, log, torn, plans, canvas, run, locks, recovery, cancel, seen>>
    BY DEF IInv, DeleteTask
<1>2. TypeOK'  BY <1>1 DEF TypeOK, locks
<1>3. \A r \in Runs : run[r].pc \in Executing => TaskOf[r] # t  BY <1>1 DEF Locks, Busy
<1>4. Locks'  BY <1>1, <1>3 DEF Locks, DeletionIsExclusive, locks
<1>5. Recovers'  BY <1>1, RecoversOn
<1>6. \A q \in Runs : Story(q)'  BY <1>1, Beside
<1> QED BY <1>2, <1>4, <1>5, <1>6 DEF IInv

LEMMA EndMutationStep == ASSUME IInv, NEW t \in Tasks, EndMutation(t) PROVE IInv'
<1>1. /\ TypeOK /\ Locks /\ Recovers /\ mutating' = mutating \ {t}
      /\ UNCHANGED <<daemon, faults, disk, run, leases, deletion, recovery, cancel, seen>>
    BY DEF IInv, EndMutation
<1>2. TypeOK'  BY <1>1 DEF TypeOK, disk
<1>3. Locks'  BY <1>1 DEF Locks, DeletionIsExclusive, disk
<1>4. Recovers'  BY <1>1, RecoversOn DEF disk
<1>5. \A q \in Runs : Story(q)'  BY <1>1, Beside DEF disk
<1> QED BY <1>2, <1>3, <1>4, <1>5 DEF IInv

LEMMA ReconcileStep == ASSUME IInv, Reconcile PROVE IInv'
<1>1. /\ TypeOK /\ Locks /\ Recovers
      /\ UNCHANGED <<daemon, faults, summary, log, torn, canvas, tasks, run, locks, recovery, cancel, seen>>
    BY DEF IInv, Reconcile
<1>2. /\ plans' \in [Runs -> [kind : Plans \cup {"none"}, state : {"none", "pending", "dismissed"}]]
      /\ \A q \in Runs : plans'[q].kind = plans[q].kind
    BY <1>1, SettledIs DEF Reconcile
<1>3. TypeOK'  BY <1>1, <1>2 DEF TypeOK, locks
<1>4. Locks'  BY <1>1, SameLocks DEF locks
<1>5. Recovers'  BY <1>1, <1>2, RecoversOn
<1>6. \A q \in Runs : Story(q)'  BY <1>1, <1>2, Beside
<1> QED BY <1>3, <1>4, <1>5, <1>6 DEF IInv

LEMMA BeginDeletionStep == ASSUME IInv, BeginDeletion PROVE IInv'
<1>1. /\ TypeOK /\ Locks /\ Recovers /\ deletion' = "fenced" /\ Open
      /\ UNCHANGED <<daemon, faults, disk, run, leases, mutating, cancel, seen>>
    BY DEF IInv, BeginDeletion
<1>2. /\ recovery' \in [pc : RecoveryPcs, left : SUBSET Runs, plan : Plans \cup {"none"}]
      /\ Recovers'
    BY <1>1, Opens DEF disk
<1>3. TypeOK'  BY <1>1, <1>2 DEF TypeOK, disk
<1>4. Locks'  BY <1>1 DEF Locks, DeletionIsExclusive, disk
<1>5. \A q \in Runs : Story(q)'  BY <1>1, Beside DEF disk
<1> QED BY <1>2, <1>3, <1>4, <1>5 DEF IInv

LEMMA CheckDeletionStep == ASSUME IInv, CheckDeletion PROVE IInv'
<1>1. /\ TypeOK /\ Locks /\ Recovers
      /\ UNCHANGED <<daemon, faults, disk, run, leases, mutating, recovery, cancel, seen>>
      /\ \/ deletion' = "no"
         \/ /\ deletion' = "held" /\ recovery.pc = "done" /\ mutating = {}
            /\ \A r \in Runs : run[r].pc \notin Busy
    BY DEF IInv, CheckDeletion
<1>2. TypeOK'  BY <1>1 DEF TypeOK, disk
<1>3. Locks'  BY <1>1 DEF Locks, DeletionIsExclusive, disk
<1>4. Recovers'  BY <1>1, RecoversOn DEF disk
<1>5. \A q \in Runs : Story(q)'  BY <1>1, Beside DEF disk
<1> QED BY <1>2, <1>3, <1>4, <1>5 DEF IInv

\* Everything that was in memory is gone.
LEMMA Forgets ==
    ASSUME run' = [r \in Runs |-> NoRun], recovery' = NoRecovery
    PROVE  /\ run' \in [Runs -> RunStates]
           /\ recovery' \in [pc : RecoveryPcs, left : SUBSET Runs, plan : Plans \cup {"none"}]
           /\ Recovers'
           /\ \A r \in Runs : run'[r].pc = "absent" /\ run'[r].queue = <<>>
           /\ \A r \in Runs : run'[r].pc \notin Busy /\ run'[r].pc \notin Executing
<1>1. run' \in [Runs -> RunStates] /\ \A r \in Runs : run'[r] = NoRun  BY NoRunIs
<1>2. /\ recovery'.pc = "no" /\ recovery'.left = {}
      /\ recovery' \in [pc : RecoveryPcs, left : SUBSET Runs, plan : Plans \cup {"none"}]
    BY DEF NoRecovery, RecoveryPcs
<1>3. \A r \in Runs : run'[r].pc = "absent" /\ run'[r].queue = <<>>  BY <1>1, NoRunIs
<1>4. "absent" \notin Busy /\ "absent" \notin Executing /\ "absent" \notin Executing \cup {"closed"}
    BY DEF Busy, Executing, Finishing
<1>5. Recovers'  BY <1>2, <1>3, <1>4 DEF Recovers
<1> QED BY <1>1, <1>2, <1>3, <1>4, <1>5

LEMMA EndDeletionStep == ASSUME IInv, EndDeletion PROVE IInv'
<1>1. /\ TypeOK /\ Locks
      /\ deletion' = "no" /\ run' = [r \in Runs |-> NoRun] /\ recovery' = NoRecovery
      /\ UNCHANGED <<daemon, faults, disk, leases, mutating, cancel, seen>>
    BY DEF IInv, EndDeletion
<1>2. /\ run' \in [Runs -> RunStates]
      /\ recovery' \in [pc : RecoveryPcs, left : SUBSET Runs, plan : Plans \cup {"none"}]
      /\ Recovers'
      /\ \A r \in Runs : run'[r].pc = "absent" /\ run'[r].queue = <<>>
      /\ \A r \in Runs : run'[r].pc \notin Busy /\ run'[r].pc \notin Executing
    BY <1>1, Forgets
<1>3. TypeOK'  BY <1>1, <1>2 DEF TypeOK, disk
<1>4. Locks'  BY <1>1, <1>2 DEF Locks, DeletionIsExclusive, disk
<1>5. \A q \in Runs : Story(q)'  BY <1>1, <1>2, Leaves DEF IInv, disk
<1> QED BY <1>2, <1>3, <1>4, <1>5 DEF IInv
-----------------------------------------------------------------------------
(* recoverInterruptedTaskRuns *)

\* The recovery moves: nobody executes yet, and one run may have more on disk.
LEMMA RecoveryMoves ==
    ASSUME IInv, NEW r \in Runs, recovery.pc # "done", Recovers',
           UNCHANGED <<daemon, tasks, run, locks, cancel, seen>>, TypeOK',
           \A q \in Runs \ {r} :
              /\ log'[q] = log[q] /\ torn'[q] = torn[q] /\ summary'[q] = summary[q]
              /\ plans'[q].kind = plans[q].kind /\ canvas'[q] = canvas[q],
           Story(r)'
    PROVE  IInv'
<1>1. Locks'  BY SameLocks DEF IInv, locks
<1>2. \A q \in Runs \ {r} : Story(q)'  BY Others DEF IInv
<1> QED BY <1>1, <1>2 DEF IInv

LEMMA CurrentIs ==
    ASSUME IInv, recovery.left # {}
    PROVE  /\ Current \in Runs /\ Current \in recovery.left /\ Story(Current)
           /\ log \in [Runs -> Seq(Events)] /\ log[Current] \in Seq(Events)
           /\ recovery.pc \notin {"no", "interrupt", "done", "failed"} =>
                run[Current].pc \notin Executing \cup {"closed"} /\ summary[Current] = "interrupted"
           /\ recovery \in [pc : RecoveryPcs, left : SUBSET Runs, plan : Plans \cup {"none"}]
<1>1. Current \in recovery.left  BY DEF Current
<1>2. recovery.left \subseteq Runs /\ recovery \in [pc : RecoveryPcs, left : SUBSET Runs, plan : Plans \cup {"none"}]
    BY DEF IInv, TypeOK
<1> QED BY <1>1, <1>2 DEF IInv, TypeOK, Recovers

\* Where the recovery goes on.
LEMMA GoesToNext ==
    ASSUME Recovers, RecoverNext, recovery.left \subseteq Runs, UNCHANGED <<run, summary>>,
           recovery.pc \in {"next", "plan", "append", "ready", "dismiss"}
    PROVE  /\ recovery' \in [pc : RecoveryPcs, left : SUBSET Runs, plan : Plans \cup {"none"}]
           /\ Recovers'
<1>1. /\ recovery' \in [pc : RecoveryPcs, left : SUBSET Runs, plan : Plans \cup {"none"}]
      /\ recovery'.pc = "next" /\ recovery'.left \subseteq recovery.left
    BY DEF RecoverNext, RecoveryPcs
<1> QED BY <1>1 DEF Recovers

LEMMA GoesToPlace ==
    ASSUME Recovers, NEW pc \in {"plan", "append", "ready", "dismiss"}, NEW plan \in Plans \cup {"none"},
           recovery \in [pc : RecoveryPcs, left : SUBSET Runs, plan : Plans \cup {"none"}],
           RecoverAt(pc, plan), UNCHANGED <<run, summary>>,
           recovery.pc \in {"next", "plan", "append", "ready", "dismiss"},
           pc \in {"plan", "append"} => ~torn'[Current] /\ ~HasTerminalClose(Current)
                /\ log'[Current] = log[Current],
           pc = "append" /\ plan # "none" => plans'[Current].kind = plan,
           pc = "ready" => \E i \in DOMAIN log'[Current] :
                log'[Current][i].what = "close" /\ log'[Current][i].plan = plan
    PROVE  /\ recovery' \in [pc : RecoveryPcs, left : SUBSET Runs, plan : Plans \cup {"none"}]
           /\ Recovers' /\ Current' = Current
<1>1. /\ recovery' \in [pc : RecoveryPcs, left : SUBSET Runs, plan : Plans \cup {"none"}]
      /\ recovery'.pc = pc /\ recovery'.left = recovery.left /\ recovery'.plan = plan
    BY DEF RecoverAt, RecoveryPcs
<1>2. Current' = Current  BY <1>1 DEF Current
<1> QED BY <1>1, <1>2 DEF Recovers, HasTerminalClose, HasClose

LEMMA InterruptStep == ASSUME IInv, NEW r \in Runs, Interrupt(r) PROVE IInv'
<1>1. /\ TypeOK /\ Locks /\ Recovers /\ recovery.pc = "interrupt" /\ summary[r] = "active"
      /\ UNCHANGED <<daemon, log, torn, plans, canvas, tasks, run, locks, cancel, seen>>
      /\ Fault \/ NoFault \/ UNCHANGED faults
      /\ summary' = summary \/ summary' = [summary EXCEPT ![r] = "interrupted"]
      /\ recovery' = recovery \/ recovery' = [recovery EXCEPT !.pc = "failed"]
    BY DEF IInv, Interrupt
<1>2. faults' \in Nat  BY <1>1, Faults
<1>3. recovery \in [pc : RecoveryPcs, left : SUBSET Runs, plan : Plans \cup {"none"}]  BY <1>1 DEF TypeOK
<1>4. /\ recovery' \in [pc : RecoveryPcs, left : SUBSET Runs, plan : Plans \cup {"none"}]
      /\ recovery'.pc \in {"interrupt", "failed"}
    BY <1>1, <1>3 DEF RecoveryPcs
<1>5. /\ summary' \in [Runs -> {"none", "active"} \cup Statuses]
      /\ \A q \in Runs : summary'[q] = summary[q] \/ (summary[q] # "none" /\ summary'[q] # "none")
  <2>1. summary \in [Runs -> {"none", "active"} \cup Statuses]  BY <1>1 DEF TypeOK
  <2>2. "interrupted" \in Statuses  BY DEF Statuses
  <2>3. CASE summary' = summary  BY <2>1, <2>3
  <2>4. CASE summary' = [summary EXCEPT ![r] = "interrupted"]  BY <1>1, <2>1, <2>2, <2>4
  <2> QED BY <1>1, <2>3, <2>4
<1>6. TypeOK'  BY <1>1, <1>2, <1>4, <1>5 DEF TypeOK, locks
<1>7. Locks'  BY <1>1, SameLocks DEF locks
<1>8. Recovers'  BY <1>1, <1>4 DEF Recovers
<1>9. \A q \in Runs : Story(q)'  BY <1>1, <1>5, Beside
<1> QED BY <1>6, <1>7, <1>8, <1>9 DEF IInv

LEMMA ListInterruptedStep == ASSUME IInv, ListInterrupted PROVE IInv'
<1>1. /\ TypeOK /\ Locks /\ Recovers /\ recovery.pc = "interrupt"
      /\ recovery' = [pc |-> "next", left |-> {r \in Runs : summary[r] = "interrupted"}, plan |-> "none"]
      /\ UNCHANGED <<daemon, faults, disk, run, locks, cancel, seen>>
    BY DEF IInv, ListInterrupted
<1>2. recovery' \in [pc : RecoveryPcs, left : SUBSET Runs, plan : Plans \cup {"none"}]
    BY <1>1 DEF RecoveryPcs
<1>3. TypeOK'  BY <1>1, <1>2 DEF TypeOK, disk, locks
<1>4. Locks'  BY <1>1, SameLocks DEF locks, disk
<1>5. Recovers'  BY <1>1 DEF Recovers, disk
<1>6. \A q \in Runs : Story(q)'  BY <1>1, Beside DEF disk
<1> QED BY <1>3, <1>4, <1>5, <1>6 DEF IInv

LEMMA RecoveryEndsStep == ASSUME IInv, RecoveryEnds PROVE IInv'
<1>1. /\ TypeOK /\ Locks /\ Recovers /\ recovery.pc = "next" /\ recovery.left = {}
      /\ recovery' = [recovery EXCEPT !.pc = "done"]
      /\ UNCHANGED <<daemon, faults, disk, run, locks, cancel, seen>>
    BY DEF IInv, RecoveryEnds
<1>2. /\ recovery' \in [pc : RecoveryPcs, left : SUBSET Runs, plan : Plans \cup {"none"}]
      /\ recovery'.pc = "done" /\ recovery'.left = {}
    BY <1>1 DEF RecoveryPcs, TypeOK
<1>3. TypeOK'  BY <1>1, <1>2 DEF TypeOK, disk, locks
<1>4. Locks'  BY <1>1, SameLocks DEF locks, disk
<1>5. Recovers'  BY <1>2 DEF Recovers
<1>6. \A q \in Runs : Story(q)'  BY <1>1, Beside DEF disk
<1> QED BY <1>3, <1>4, <1>5, <1>6 DEF IInv

LEMMA RecoverRunStep == ASSUME IInv, RecoverRun PROVE IInv'
<1>1. /\ TypeOK /\ Locks /\ Recovers /\ recovery.pc = "next" /\ recovery.left # {}
      /\ UNCHANGED <<daemon, faults, disk, run, locks, cancel, seen>>
    BY DEF IInv, RecoverRun, Recovering
<1>2. PICK r : r = Current  OBVIOUS
<1>3. /\ r \in Runs /\ log[r] \in Seq(Events) /\ log \in [Runs -> Seq(Events)]
      /\ recovery \in [pc : RecoveryPcs, left : SUBSET Runs, plan : Plans \cup {"none"}]
      /\ recovery.left \subseteq Runs
    BY <1>1, <1>2, CurrentIs
<1>4. /\ recovery' \in [pc : RecoveryPcs, left : SUBSET Runs, plan : Plans \cup {"none"}]
      /\ Recovers'
  <2>1. CASE RecoverNext  BY <1>1, <1>3, <2>1, GoesToNext DEF disk
  <2>2. CASE ~torn[r] /\ ~HasTerminalClose(r) /\ RecoverAt("plan", "none")
      BY <1>1, <1>2, <1>3, <2>2, GoesToPlace DEF disk
  <2>3. CASE /\ HasTerminalClose(r) /\ plans[r].kind = Last(log[r]).plan
             /\ RecoverAt("ready", plans[r].kind)
    <3>1. /\ Len(log[r]) \in DOMAIN log[r]
          /\ log[r][Len(log[r])].what = "close" /\ log[r][Len(log[r])].plan = plans[r].kind
        BY <1>3, <2>3 DEF HasTerminalClose, Last
    <3>2. plans[r].kind \in Plans \cup {"none"}  BY <1>1, <1>3 DEF TypeOK
    <3> QED BY <1>1, <1>2, <1>3, <2>3, <3>1, <3>2, GoesToPlace DEF disk
  <2> QED BY <1>2, <2>1, <2>2, <2>3 DEF RecoverRun
<1>5. TypeOK'  BY <1>1, <1>4 DEF TypeOK, disk, locks
<1>6. Locks'  BY <1>1, SameLocks DEF locks, disk
<1>7. \A q \in Runs : Story(q)'  BY <1>1, Beside DEF disk
<1> QED BY <1>4, <1>5, <1>6, <1>7 DEF IInv

LEMMA RecoverPlanStep == ASSUME IInv, RecoverPlan PROVE IInv'
<1>1. /\ TypeOK /\ Locks /\ Recovers /\ recovery.pc = "plan" /\ recovery.left # {}
      /\ UNCHANGED <<daemon, summary, log, torn, canvas, tasks, run, locks, cancel, seen>>
      /\ Fault \/ NoFault
    BY DEF IInv, RecoverPlan, Recovering
<1>2. faults' \in Nat  BY <1>1, Faults
<1>3. PICK r : r = Current  OBVIOUS
<1>4. /\ r \in Runs /\ Story(r) /\ run[r].pc \notin Executing \cup {"closed"}
      /\ recovery \in [pc : RecoveryPcs, left : SUBSET Runs, plan : Plans \cup {"none"}]
      /\ ~torn[r] /\ ~HasTerminalClose(r)
    BY <1>1, <1>3, CurrentIs DEF Recovers
<1>5. \/ /\ plans' = [plans EXCEPT ![r] = [kind |-> "partial", state |-> "pending"]]
         /\ RecoverAt("append", "partial")
      \/ UNCHANGED plans /\ RecoverAt("append", "none")
    BY <1>3 DEF RecoverPlan
<1>6. /\ plans' \in [Runs -> [kind : Plans \cup {"none"}, state : {"none", "pending", "dismissed"}]]
      /\ \A q \in Runs \ {r} : plans'[q] = plans[q]
      /\ RecoverAt("append", "none") \/ (RecoverAt("append", "partial") /\ plans'[r].kind = "partial")
  <2>1. plans \in [Runs -> [kind : Plans \cup {"none"}, state : {"none", "pending", "dismissed"}]]
      BY <1>1 DEF TypeOK
  <2> DEFINE plan == [kind |-> "partial", state |-> "pending"]
  <2>2. plan \in [kind : Plans \cup {"none"}, state : {"none", "pending", "dismissed"}] /\ plan.kind = "partial"
      BY DEF Plans
  <2>3. \/ plans' = [plans EXCEPT ![r] = plan] /\ RecoverAt("append", "partial")
        \/ UNCHANGED plans /\ RecoverAt("append", "none")
      BY <1>5
  <2> HIDE DEF plan
  <2> QED BY <1>4, <2>1, <2>2, <2>3
<1>7. /\ recovery' \in [pc : RecoveryPcs, left : SUBSET Runs, plan : Plans \cup {"none"}]
      /\ Recovers'
  <2>1. "partial" \in Plans  BY DEF Plans
  <2>2. CASE RecoverAt("append", "none")
      BY <1>1, <1>3, <1>4, <2>2, GoesToPlace
  <2>3. CASE RecoverAt("append", "partial") /\ plans'[r].kind = "partial"
      BY <1>1, <1>3, <1>4, <2>1, <2>3, GoesToPlace
  <2> QED BY <1>6, <2>2, <2>3
<1>8. TypeOK'  BY <1>1, <1>2, <1>6, <1>7 DEF TypeOK, locks
<1>9. Story(r)'
  <2>1. Fresh(r)' /\ Reasoned(r)' /\ Streamed(r)' /\ Queued(r)' /\ Logged(r)'
      BY <1>1, <1>4 DEF Story, Fresh, Reasoned, Streamed, Queued, Logged, Told, Known
  <2>2. Durable(r)'  BY <1>1, <1>4 DEF Story, Durable, InLog, OwnClose, NextId
  <2>3. Planned(r)'
      BY <1>1, <1>4 DEF Story, Planned, HasClose, HasTerminalClose, Executing, Finishing
  <2> QED BY <2>1, <2>2, <2>3 DEF Story
<1> QED BY <1>1, <1>4, <1>6, <1>7, <1>8, <1>9, RecoveryMoves

\* The last id of a log is its largest.
LEMMA LastIsLargest ==
    ASSUME NEW r \in Runs, log[r] \in Seq(Events), Logged(r)
    PROVE  \A i \in DOMAIN log[r] : log[r][i].id \in Nat /\ Last(log[r]).id \in Nat /\ log[r][i].id <= Last(log[r]).id
<1> DEFINE s == log[r]
<1>1. \A i, j \in DOMAIN s : i < j => s[i].id < s[j].id  BY DEF Logged
<1>2. \A i \in DOMAIN s : i \in Nat /\ s[i] \in Events /\ Len(s) \in DOMAIN s /\ (i = Len(s) \/ i < Len(s))
    OBVIOUS
<1>3. \A e \in Events : e.id \in Nat  BY DEF Events
<1>4. Last(s) = s[Len(s)]  BY DEF Last
<1> HIDE DEF s
<1>5. \A i \in DOMAIN s : s[i].id \in Nat /\ s[Len(s)].id \in Nat
    BY <1>2, <1>3
<1>6. \A i \in DOMAIN s : s[i].id <= s[Len(s)].id
    BY <1>1, <1>2, <1>5
<1> QED BY <1>4, <1>5, <1>6 DEF s

LEMMA RecoveredCloseIs ==
    ASSUME TypeOK, NEW r \in Runs, Logged(r)
    PROVE  /\ RecoveredClose(r) \in Events /\ RecoveredClose(r).what = "close"
           /\ RecoveredClose(r).plan = recovery.plan
           /\ \A i \in DOMAIN log[r] : log[r][i].id < RecoveredClose(r).id
<1>1. log[r] \in Seq(Events) /\ recovery.plan \in Plans \cup {"none"}  BY DEF TypeOK
<1>2. PICK id : id = IF log[r] = <<>> THEN 1 ELSE Last(log[r]).id + 1  OBVIOUS
<1>3. id \in Nat /\ \A i \in DOMAIN log[r] : log[r][i].id < id
  <2>1. CASE log[r] = <<>>  BY <1>2, <2>1
  <2>2. CASE log[r] # <<>>
    <3>1. Len(log[r]) \in DOMAIN log[r]  BY <1>1, <2>2
    <3> QED BY <1>1, <1>2, <2>2, <3>1, LastIsLargest
  <2> QED BY <2>1, <2>2
<1>4. RecoveredClose(r) = [id |-> id, what |-> "close", status |-> "interrupted", plan |-> recovery.plan]
    BY <1>2 DEF RecoveredClose, Close, Event
<1> QED BY <1>1, <1>3, <1>4 DEF Events, Statuses

LEMMA RecoverAppendStep == ASSUME IInv, RecoverAppend PROVE IInv'
<1>1. /\ TypeOK /\ Locks /\ Recovers /\ recovery.pc = "append" /\ recovery.left # {}
      /\ UNCHANGED <<daemon, summary, plans, canvas, tasks, run, locks, cancel, seen>>
      /\ Fault \/ NoFault
    BY DEF IInv, RecoverAppend, Recovering
<1>2. faults' \in Nat  BY <1>1, Faults
<1>3. PICK r : r = Current  OBVIOUS
<1>4. /\ r \in Runs /\ Story(r) /\ run[r].pc \notin Executing \cup {"closed"}
      /\ summary[r] = "interrupted"
      /\ recovery \in [pc : RecoveryPcs, left : SUBSET Runs, plan : Plans \cup {"none"}]
      /\ recovery.left \subseteq Runs /\ recovery.plan \in Plans \cup {"none"}
      /\ recovery.plan # "none" => plans[r].kind = recovery.plan
      /\ log[r] \in Seq(Events) /\ log \in [Runs -> Seq(Events)] /\ torn \in [Runs -> BOOLEAN]
    BY <1>1, <1>3, CurrentIs DEF Recovers, TypeOK
<1>5. PICK close : close = RecoveredClose(r)  OBVIOUS
<1>6. /\ close \in Events /\ close.what = "close" /\ close.plan = recovery.plan
      /\ \A i \in DOMAIN log[r] : log[r][i].id < close.id
    BY <1>1, <1>4, <1>5, RecoveredCloseIs DEF Story
<1>7. \/ Appended(r, close) /\ (IF recovery.plan = "none" THEN RecoverNext ELSE RecoverAt("ready", recovery.plan))
      \/ NotAppended(r, close) /\ RecoverNext
    BY <1>3, <1>5 DEF RecoverAppend, NotAppended
<1>8. /\ log' \in [Runs -> Seq(Events)] /\ torn' \in [Runs -> BOOLEAN]
      /\ \A q \in Runs \ {r} : log'[q] = log[q] /\ torn'[q] = torn[q]
      /\ \/ log'[r] = Append(log[r], close)
         \/ log'[r] = log[r] /\ torn'[r] = torn[r]
         \/ torn'[r] /\ \E record \in {close, Cut(close)} : log'[r] = Append(log[r], record)
      /\ RecoverNext \/ (log'[r] = Append(log[r], close) /\ RecoverAt("ready", recovery.plan))
    BY <1>1, <1>4, <1>6, <1>7, AppendIs
<1>9. ASSUME NEW record \in {close, Cut(close)}, log'[r] = Append(log[r], record)
      PROVE  /\ \A i, j \in DOMAIN log'[r] : i < j => log'[r][i].id < log'[r][j].id
             /\ \A i \in DOMAIN log'[r] : log'[r][i] = record \/ (i \in DOMAIN log[r] /\ log'[r][i] = log[r][i])
             /\ \A x : InLog(r, x) => InLog(r, x)'
             /\ \A plan : HasClose(r, plan) => HasClose(r, plan)'
             /\ record = close => HasClose(r, close.plan)'
             /\ log'[r] # <<>> /\ Last(log'[r]) = record
             /\ record.what \in {"close", "cut"} /\ (record # close => record.what = "cut")
  <2>1. record \in Events /\ record.id = close.id /\ (record # close => record.what = "cut")
      BY <1>6, RecordIs
  <2>2. \A i \in DOMAIN log[r] : log[r][i].id < record.id  BY <1>6, <2>1
  <2>3. Logged(r)  BY <1>4 DEF Story
  <2> QED BY <1>4, <1>6, <1>9, <2>1, <2>2, <2>3, Grows
<1>10. /\ recovery' \in [pc : RecoveryPcs, left : SUBSET Runs, plan : Plans \cup {"none"}]
       /\ Recovers'
  <2>1. CASE RecoverNext  BY <1>1, <1>4, <2>1, GoesToNext
  <2>2. CASE log'[r] = Append(log[r], close) /\ RecoverAt("ready", recovery.plan)
    <3>0. close \in {close, Cut(close)}  OBVIOUS
    <3>1. \E i \in DOMAIN log'[r] : log'[r][i].what = "close" /\ log'[r][i].plan = recovery.plan
        BY <1>6, <1>9, <2>2, <3>0 DEF HasClose
    <3> QED BY <1>1, <1>3, <1>4, <2>2, <3>1, GoesToPlace
  <2> QED BY <1>8, <2>1, <2>2
<1>11. TypeOK'  BY <1>1, <1>2, <1>8, <1>10 DEF TypeOK, locks
<1>12. Story(r)'
  <2>1. CASE log'[r] = log[r] /\ torn'[r] = torn[r]  BY <1>1, <1>4, <2>1, Others
  <2>2. CASE \E record \in {close, Cut(close)} :
               log'[r] = Append(log[r], record) /\ (record = close \/ torn'[r])
    <3>0. PICK record \in {close, Cut(close)} :
               log'[r] = Append(log[r], record) /\ (record = close \/ torn'[r])
        BY <2>2
    <3>1. run[r].pc \notin Unclosed \ {"recovering"} /\ run[r].pc \notin Telling \cup Finishing
        BY <1>4 DEF Executing, Finishing, Unclosed, Telling
    <3>2. Fresh(r)' /\ Reasoned(r)' /\ Streamed(r)'
        BY <1>1, <1>4 DEF Story, Fresh, Reasoned, Streamed, Executing, Finishing
    <3>3. Queued(r)'
      <4>1. run[r].queue = <<>>  BY <1>4, <3>1 DEF Story, Queued
      <4> QED BY <1>1, <4>1 DEF Queued
    <3>4. Logged(r)'
      <4>1. \A i \in DOMAIN log'[r] : \E x : x = log'[r][i] /\ (Known(r, x)' \/ x.what \in {"close", "cut"})
        <5>1. \A x : Known(r, x) => Known(r, x)'  BY <1>1 DEF Told, Known
        <5>2. \A i \in DOMAIN log[r] : Known(r, log[r][i]) \/ log[r][i].what \in {"close", "cut"}
            BY <1>4 DEF Story, Logged
        <5> QED BY <1>9, <3>0, <5>1, <5>2
      <4>2. run'[r].pc \notin Unclosed  BY <1>1, <3>1 DEF Unclosed
      <4> QED BY <1>9, <3>0, <4>1, <4>2 DEF Logged
    <3>5. Durable(r)'
      <4>1. Durable(r)  BY <1>4 DEF Story
      <4>2. \A i \in DOMAIN seen[r] :
              seen[r][i].what = "close" /\ (seen[r][i].status # "error" \/ seen[r][i].plan # "none")
              => \E x : x = seen[r][i] /\ InLog(r, x)'
          BY <1>9, <3>0, <4>1 DEF Durable
      <4> QED BY <1>1, <3>1, <4>2 DEF Durable, InLog, Finishing
    <3>6. Planned(r)'
      <4>1. Planned(r)  BY <1>4 DEF Story
      <4>2. PICK plan : plan = canvas[r]  OBVIOUS
      <4>3. canvas'[r] # "none" => HasClose(r, plan)'  BY <1>1, <1>9, <3>0, <4>1, <4>2 DEF Planned
      <4>4. HasTerminalClose(r)' /\ ~torn'[r] /\ Last(log'[r]).plan # "none" => plans'[r].kind = Last(log'[r]).plan
          BY <1>1, <1>4, <1>6, <1>9, <3>0 DEF HasTerminalClose
      <4> QED BY <1>1, <3>1, <4>1, <4>2, <4>3, <4>4 DEF Planned, HasClose, Finishing
    <3> QED BY <3>2, <3>3, <3>4, <3>5, <3>6 DEF Story
  <2>3. close \in {close, Cut(close)}  OBVIOUS
  <2> QED BY <1>8, <2>1, <2>2, <2>3, Zenon
<1> QED BY <1>1, <1>4, <1>8, <1>10, <1>11, <1>12, RecoveryMoves

LEMMA RecoverReadyStep == ASSUME IInv, RecoverReady PROVE IInv'
<1>1. /\ TypeOK /\ Locks /\ Recovers /\ recovery.pc = "ready" /\ recovery.left # {}
      /\ UNCHANGED <<daemon, summary, log, torn, plans, tasks, run, locks, cancel, seen>>
      /\ Fault \/ NoFault
    BY DEF IInv, RecoverReady, Recovering
<1>2. faults' \in Nat  BY <1>1, Faults
<1>3. PICK r : r = Current  OBVIOUS
<1>4. /\ r \in Runs /\ Story(r)
      /\ recovery \in [pc : RecoveryPcs, left : SUBSET Runs, plan : Plans \cup {"none"}]
      /\ recovery.left \subseteq Runs /\ recovery.plan \in Plans \cup {"none"}
      /\ HasClose(r, recovery.plan)
    BY <1>1, <1>3, CurrentIs DEF Recovers
<1>5. /\ canvas' \in [Runs -> Plans \cup {"none"}]
      /\ \A q \in Runs \ {r} : canvas'[q] = canvas[q]
      /\ canvas'[r] \in {canvas[r], recovery.plan}
    BY <1>1, <1>3, <1>4 DEF RecoverReady, Materialize, TypeOK
<1>6. RecoverNext \/ RecoverAt("dismiss", "none")  BY DEF RecoverReady
<1>7. /\ recovery' \in [pc : RecoveryPcs, left : SUBSET Runs, plan : Plans \cup {"none"}]
      /\ Recovers'
  <2>1. CASE RecoverNext  BY <1>1, <1>4, <2>1, GoesToNext
  <2>2. CASE RecoverAt("dismiss", "none")  BY <1>1, <1>4, <2>2, GoesToPlace
  <2> QED BY <1>6, <2>1, <2>2
<1>8. TypeOK'  BY <1>1, <1>2, <1>5, <1>7 DEF TypeOK, locks
<1>9. Story(r)'
  <2>1. Fresh(r)' /\ Reasoned(r)' /\ Streamed(r)' /\ Queued(r)' /\ Logged(r)'
      BY <1>1, <1>4 DEF Story, Fresh, Reasoned, Streamed, Queued, Logged, Told, Known
  <2>2. Durable(r)'  BY <1>1, <1>4 DEF Story, Durable, InLog, OwnClose, NextId
  <2>3. Planned(r)'
    <3>1. canvas'[r] # "none" => HasClose(r, canvas'[r])  BY <1>4, <1>5 DEF Story, Planned
    <3> QED BY <1>1, <1>4, <3>1 DEF Story, Planned, HasClose, HasTerminalClose
  <2> QED BY <2>1, <2>2, <2>3 DEF Story
<1> QED BY <1>1, <1>4, <1>5, <1>7, <1>8, <1>9, RecoveryMoves

LEMMA RecoverDismissStep == ASSUME IInv, RecoverDismiss PROVE IInv'
<1>1. /\ TypeOK /\ Locks /\ Recovers /\ recovery.pc = "dismiss" /\ recovery.left # {}
      /\ UNCHANGED <<daemon, summary, log, torn, canvas, tasks, run, locks, cancel, seen>>
      /\ Fault \/ NoFault
      /\ RecoverNext
    BY DEF IInv, RecoverDismiss, Recovering
<1>2. faults' \in Nat  BY <1>1, Faults
<1>3. recovery.left \subseteq Runs  BY <1>1 DEF TypeOK
<1>4. /\ plans' \in [Runs -> [kind : Plans \cup {"none"}, state : {"none", "pending", "dismissed"}]]
      /\ \A q \in Runs : plans'[q].kind = plans[q].kind
  <2>1. CASE plans' = Settled({Current})  BY <1>1, <2>1, SettledIs
  <2>2. CASE UNCHANGED plans  BY <1>1, <2>2 DEF TypeOK
  <2> QED BY <2>1, <2>2 DEF RecoverDismiss
<1>5. /\ recovery' \in [pc : RecoveryPcs, left : SUBSET Runs, plan : Plans \cup {"none"}]
      /\ Recovers'
    BY <1>1, <1>3, GoesToNext DEF RecoverDismiss
<1>6. TypeOK'  BY <1>1, <1>2, <1>4, <1>5 DEF TypeOK, locks
<1>7. Locks'  BY <1>1, SameLocks DEF locks
<1>8. \A q \in Runs : Story(q)'  BY <1>1, <1>4, Beside
<1> QED BY <1>5, <1>6, <1>7, <1>8 DEF IInv
-----------------------------------------------------------------------------
(* Processes *)

\* What is under way to a log follows what is in it.
LEMMA UnderwayIs ==
    ASSUME IInv, NEW r \in Runs, NEW e \in Underway(r)
    PROVE  /\ e \in Events
           /\ Told(r, e) \/ e.what = "close"
           /\ \A i \in DOMAIN log[r] : log[r][i].id < e.id
<1>1. TypeOK /\ Story(r) /\ run[r] \in RunStates  BY DEF IInv, TypeOK
<1>2. CASE run[r].queue # <<>> /\ e = Head(run[r].queue)
  <2>1. run[r].queue \in Seq(Events)  BY <1>1 DEF RunStates
  <2>2. e \in Events /\ 1 \in DOMAIN run[r].queue /\ e = run[r].queue[1]  BY <1>2, <2>1
  <2>3. /\ \A i \in DOMAIN run[r].queue : Told(r, run[r].queue[i])
        /\ \A i \in DOMAIN run[r].queue : \A j \in DOMAIN log[r] : log[r][j].id < run[r].queue[i].id
    <3>1. Queued(r)  BY <1>1 DEF Story
    <3> QED BY <3>1, Zenon DEF Queued
  <2> QED BY <2>2, <2>3
<1>3. CASE run[r].pc = "append" /\ e = OwnClose(r)
  <2>1. log[r] \in Seq(Events) /\ Len(seen[r]) \in Nat  BY <1>1 DEF TypeOK
  <2>2. e \in Events /\ e.what = "close" /\ e.id = Len(seen[r]) + 1
      BY <1>1, <1>3, <2>1 DEF OwnClose, Close, Event, NextId, Events, RunStates, Statuses, Ends
  <2>3. \A i \in DOMAIN log[r] : Known(r, log[r][i])
      BY <1>1, <1>3 DEF Story, Logged, Unclosed
  <2>4. \A i \in DOMAIN log[r] : log[r][i].id \in Nat  BY <1>1, <2>1, LastIsLargest DEF Story
  <2> QED BY <2>1, <2>2, <2>3, <2>4 DEF Told, Known
<1>4. CASE Recovering("append") /\ r = Current /\ e = RecoveredClose(r)
    BY <1>1, <1>4, RecoveredCloseIs DEF Story
<1> QED BY <1>2, <1>3, <1>4 DEF Underway

\* The log of a run that is gone with its process has a record more, cut off.
LEMMA LeavesTorn ==
    ASSUME TypeOK, NEW r \in Runs, Story(r), NEW e \in Events, Known(r, e) \/ e.what \in {"close", "cut"},
           \A i \in DOMAIN log[r] : log[r][i].id < e.id,
           log'[r] = Append(log[r], e), torn'[r],
           run'[r].pc = "absent", run'[r].queue = <<>>,
           UNCHANGED <<seen, canvas, plans>>
    PROVE  Story(r)'
<1>1. /\ \A i, j \in DOMAIN log'[r] : i < j => log'[r][i].id < log'[r][j].id
      /\ \A i \in DOMAIN log'[r] : log'[r][i] = e \/ (i \in DOMAIN log[r] /\ log'[r][i] = log[r][i])
      /\ \A x : InLog(r, x) => InLog(r, x)'
      /\ \A plan : HasClose(r, plan) => HasClose(r, plan)'
  <2>1. log[r] \in Seq(Events)  BY DEF TypeOK
  <2> QED BY <2>1, Grows DEF Story
<1>2. run'[r].pc \notin Executing \cup Unclosed
    BY DEF Executing, Finishing, Unclosed
<1>3. Fresh(r)' /\ Reasoned(r)' /\ Streamed(r)' /\ Queued(r)'
    BY <1>2 DEF Story, Fresh, Reasoned, Streamed, Queued
<1>4. Logged(r)'
  <2>1. \A x : Known(r, x) => Known(r, x)'  BY DEF Told, Known
  <2>2. \A i \in DOMAIN log[r] : Known(r, log[r][i]) \/ log[r][i].what \in {"close", "cut"}
      BY DEF Story, Logged
  <2>3. \A i \in DOMAIN log'[r] : \E x : x = log'[r][i] /\ (Known(r, x)' \/ x.what \in {"close", "cut"})
      BY <1>1, <2>1, <2>2
  <2> QED BY <1>1, <1>2, <2>3 DEF Logged
<1>5. Durable(r)'
  <2>1. \A i \in DOMAIN seen[r] :
          seen[r][i].what = "close" /\ (seen[r][i].status # "error" \/ seen[r][i].plan # "none")
          => \E x : x = seen[r][i] /\ InLog(r, x)'
      BY <1>1 DEF Story, Durable
  <2> QED BY <2>1 DEF Durable, InLog
<1>6. Planned(r)'
  <2>1. PICK plan : plan = canvas[r]  OBVIOUS
  <2>2. canvas'[r] # "none" => HasClose(r, plan)'  BY <1>1, <2>1 DEF Story, Planned
  <2>3. run'[r].plan = "none" \/ run'[r].pc \notin (Unclosed \ {"append"}) \cup {"recovering"}
      BY <1>2
  <2> QED BY <1>2, <2>1, <2>2, <2>3 DEF Planned, HasClose, Unclosed
<1> QED BY <1>3, <1>4, <1>5, <1>6 DEF Story

LEMMA StopIs ==
    ASSUME IInv, Stop, faults' \in Nat,
           log' \in [Runs -> Seq(Events)], torn' \in [Runs -> BOOLEAN],
           \A r \in Runs :
              \/ log'[r] = log[r] /\ (torn'[r] = torn[r] \/ torn'[r])
              \/ \E e \in Underway(r), record \in Events :
                    /\ record \in {e, Cut(e)} /\ log'[r] = Append(log[r], record) /\ torn'[r],
           tasks' = tasks
    PROVE  IInv'
<1>1. /\ TypeOK /\ daemon' = "down" /\ run' = [r \in Runs |-> NoRun]
      /\ leases' = [t \in Tasks |-> {}] /\ mutating' = {} /\ deletion' = "no"
      /\ recovery' = NoRecovery /\ cancel' = [r \in Runs |-> "none"]
      /\ UNCHANGED <<summary, plans, canvas, tasks, seen>>
    BY DEF IInv, Stop
<1>2. /\ run' \in [Runs -> RunStates]
      /\ recovery' \in [pc : RecoveryPcs, left : SUBSET Runs, plan : Plans \cup {"none"}]
      /\ Recovers'
      /\ \A r \in Runs : run'[r].pc = "absent" /\ run'[r].queue = <<>>
      /\ \A r \in Runs : run'[r].pc \notin Busy /\ run'[r].pc \notin Executing
    BY <1>1, Forgets
<1>3. TypeOK'  BY <1>1, <1>2 DEF TypeOK
<1>4. Locks'  BY <1>1, <1>2 DEF Locks, DeletionIsExclusive
<1>5. ASSUME NEW r \in Runs PROVE Story(r)'
  <2>1. Story(r)  BY DEF IInv
  <2>2. CASE log'[r] = log[r] /\ (torn'[r] = torn[r] \/ torn'[r])
      BY <1>1, <1>2, <2>1, <2>2, Leaves
  <2>3. CASE \E e \in Underway(r), record \in Events :
               record \in {e, Cut(e)} /\ log'[r] = Append(log[r], record) /\ torn'[r]
    <3>1. PICK e \in Underway(r), record \in Events :
               record \in {e, Cut(e)} /\ log'[r] = Append(log[r], record) /\ torn'[r]
        BY <2>3
    <3>2. /\ e \in Events /\ (Told(r, e) \/ e.what = "close")
          /\ \A i \in DOMAIN log[r] : log[r][i].id < e.id
        BY UnderwayIs
    <3>3. record.id = e.id /\ (Known(r, record) \/ record.what \in {"close", "cut"})
        BY <3>1, <3>2, RecordIs DEF Known
    <3> QED BY <1>1, <1>2, <2>1, <3>1, <3>2, <3>3, LeavesTorn
  <2> QED BY <2>2, <2>3
<1> QED BY <1>2, <1>3, <1>4, <1>5 DEF IInv

LEMMA CrashStep == ASSUME IInv, Crash PROVE IInv'
<1>1. /\ TypeOK /\ Stop /\ Fault
      /\ log \in [Runs -> Seq(Events)] /\ torn \in [Runs -> BOOLEAN]
    BY DEF IInv, Crash, TypeOK
<1>2. faults' \in Nat  BY <1>1, Faults
<1>3. tasks' = tasks  BY <1>1 DEF Stop
<1>4. CASE UNCHANGED <<log, torn>>  BY <1>1, <1>2, <1>3, <1>4, StopIs
<1>5. CASE \E r \in Runs : \E event \in Underway(r) : NotAppended(r, event)
  <2>0. PICK r \in Runs : \E event \in Underway(r) : NotAppended(r, event)  BY <1>5
  <2>1. PICK event \in Underway(r) : NotAppended(r, event)  BY <2>0
  <2>2. event \in Events  BY UnderwayIs
  <2>3. /\ log' \in [Runs -> Seq(Events)] /\ torn' \in [Runs -> BOOLEAN]
        /\ \A q \in Runs \ {r} : log'[q] = log[q] /\ torn'[q] = torn[q]
        /\ \/ UNCHANGED <<log, torn>>
           \/ torn'[r] /\ \E record \in {event, Cut(event)} : log'[r] = Append(log[r], record)
      BY <1>1, <2>1, <2>2, AppendIs
  <2>4. \A record \in {event, Cut(event)} : record \in Events  BY <2>2, RecordIs
  <2> QED BY <1>1, <1>2, <1>3, <2>3, <2>4, StopIs
<1> QED BY <1>4, <1>5 DEF Crash

LEMMA ExitStep == ASSUME IInv, Exit PROVE IInv'
<1>1. /\ TypeOK /\ Stop /\ UNCHANGED <<faults, log, torn>>  BY DEF IInv, Exit
<1>2. tasks' = tasks  BY <1>1 DEF Stop
<1>3. faults' \in Nat /\ log' \in [Runs -> Seq(Events)] /\ torn' \in [Runs -> BOOLEAN]
    BY <1>1 DEF TypeOK
<1> QED BY <1>1, <1>2, <1>3, StopIs

LEMMA BootStep == ASSUME IInv, Boot PROVE IInv'
<1>1. /\ TypeOK /\ Locks /\ Recovers /\ daemon' = "up"
      /\ UNCHANGED <<faults, disk, run, locks, recovery, cancel, seen>>
    BY DEF IInv, Boot
<1>2. TypeOK'  BY <1>1 DEF TypeOK, disk, locks
<1>3. Locks'  BY <1>1, SameLocks DEF disk, locks
<1>4. Recovers'  BY <1>1, RecoversOn DEF disk
<1>5. \A q \in Runs : Story(q)'  BY <1>1, Beside DEF disk
<1> QED BY <1>2, <1>3, <1>4, <1>5 DEF IInv
-----------------------------------------------------------------------------
(* The specification *)

LEMMA Initially == ASSUME Init PROVE IInv
<1>1. <<>> \in Seq(Events)  OBVIOUS
<1>2. NoPlan \in [kind : Plans \cup {"none"}, state : {"none", "pending", "dismissed"}]
    BY DEF NoPlan
<1>3. /\ recovery.pc = "no" /\ recovery.left = {}
      /\ recovery \in [pc : RecoveryPcs, left : SUBSET Runs, plan : Plans \cup {"none"}]
    BY DEF Init, NoRecovery, RecoveryPcs
<1>4. /\ run \in [Runs -> RunStates]
      /\ \A r \in Runs : run[r] = NoRun
    BY NoRunIs DEF Init
<1>5. \A r \in Runs : run[r].pc = "absent" /\ run[r].queue = <<>>  BY <1>4, NoRunIs
<1>6. "absent" \notin Busy \cup Executing \cup Telling \cup Unclosed \cup {"closed"}
    BY DEF Busy, Executing, Finishing, Telling, Unclosed
<1>7. TypeOK
  <2>1. log = [r \in Runs |-> <<>>] /\ seen = [r \in Runs |-> <<>>]  BY DEF Init
  <2>2. log \in [Runs -> Seq(Events)] /\ seen \in [Runs -> Seq(Events)]  BY <1>1, <2>1
  <2>3. plans \in [Runs -> [kind : Plans \cup {"none"}, state : {"none", "pending", "dismissed"}]]
      BY <1>2 DEF Init
  <2> QED BY <1>3, <1>4, <2>2, <2>3 DEF Init, TypeOK
<1>8. Locks  BY <1>5, <1>6 DEF Locks, DeletionIsExclusive, Init
<1>9. Recovers  BY <1>3, <1>5, <1>6 DEF Recovers
<1>10. ASSUME NEW r \in Runs PROVE Story(r)
  <2>1. /\ log[r] = <<>> /\ seen[r] = <<>> /\ canvas[r] = "none"
        /\ run[r].pc = "absent" /\ run[r].queue = <<>>
      BY <1>5 DEF Init
  <2>2. Fresh(r) /\ Reasoned(r) /\ Streamed(r) /\ Queued(r)
      BY <1>6, <2>1 DEF Fresh, Reasoned, Streamed, Queued
  <2>3. Logged(r) /\ Durable(r)  BY <2>1 DEF Logged, Durable
  <2>4. Planned(r)  BY <1>6, <2>1 DEF Planned, HasTerminalClose, Unclosed
  <2> QED BY <2>2, <2>3, <2>4 DEF Story
<1> QED BY <1>7, <1>8, <1>9, <1>10 DEF IInv

LEMMA Stuttering == ASSUME IInv, UNCHANGED vars PROVE IInv'
<1>1. /\ TypeOK /\ Locks /\ Recovers
      /\ UNCHANGED <<daemon, faults, disk, run, locks, recovery, cancel, seen>>
    BY DEF IInv, vars
<1>2. TypeOK'  BY <1>1 DEF TypeOK, disk, locks
<1>3. Locks'  BY <1>1, SameLocks DEF disk, locks
<1>4. Recovers'  BY <1>1, RecoversOn DEF disk
<1>5. \A q \in Runs : Story(q)'  BY <1>1, Beside DEF disk
<1> QED BY <1>2, <1>3, <1>4, <1>5 DEF IInv

LEMMA CloseManagerStep == ASSUME IInv, CloseManager PROVE IInv'
<1>1. Runs \in SUBSET Runs  OBVIOUS
<1>2. CancelAll(Runs) /\ daemon' = "closing" /\ UNCHANGED <<faults, disk, locks, recovery, seen>>
    BY DEF CloseManager
<1> QED BY <1>1, <1>2, CancelStep

LEMMA CancelOneStep == ASSUME IInv, NEW r \in Runs, Cancel(r) PROVE IInv'
<1>1. {r} \in SUBSET Runs  OBVIOUS
<1>2. /\ CancelAll({r}) /\ UNCHANGED <<daemon, faults, disk, locks, recovery, seen>>
      /\ daemon' \in {"up", "closing", "down"}
    BY DEF Cancel, IInv, TypeOK
<1> QED BY <1>1, <1>2, CancelStep

LEMMA Stepwise == ASSUME IInv, [Next]_vars PROVE IInv'
<1>1. ASSUME NEW r \in Runs, Execute(r) PROVE IInv'
    BY <1>1, AcceptStep, StartStep, PrepareStep, ReturnStep, SettleStep, CollectStep, FlushStep,
       CreatePlanStep, AppendCloseStep, SummarizeStep, ReadyStep, DismissStep, BroadcastStep, EndStep
    DEF Execute
<1>2. ASSUME NEW r \in Runs, Create(r) \/ Emit(r) \/ Write(r) \/ Cancel(r) \/ Abort(r) PROVE IInv'
    BY <1>2, CreateStep, EmitStep, WriteStep, CancelOneStep, AbortStep
<1>3. ASSUME NEW t \in Tasks, BeginMutation(t) \/ DeleteTask(t) \/ EndMutation(t) PROVE IInv'
    BY <1>3, BeginMutationStep, DeleteTaskStep, EndMutationStep
<1>4. ASSUME Reconcile \/ BeginDeletion \/ CheckDeletion \/ EndDeletion PROVE IInv'
    BY <1>4, ReconcileStep, BeginDeletionStep, CheckDeletionStep, EndDeletionStep
<1>5. ASSUME Recover PROVE IInv'
    BY <1>5, InterruptStep, ListInterruptedStep, RecoverRunStep, RecoverPlanStep, RecoverAppendStep,
       RecoverReadyStep, RecoverDismissStep, RecoveryEndsStep
    DEF Recover
<1>6. ASSUME CloseManager \/ Crash \/ Exit \/ Boot PROVE IInv'
    BY <1>6, CloseManagerStep, CrashStep, ExitStep, BootStep
<1> QED BY <1>1, <1>2, <1>3, <1>4, <1>5, <1>6, Stuttering DEF Next

LEMMA Invariance == Spec => []IInv
<1>1. Init => IInv  BY Initially
<1>2. IInv /\ [Next]_vars => IInv'  BY Stepwise
<1> QED BY <1>1, <1>2, PTL DEF Spec

-----------------------------------------------------------------------------
(* What a damaged log can be behind.  A log whose appends have not failed   *)
(* has everything that does not wait; a run whose appends have failed ends  *)
(* as an error, so a close that is none has only whole records before it.   *)

Kept(r) ==
    /\ run[r].pc \in Unclosed /\ ~run[r].logError =>
         /\ \A i \in DOMAIN log[r] : log[r][i].id = i /\ log[r][i].what # "cut"
         /\ \A i \in DOMAIN run[r].queue : run[r].queue[i].id = Len(log[r]) + i
         /\ Len(seen[r]) = Len(log[r]) + Len(run[r].queue)
    /\ run[r].pc \in {"plan", "append"} /\ run[r].status # "error" => ~run[r].logError

Covered(r) ==
    \A j \in DOMAIN log[r] : log[r][j].what = "close" /\ log[r][j].status # "error" =>
        /\ \A i \in 1..(j - 1) : log[r][i].what # "cut"
        /\ log[r][j].status # "interrupted" =>
             log[r][j].id = j /\ \A i \in 1..(j - 1) : Told(r, log[r][i]) /\ log[r][i].id = i

KInv == \A r \in Runs : Kept(r) /\ Covered(r)

\* What a close needs of the records that it is put behind.
Behind(r, e) ==
    e.what = "close" /\ e.status # "error" =>
        /\ \A i \in DOMAIN log[r] : log[r][i].what # "cut"
        /\ e.status # "interrupted" =>
             e.id = Len(log[r]) + 1 /\ \A i \in DOMAIN log[r] : Told(r, log[r][i]) /\ log[r][i].id = i

\* What was told stays told.
LEMMA StaysTold ==
    ASSUME TypeOK, NEW r \in Runs, NEW x, Told(r, x),
           seen'[r] = seen[r] \/ \E e \in Events : seen'[r] = Append(seen[r], e)
    PROVE  Told(r, x)'
<1>1. seen[r] \in Seq(Events)  BY DEF TypeOK
<1>2. CASE seen'[r] = seen[r]  BY <1>2 DEF Told
<1>3. CASE \E e \in Events : seen'[r] = Append(seen[r], e)
  <2>1. PICK e \in Events : seen'[r] = Append(seen[r], e)  BY <1>3
  <2>2. /\ Len(seen[r]) \in Nat /\ Len(seen'[r]) = Len(seen[r]) + 1
        /\ \A i \in 1..Len(seen[r]) : seen'[r][i] = seen[r][i]
      BY <1>1, <2>1
  <2> QED BY <2>2 DEF Told
<1> QED BY <1>2, <1>3

LEMMA CoveredStays ==
    ASSUME TypeOK, NEW r \in Runs, Covered(r), log'[r] = log[r],
           seen'[r] = seen[r] \/ \E e \in Events : seen'[r] = Append(seen[r], e)
    PROVE  Covered(r)'
<1>1. \A x : Told(r, x) => Told(r, x)'  BY StaysTold
<1>2. PICK s : s = log[r]  OBVIOUS
<1>3. \A j \in DOMAIN s : s[j].what = "close" /\ s[j].status # "error" =>
        /\ \A i \in 1..(j - 1) : s[i].what # "cut"
        /\ s[j].status # "interrupted" =>
             s[j].id = j /\ \A i \in 1..(j - 1) : Told(r, s[i]) /\ s[i].id = i
    BY <1>2 DEF Covered
<1>4. \A j \in DOMAIN s : s[j].what = "close" /\ s[j].status # "error" =>
        /\ \A i \in 1..(j - 1) : s[i].what # "cut"
        /\ s[j].status # "interrupted" =>
             s[j].id = j /\ \A i \in 1..(j - 1) : Told(r, s[i])' /\ s[i].id = i
    BY <1>1, <1>3
<1>5. log'[r] = s  BY <1>2
<1> QED BY <1>4, <1>5 DEF Covered

LEMMA CoveredGrows ==
    ASSUME TypeOK, NEW r \in Runs, Covered(r), NEW e \in Events, Behind(r, e),
           log'[r] = Append(log[r], e), seen' = seen
    PROVE  Covered(r)'
<1>1. PICK s : s = log[r]  OBVIOUS
<1>2. PICK t : t = log'[r]  OBVIOUS
<1>3. /\ s \in Seq(Events) /\ Len(s) \in Nat /\ DOMAIN s = 1..Len(s)
      /\ DOMAIN t = 1..(Len(s) + 1) /\ t[Len(s) + 1] = e /\ \A i \in 1..Len(s) : t[i] = s[i]
  <2>1. s \in Seq(Events)  BY <1>1 DEF TypeOK
  <2>2. t = Append(s, e)  BY <1>1, <1>2
  <2> QED BY <2>1, <2>2
<1>4. \A x : Told(r, x) => Told(r, x)'  BY DEF Told
<1>5. ASSUME NEW j \in DOMAIN t, t[j].what = "close", t[j].status # "error"
      PROVE  /\ \A i \in 1..(j - 1) : t[i].what # "cut"
             /\ t[j].status # "interrupted" =>
                  t[j].id = j /\ \A i \in 1..(j - 1) : Told(r, t[i])' /\ t[i].id = i
  <2>1. CASE j \in 1..Len(s)
    <3>1. t[j] = s[j] /\ \A i \in 1..(j - 1) : i \in 1..Len(s) /\ t[i] = s[i]  BY <1>3, <2>1
    <3>2. /\ \A i \in 1..(j - 1) : s[i].what # "cut"
          /\ s[j].status # "interrupted" =>
               s[j].id = j /\ \A i \in 1..(j - 1) : Told(r, s[i]) /\ s[i].id = i
        BY <1>1, <1>3, <1>5, <2>1, <3>1 DEF Covered
    <3> QED BY <1>4, <3>1, <3>2
  <2>2. CASE j = Len(s) + 1
    <3>1. t[j] = e /\ \A i \in 1..(j - 1) : i \in DOMAIN s /\ t[i] = s[i]  BY <1>3, <2>2
    <3>2. /\ \A i \in DOMAIN s : s[i].what # "cut"
          /\ e.status # "interrupted" =>
               e.id = Len(s) + 1 /\ \A i \in DOMAIN s : Told(r, s[i]) /\ s[i].id = i
        BY <1>1, <1>5, <3>1 DEF Behind
    <3> QED BY <1>4, <2>2, <3>1, <3>2
  <2> QED BY <1>3, <2>1, <2>2
<1> QED BY <1>2, <1>5 DEF Covered

\* A run goes on, or leaves, and its log and its stream stay.
LEMMA KeptStays ==
    ASSUME NEW r \in Runs, Kept(r), log'[r] = log[r], seen'[r] = seen[r],
           run'[r].pc \in Unclosed =>
              /\ run[r].pc \in Unclosed
              /\ run'[r].queue = run[r].queue /\ run'[r].logError = run[r].logError
              /\ run'[r].pc \in {"plan", "append"} /\ run'[r].status # "error" => ~run[r].logError
    PROVE  Kept(r)'
<1>1. {"plan", "append"} \subseteq Unclosed  BY DEF Unclosed
<1> QED BY <1>1 DEF Kept

LEMMA Quiet ==
    ASSUME TypeOK, KInv, UNCHANGED <<log, seen>>,
           \A r \in Runs : run'[r].pc \in Unclosed =>
              /\ run[r].pc \in Unclosed
              /\ run'[r].queue = run[r].queue /\ run'[r].logError = run[r].logError
              /\ run'[r].pc \in {"plan", "append"} /\ run'[r].status # "error" => ~run[r].logError
    PROVE  KInv'
<1> SUFFICES ASSUME NEW r \in Runs PROVE Kept(r)' /\ Covered(r)'  BY DEF KInv
<1>1. Kept(r) /\ Covered(r)  BY DEF KInv
<1>2. log'[r] = log[r] /\ seen'[r] = seen[r]  OBVIOUS
<1> QED BY <1>1, <1>2, KeptStays, CoveredStays

\* The step of one run, which the others do not notice.
LEMMA Alone ==
    ASSUME TypeOK, KInv, NEW r \in Runs, Kept(r)', Covered(r)',
           \A q \in Runs \ {r} : run'[q] = run[q] /\ log'[q] = log[q] /\ seen'[q] = seen[q]
    PROVE  KInv'
<1> SUFFICES ASSUME NEW q \in Runs, q # r PROVE Kept(q)' /\ Covered(q)'  BY DEF KInv
<1>1. Kept(q) /\ Covered(q)  BY DEF KInv
<1>2. run'[q] = run[q] /\ log'[q] = log[q] /\ seen'[q] = seen[q]  OBVIOUS
<1>3. Kept(q)'  BY <1>1, <1>2 DEF Kept
<1> QED BY <1>1, <1>2, <1>3, CoveredStays

LEMMA QuietRun ==
    ASSUME TypeOK, KInv, UNCHANGED <<log, seen>>, NEW r \in Runs, NEW next \in RunStates,
           run' = [run EXCEPT ![r] = next],
           next.pc \in Unclosed =>
              /\ run[r].pc \in Unclosed
              /\ next.queue = run[r].queue /\ next.logError = run[r].logError
              /\ next.pc \in {"plan", "append"} /\ next.status # "error" => ~run[r].logError
    PROVE  KInv'
<1>1. run'[r] = next /\ \A q \in Runs \ {r} : run'[q] = run[q]  BY DEF TypeOK
<1>2. Kept(r) /\ Covered(r)  BY DEF KInv
<1>3. log'[r] = log[r] /\ seen'[r] = seen[r]  OBVIOUS
<1>4. Kept(r)'  BY <1>1, <1>2, <1>3, KeptStays
<1>5. Covered(r)'  BY <1>2, <1>3, CoveredStays
<1> QED BY <1>1, <1>4, <1>5, Alone

\* A run that tells something has it in the stream and in the queue.
LEMMA KeptTells ==
    ASSUME TypeOK, KInv, NEW r \in Runs, NEW e \in Events, e.id = Len(seen[r]) + 1,
           log' = log, seen'[r] = Append(seen[r], e),
           run'[r].queue = Append(run[r].queue, e), run'[r].logError = run[r].logError,
           run[r].pc \in Unclosed, run'[r].pc \notin {"plan", "append"},
           \A q \in Runs \ {r} : run'[q] = run[q] /\ seen'[q] = seen[q]
    PROVE  KInv'
<1>1. Kept(r) /\ Covered(r) /\ run[r] \in RunStates  BY DEF KInv, TypeOK
<1>2. PICK s, q, t : s = seen[r] /\ q = run[r].queue /\ t = log[r]  OBVIOUS
<1>3. s \in Seq(Events) /\ q \in Seq(Events) /\ t \in Seq(Events)
    BY <1>1, <1>2 DEF TypeOK, RunStates
<1>4. /\ Len(seen'[r]) = Len(s) + 1 /\ Len(run'[r].queue) = Len(q) + 1
      /\ Len(s) \in Nat /\ Len(q) \in Nat /\ Len(t) \in Nat
      /\ DOMAIN run'[r].queue = 1..(Len(q) + 1) /\ DOMAIN q = 1..Len(q)
      /\ run'[r].queue[Len(q) + 1] = e /\ \A i \in 1..Len(q) : run'[r].queue[i] = q[i]
    BY <1>2, <1>3
<1>5. ASSUME ~run[r].logError
      PROVE  /\ \A i \in DOMAIN log'[r] : log'[r][i].id = i /\ log'[r][i].what # "cut"
             /\ \A i \in DOMAIN run'[r].queue : run'[r].queue[i].id = Len(log'[r]) + i
             /\ Len(seen'[r]) = Len(log'[r]) + Len(run'[r].queue)
  <2>1. /\ \A i \in DOMAIN t : t[i].id = i /\ t[i].what # "cut"
        /\ \A i \in DOMAIN q : q[i].id = Len(t) + i
        /\ Len(s) = Len(t) + Len(q)
      BY <1>1, <1>2, <1>5 DEF Kept
  <2>2. e.id = Len(t) + (Len(q) + 1)
    <3>1. e.id = Len(s) + 1  BY <1>2
    <3>2. Len(s) + 1 = Len(t) + (Len(q) + 1)  BY <1>4, <2>1
    <3> QED BY <3>1, <3>2
  <2>3. \A i \in 1..(Len(q) + 1) : i \in 1..Len(q) \/ i = Len(q) + 1  BY <1>4
  <2>4. log'[r] = t  BY <1>2
  <2>5. \A i \in DOMAIN run'[r].queue : run'[r].queue[i].id = Len(t) + i
      BY <1>4, <2>1, <2>2, <2>3
  <2> QED BY <1>4, <2>1, <2>4, <2>5
<1>6. Kept(r)'  BY <1>5 DEF Kept
<1>7. Covered(r)'  BY <1>1, CoveredStays
<1> QED BY <1>6, <1>7, Alone

LEMMA KeptSays ==
    ASSUME TypeOK, KInv, NEW r \in Runs, NEW reason \in Reasons, NEW next \in RunStates,
           PublishDone(r, reason, next), log' = log, run[r].pc \in Unclosed,
           next.queue = run[r].queue, next.logError = run[r].logError,
           next.pc \in Unclosed \ {"plan", "append"}
    PROVE  KInv'
<1> DEFINE event == DoneEvent(NextId(r), Said(next, reason))
<1>1. /\ run' \in [Runs -> RunStates]
      /\ \A q \in Runs \ {r} : run'[q] = run[q] /\ seen'[q] = seen[q]
      /\ next.reason # "none" => run'[r] = next /\ seen'[r] = seen[r]
      /\ next.reason = "none" =>
           /\ event \in Events /\ seen'[r] = Append(seen[r], event)
           /\ run'[r] = Spoken(next, Said(next, reason), event)
    BY PublishDoneIs
<1>2. CASE next.reason # "none"
  <2>1. Kept(r) /\ Covered(r)  BY DEF KInv
  <2>2. log'[r] = log[r] /\ seen'[r] = seen[r] /\ run'[r] = next  BY <1>1, <1>2
  <2>3. Kept(r)'  BY <2>1, <2>2, KeptStays
  <2>4. Covered(r)'  BY <2>1, <2>2, CoveredStays
  <2> QED BY <1>1, <2>3, <2>4, Alone
<1>3. CASE next.reason = "none"
  <2>1. event.id = Len(seen[r]) + 1  BY DEF DoneEvent, Event, NextId
  <2> HIDE DEF event
  <2>2. /\ run'[r].queue = Append(run[r].queue, event) /\ run'[r].logError = run[r].logError
        /\ run'[r].pc = next.pc
      BY <1>1, <1>3 DEF Spoken, RunStates
  <2> QED BY <1>1, <1>3, <2>1, <2>2, KeptTells
<1> QED BY <1>2, <1>3
-----------------------------------------------------------------------------
(* The steps that tell, and those that write the log. *)

LEMMA StartKept == ASSUME IInv, KInv, NEW r \in Runs, Start(r) PROVE KInv'
<1>1. /\ TypeOK /\ run[r] \in RunStates /\ run[r].pc = "starting" /\ run[r].pc \in Unclosed /\ log' = log
      /\ run \in [Runs -> RunStates]
    BY DEF IInv, Start, At, TypeOK, Unclosed
<1>2. CASE run' = [run EXCEPT ![r].pc = "prepare"] /\ UNCHANGED seen
  <2> DEFINE next == [run[r] EXCEPT !.pc = "prepare"]
  <2>1. /\ next \in RunStates /\ next.pc = "prepare" /\ next.queue = run[r].queue
        /\ next.logError = run[r].logError
      BY <1>1 DEF RunStates, RunPcs, Busy, Executing
  <2>2. run' = [run EXCEPT ![r] = next]  BY <1>1, <1>2
  <2> HIDE DEF next
  <2> QED BY <1>1, <1>2, <2>1, <2>2, QuietRun
<1>3. CASE PublishDone(r, "error", [run[r] EXCEPT !.pc = "flush", !.status = "error"])
  <2> DEFINE next == [run[r] EXCEPT !.pc = "flush", !.status = "error"]
  <2>1. /\ next \in RunStates /\ next.pc = "flush" /\ next.queue = run[r].queue
        /\ next.logError = run[r].logError /\ next.pc \in Unclosed \ {"plan", "append"}
      BY <1>1 DEF RunStates, RunPcs, Busy, Executing, Ends, Unclosed
  <2>2. "error" \in Reasons /\ PublishDone(r, "error", next)  BY <1>3 DEF Reasons
  <2> HIDE DEF next
  <2> QED BY <1>1, <2>1, <2>2, KeptSays
<1> QED BY <1>2, <1>3 DEF Start

LEMMA CaughtKept ==
    ASSUME IInv, KInv, NEW r \in Runs, Caught(r), log' = log, run[r].pc \in {"prepare", "agent", "settle"}
    PROVE  KInv'
<1> DEFINE reason == IF run[r].asked THEN "cancelled"
                     ELSE IF run[r].reason # "none" THEN run[r].reason
                     ELSE IF run[r].aborted THEN "cancelled" ELSE "error"
           next == [run[r] EXCEPT !.pc = "collect", !.settled = @ \/ run[r].pc = "agent",
                        !.complete = FALSE, !.status = StatusFor(reason)]
<1>1. TypeOK /\ run[r] \in RunStates /\ run[r].pc \in Unclosed  BY DEF IInv, TypeOK, Unclosed
<1>2. reason \in Reasons  BY <1>1 DEF RunStates, Reasons
<1>3. PublishDone(r, reason, next)  BY DEF Caught
<1> HIDE DEF reason
<1>4. StatusFor(reason) \in Ends  BY <1>2, StatusIs
<1>5. (run[r].settled \/ run[r].pc = "agent") \in BOOLEAN  OBVIOUS
<1>6. /\ next \in RunStates /\ next.pc = "collect" /\ next.queue = run[r].queue
      /\ next.logError = run[r].logError
    BY <1>1, <1>4, <1>5 DEF RunStates, RunPcs, Busy, Executing
<1>7. next.pc \in Unclosed \ {"plan", "append"}  BY <1>6 DEF Unclosed
<1> HIDE DEF next
<1> QED BY <1>1, <1>2, <1>3, <1>6, <1>7, KeptSays

LEMMA SettleKept == ASSUME IInv, KInv, NEW r \in Runs, Settle(r) PROVE KInv'
<1>1. TypeOK /\ run[r] \in RunStates /\ run[r].pc = "settle" /\ run[r].pc \in Unclosed /\ log' = log
    BY DEF IInv, Settle, At, TypeOK, Unclosed, disk
<1>2. CASE Caught(r)  BY <1>1, <1>2, CaughtKept
<1> DEFINE reason == IF run[r].reason = "none" THEN "end_turn" ELSE run[r].reason
           next == [run[r] EXCEPT !.pc = "collect", !.complete = TRUE, !.status = StatusFor(reason)]
<1>3. CASE PublishDone(r, reason, next)
  <2>1. reason \in Reasons  BY <1>1 DEF RunStates, Reasons
  <2>2. StatusFor(reason) \in Ends  BY <2>1, StatusIs
  <2>3. PublishDone(r, reason, next)  BY <1>3
  <2> HIDE DEF reason
  <2>4. /\ next \in RunStates /\ next.pc = "collect" /\ next.queue = run[r].queue
        /\ next.logError = run[r].logError
      BY <1>1, <2>2 DEF RunStates, RunPcs, Busy, Executing
  <2>5. next.pc \in Unclosed \ {"plan", "append"}  BY <2>4 DEF Unclosed
  <2> HIDE DEF next
  <2> QED BY <1>1, <2>1, <2>3, <2>4, <2>5, KeptSays
<1> QED BY <1>2, <1>3 DEF Settle

LEMMA EmitKept == ASSUME IInv, KInv, NEW r \in Runs, Emit(r) PROVE KInv'
<1>1. TypeOK /\ run[r] \in RunStates /\ run[r].pc = "agent" /\ run[r].pc \in Unclosed /\ log' = log
    BY DEF IInv, Emit, At, TypeOK, Unclosed, disk
<1>2. ASSUME NEW reason \in {"end_turn", "error"}, PublishDone(r, reason, run[r]) PROVE KInv'
  <2>1. reason \in Reasons /\ run[r].pc \notin {"plan", "append"}  BY <1>1 DEF Reasons
  <2> QED BY <1>1, <1>2, <2>1, KeptSays
<1>3. CASE Publish(r, Text(NextId(r)), run[r])
  <2> DEFINE event == Text(NextId(r))
  <2>1. Len(seen[r]) \in Nat  BY <1>1 DEF TypeOK
  <2>2. event \in Events /\ event.id = Len(seen[r]) + 1
      BY <2>1 DEF Events, Text, Event, NextId
  <2>3. Publish(r, event, run[r])  BY <1>3
  <2> HIDE DEF event
  <2>4. /\ seen'[r] = Append(seen[r], event)
        /\ run'[r] = [run[r] EXCEPT !.queue = Append(run[r].queue, event)]
        /\ \A q \in Runs \ {r} : run'[q] = run[q] /\ seen'[q] = seen[q]
      BY <1>1, <2>2, <2>3, PublishIs
  <2>5. /\ run'[r].pc = "agent" /\ run'[r].logError = run[r].logError
        /\ run'[r].queue = Append(run[r].queue, event)
      BY <1>1, <2>4 DEF RunStates
  <2> QED BY <1>1, <2>2, <2>4, <2>5, KeptTells
<1> QED BY <1>2, <1>3 DEF Emit

LEMMA BroadcastKept == ASSUME IInv, KInv, NEW r \in Runs, Broadcast(r) PROVE KInv'
<1>1. /\ TypeOK /\ run[r] \in RunStates /\ run[r].pc = "broadcast" /\ log' = log
      /\ seen' = [seen EXCEPT ![r] = Append(@, OwnClose(r))]
      /\ run' = [run EXCEPT ![r].pc = "closed"]
    BY DEF IInv, Broadcast, At, TypeOK, disk
<1>2. Len(seen[r]) \in Nat  BY <1>1 DEF TypeOK
<1>3. OwnClose(r) \in Events
    BY <1>1, <1>2 DEF OwnClose, Close, Event, NextId, Events, RunStates, Statuses, Ends
<1>4. /\ seen'[r] = Append(seen[r], OwnClose(r)) /\ run'[r].pc = "closed"
      /\ \A q \in Runs \ {r} : run'[q] = run[q] /\ seen'[q] = seen[q]
    BY <1>1 DEF TypeOK, RunStates
<1>5. Kept(r)'  BY <1>4 DEF Kept, Unclosed
<1>6. Covered(r)'
  <2>1. Covered(r)  BY DEF KInv
  <2> QED BY <1>1, <1>3, <1>4, <2>1, CoveredStays
<1> QED BY <1>1, <1>4, <1>5, <1>6, Alone

\* What leaves the queue is one more in the log.
LEMMA OneOn == \A m, k, n \in Nat : k = m + 1 => m + (n + 1) = k + n  OBVIOUS

LEMMA WriteKept == ASSUME IInv, KInv, NEW r \in Runs, Write(r) PROVE KInv'
<1>0. PICK q, head : q = run[r].queue /\ head = Head(q)  OBVIOUS
<1>1. /\ TypeOK /\ Story(r) /\ Kept(r) /\ Covered(r) /\ run[r] \in RunStates /\ seen' = seen
      /\ q \in Seq(Events) /\ q # <<>> /\ log[r] \in Seq(Events) /\ run \in [Runs -> RunStates]
    BY <1>0 DEF IInv, KInv, Write, TypeOK, RunStates
<1>2. /\ head \in Events /\ head = q[1] /\ 1 \in DOMAIN q /\ Len(q) \in Nat /\ Len(log[r]) \in Nat
      /\ Len(Tail(q)) = Len(q) - 1
      /\ \A i \in DOMAIN Tail(q) : i \in Nat /\ i + 1 \in DOMAIN q /\ Tail(q)[i] = q[i + 1]
    BY <1>0, <1>1
<1>3. Told(r, head) /\ run[r].pc \notin {"plan", "append"}
  <2>1. Queued(r)  BY <1>1 DEF Story
  <2>2. Told(r, q[1])  BY <1>0, <1>2, <2>1 DEF Queued
  <2>3. run[r].pc \in Telling  BY <1>0, <1>1, <2>1 DEF Queued
  <2> QED BY <1>2, <2>2, <2>3 DEF Telling
<1>4. \A record \in {head, Cut(head)} : record \in Events /\ Behind(r, record)
  <2> SUFFICES ASSUME NEW record \in {head, Cut(head)} PROVE record \in Events /\ Behind(r, record)
      OBVIOUS
  <2>1. record \in Events /\ (record # head => record.what = "cut")  BY <1>2, RecordIs
  <2>2. record.what # "close"  BY <1>3, <2>1 DEF Told
  <2> QED BY <2>1, <2>2 DEF Behind
<1>5. CASE Appended(r, head) /\ run' = [run EXCEPT ![r].queue = Tail(@)]
  <2>1. log'[r] = Append(log[r], head) /\ \A p \in Runs \ {r} : log'[p] = log[p]
      BY <1>1, <1>2, <1>5, AppendIs
  <2>2. /\ run'[r].queue = Tail(q) /\ run'[r].pc = run[r].pc /\ run'[r].logError = run[r].logError
        /\ \A p \in Runs \ {r} : run'[p] = run[p]
      BY <1>0, <1>1, <1>5 DEF RunStates
  <2>3. Covered(r)'  BY <1>1, <1>2, <1>4, <2>1, CoveredGrows
  <2>4. Kept(r)'
    <3>1. /\ Len(log'[r]) = Len(log[r]) + 1 /\ DOMAIN log'[r] = 1..(Len(log[r]) + 1)
          /\ DOMAIN log[r] = 1..Len(log[r])
          /\ log'[r][Len(log[r]) + 1] = head /\ \A i \in 1..Len(log[r]) : log'[r][i] = log[r][i]
        BY <1>1, <1>2, <2>1
    <3>2. PICK m, k : m = Len(log[r]) /\ k = Len(log'[r])  OBVIOUS
    <3>3. m \in Nat /\ k \in Nat /\ k = m + 1  BY <1>2, <3>1, <3>2
    <3>4. ASSUME run[r].pc \in Unclosed, ~run[r].logError
          PROVE  /\ \A i \in DOMAIN log'[r] : log'[r][i].id = i /\ log'[r][i].what # "cut"
                 /\ \A i \in DOMAIN Tail(q) : Tail(q)[i].id = Len(log'[r]) + i
                 /\ Len(seen[r]) = Len(log'[r]) + Len(Tail(q))
      <4>1. /\ \A i \in DOMAIN log[r] : log[r][i].id = i /\ log[r][i].what # "cut"
            /\ \A i \in DOMAIN q : q[i].id = Len(log[r]) + i
            /\ Len(seen[r]) = Len(log[r]) + Len(q)
          BY <1>0, <1>1, <3>4 DEF Kept
      <4>2. head.id = Len(log[r]) + 1 /\ head.what # "cut"  BY <1>2, <1>3, <4>1 DEF Told
      <4>3. \A i \in 1..(Len(log[r]) + 1) : i \in 1..Len(log[r]) \/ i = Len(log[r]) + 1  BY <1>2
      <4>4. \A i \in DOMAIN log'[r] : log'[r][i].id = i /\ log'[r][i].what # "cut"
          BY <3>1, <4>1, <4>2, <4>3
      <4>5. ASSUME NEW i \in DOMAIN Tail(q) PROVE Tail(q)[i].id = Len(log'[r]) + i
        <5>1. Tail(q)[i].id = Len(log[r]) + (i + 1)  BY <1>2, <4>1
        <5>2. i \in Nat  BY <1>2
        <5>3. Tail(q)[i].id = k + i  BY <3>2, <3>3, <5>1, <5>2, OneOn
        <5> QED BY <3>2, <5>3
      <4>6. Len(seen[r]) = Len(log'[r]) + Len(Tail(q))
        <5>1. PICK n : n = Len(q) - 1  OBVIOUS
        <5>2. n \in Nat /\ Len(q) = n + 1 /\ Len(Tail(q)) = n  BY <1>2, <5>1
        <5>3. Len(seen[r]) = m + (n + 1)  BY <3>2, <4>1, <5>2
        <5>4. Len(seen[r]) = k + n  BY <3>3, <5>2, <5>3, OneOn
        <5> QED BY <3>2, <5>2, <5>4
      <4> QED BY <4>4, <4>5, <4>6
    <3> QED BY <1>1, <1>3, <2>2, <3>4 DEF Kept
  <2> QED BY <1>1, <2>1, <2>2, <2>3, <2>4, Alone
<1>6. CASE NotAppended(r, head) /\ run' = [run EXCEPT ![r].queue = Tail(@), ![r].logError = TRUE]
  <2>1. /\ run'[r].pc = run[r].pc /\ run'[r].logError /\ \A p \in Runs \ {r} : run'[p] = run[p]
      BY <1>1, <1>6 DEF RunStates
  <2>2. Kept(r)'  BY <1>3, <2>1 DEF Kept
  <2>3. /\ \A p \in Runs \ {r} : log'[p] = log[p]
        /\ log'[r] = log[r] \/ \E record \in {head, Cut(head)} : log'[r] = Append(log[r], record)
      BY <1>1, <1>2, <1>6, AppendIs
  <2>4. Covered(r)'
    <3>1. CASE log'[r] = log[r]  BY <1>1, <3>1, CoveredStays
    <3>2. CASE \E record \in {head, Cut(head)} : log'[r] = Append(log[r], record)
        BY <1>1, <1>4, <3>2, CoveredGrows
    <3> QED BY <2>3, <3>1, <3>2
  <2> QED BY <1>1, <2>1, <2>2, <2>3, <2>4, Alone
<1> QED BY <1>0, <1>5, <1>6 DEF Write

\* The close of a run, and that of a recovery, find the records they need.
LEMMA OwnBehind ==
    ASSUME IInv, KInv, NEW r \in Runs, run[r].pc = "append"
    PROVE  /\ OwnClose(r) \in Events
           /\ \A record \in {OwnClose(r), Cut(OwnClose(r))} : record \in Events /\ Behind(r, record)
<1>1. /\ TypeOK /\ Story(r) /\ Kept(r) /\ run[r] \in RunStates /\ run[r].pc \in Unclosed
      /\ Len(seen[r]) \in Nat /\ Len(log[r]) \in Nat
    BY DEF IInv, KInv, TypeOK, Unclosed
<1>2. PICK close : close = OwnClose(r)  OBVIOUS
<1>3. /\ close \in Events /\ close.id = Len(seen[r]) + 1 /\ close.status = run[r].status
    BY <1>1, <1>2 DEF OwnClose, Close, Event, NextId, Events, RunStates, Statuses, Ends
<1>4. ASSUME close.status # "error"
      PROVE  /\ close.id = Len(log[r]) + 1
             /\ \A i \in DOMAIN log[r] :
                  log[r][i].what # "cut" /\ Told(r, log[r][i]) /\ log[r][i].id = i
  <2>1. ~run[r].logError  BY <1>1, <1>3, <1>4 DEF Kept
  <2>2. run[r].queue = <<>>  BY <1>1 DEF Story, Queued, Telling
  <2>3. /\ \A i \in DOMAIN log[r] : log[r][i].id = i /\ log[r][i].what # "cut"
        /\ Len(seen[r]) = Len(log[r]) + 0
      BY <1>1, <2>1, <2>2 DEF Kept
  <2>4. \A i \in DOMAIN log[r] : Known(r, log[r][i])  BY <1>1, NoClose DEF Story
  <2> QED BY <1>1, <1>3, <2>3, <2>4 DEF Known
<1>5. ASSUME NEW record \in {close, Cut(close)} PROVE record \in Events /\ Behind(r, record)
  <2>1. record \in Events /\ (record # close => record.what = "cut")  BY <1>3, RecordIs
  <2> QED BY <1>4, <2>1 DEF Behind
<1> QED BY <1>2, <1>3, <1>5

LEMMA RecoveredBehind ==
    ASSUME IInv, NEW r \in Runs, Legible(r)
    PROVE  /\ RecoveredClose(r) \in Events
           /\ \A record \in {RecoveredClose(r), Cut(RecoveredClose(r))} : record \in Events /\ Behind(r, record)
<1>1. RecoveredClose(r) \in Events  BY RecoveredCloseIs DEF IInv, Story
<1>2. RecoveredClose(r).status = "interrupted"  BY DEF RecoveredClose, Close, Event
<1>3. \A i \in DOMAIN log[r] : log[r][i].what # "cut"  BY DEF Legible, Range
<1>4. ASSUME NEW record \in {RecoveredClose(r), Cut(RecoveredClose(r))}
      PROVE  record \in Events /\ Behind(r, record)
  <2>1. record \in Events /\ (record # RecoveredClose(r) => record.what = "cut")  BY <1>1, RecordIs
  <2> QED BY <1>2, <1>3, <2>1 DEF Behind
<1> QED BY <1>1, <1>4

\* A record that is appended, in whole or in part, or not.
LEMMA AppendCovers ==
    ASSUME TypeOK, KInv, NEW r \in Runs, NEW e \in Events, Appended(r, e) \/ NotAppended(r, e),
           \A record \in {e, Cut(e)} : record \in Events /\ Behind(r, record), seen' = seen
    PROVE  \A q \in Runs : Covered(q)' /\ (q # r => log'[q] = log[q])
<1>1. /\ \A q \in Runs \ {r} : log'[q] = log[q]
      /\ log'[r] = log[r] \/ \E record \in {e, Cut(e)} : log'[r] = Append(log[r], record)
  <2>1. e \in {e, Cut(e)}  OBVIOUS
  <2> QED BY <2>1, AppendIs
<1>2. \A q \in Runs : Covered(q) /\ seen'[q] = seen[q]  BY DEF KInv
<1>3. \A q \in Runs : log'[q] = log[q] => Covered(q)'  BY <1>2, CoveredStays
<1>4. Covered(r)'
  <2>1. CASE log'[r] = log[r]  BY <1>3, <2>1
  <2>2. CASE \E record \in {e, Cut(e)} : log'[r] = Append(log[r], record)
      BY <1>2, <2>2, CoveredGrows
  <2> QED BY <1>1, <2>1, <2>2
<1> QED BY <1>1, <1>3, <1>4

LEMMA AppendCloseKept == ASSUME IInv, KInv, NEW r \in Runs, AppendClose(r) PROVE KInv'
<1>1. /\ TypeOK /\ run[r] \in RunStates /\ run[r].pc = "append" /\ seen' = seen
      /\ Appended(r, OwnClose(r)) \/ NotAppended(r, OwnClose(r))
    BY DEF IInv, AppendClose, At, TypeOK
<1>2. run'[r].pc \in {"summarize", "broadcast"} /\ \A q \in Runs \ {r} : run'[q] = run[q]
    BY <1>1 DEF AppendClose, Spoilt, TypeOK, RunStates
<1>3. \A q \in Runs : Covered(q)' /\ (q # r => log'[q] = log[q])
    BY <1>1, OwnBehind, AppendCovers
<1>4. Kept(r)'  BY <1>2 DEF Kept, Unclosed
<1> QED BY <1>1, <1>2, <1>3, <1>4, Alone

LEMMA RecoverAppendKept == ASSUME IInv, KInv, RecoverAppend PROVE KInv'
<1>1. PICK r : r = Current  OBVIOUS
<1>2. /\ TypeOK /\ run' = run /\ seen' = seen /\ recovery.pc = "append" /\ recovery.left # {}
      /\ \/ Legible(r) /\ (Appended(r, RecoveredClose(r)) \/ NotAppended(r, RecoveredClose(r)))
         \/ UNCHANGED <<log, torn>>
    BY <1>1 DEF IInv, RecoverAppend, Recovering
<1>3. r \in Runs /\ run[r].pc \notin Executing \cup {"closed"}
    BY <1>1, <1>2, CurrentIs DEF IInv, Recovers, TypeOK
<1>4. CASE Legible(r) /\ (Appended(r, RecoveredClose(r)) \/ NotAppended(r, RecoveredClose(r)))
  <2>1. \A q \in Runs : Covered(q)' /\ (q # r => log'[q] = log[q])
      BY <1>2, <1>3, <1>4, RecoveredBehind, AppendCovers
  <2>2. Kept(r)'
    <3>1. run'[r].pc \notin Unclosed  BY <1>2, <1>3 DEF Unclosed, Executing, Finishing
    <3> QED BY <3>1 DEF Kept, Unclosed
  <2> QED BY <1>2, <1>3, <2>1, <2>2, Alone
<1>5. CASE UNCHANGED <<log, torn>>
  <2>1. \A q \in Runs : run'[q].pc \in {"plan", "append"} /\ run'[q].status # "error" => ~run[q].logError
      BY <1>2 DEF KInv, Kept
  <2> QED BY <1>2, <1>5, <2>1, Quiet
<1> QED BY <1>2, <1>4, <1>5

LEMMA CrashKept == ASSUME IInv, KInv, Crash PROVE KInv'
<1>1. TypeOK /\ seen' = seen /\ run' = [q \in Runs |-> NoRun]  BY DEF IInv, Crash, Stop
<1>2. \A q \in Runs : Kept(q)'
  <2>1. \A q \in Runs : run'[q].pc = "absent"  BY <1>1, NoRunIs
  <2> QED BY <2>1 DEF Kept, Unclosed
<1>3. \A q \in Runs : Covered(q)'
  <2>1. CASE UNCHANGED <<log, torn>>
    <3>1. \A q \in Runs : Covered(q) /\ log'[q] = log[q] /\ seen'[q] = seen[q]  BY <1>1, <2>1 DEF KInv
    <3> QED BY <1>1, <3>1, CoveredStays
  <2>2. ASSUME NEW r \in Runs, NEW e \in Underway(r), NotAppended(r, e) PROVE \A q \in Runs : Covered(q)'
    <3>1. e \in Events  BY UnderwayIs
    <3>2. \A record \in {e, Cut(e)} : record \in Events /\ Behind(r, record)
      <4>1. CASE run[r].queue # <<>> /\ e = Head(run[r].queue)
        <5>1. Story(r) /\ run[r].queue \in Seq(Events)  BY DEF IInv, TypeOK, RunStates
        <5>2. 1 \in DOMAIN run[r].queue /\ e = run[r].queue[1]  BY <4>1, <5>1
        <5>3. Told(r, e)  BY <5>1, <5>2 DEF Story, Queued
        <5>4. \A record \in {e, Cut(e)} : record \in Events /\ record.what # "close"
            BY <3>1, <5>3, RecordIs DEF Told
        <5> QED BY <5>4 DEF Behind
      <4>2. CASE run[r].pc = "append" /\ e = OwnClose(r)  BY <4>2, OwnBehind
      <4>3. CASE Legible(r) /\ e = RecoveredClose(r)  BY <4>3, RecoveredBehind
      <4> QED BY <4>1, <4>2, <4>3 DEF Underway
    <3> QED BY <1>1, <2>2, <3>1, <3>2, AppendCovers
  <2> QED BY <2>1, <2>2 DEF Crash
<1> QED BY <1>2, <1>3 DEF KInv
-----------------------------------------------------------------------------
(* The other steps leave logs and streams alone. *)

LEMMA RunsStay == ASSUME TypeOK, KInv, UNCHANGED <<run, log, seen>> PROVE KInv'
<1>1. \A q \in Runs : run'[q].pc \in {"plan", "append"} /\ run'[q].status # "error" => ~run[q].logError
    BY DEF KInv, Kept
<1> QED BY <1>1, Quiet

LEMMA AcceptKept == ASSUME IInv, KInv, NEW r \in Runs, Accept(r) PROVE KInv'
<1>1. TypeOK /\ run[r] \in RunStates /\ UNCHANGED <<log, seen>>  BY DEF IInv, Accept, disk, TypeOK
<1>2. CASE run' = [run EXCEPT ![r] = NoRun]
  <2>1. NoRun \in RunStates /\ NoRun.pc \notin Unclosed  BY NoRunIs DEF Unclosed
  <2> QED BY <1>1, <1>2, <2>1, QuietRun
<1>3. CASE run' = [run EXCEPT ![r].pc = "starting"]
  <2>1. run'[r].pc = "starting" /\ \A q \in Runs \ {r} : run'[q] = run[q]
      BY <1>1, <1>3 DEF TypeOK, RunStates
  <2>2. Fresh(r)' /\ Queued(r)'  BY AcceptStep DEF IInv, Story
  <2>3. seen'[r] = <<>> /\ log'[r] = <<>> /\ run'[r].queue = <<>>
      BY <2>1, <2>2 DEF Fresh, Queued, Telling
  <2>4. Kept(r)'  BY <2>1, <2>3 DEF Kept
  <2>5. Covered(r)'  BY <2>3 DEF Covered
  <2> QED BY <1>1, <2>1, <2>4, <2>5, Alone
<1> QED BY <1>2, <1>3 DEF Accept

LEMMA CreateKept == ASSUME IInv, KInv, NEW r \in Runs, Create(r) PROVE KInv'
<1>1. TypeOK /\ UNCHANGED <<log, seen>> /\ run' = [run EXCEPT ![r] = [NoRun EXCEPT !.pc = "recovering"]]
    BY DEF IInv, Create, disk
<1>2. [NoRun EXCEPT !.pc = "recovering"].pc \notin Unclosed  BY NoRunIs DEF Unclosed
<1> QED BY <1>1, <1>2, NoRunIs, QuietRun

LEMMA PrepareKept == ASSUME IInv, KInv, NEW r \in Runs, Prepare(r) PROVE KInv'
<1>1. TypeOK /\ run[r] \in RunStates /\ run[r].pc = "prepare" /\ log' = log
    BY DEF IInv, Prepare, At, TypeOK, disk
<1>2. CASE run' = [run EXCEPT ![r].pc = "agent"] /\ UNCHANGED seen
  <2>1. \A q \in Runs \ {r} : run'[q] = run[q]  BY <1>1, <1>2 DEF TypeOK
  <2>2. run'[r].pc = "agent" /\ run'[r].queue = run[r].queue /\ run'[r].logError = run[r].logError
      BY <1>1, <1>2 DEF TypeOK, RunStates
  <2>3. Kept(r) /\ Covered(r)  BY DEF KInv
  <2>4. Kept(r)'  BY <1>1, <1>2, <2>2, <2>3, KeptStays DEF Unclosed
  <2>5. Covered(r)'  BY <1>1, <1>2, <2>3, CoveredStays
  <2> QED BY <1>1, <1>2, <2>1, <2>4, <2>5, Alone
<1> QED BY <1>1, <1>2, CaughtKept DEF Prepare

LEMMA ReturnKept == ASSUME IInv, KInv, NEW r \in Runs, Return(r) PROVE KInv'
<1>1. TypeOK /\ run[r] \in RunStates /\ run[r].pc = "agent" /\ log' = log
    BY DEF IInv, Return, At, TypeOK, disk
<1>2. CASE run' = [run EXCEPT ![r].pc = "settle", ![r].settled = TRUE] /\ UNCHANGED seen
  <2>1. \A q \in Runs \ {r} : run'[q] = run[q]  BY <1>1, <1>2 DEF TypeOK
  <2>2. run'[r].pc = "settle" /\ run'[r].queue = run[r].queue /\ run'[r].logError = run[r].logError
      BY <1>1, <1>2 DEF TypeOK, RunStates
  <2>3. Kept(r) /\ Covered(r)  BY DEF KInv
  <2>4. Kept(r)'  BY <1>1, <1>2, <2>2, <2>3, KeptStays DEF Unclosed
  <2>5. Covered(r)'  BY <1>1, <1>2, <2>3, CoveredStays
  <2> QED BY <1>1, <1>2, <2>1, <2>4, <2>5, Alone
<1> QED BY <1>1, <1>2, CaughtKept DEF Return

LEMMA CollectKept == ASSUME IInv, KInv, NEW r \in Runs, Collect(r) PROVE KInv'
<1>1. /\ TypeOK /\ run[r] \in RunStates /\ run[r].pc = "collect" /\ run[r].pc \in Unclosed
      /\ UNCHANGED <<log, seen>>
    BY DEF IInv, Collect, At, TypeOK, disk, Unclosed
<1>2. /\ \A q \in Runs \ {r} : run'[q] = run[q]
      /\ run'[r].pc \in {"collect", "flush"}
      /\ run'[r].queue = run[r].queue /\ run'[r].logError = run[r].logError
    BY <1>1 DEF Collect, TypeOK, RunStates
<1>3. Kept(r) /\ Covered(r)  BY DEF KInv
<1>4. Kept(r)'  BY <1>1, <1>2, <1>3, KeptStays
<1>5. Covered(r)'  BY <1>1, <1>3, CoveredStays
<1> QED BY <1>1, <1>2, <1>4, <1>5, Alone

LEMMA FlushKept == ASSUME IInv, KInv, NEW r \in Runs, Flush(r) PROVE KInv'
<1>1. /\ TypeOK /\ run[r] \in RunStates /\ run[r].pc = "flush" /\ run[r].pc \in Unclosed
      /\ UNCHANGED <<log, seen>>
    BY DEF IInv, Flush, At, TypeOK, disk, Unclosed
<1>2. /\ \A q \in Runs \ {r} : run'[q] = run[q]
      /\ run'[r].queue = run[r].queue /\ run'[r].logError = run[r].logError
      /\ run[r].logError => run'[r].status = "error"
    BY <1>1 DEF Flush, TypeOK, RunStates
<1>3. Kept(r) /\ Covered(r) /\ run[r].logError \in BOOLEAN  BY <1>1 DEF KInv, RunStates
<1>4. Kept(r)'  BY <1>1, <1>2, <1>3, KeptStays
<1>5. Covered(r)'  BY <1>1, <1>3, CoveredStays
<1> QED BY <1>1, <1>2, <1>4, <1>5, Alone

LEMMA CreatePlanKept == ASSUME IInv, KInv, NEW r \in Runs, CreatePlan(r) PROVE KInv'
<1>1. /\ TypeOK /\ run[r] \in RunStates /\ run[r].pc = "plan" /\ run[r].pc \in Unclosed
      /\ UNCHANGED <<log, seen>>
    BY DEF IInv, CreatePlan, At, TypeOK, Unclosed
<1>2. /\ \A q \in Runs \ {r} : run'[q] = run[q]
      /\ run'[r].pc = "append"
      /\ run'[r].queue = run[r].queue /\ run'[r].logError = run[r].logError
      /\ run'[r].status \in {run[r].status, "error"}
  <2>1. \/ \E kind \in PlansOf(r) : run' = [run EXCEPT ![r].plan = kind, ![r].pc = "append"]
        \/ run' = [run EXCEPT ![r].status = "error", ![r].pc = "append"]
      BY DEF CreatePlan
  <2>2. run \in [Runs -> RunStates]  BY <1>1 DEF TypeOK
  <2>3. CASE run' = [run EXCEPT ![r].status = "error", ![r].pc = "append"]
      BY <1>1, <2>2, <2>3 DEF RunStates
  <2>4. ASSUME NEW kind, run' = [run EXCEPT ![r].plan = kind, ![r].pc = "append"]
        PROVE  /\ \A q \in Runs \ {r} : run'[q] = run[q]
               /\ run'[r].pc = "append"
               /\ run'[r].queue = run[r].queue /\ run'[r].logError = run[r].logError
               /\ run'[r].status = run[r].status
      BY <1>1, <2>2, <2>4 DEF RunStates
  <2> QED BY <2>1, <2>3, <2>4
<1>3. Kept(r) /\ Covered(r)  BY DEF KInv
<1>4. run'[r].status # "error" => ~run[r].logError  BY <1>1, <1>2, <1>3 DEF Kept
<1>5. Kept(r)'  BY <1>1, <1>2, <1>3, <1>4, KeptStays
<1>6. Covered(r)'  BY <1>1, <1>3, CoveredStays
<1> QED BY <1>1, <1>2, <1>5, <1>6, Alone

\* After the append of its close a run no longer counts on its log.
LEMMA FinishKept ==
    ASSUME IInv, KInv, NEW r \in Runs, Summarize(r) \/ Ready(r) \/ Dismiss(r) \/ End(r)
    PROVE  KInv'
<1>1. TypeOK /\ run[r] \in RunStates /\ UNCHANGED <<log, seen>>
    BY DEF IInv, Summarize, Ready, Dismiss, End, TypeOK, disk
<1>2. /\ \A q \in Runs \ {r} : run'[q] = run[q]
      /\ run'[r].pc \in {"ready", "dismiss", "broadcast", "gone"}
    BY <1>1, NoRunIs DEF Summarize, Spoilt, Ready, Dismiss, End, TypeOK, RunStates
<1>3. Covered(r)  BY DEF KInv
<1>4. Kept(r)'  BY <1>2 DEF Kept, Unclosed
<1>5. Covered(r)'  BY <1>1, <1>3, CoveredStays
<1> QED BY <1>1, <1>2, <1>4, <1>5, Alone

LEMMA CancelKept ==
    ASSUME IInv, KInv, CancelAll(Runs) \/ \E r \in Runs : CancelAll({r}) \/ Abort(r), UNCHANGED <<log, seen>>
    PROVE  KInv'
<1>1. TypeOK  BY DEF IInv
<1>2. \A q \in Runs : /\ run'[q].pc = run[q].pc /\ run'[q].queue = run[q].queue
                      /\ run'[q].logError = run[q].logError /\ run'[q].status = run[q].status
  <2>1. run \in [Runs -> RunStates]  BY <1>1 DEF TypeOK
  <2>2. ASSUME NEW R \in SUBSET Runs, CancelAll(R), NEW q \in Runs
        PROVE  /\ run'[q].pc = run[q].pc /\ run'[q].queue = run[q].queue
               /\ run'[q].logError = run[q].logError /\ run'[q].status = run[q].status
    <3>1. run[q] \in RunStates  BY <2>1
    <3> QED BY <2>2, <3>1 DEF CancelAll, RunStates
  <2>3. ASSUME NEW r \in Runs, Abort(r), NEW q \in Runs
        PROVE  /\ run'[q].pc = run[q].pc /\ run'[q].queue = run[q].queue
               /\ run'[q].logError = run[q].logError /\ run'[q].status = run[q].status
      BY <2>1, <2>3 DEF Abort, RunStates
  <2>4. \A r \in Runs : {r} \in SUBSET Runs  OBVIOUS
  <2> QED BY <2>2, <2>3, <2>4
<1>3. \A q \in Runs : run'[q].pc \in {"plan", "append"} /\ run'[q].status # "error" => ~run[q].logError
    BY <1>2 DEF KInv, Kept
<1> QED BY <1>1, <1>2, <1>3, Quiet

LEMMA ForgetKept == ASSUME IInv, KInv, EndDeletion \/ Exit PROVE KInv'
<1>1. TypeOK /\ run' = [q \in Runs |-> NoRun] /\ UNCHANGED <<log, seen>>
    BY DEF IInv, EndDeletion, Exit, Stop, disk
<1>2. \A q \in Runs : run'[q].pc \notin Unclosed  BY <1>1, NoRunIs DEF Unclosed
<1> QED BY <1>1, <1>2, Quiet

LEMMA KeptStepwise == ASSUME IInv, KInv, [Next]_vars PROVE KInv'
<1>0. TypeOK  BY DEF IInv
<1>1. ASSUME NEW r \in Runs, Execute(r) PROVE KInv'
    BY <1>1, AcceptKept, StartKept, PrepareKept, ReturnKept, SettleKept, CollectKept, FlushKept,
       CreatePlanKept, AppendCloseKept, FinishKept, BroadcastKept
    DEF Execute
<1>2. ASSUME NEW r \in Runs, Create(r) \/ Emit(r) \/ Write(r) PROVE KInv'
    BY <1>2, CreateKept, EmitKept, WriteKept
<1>3. ASSUME NEW r \in Runs, Cancel(r) \/ Abort(r) PROVE KInv'
    BY <1>3, CancelKept DEF Cancel, Abort, disk
<1>4. ASSUME NEW t \in Tasks, BeginMutation(t) \/ DeleteTask(t) \/ EndMutation(t) PROVE KInv'
    BY <1>0, <1>4, RunsStay DEF BeginMutation, DeleteTask, EndMutation, disk
<1>5. ASSUME Reconcile \/ BeginDeletion \/ CheckDeletion PROVE KInv'
    BY <1>0, <1>5, RunsStay DEF Reconcile, BeginDeletion, CheckDeletion, disk
<1>6. ASSUME Recover PROVE KInv'
  <2>1. CASE RecoverAppend  BY <2>1, RecoverAppendKept
  <2>2. ASSUME NEW r \in Runs, Interrupt(r) PROVE KInv'
      BY <1>0, <2>2, RunsStay DEF Interrupt
  <2>3. CASE ListInterrupted \/ RecoverRun \/ RecoveryEnds
      BY <1>0, <2>3, RunsStay DEF ListInterrupted, RecoverRun, RecoveryEnds, disk
  <2>4. CASE RecoverPlan \/ RecoverReady \/ RecoverDismiss
      BY <1>0, <2>4, RunsStay DEF RecoverPlan, RecoverReady, RecoverDismiss
  <2> QED BY <1>6, <2>1, <2>2, <2>3, <2>4 DEF Recover
<1>7. ASSUME CloseManager PROVE KInv'  BY <1>7, CancelKept DEF CloseManager, disk
<1>8. ASSUME Boot \/ UNCHANGED vars PROVE KInv'  BY <1>0, <1>8, RunsStay DEF Boot, vars, disk
<1> QED BY <1>1, <1>2, <1>3, <1>4, <1>5, <1>6, <1>7, <1>8, ForgetKept, CrashKept DEF Next

LEMMA KeptInvariance == Spec => [](IInv /\ KInv)
<1>1. Init => IInv  BY Initially
<1>2. ASSUME Init PROVE KInv
  <2>1. \A r \in Runs : run[r].pc = "absent" /\ log[r] = <<>>  BY <1>2, NoRunIs DEF Init
  <2>2. ASSUME NEW r \in Runs PROVE Kept(r) /\ Covered(r)
    <3>1. Kept(r)  BY <2>1 DEF Kept, Unclosed
    <3>2. DOMAIN log[r] = {}  BY <2>1
    <3> QED BY <3>1, <3>2 DEF Covered
  <2> QED BY <2>2 DEF KInv
<1>3. IInv /\ KInv /\ [Next]_vars => IInv' /\ KInv'  BY Stepwise, KeptStepwise
<1> QED BY <1>1, <1>2, <1>3, PTL DEF Spec
-----------------------------------------------------------------------------

\* The shape of the state holds in every reachable state.
THEOREM TypeCorrect == Spec => []TypeOK
<1>1. IInv => TypeOK  BY DEF IInv
<1> QED BY <1>1, Invariance, PTL

\* A run is one story: its stream has one done and closes once, at its end and with the
\* status of the done.  Its log agrees with the stream, and what a failing append damaged
\* in it is not hidden: behind a close as done or cancelled nothing is missing, and a
\* recovery puts its close only behind whole records.
THEOREM StreamsAreOne == Spec => []OneStream
<1>1. ASSUME IInv, KInv PROVE OneStream
  <2> SUFFICES ASSUME NEW r \in Runs
      PROVE  /\ \A i, j \in DOMAIN seen[r] :
                /\ seen[r][i].what = "close" => i = Len(seen[r])
                /\ seen[r][i].what = "done" /\ seen[r][j].what = "done" => i = j
                /\ seen[r][i].what = "close" =>
                     \E k \in 1..(i - 1) :
                        /\ seen[r][k].what = "done"
                        /\ seen[r][i].status \in {StatusFor(seen[r][k].status), "error"}
             /\ \A i, j \in DOMAIN log[r] : i < j => log[r][i].id < log[r][j].id
             /\ \A e \in Range(log[r]) :
                 e.what \notin {"close", "cut"} => e.id <= Len(seen[r]) /\ seen[r][e.id] = e
             /\ \A j \in DOMAIN log[r] :
                 log[r][j].what = "close" /\ log[r][j].status # "error" =>
                     /\ \A i \in 1..(j - 1) : log[r][i].what # "cut"
                     /\ log[r][j].status # "interrupted" =>
                          log[r][j].id = j /\ \A i \in 1..(j - 1) : log[r][i] = seen[r][i]
      BY Zenon DEF OneStream
  <2>1. Streamed(r) /\ Logged(r) /\ Covered(r) /\ Len(seen[r]) \in Nat
      BY <1>1 DEF IInv, KInv, Story, TypeOK
  <2>2. \A i, j \in DOMAIN seen[r] :
           /\ seen[r][i].what = "close" => i = Len(seen[r])
           /\ seen[r][i].what = "done" /\ seen[r][j].what = "done" => i = j
           /\ seen[r][i].what = "close" =>
                \E k \in 1..(i - 1) :
                   /\ seen[r][k].what = "done"
                   /\ seen[r][i].status \in {StatusFor(seen[r][k].status), "error"}
      BY <2>1, Zenon DEF Streamed
  <2>3. \A i, j \in DOMAIN log[r] : i < j => log[r][i].id < log[r][j].id
      BY <2>1, Zenon DEF Logged
  <2>4. \A e \in Range(log[r]) :
           e.what \notin {"close", "cut"} => e.id <= Len(seen[r]) /\ seen[r][e.id] = e
      BY <2>1 DEF Logged, Known, Told, Range
  <2>5. \A j \in DOMAIN log[r] :
           log[r][j].what = "close" /\ log[r][j].status # "error" =>
               /\ \A i \in 1..(j - 1) : log[r][i].what # "cut"
               /\ log[r][j].status # "interrupted" =>
                    log[r][j].id = j /\ \A i \in 1..(j - 1) : log[r][i] = seen[r][i]
    <3>1. \A e : Told(r, e) => seen[r][e.id] = e  BY DEF Told
    <3> QED BY <2>1, <3>1 DEF Covered
  <2> QED BY <2>2, <2>3, <2>4, <2>5
<1> QED BY <1>1, KeptInvariance, PTL

\* What was told as done or cancelled, or with a plan, is in the log for ever.
THEOREM ToldStays == Spec => []ToldIsDurable
<1>1. ASSUME IInv PROVE ToldIsDurable
  <2>1. \A r \in Runs : Durable(r)  BY <1>1 DEF IInv, Story
  <2> QED BY <2>1 DEF ToldIsDurable, Durable, InLog, Closes, Range
<1> QED BY <1>1, Invariance, PTL

\* The canvas holds of a run the plan of a durable close, and the registry agrees with it.
THEOREM PlansFollow == Spec => []PlanFollowsClose
<1>1. ASSUME IInv PROVE PlanFollowsClose
  <2>1. \A r \in Runs : Planned(r)  BY <1>1 DEF IInv, Story
  <2> QED BY <2>1 DEF PlanFollowsClose, Planned, HasClose, HasTerminalClose, Closes, Range
<1> QED BY <1>1, Invariance, PTL

\* A task has one run at a time, and it is not deleted under it.
THEOREM TasksReserved == Spec => []TaskIsReserved
<1>1. ASSUME IInv PROVE TaskIsReserved
  <2>1. TaskOf \in [Runs -> Tasks]  BY RunAssumption
  <2>2. Executing \subseteq Busy  BY DEF Busy
  <2> QED BY <1>1, <2>1, <2>2 DEF IInv, Locks, TaskIsReserved
<1> QED BY <1>1, Invariance, PTL

\* While the deletion of the project holds it, nothing else is under way in it.
THEOREM DeletionsExclude == Spec => []DeletionIsExclusive
<1>1. IInv => DeletionIsExclusive  BY DEF IInv, Locks
<1> QED BY <1>1, Invariance, PTL
=============================================================================
