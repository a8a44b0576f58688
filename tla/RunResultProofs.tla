--------------------------- MODULE RunResultProofs ---------------------------
(***************************************************************************)
(* Theorems about what becomes of a run outside its manager: about         *)
(* RunFollower, the page that follows it, and then about ProjectionPlans,  *)
(* the canvas that takes what it made. The two parts share no state and no *)
(* invariant.                                                              *)
(***************************************************************************)
EXTENDS RunFollower, ProjectionPlans, TLAPS, WellFoundedInduction
-----------------------------------------------------------------------------
(***************************************************************************)
(* Theorems about RunFollower, for any number of runs, events and faults,  *)
(* and windows and pages of any size.                                      *)
(***************************************************************************)

Statuses == {"done", "interrupted"}
Closes == {CloseOf(status, plan) : status \in Statuses, plan \in BOOLEAN}
Entries == {Text} \cup Closes
Stages == {"none", "running", "finishing", "closing", "ended"}
Documents == [outputs : SUBSET Runs, reviewed : SUBSET Runs]
Applications == {"live", "replay-active", "replay-history"}
Places == {"replay", "attach", "gap", "reattach", "stream", "close", "failed"}

Creations == [at : {"post", "created", "reconcile"}, run : Runs]
Recoveries ==
  [at : {"list"}, outputs : SUBSET Runs]
  \cup [at : {"listed"}, outputs : SUBSET Runs, active : SUBSET Runs, terminal : SUBSET Runs,
        status : [Runs -> Statuses]]
Follows ==
  [run : Runs, at : Places, cursor : Nat, application : Applications, refresh : BOOLEAN,
   next : Nat, early : BOOLEAN]

TypeOK ==
  /\ log \in [Runs -> Seq(Entries)]
  /\ first \in [Runs -> Nat]
  /\ stage \in [Runs -> Stages]
  /\ order \in Seq(Runs)
  /\ held \subseteq Runs
  /\ canvas \in Documents
  /\ posts \subseteq Runs
  /\ shown \in Documents
  /\ runtime \in {None} \cup [run : Runs, phase : Phases]
  /\ claimed \in BOOLEAN
  /\ pending \in {None} \cup Creations \cup Recoveries
  /\ follow \in {None} \cup Follows
  /\ entries \in [Runs -> SUBSET Nat]
  /\ settled \subseteq Runs /\ offered \subseteq Runs /\ streamed \subseteq Runs
  /\ faults \in Nat

IsOver(r) == runtime # None /\ runtime.run = r /\ runtime.phase \in Statuses

\* A close is the last entry of a log; it is there from one stage on, and the
\* outputs come after it.
Logged(r) ==
  /\ \A i \in 1..Len(log[r]) : log[r][i].event = "close" => i = Len(log[r])
  /\ HasClose(r) <=> stage[r] \in {"closing", "ended"}
  /\ first[r] <= Len(log[r]) + 1
  /\ r \in posts => stage[r] = "none"
  /\ r \in canvas.outputs => stage[r] = "ended"

\* The page waits for one thing at a time, and shows the run it starts or follows.
Single ==
  /\ pending # None => claimed
  /\ pending # None /\ pending.at \in {"post", "created", "reconcile"} =>
       runtime = [run |-> pending.run, phase |-> "queued"]
  /\ follow # None =>
       claimed /\ pending = None /\ runtime # None /\ runtime.run = follow.run

\* Where a follow is in its log: between its cursor and what it reads next there is
\* nothing it has to have, and nothing at all if its run is shown as over.
Following ==
  follow # None =>
    /\ follow.cursor <= Len(log[follow.run])
    /\ follow.at = "close" =>
         HasClose(follow.run) /\ (~follow.early => stage[follow.run] = "ended")
    /\ follow.at = "stream" =>
         follow.next > follow.cursor /\ (follow.cursor > 0 => follow.next = follow.cursor + 1)
    /\ follow.at = "replay" => follow.application # "live"
    /\ follow.at \in {"attach", "gap", "reattach", "stream"} /\ IsOver(follow.run) =>
         \A i \in (follow.cursor + 1)..Len(log[follow.run]) : log[follow.run][i].event = "close"

\* What the page has read of the daemon was so, and only grows.
AsRead ==
  /\ shown.outputs \subseteq canvas.outputs
  /\ shown.reviewed \subseteq canvas.reviewed
  /\ \A r \in Runs : IsOver(r) => stage[r] \notin {"none", "running"}
  /\ pending # None /\ pending.at \in {"list", "listed"} => pending.outputs \subseteq canvas.outputs
  /\ pending # None /\ pending.at = "listed" =>
       /\ \A r \in pending.terminal : stage[r] \notin {"none", "running"}
       /\ \A r \in pending.active : ~IsOver(r)

\* A run is settled at its close; one that was streamed to its end has been
\* materialized, if it ever is.
Owed ==
  /\ \A r \in settled : HasClose(r)
  /\ streamed \subseteq settled
  /\ \A r \in streamed : stage[r] = "ended"
  /\ NothingMissed

PageIInv == TypeOK /\ (\A r \in Runs : Logged(r)) /\ Single /\ Following /\ AsRead /\ Owed
-----------------------------------------------------------------------------
(* Types *)

LEMMA MaxOfTwo ==
  ASSUME NEW a \in Nat, NEW b \in Nat
  PROVE  Max({a, b}) = IF a < b THEN b ELSE a
BY DEF Max

LEMMA Constants ==
  /\ MaxRuns \in Nat /\ Runs \subseteq Nat
  /\ Window \in Nat \ {0} /\ PageSize \in Nat \ {0}
  /\ MaxEvents \in [Runs -> Nat] /\ MaxFaults \in Nat
BY BoundsAssumption DEF Runs

LEMMA EntriesAre ==
  /\ Text \in Entries /\ Text.event = "agent-event"
  /\ \A c \in Closes : /\ c.event = "close" /\ c.status \in Statuses /\ c.plan \in BOOLEAN
                       /\ c \in Entries
  /\ \A status \in Statuses, plan \in BOOLEAN : CloseOf(status, plan) \in Closes
  /\ \A e \in Entries : e.event = "close" => e \in Closes
  /\ \A e \in Entries : e.event # "close" => e = Text /\ e.event = "agent-event"
<1>1. Text \in Entries /\ Text.event = "agent-event"  BY DEF Entries, Text
<1>2. \A c \in Closes : c.event = "close" /\ c.status \in Statuses /\ c.plan \in BOOLEAN /\ c \in Entries
    BY DEF Closes, CloseOf, Entries
<1>3. \A status \in Statuses, plan \in BOOLEAN : CloseOf(status, plan) \in Closes  BY DEF Closes
<1> QED BY <1>1, <1>2, <1>3 DEF Entries

\* What a log that has a close ends with.
LEMMA LastIs ==
  ASSUME NEW r \in Runs, log \in [Runs -> Seq(Entries)]
  PROVE  /\ Len(log[r]) \in Nat
         /\ HasClose(r) <=> Len(log[r]) > 0 /\ log[r][Len(log[r])].event = "close"
         /\ HasClose(r) => Last(log[r]) = log[r][Len(log[r])] /\ Last(log[r]) \in Closes
         /\ \A i \in 1..Len(log[r]) : log[r][i] \in Entries
<1>1. log[r] \in Seq(Entries) /\ Len(log[r]) \in Nat  OBVIOUS
<1>2. log[r] # <<>> <=> Len(log[r]) > 0  BY <1>1
<1>3. Last(log[r]) = log[r][Len(log[r])]  BY DEF Last
<1>4. \A i \in 1..Len(log[r]) : log[r][i] \in Entries  BY <1>1
<1> QED BY <1>1, <1>2, <1>3, <1>4, EntriesAre DEF HasClose
LEMMA HasLeast ==
  ASSUME NEW S, S \subseteq Nat, S # {}
  PROVE  \E k \in S : \A j \in S : k <= j
<1> DEFINE R == OpToRel(<, Nat)
<1>1. PICK k \in S : \A j \in S : ~(<<j, k>> \in R)
    BY NatLessThanWellFounded, WFMin, Zenon
<1>2. \A j \in S : ~(j < k)  BY <1>1 DEF OpToRel
<1> QED BY <1>2

LEMMA DocumentsGrow ==
  ASSUME NEW d \in Documents, NEW S \in SUBSET Runs
  PROVE  /\ [d EXCEPT !.outputs = @ \cup S] \in Documents
         /\ [d EXCEPT !.outputs = @ \cup S].outputs = d.outputs \cup S
         /\ [d EXCEPT !.outputs = @ \cup S].reviewed = d.reviewed
         /\ [d EXCEPT !.reviewed = @ \cup S] \in Documents
         /\ [d EXCEPT !.reviewed = @ \cup S].outputs = d.outputs
         /\ [d EXCEPT !.reviewed = @ \cup S].reviewed = d.reviewed \cup S
<1>1. d.outputs \cup S \subseteq Runs /\ d.reviewed \cup S \subseteq Runs  BY DEF Documents
<1> QED BY <1>1 DEF Documents

LEMMA AppendIs ==
  ASSUME NEW s \in Seq(Entries), NEW e \in Entries
  PROVE  /\ Append(s, e) \in Seq(Entries)
         /\ Len(s) \in Nat /\ Len(Append(s, e)) = Len(s) + 1
         /\ \A i \in 1..Len(s) : Append(s, e)[i] = s[i]
         /\ Append(s, e)[Len(s) + 1] = e
OBVIOUS
-----------------------------------------------------------------------------
(* The daemon *)

\* What a step of the daemon does to the log of a run.
Extended(r) ==
  \/ log'[r] = log[r]
  \/ ~HasClose(r) /\ \E e \in Entries : log'[r] = Append(log[r], e)

LEMMA ExtendedIs ==
  ASSUME NEW r \in Runs, log \in [Runs -> Seq(Entries)], log' \in [Runs -> Seq(Entries)], Extended(r)
  PROVE  /\ Len(log[r]) <= Len(log'[r])
         /\ \A i \in 1..Len(log[r]) : log'[r][i] = log[r][i]
         /\ HasClose(r) => log'[r] = log[r] /\ HasClose(r)' /\ Last(log'[r]) = Last(log[r])
<1>1. log[r] \in Seq(Entries) /\ Len(log[r]) \in Nat  OBVIOUS
<1>2. CASE log'[r] = log[r]  BY <1>1, <1>2 DEF HasClose, Last
<1>3. ASSUME ~HasClose(r), NEW e \in Entries, log'[r] = Append(log[r], e)
      PROVE  /\ Len(log[r]) <= Len(log'[r])
             /\ \A i \in 1..Len(log[r]) : log'[r][i] = log[r][i]
  BY <1>1, <1>3
<1> QED BY <1>2, <1>3 DEF Extended

\* Nothing of a run is taken back, and its close comes before its outputs.
Grows ==
  /\ \A r \in Runs :
       /\ Extended(r)
       /\ stage[r] \notin {"none", "running"} =>
            /\ stage'[r] \notin {"none", "running"}
            /\ log'[r] = log[r] \/ \E c \in Closes : log'[r] = Append(log[r], c)
       /\ stage[r] = "ended" => stage'[r] = "ended" /\ (r \in canvas'.outputs => r \in canvas.outputs)
  /\ canvas.outputs \subseteq canvas'.outputs /\ canvas.reviewed \subseteq canvas'.reviewed

\* The page only waits meanwhile: its request is answered, or its stream breaks.
Waits ==
  /\ UNCHANGED <<shown, runtime, claimed, record>>
  /\ \/ pending' = pending
     \/ /\ pending # None /\ pending.at = "post"
        /\ \E at \in {"created", "reconcile"} : pending' = [pending EXCEPT !.at = at]
  /\ \/ follow' = follow
     \/ follow # None /\ follow' = [follow EXCEPT !.at = "failed"]

LEMMA AnswerIs ==
  ASSUME NEW r \in Runs, NEW at \in {"created", "reconcile"}, AnswerPost(r, at)
  PROVE  \/ pending' = pending
         \/ pending # None /\ pending.at = "post" /\ pending' = [pending EXCEPT !.at = at]
BY DEF AnswerPost

LEMMA DaemonType ==
  ASSUME TypeOK, DaemonStep
  PROVE  TypeOK'
<1> USE Constants, EntriesAre DEF TypeOK, daemon, page, record
<1>0. ASSUME NEW at \in {"created", "reconcile"}, pending # None, pending.at = "post",
             pending' = [pending EXCEPT !.at = at]
      PROVE  pending' \in Creations
  <2>1. pending \in Creations  BY <1>0 DEF Recoveries
  <2> QED BY <2>1, <1>0 DEF Creations
<1>1. ASSUME NEW r \in Runs, Create(r)  PROVE TypeOK'
  <2>1. pending' \in {None} \cup Creations \cup Recoveries  BY <1>0, <1>1, AnswerIs DEF Create
  <2>2. \/ UNCHANGED <<stage, order, held>>
        \/ /\ stage' = [stage EXCEPT ![r] = "running"]
           /\ held' = held \cup {r}
           /\ order' = Append(order, r)
      BY <1>1 DEF Create
  <2>3. stage' \in [Runs -> Stages]  BY <2>2 DEF Stages
  <2>4. held' \subseteq Runs /\ order' \in Seq(Runs)
    <3>1. Append(order, r) \in Seq(Runs)  OBVIOUS
    <3> QED BY <2>2, <3>1
  <2> QED BY <1>1, <2>1, <2>3, <2>4 DEF Create
<1>2. ASSUME NEW r \in Runs, Publish(r)  PROVE TypeOK'
  <2>1. log[r] \in Seq(Entries) /\ Len(log[r]) \in Nat  OBVIOUS
  <2>2. log' \in [Runs -> Seq(Entries)]
    <3>1. Append(log[r], Text) \in Seq(Entries)  BY <2>1
    <3> QED BY <3>1, <1>2 DEF Publish
  <2>3. CASE Len(log[r]) + 2 - Window \in Nat
    <3>1. Max({first[r], Len(log[r]) + 2 - Window}) \in Nat  BY <2>3, MaxOfTwo
    <3> QED BY <3>1, <2>2, <1>2 DEF Publish
  <2>4. CASE Len(log[r]) + 2 - Window \notin Nat
    <3>1. Max({first[r], Len(log[r]) + 2 - Window}) = first[r]  BY <2>4, <2>1 DEF Max
    <3> QED BY <3>1, <2>2, <1>2 DEF Publish
  <2> QED BY <2>3, <2>4
<1>3. ASSUME NEW r \in Runs, Finish(r)  PROVE TypeOK'
  BY <1>3 DEF Finish, Stages
<1>4. ASSUME NEW r \in Runs, Close(r)  PROVE TypeOK'
  <2>1. PICK plan \in BOOLEAN : log' = [log EXCEPT ![r] = Append(@, CloseOf("done", plan))]
      BY <1>4 DEF Close
  <2>2. CloseOf("done", plan) \in Entries  BY DEF Statuses
  <2>3. Append(log[r], CloseOf("done", plan)) \in Seq(Entries)  BY <2>2
  <2>4. log' \in [Runs -> Seq(Entries)]  BY <2>1, <2>3
  <2> QED BY <2>4, <1>4 DEF Close, Stages
<1>5. ASSUME NEW r \in Runs, Materialize(r)  PROVE TypeOK'
  <2>1. canvas' = canvas \/ canvas' = [canvas EXCEPT !.outputs = @ \cup {r}]
      BY <1>5 DEF Materialize
  <2>2. canvas \in Documents /\ {r} \in SUBSET Runs  OBVIOUS
  <2>3. [canvas EXCEPT !.outputs = @ \cup {r}] \in Documents  BY <2>2, DocumentsGrow
  <2>4. canvas' \in Documents  BY <2>1, <2>2, <2>3
  <2> QED BY <2>4, <1>5 DEF Materialize, Stages
<1>6. ASSUME NEW r \in Runs, Forget(r)  PROVE TypeOK'
  BY <1>6 DEF Forget
<1>7. ASSUME NEW r \in Runs, Review(r)  PROVE TypeOK'
  <2>1. canvas' = [canvas EXCEPT !.reviewed = @ \cup {r}]  BY <1>7 DEF Review
  <2>2. canvas \in Documents /\ {r} \in SUBSET Runs  OBVIOUS
  <2>3. canvas' \in Documents  BY <2>1, <2>2, DocumentsGrow
  <2> QED BY <2>3, <1>7 DEF Review
<1>8. CASE Restart
  <2>1. PICK plan \in BOOLEAN :
          log' = [r \in Runs |-> IF Busy(r) /\ ~HasClose(r)
                                 THEN Append(log[r], CloseOf("interrupted", plan)) ELSE log[r]]
      BY <1>8 DEF Restart
  <2>2. CloseOf("interrupted", plan) \in Entries  BY DEF Statuses
  <2>3. log' \in [Runs -> Seq(Entries)]
    <3>1. \A r \in Runs : Append(log[r], CloseOf("interrupted", plan)) \in Seq(Entries)  BY <2>2
    <3> QED BY <3>1, <2>1
  <2>4. stage' \in [Runs -> Stages]  BY <1>8 DEF Restart, Stages
  <2>5. canvas' \in Documents
    <3> DEFINE S == {r \in Runs : Busy(r) /\ Last(log'[r]).plan}
    <3>1. canvas' = [canvas EXCEPT !.outputs = @ \cup S]  BY <1>8 DEF Restart
    <3>2. S \in SUBSET Runs  OBVIOUS
    <3> QED BY <3>1, <3>2, DocumentsGrow
  <2>6. pending' \in {None} \cup Creations \cup Recoveries  BY <1>8, <1>0 DEF Restart
  <2>7. follow' \in {None} \cup Follows  BY <1>8 DEF Restart, Follows, Places
  <2>8. faults' \in Nat  BY <1>8 DEF Restart
  <2> QED BY <1>8, <2>3, <2>4, <2>5, <2>6, <2>7, <2>8 DEF Restart
<1> QED BY <1>1, <1>2, <1>3, <1>4, <1>5, <1>6, <1>7, <1>8 DEF DaemonStep

\* What a step of the daemon does to Logged(r), when its log is left alone.
LEMMA DaemonGrows ==
  ASSUME TypeOK, TypeOK', \A r \in Runs : Logged(r), DaemonStep
  PROVE  Grows /\ Waits /\ \A r \in Runs : Logged(r)'
<1> USE Constants, EntriesAre DEF daemon, page, record
<1>a. /\ log \in [Runs -> Seq(Entries)] /\ log' \in [Runs -> Seq(Entries)]
      /\ stage \in [Runs -> Stages] /\ stage' \in [Runs -> Stages]
      /\ first \in [Runs -> Nat] /\ first' \in [Runs -> Nat]
      /\ canvas \in Documents /\ canvas' \in Documents
    BY DEF TypeOK
<1>b. \A r \in Runs : /\ Len(log[r]) \in Nat
                      /\ HasClose(r) <=> Len(log[r]) > 0 /\ log[r][Len(log[r])].event = "close"
                      /\ \A i \in 1..Len(log[r]) : log[r][i] \in Entries
    BY <1>a, LastIs
<1>c. ASSUME NEW q \in Runs, log'[q] = log[q], first'[q] = first[q],
             stage'[q] = stage[q], q \in canvas'.outputs => q \in canvas.outputs,
             q \in posts' => q \in posts
      PROVE  Logged(q)'
    BY <1>c DEF Logged, HasClose
<1>d. ASSUME NEW q \in Runs, NEW e \in Entries, log'[q] = Append(log[q], e), ~HasClose(q),
             first'[q] <= Len(log'[q]) + 1, e.event = "close" <=> stage'[q] \in {"closing", "ended"},
             q \notin posts',
             q \in canvas'.outputs => stage'[q] = "ended"
      PROVE  Logged(q)'
  <2>0. log[q] \in Seq(Entries)  BY <1>a
  <2>1. log[q] \in Seq(Entries) /\ Len(log'[q]) = Len(log[q]) + 1  BY <2>0, <1>d, AppendIs
  <2>2. \A i \in 1..Len(log[q]) : log'[q][i] = log[q][i]  BY <2>0, <1>d, AppendIs
  <2>3. log'[q][Len(log[q]) + 1] = e  BY <2>0, <1>d, AppendIs
  <2>4. \A i \in 1..Len(log[q]) : log[q][i].event # "close"
    <3>1. Logged(q) /\ Len(log[q]) \in Nat  BY <1>b
    <3>2. ~(Len(log[q]) > 0 /\ log[q][Len(log[q])].event = "close")  BY <1>b, <1>d
    <3>3. \A i \in 1..Len(log[q]) : log[q][i].event = "close" => i = Len(log[q])
        BY <3>1 DEF Logged
    <3> QED BY <3>1, <3>2, <3>3
  <2>5. HasClose(q)' <=> e.event = "close"
      BY <2>1, <2>3, <1>b DEF HasClose, Last
  <2>6. \A i \in 1..Len(log'[q]) : log'[q][i].event = "close" => i = Len(log'[q])
      BY <2>1, <2>2, <2>4
  <2> QED BY <2>5, <2>6, <1>d DEF Logged
<1>1. ASSUME NEW r \in Runs, Create(r)  PROVE Grows /\ Waits /\ \A q \in Runs : Logged(q)'
  <2>1. stage' = stage \/ (stage' = [stage EXCEPT ![r] = "running"] /\ stage[r] = "none")
      BY <1>1 DEF Create, Logged
  <2>2. Grows  BY <2>1, <1>1, <1>a DEF Create, Grows, Extended, Stages
  <2>3. Waits  BY <1>1, AnswerIs DEF Create, Waits
  <2>4. (~HasClose(r) /\ r \notin canvas.outputs) \/ stage[r] # "none"  BY DEF Logged
  <2>5. Logged(r)'
    <3>1. CASE stage' = stage  BY <3>1, <1>c, <1>1 DEF Create
    <3>2. CASE stage' # stage  BY <3>2, <2>1, <2>4, <1>1, <1>a DEF Create, Logged, HasClose
    <3> QED BY <3>1, <3>2
  <2>6. \A q \in Runs \ {r} : Logged(q)'  BY <1>c, <1>1, <2>1, <1>a DEF Create
  <2> QED BY <2>2, <2>3, <2>5, <2>6
<1>2. ASSUME NEW r \in Runs, Publish(r)  PROVE Grows /\ Waits /\ \A q \in Runs : Logged(q)'
  <2>1. ~HasClose(r) /\ log'[r] = Append(log[r], Text) /\ stage[r] = "running" /\ stage' = stage
      BY <1>2, <1>a DEF Publish, Logged
  <2>2. \A q \in Runs \ {r} : log'[q] = log[q] /\ first'[q] = first[q]  BY <1>2, <1>a DEF Publish
  <2>3. Grows  BY <1>2, <2>1, <2>2 DEF Publish, Grows, Extended
  <2>4. Waits  BY <1>2 DEF Publish, Waits
  <2>5. first'[r] <= Len(log'[r]) + 1
    <3>1. first'[r] = Max({first[r], Len(log[r]) + 2 - Window})  BY <1>2, <1>a DEF Publish
    <3>2. first[r] <= Len(log[r]) + 1 /\ first[r] \in Nat  BY <1>a DEF Logged
    <3>3. Len(log'[r]) = Len(log[r]) + 1  BY <2>1, <1>a
    <3>4. CASE Len(log[r]) + 2 - Window > first[r]
      <4>1. Len(log[r]) \in Nat /\ first[r] \in Nat /\ Window \in Nat  BY <1>a, <1>b
      <4>2. Len(log[r]) + 2 - Window \in Nat /\ first[r] < Len(log[r]) + 2 - Window  BY <4>1, <3>4
      <4>3. Max({first[r], Len(log[r]) + 2 - Window}) = Len(log[r]) + 2 - Window
          BY <4>1, <4>2, MaxOfTwo
      <4> QED BY <3>1, <3>3, <4>1, <4>3
    <3>5. CASE Len(log[r]) + 2 - Window <= first[r]
      <4>1. Max({first[r], Len(log[r]) + 2 - Window}) = first[r]  BY <3>5, <3>2, <1>b DEF Max
      <4> QED BY <3>1, <3>2, <3>3, <4>1, <1>b
    <3> QED BY <3>4, <3>5, <3>2, <1>b
  <2>6. Logged(r)'  BY <1>2, <2>1, <2>5, <1>d, <1>a DEF Publish, Logged
  <2> QED BY <2>2, <2>3, <2>4, <2>6, <1>c, <1>2 DEF Publish
<1>3. ASSUME NEW r \in Runs, Finish(r)  PROVE Grows /\ Waits /\ \A q \in Runs : Logged(q)'
  <2>1. Grows  BY <1>3, <1>a DEF Finish, Grows, Extended
  <2>2. Waits  BY <1>3 DEF Finish, Waits
  <2>3. Logged(r)'  BY <1>3, <1>a DEF Finish, Logged, HasClose
  <2>4. \A q \in Runs \ {r} : Logged(q)'  BY <1>3, <1>a, <1>c DEF Finish
  <2> QED BY <2>1, <2>2, <2>3, <2>4
<1>4. ASSUME NEW r \in Runs, Close(r)  PROVE Grows /\ Waits /\ \A q \in Runs : Logged(q)'
  <2>1. PICK plan \in BOOLEAN : log' = [log EXCEPT ![r] = Append(@, CloseOf("done", plan))]
      BY <1>4 DEF Close
  <2>2. CloseOf("done", plan) \in Closes  BY DEF Statuses
  <2>3. /\ ~HasClose(r) /\ log'[r] = Append(log[r], CloseOf("done", plan))
        /\ stage[r] = "finishing" /\ stage'[r] = "closing"
      BY <1>4, <2>1, <1>a DEF Close, Logged
  <2>4. \A q \in Runs \ {r} : log'[q] = log[q] /\ stage'[q] = stage[q]
      BY <1>4, <2>1, <1>a DEF Close
  <2>5. Grows  BY <1>4, <2>2, <2>3, <2>4 DEF Close, Grows, Extended
  <2>6. Waits  BY <1>4 DEF Close, Waits
  <2>7. Len(log'[r]) = Len(log[r]) + 1
    <3>1. log[r] \in Seq(Entries)  BY <1>a
    <3> QED BY <3>1, <2>3, <2>2, AppendIs
  <2>8. Logged(r)'  BY <1>4, <2>2, <2>3, <2>7, <1>a, <1>b, <1>d DEF Close, Logged
  <2> QED BY <2>4, <2>5, <2>6, <2>8, <1>c, <1>4 DEF Close
<1>5. ASSUME NEW r \in Runs, Materialize(r)  PROVE Grows /\ Waits /\ \A q \in Runs : Logged(q)'
  <2>1. canvas' = canvas \/ canvas' = [canvas EXCEPT !.outputs = @ \cup {r}]
      BY <1>5 DEF Materialize
  <2>2. /\ canvas.outputs \subseteq canvas'.outputs /\ canvas'.outputs \subseteq canvas.outputs \cup {r}
        /\ canvas'.reviewed = canvas.reviewed
      BY <2>1, <1>a DEF Documents
  <2>3. Grows  BY <1>5, <2>2, <1>a DEF Materialize, Grows, Extended
  <2>4. Waits  BY <1>5 DEF Materialize, Waits
  <2>5. Logged(r)'  BY <1>5, <1>a DEF Materialize, Logged, HasClose
  <2>6. \A q \in Runs \ {r} : Logged(q)'  BY <1>5, <2>2, <1>a, <1>c DEF Materialize
  <2> QED BY <2>3, <2>4, <2>5, <2>6
<1>6. ASSUME NEW r \in Runs, Forget(r)  PROVE Grows /\ Waits /\ \A q \in Runs : Logged(q)'
  BY <1>6, <1>c DEF Forget, Grows, Extended, Waits
<1>7. ASSUME NEW r \in Runs, Review(r)  PROVE Grows /\ Waits /\ \A q \in Runs : Logged(q)'
  <2>1. canvas'.outputs = canvas.outputs /\ canvas.reviewed \subseteq canvas'.reviewed
      BY <1>7, <1>a DEF Review, Documents
  <2> QED BY <1>7, <1>c, <2>1 DEF Review, Grows, Extended, Waits
<1>8. ASSUME Restart  PROVE Grows /\ Waits /\ \A q \in Runs : Logged(q)'
  <2>1. PICK plan \in BOOLEAN :
          log' = [r \in Runs |-> IF Busy(r) /\ ~HasClose(r)
                                 THEN Append(log[r], CloseOf("interrupted", plan)) ELSE log[r]]
      BY <1>8 DEF Restart
  <2>2. CloseOf("interrupted", plan) \in Closes  BY DEF Statuses
  <2>3. \A r \in Runs : Busy(r) \/ stage[r] \in {"none", "ended"}  BY <1>a DEF Busy, Stages
  <2>4. \A r \in Runs : stage'[r] = IF Busy(r) THEN "ended" ELSE stage[r]  BY <1>8 DEF Restart
  <2>5. /\ canvas.outputs \subseteq canvas'.outputs
        /\ \A r \in canvas'.outputs : r \in canvas.outputs \/ Busy(r)
        /\ canvas'.reviewed = canvas.reviewed
    <3>1. \E S : (\A r \in S : Busy(r)) /\ canvas' = [canvas EXCEPT !.outputs = @ \cup S]
      <4>1. canvas' = [canvas EXCEPT !.outputs = @ \cup {r \in Runs : Busy(r) /\ Last(log'[r]).plan}]
          BY <1>8 DEF Restart
      <4> QED BY <4>1
    <3> QED BY <3>1, <1>a DEF Documents
  <2>6. Grows  BY <2>1, <2>2, <2>3, <2>4, <2>5 DEF Grows, Extended, Busy
  <2>7. pending' = pending \/ (pending # None /\ pending.at = "post" /\ pending' = [pending EXCEPT !.at = "reconcile"])
      BY <1>8 DEF Restart
  <2>8. follow' = follow \/ (follow # None /\ follow' = [follow EXCEPT !.at = "failed"])
      BY <1>8 DEF Restart
  <2>9. Waits  BY <1>8, <2>7, <2>8 DEF Restart, Waits
  <2>10. ASSUME NEW q \in Runs  PROVE Logged(q)'
    <3>1. posts' = {} /\ first' = first  BY <1>8 DEF Restart
    <3>2. CASE ~Busy(q)  BY <3>1, <3>2, <2>1, <2>4, <2>5, <1>c
    <3>3. CASE Busy(q) /\ HasClose(q)
        BY <3>1, <3>3, <2>1, <2>4, <2>5 DEF Logged, HasClose
    <3>4. CASE Busy(q) /\ ~HasClose(q)
      <4>1. log'[q] = Append(log[q], CloseOf("interrupted", plan))  BY <3>4, <2>1
      <4>2. Len(log'[q]) = Len(log[q]) + 1
        <5>1. log[q] \in Seq(Entries)  BY <1>a
        <5> QED BY <5>1, <4>1, <2>2, AppendIs
      <4>3. first'[q] <= Len(log'[q]) + 1  BY <3>1, <4>2, <1>a, <1>b DEF Logged
      <4> QED BY <3>1, <3>4, <4>1, <4>3, <2>2, <2>4, <1>d
    <3> QED BY <3>2, <3>3, <3>4
  <2> QED BY <2>6, <2>9, <2>10
<1> QED BY <1>1, <1>2, <1>3, <1>4, <1>5, <1>6, <1>7, <1>8 DEF DaemonStep

\* Whatever the daemon does meanwhile, the page is right about it.
LEMMA WaitsSafe ==
  ASSUME PageIInv, TypeOK', Grows, Waits
  PROVE  Single' /\ Following' /\ AsRead' /\ Owed'
<1> USE DEF PageIInv
<1>a. /\ log \in [Runs -> Seq(Entries)] /\ log' \in [Runs -> Seq(Entries)]
      /\ settled \subseteq Runs /\ streamed \subseteq Runs
    BY DEF TypeOK
<1>b. \A r \in Runs :
         /\ Len(log[r]) \in Nat /\ Len(log'[r]) \in Nat /\ Len(log[r]) <= Len(log'[r])
         /\ \A i \in 1..Len(log[r]) : log'[r][i] = log[r][i]
         /\ HasClose(r) => HasClose(r)' /\ Last(log'[r]) = Last(log[r])
    BY <1>a, ExtendedIs, LastIs DEF Grows
<1>c. UNCHANGED <<shown, runtime, claimed, entries, settled, offered, streamed>>
    BY DEF Waits, record
<1>d. /\ pending' # None => pending # None
      /\ pending' # None /\ pending'.at \in {"list", "listed"} => pending' = pending
      /\ pending' # None /\ pending'.at \in {"post", "created", "reconcile"} =>
           pending.at \in {"post", "created", "reconcile"} /\ pending'.run = pending.run
  <2>1. CASE pending' = pending  BY <2>1
  <2>2. ASSUME pending # None, pending.at = "post", NEW at \in {"created", "reconcile"},
               pending' = [pending EXCEPT !.at = at]
        PROVE  pending'.at = at /\ pending'.run = pending.run
    <3>1. pending \in Creations  BY <2>2 DEF TypeOK, Recoveries
    <3> QED BY <3>1, <2>2 DEF Creations
  <2> QED BY <2>1, <2>2 DEF Waits
<1>e. follow' = follow
      \/ /\ follow # None /\ follow \in Follows /\ follow'.run = follow.run /\ follow'.at = "failed"
         /\ follow'.cursor = follow.cursor
    BY DEF Waits, TypeOK, Follows
<1>f. follow # None => follow \in Follows  BY DEF TypeOK
<1>g. pending = None => pending' = None  BY DEF Waits
<1>1. Single'  BY <1>c, <1>d, <1>e, <1>g DEF Single
<1>2. Following'
  <2> SUFFICES ASSUME follow' # None  PROVE Following'  BY DEF Following
  <2>1. CASE follow' # follow
    <3>1. /\ follow \in Follows /\ follow # None /\ follow'.run = follow.run
          /\ follow'.at = "failed" /\ follow'.cursor = follow.cursor
        BY <2>1, <1>e
    <3>2. follow.run \in Runs /\ follow.cursor \in Nat  BY <3>1 DEF Follows
    <3> QED BY <3>1, <3>2, <1>b DEF Following
  <2>2. CASE follow' = follow
    <3>1. follow.run \in Runs /\ follow.cursor \in Nat  BY <2>2, <1>f DEF Follows
    <3>2. IsOver(follow.run)' <=> IsOver(follow.run)  BY <2>2, <1>c DEF IsOver
    <3>3. ASSUME follow.at \in {"attach", "gap", "reattach", "stream"}, IsOver(follow.run),
                 NEW i \in (follow.cursor + 1)..Len(log'[follow.run])
          PROVE  log'[follow.run][i].event = "close"
      <4>1. stage[follow.run] \notin {"none", "running"}  BY <3>1, <3>3 DEF AsRead
      <4>2. \/ log'[follow.run] = log[follow.run]
            \/ \E c \in Closes : log'[follow.run] = Append(log[follow.run], c)
          BY <4>1, <3>1 DEF Grows
      <4>3. \A j \in (follow.cursor + 1)..Len(log[follow.run]) : log[follow.run][j].event = "close"
          BY <3>3, <2>2 DEF Following
      <4>4. ASSUME NEW c \in Closes, log'[follow.run] = Append(log[follow.run], c)
            PROVE  log'[follow.run][i].event = "close"
        <5>1. log[follow.run] \in Seq(Entries) /\ c \in Entries /\ c.event = "close"
            BY <3>1, <1>a, EntriesAre
        <5>2. /\ Len(log'[follow.run]) = Len(log[follow.run]) + 1
              /\ log'[follow.run][Len(log[follow.run]) + 1] = c
              /\ \A j \in 1..Len(log[follow.run]) : log'[follow.run][j] = log[follow.run][j]
            BY <5>1, <4>4, AppendIs
        <5>3. Len(log[follow.run]) \in Nat  BY <3>1, <1>b
        <5>4. CASE i = Len(log[follow.run]) + 1  BY <5>4, <5>1, <5>2
        <5>5. CASE i # Len(log[follow.run]) + 1
          <6>1. i \in (follow.cursor + 1)..Len(log[follow.run]) /\ i \in 1..Len(log[follow.run])
              BY <5>5, <5>2, <5>3, <3>1, <3>3
          <6> QED BY <6>1, <5>2, <4>3
        <5> QED BY <5>4, <5>5
      <4> QED BY <4>2, <4>3, <4>4, <3>3
    <3>4. follow.cursor <= Len(log'[follow.run])  BY <3>1, <1>b, <2>2 DEF Following
    <3>5. follow.at = "close" =>
            HasClose(follow.run)' /\ (~follow.early => stage'[follow.run] = "ended")
        BY <3>1, <1>b, <2>2 DEF Following, Grows
    <3> QED BY <3>2, <3>3, <3>4, <3>5, <2>2 DEF Following
  <2> QED BY <2>1, <2>2
<1>3. AsRead'
  <2>1. \A r \in Runs : IsOver(r)' <=> IsOver(r)  BY <1>c DEF IsOver
  <2>2. ASSUME pending' # None, pending'.at \in {"list", "listed"}
        PROVE  pending' = pending /\ pending \in Recoveries
      BY <1>d, <2>2 DEF TypeOK, Creations
  <2>3. \A r \in Runs : IsOver(r)' => stage'[r] \notin {"none", "running"}
      BY <2>1 DEF AsRead, Grows
  <2>4. pending' # None /\ pending'.at \in {"list", "listed"} => pending'.outputs \subseteq canvas'.outputs
      BY <2>2 DEF AsRead, Grows
  <2>5. pending' # None /\ pending'.at = "listed" =>
          /\ \A r \in pending'.terminal : stage'[r] \notin {"none", "running"}
          /\ \A r \in pending'.active : ~IsOver(r)'
    <3>1. ASSUME pending' # None, pending'.at = "listed"
          PROVE  pending' = pending /\ pending.terminal \subseteq Runs /\ pending.active \subseteq Runs
        BY <2>2, <3>1 DEF Recoveries
    <3> QED BY <3>1, <2>1 DEF AsRead, Grows
  <2>6. shown'.outputs \subseteq canvas'.outputs /\ shown'.reviewed \subseteq canvas'.reviewed
      BY <1>c DEF AsRead, Grows
  <2> QED BY <2>3, <2>4, <2>5, <2>6 DEF AsRead
<1>4. Owed'
  <2>1. ASSUME NEW r \in settled
        PROVE  /\ HasClose(r)' /\ Last(log'[r]) = Last(log[r])
               /\ r \in streamed /\ r \in canvas'.outputs => r \in canvas.outputs
    BY <1>a, <1>b DEF Owed, Grows
  <2>2. \A r \in streamed : stage'[r] = "ended"  BY <1>a DEF Owed, Grows
  <2>3. NothingMissed'  BY <2>1, <1>c DEF NothingMissed, Owed, Grows
  <2> QED BY <2>1, <2>2, <2>3, <1>c DEF Owed
<1> QED BY <1>1, <1>2, <1>3, <1>4
-----------------------------------------------------------------------------
(* The page: starting and recovering *)

LEMMA Still ==
  ASSUME UNCHANGED <<log, first, stage, canvas>>, posts' \subseteq {r \in Runs : stage[r] = "none"},
         \A r \in Runs : Logged(r)
  PROVE  /\ \A r : HasClose(r)' <=> HasClose(r)
         /\ \A r : Last(log'[r]) = Last(log[r])
         /\ \A r \in Runs : Logged(r)'
BY DEF HasClose, Logged

LEMMA BeginSafe ==
  ASSUME PageIInv, UNCHANGED <<daemon, faults>>, pending # None,
         NEW r \in Runs, NEW at \in {"attach", "replay"}, NEW application \in Applications,
         NEW refresh \in BOOLEAN, NEW phase \in Phases,
         Begin(r, at, application, refresh, phase),
         phase \in Statuses => stage[r] \notin {"none", "running"},
         at = "replay" => application # "live",
         at = "attach" => phase = "queued"
  PROVE  PageIInv'
<1> USE DEF PageIInv, daemon, record
<1>1. posts \subseteq {q \in Runs : stage[q] = "none"}  BY DEF Logged, TypeOK
<1>2. /\ \A q : HasClose(q)' <=> HasClose(q)
      /\ \A q : Last(log'[q]) = Last(log[q])
      /\ \A q \in Runs : Logged(q)'
    BY <1>1, Still
<1> DEFINE shownPhase == IF phase = "queued" THEN "running" ELSE phase
<1>3. /\ pending' = None /\ runtime' = [run |-> r, phase |-> shownPhase]
      /\ UNCHANGED <<shown, claimed, entries, settled, offered, streamed>>
      /\ follow' = [run |-> r, at |-> at, cursor |-> 0, application |-> application,
                    refresh |-> refresh, next |-> 0, early |-> TRUE]
    BY DEF Begin
<1>4. /\ shownPhase \in Statuses => phase = shownPhase
      /\ runtime' \in [run : Runs, phase : Phases] /\ runtime' # None
  <2>1. shownPhase \in Phases  BY DEF Phases
  <2> QED BY <2>1, <1>3, NothingAssumption DEF Statuses
<1>5. TypeOK'
  <2>1. follow' \in Follows  BY <1>3 DEF Follows, Places
  <2> QED BY <2>1, <1>4, <1>3 DEF TypeOK
<1>6. Single'  BY <1>3, <1>4 DEF Single
<1>7. Following'
  <2>1. follow'.cursor = 0 /\ follow'.at = at /\ follow'.application = application /\ follow'.run = r
      BY <1>3
  <2>2. Len(log[r]) >= 0  BY LastIs DEF TypeOK
  <2>3. at = "attach" => ~IsOver(r)'  BY <1>3 DEF IsOver, Statuses
  <2> QED BY <2>1, <2>2, <2>3 DEF Following
<1>8. AsRead'
  <2>1. \A q \in Runs : IsOver(q)' => q = r /\ phase \in Statuses  BY <1>3, <1>4 DEF IsOver
  <2> QED BY <2>1, <1>3 DEF AsRead
<1>9. Owed'  BY <1>2, <1>3 DEF Owed, NothingMissed
<1> HIDE DEF shownPhase
<1> QED BY <1>2, <1>5, <1>6, <1>7, <1>8, <1>9

LEMMA RunTaskSafe ==
  ASSUME PageIInv, RunTask
  PROVE  PageIInv'
<1> USE DEF PageIInv, record
<1> DEFINE Free == {q \in Runs : stage[q] = "none" /\ q \notin posts}
<1>1. PICK r \in Runs : /\ r = Min(Free)
                        /\ posts' = posts \cup {r}
                        /\ runtime' = [run |-> r, phase |-> "queued"]
                        /\ pending' = [at |-> "post", run |-> r]
    BY DEF RunTask
<1>2. /\ ~claimed /\ claimed' = TRUE
      /\ UNCHANGED <<log, first, stage, order, held, canvas, shown, follow, entries, settled,
                     offered, streamed, faults>>
    BY DEF RunTask
<1>3. r \in Free
  <2>1. Free # {} /\ Free \subseteq Nat  BY Constants DEF RunTask
  <2> HIDE DEF Free
  <2>2. PICK m \in Free : \A n \in Free : m <= n  BY <2>1, HasLeast
  <2> QED BY <1>1, <2>2 DEF Min
<1>4. posts' \subseteq {q \in Runs : stage[q] = "none"}
  <2>1. posts \subseteq {q \in Runs : stage[q] = "none"}  BY DEF Logged, TypeOK
  <2> QED BY <2>1, <1>1, <1>3
<1>5. /\ \A q : HasClose(q)' <=> HasClose(q)
      /\ \A q : Last(log'[q]) = Last(log[q])
      /\ \A q \in Runs : Logged(q)'
    BY <1>2, <1>4, Still
<1>6. TypeOK'
  <2>1. pending' \in Creations  BY <1>1 DEF Creations
  <2>2. runtime' \in [run : Runs, phase : Phases]  BY <1>1 DEF Phases
  <2> QED BY <2>1, <2>2, <1>1, <1>2, <1>4 DEF TypeOK
<1>7. follow = None  BY <1>2 DEF Single
<1>8. Single' /\ Following'  BY <1>1, <1>2, <1>7 DEF Single, Following
<1>9. AsRead'  BY <1>1, <1>2 DEF AsRead, IsOver, Statuses
<1>10. Owed'  BY <1>2, <1>5 DEF Owed, NothingMissed
<1> HIDE DEF Free
<1> QED BY <1>5, <1>6, <1>8, <1>9, <1>10

\* A step after which the page waits for something else, or for nothing.
LEMMA PendingSafe ==
  ASSUME PageIInv, UNCHANGED <<daemon, shown, follow, entries, settled, offered, streamed>>,
         faults' \in Nat,
         follow = None, claimed' \in BOOLEAN, pending' # None => claimed',
         pending' \in {None} \cup Creations \cup Recoveries,
         runtime' = runtime \/ runtime' = None,
         pending' # None /\ pending'.at \in {"post", "created", "reconcile"} =>
           runtime' = [run |-> pending'.run, phase |-> "queued"],
         pending' # None /\ pending'.at \in {"list", "listed"} => pending'.outputs \subseteq canvas.outputs,
         pending' # None /\ pending'.at = "listed" =>
           /\ \A r \in pending'.terminal : stage[r] \notin {"none", "running"}
           /\ \A r \in pending'.active : ~IsOver(r)
  PROVE  PageIInv'
<1> USE DEF PageIInv, daemon
<1>1. posts \subseteq {q \in Runs : stage[q] = "none"}  BY DEF Logged, TypeOK
<1>2. /\ \A q : HasClose(q)' <=> HasClose(q)
      /\ \A q : Last(log'[q]) = Last(log[q])
      /\ \A q \in Runs : Logged(q)'
    BY <1>1, Still
<1>3. TypeOK'  BY DEF TypeOK
<1>4. Single' /\ Following'  BY DEF Single, Following
<1>5. \A r : IsOver(r)' => IsOver(r)  BY DEF IsOver
<1>6. AsRead'  BY <1>5 DEF AsRead
<1>7. Owed'  BY <1>2 DEF Owed, NothingMissed
<1> QED BY <1>2, <1>3, <1>4, <1>6, <1>7

LEMMA StatusIs ==
  ASSUME TypeOK, NEW r \in Runs
  PROVE  StatusOf(r) \in Statuses
BY LastIs, EntriesAre DEF TypeOK, StatusOf, Statuses

LEMMA StartSafe ==
  ASSUME PageIInv,
         Created \/ PostFails \/ ReconcileRun \/ GiveUp \/ Recover \/ List \/ Recovered
  PROVE  PageIInv'
<1> USE DEF PageIInv, daemon, record
<1>a. pending # None => pending \in Creations \cup Recoveries  BY DEF TypeOK
<1>b. pending # None /\ pending.at \in {"post", "created", "reconcile"} =>
        pending \in Creations /\ pending.run \in Runs
    BY <1>a DEF Creations, Recoveries
<1>c. pending # None /\ pending.at \in {"list", "listed"} =>
        pending \in Recoveries /\ pending.outputs \subseteq Runs
    BY <1>a DEF Creations, Recoveries
<1>d. follow # None => claimed /\ pending = None  BY DEF Single
<1>e. claimed \in BOOLEAN /\ faults \in Nat /\ MaxFaults \in Nat  BY Constants DEF TypeOK
<1>1. CASE Created
  <2>1. pending.run \in Runs /\ pending # None  BY <1>1, <1>b DEF Created
  <2>2. Begin(pending.run, "attach", "live", TRUE, "queued") /\ UNCHANGED <<daemon, faults>>
      BY <1>1 DEF Created
  <2> QED BY <2>1, <2>2, BeginSafe DEF Applications, Statuses, Phases
<1>2. CASE PostFails
  <2>1. pending # None /\ pending \in Creations /\ pending.run \in Runs
      BY <1>2, <1>b DEF PostFails
  <2>2. pending' = [at |-> "reconcile", run |-> pending.run]
      BY <1>2, <2>1 DEF PostFails, Creations
  <2>3. pending' \in Creations  BY <2>1, <2>2 DEF Creations
  <2>4. runtime = [run |-> pending.run, phase |-> "queued"]
      BY <1>2 DEF PostFails, Single
  <2>5. UNCHANGED <<daemon, shown, follow, entries, settled, offered, streamed, claimed, runtime>>
      BY <1>2 DEF PostFails
  <2>6. faults' \in Nat  BY <1>2, <1>e DEF PostFails, Fault
  <2>7. claimed  BY <2>1 DEF Single
  <2> QED BY <2>1, <2>2, <2>3, <2>4, <2>5, <2>6, <2>7, <1>d, <1>e, PendingSafe
<1>3. CASE ReconcileRun
  <2>1. pending.run \in Runs /\ pending # None  BY <1>3, <1>b DEF ReconcileRun
  <2>2. PICK application \in {"replay-active", "replay-history"} :
          Begin(pending.run, "replay", application, TRUE, "queued") /\ UNCHANGED <<daemon, faults>>
      BY <1>3 DEF ReconcileRun
  <2> QED BY <2>1, <2>2, BeginSafe DEF Applications, Statuses, Phases
<1>4. CASE GiveUp
  <2>1. /\ pending # None /\ pending' = None /\ claimed' = FALSE
        /\ runtime' = runtime \/ runtime' = None
        /\ UNCHANGED <<daemon, shown, follow, entries, settled, offered, streamed>>
      BY <1>4 DEF GiveUp
  <2>2. faults' \in Nat  BY <1>4, <1>e DEF GiveUp, Fault
  <2> QED BY <2>1, <2>2, <1>d, PendingSafe
<1>5. CASE Recover
  <2>1. /\ ~claimed /\ claimed' = TRUE /\ pending' = [at |-> "list", outputs |-> shown.outputs]
        /\ UNCHANGED <<daemon, shown, runtime, follow, entries, settled, offered, streamed, faults>>
      BY <1>5 DEF Recover
  <2>2. pending' \in Recoveries /\ pending'.at = "list" /\ pending'.outputs = shown.outputs
      BY <2>1 DEF Recoveries, TypeOK, Documents
  <2>3. shown.outputs \subseteq canvas.outputs  BY DEF AsRead
  <2> QED BY <2>1, <2>2, <2>3, <1>d, <1>e, PendingSafe
<1>6. CASE List
  <2> DEFINE active == {r \in Runs : IsActive(r)}
             terminal == {r \in Runs : Exists(r) /\ ~IsActive(r)}
             status == [r \in Runs |-> StatusOf(r)]
  <2>1. /\ pending # None /\ pending.at = "list"
        /\ pending' = [at |-> "listed", outputs |-> pending.outputs,
                       active |-> active, terminal |-> terminal, status |-> status]
        /\ UNCHANGED <<daemon, shown, runtime, claimed, follow, entries, settled, offered, streamed, faults>>
      BY <1>6 DEF List
  <2>2. active \in SUBSET Runs /\ terminal \in SUBSET Runs /\ status \in [Runs -> Statuses]
      BY StatusIs
  <2>3. pending.outputs \in SUBSET Runs  BY <2>1, <1>c
  <2>4. \A r \in terminal : stage[r] \notin {"none", "running"}  BY DEF Exists, IsActive
  <2>5. \A r \in active : ~IsOver(r)  BY DEF IsActive, AsRead
  <2> HIDE DEF active, terminal, status
  <2>6. /\ pending' \in Recoveries /\ pending'.at = "listed" /\ pending'.outputs = pending.outputs
        /\ pending'.active = active /\ pending'.terminal = terminal
      BY <2>1, <2>2, <2>3 DEF Recoveries
  <2>7. claimed /\ pending.outputs \subseteq canvas.outputs  BY <2>1 DEF Single, AsRead
  <2> QED BY <2>1, <2>4, <2>5, <2>6, <2>7, <1>d, <1>e, PendingSafe
<1>7. CASE Recovered
  <2>1. pending # None /\ pending.at = "listed" /\ pending \in Recoveries /\ UNCHANGED <<daemon, faults>>
      BY <1>7, <1>c DEF Recovered
  <2>2. /\ pending.active \subseteq Runs /\ pending.terminal \subseteq Runs
        /\ pending.status \in [Runs -> Statuses]
      BY <2>1 DEF Recoveries
  <2>3. CASE /\ pending' = None /\ claimed' = FALSE
             /\ UNCHANGED <<shown, runtime, follow, record>>
      BY <2>1, <2>3, <1>d, <1>e, PendingSafe
  <2>4. ASSUME NEW r \in ToRecover(pending.active, pending.terminal),
               Begin(r, "replay",
                 IF r \in pending.active /\ r \notin pending.outputs THEN "replay-active" ELSE "replay-history",
                 r \in pending.active /\ r \notin pending.outputs,
                 IF r \in pending.active THEN (IF r \in pending.outputs THEN "done" ELSE "running")
                 ELSE pending.status[r])
        PROVE  PageIInv'
    <3>1. r \in Runs /\ (r \in pending.active \/ r \in pending.terminal)
        BY <2>2, <2>4 DEF ToRecover
    <3> DEFINE phase == IF r \in pending.active THEN (IF r \in pending.outputs THEN "done" ELSE "running")
                        ELSE pending.status[r]
               refresh == r \in pending.active /\ r \notin pending.outputs
               application == IF refresh THEN "replay-active" ELSE "replay-history"
    <3>2. phase \in Phases  BY <3>1, <2>2 DEF Statuses, Phases
    <3>3. phase \in Statuses => stage[r] \notin {"none", "running"}
      <4>1. CASE r \notin pending.active  BY <4>1, <3>1, <2>1 DEF AsRead
      <4>2. CASE r \in pending.active /\ r \in pending.outputs
        <5>1. r \in canvas.outputs  BY <4>2, <2>1 DEF AsRead
        <5> QED BY <5>1, <3>1 DEF Logged
      <4>3. CASE r \in pending.active /\ r \notin pending.outputs  BY <4>3 DEF Statuses
      <4> QED BY <4>1, <4>2, <4>3
    <3>4. refresh \in BOOLEAN /\ application \in Applications /\ application # "live"
        BY DEF Applications
    <3>5. Begin(r, "replay", application, refresh, phase)  BY <2>4
    <3> HIDE DEF phase, refresh, application
    <3> QED BY <2>1, <3>1, <3>2, <3>3, <3>4, <3>5, BeginSafe
  <2> QED BY <1>7, <2>3, <2>4 DEF Recovered
<1> QED BY <1>1, <1>2, <1>3, <1>4, <1>5, <1>6, <1>7
-----------------------------------------------------------------------------
(* The page: following *)

\* The log on one side of a cursor that moves to `end' without a close in between.
EndOf(cursor, r) == IF cursor + PageSize < Len(log[r]) THEN cursor + PageSize ELSE Len(log[r])

LEMMA ReadPageIs ==
  ASSUME PageIInv, follow # None, NEW application \in Applications, NEW whenRead \in {"attach", "reattach"},
         ReadPage(application, whenRead)
  PROVE  LET r == follow.run  end == EndOf(follow.cursor, r) IN
         /\ r \in Runs /\ end \in Nat /\ follow.cursor <= end /\ end <= Len(log[r])
         /\ entries' = [entries EXCEPT ![r] =
              @ \cup {i \in (follow.cursor + 1)..end : log[r][i].event = "agent-event"}]
         /\ follow' \in Follows /\ follow'.run = r /\ follow'.cursor = end
         /\ follow'.application = follow.application /\ follow'.early = TRUE
         /\ follow'.at \in {"close", whenRead, follow.at}
         /\ follow'.at = "close" /\ follow.at # "close" => HasClose(r)
         /\ follow'.at = whenRead /\ follow.at # whenRead => end = Len(log[r])
         /\ runtime' = runtime \/
              /\ runtime' = Moved(application)
              /\ \E i \in (follow.cursor + 1)..Len(log[r]) : log[r][i].event = "agent-event"
<1> DEFINE r == follow.run
           end == EndOf(follow.cursor, r)
           ids == {i \in (follow.cursor + 1)..end : log[r][i].event = "agent-event"}
           at == CASE end > 0 /\ log[r][end].event = "close" -> "close"
                   [] end = Len(log[r]) -> whenRead
                   [] OTHER -> follow.at
<1>1. /\ follow \in Follows /\ r \in Runs /\ follow.cursor \in Nat
      /\ log \in [Runs -> Seq(Entries)]
    BY DEF PageIInv, TypeOK, Follows
<1>2. Len(log[r]) \in Nat /\ follow.cursor <= Len(log[r]) /\ PageSize \in Nat
    BY <1>1, LastIs, Constants DEF PageIInv, Following
<1>3. end \in Nat /\ follow.cursor <= end /\ end <= Len(log[r])  BY <1>2, <1>1 DEF EndOf
<1>4. follow' = [follow EXCEPT !.cursor = end, !.early = TRUE, !.at = at]
    BY DEF ReadPage, EndOf
<1>5. at \in {"close", whenRead, follow.at} /\ at \in Places  BY <1>1 DEF Places, Follows
<1>6. /\ follow' \in Follows /\ follow'.run = r /\ follow'.cursor = end /\ follow'.early = TRUE
      /\ follow'.application = follow.application /\ follow'.at = at
  <2> HIDE DEF end, at, r
  <2>1. follow.run = r /\ end \in Nat /\ at \in Places  BY <1>3, <1>5 DEF r
  <2> QED BY <1>1, <1>4, <2>1 DEF Follows
<1>7. at = "close" /\ follow.at # "close" => HasClose(r)
  <2>1. at = "close" /\ follow.at # "close" => end > 0 /\ log[r][end].event = "close"  OBVIOUS
  <2>2. \A i \in 1..Len(log[r]) : log[r][i].event = "close" => i = Len(log[r])
      BY <1>1 DEF PageIInv, Logged
  <2> HIDE DEF end, at
  <2> QED BY <2>1, <2>2, <1>1, <1>3, <1>2, LastIs
<1>8. at = whenRead /\ follow.at # whenRead => end = Len(log[r])  OBVIOUS
<1>9. entries' = [entries EXCEPT ![r] = @ \cup ids] /\ runtime' = IF ids = {} THEN runtime ELSE Moved(application)
    BY DEF ReadPage, Apply, EndOf
<1>10. ids # {} => \E i \in (follow.cursor + 1)..Len(log[r]) : log[r][i].event = "agent-event"
  <2> HIDE DEF end, r
  <2> QED BY <1>1, <1>2, <1>3
<1> HIDE DEF at
<1> QED BY <1>1, <1>3, <1>5, <1>6, <1>7, <1>8, <1>9, <1>10

\* A step of a follow that does not end it.
LEMMA FollowSafe ==
  ASSUME PageIInv, UNCHANGED <<daemon, shown, claimed, pending, settled, offered, streamed>>,
         follow # None, follow' \in Follows, follow'.run = follow.run,
         entries' \in [Runs -> SUBSET Nat], faults' \in Nat,
         \/ runtime' = runtime
         \/ ~IsOver(follow.run) /\ runtime' = [runtime EXCEPT !.phase = "running"],
         Following'
  PROVE  PageIInv'
<1> USE DEF PageIInv, daemon
<1>1. posts \subseteq {q \in Runs : stage[q] = "none"}  BY DEF Logged, TypeOK
<1>2. /\ \A q : HasClose(q)' <=> HasClose(q)
      /\ \A q : Last(log'[q]) = Last(log[q])
      /\ \A q \in Runs : Logged(q)'
    BY <1>1, Still
<1>3. /\ runtime \in {None} \cup [run : Runs, phase : Phases]
      /\ runtime # None /\ runtime.run = follow.run /\ claimed /\ pending = None
    BY DEF TypeOK, Single
<1>4. /\ runtime' \in {None} \cup [run : Runs, phase : Phases]
      /\ runtime' # None /\ runtime'.run = follow.run
      /\ \A r : IsOver(r)' => IsOver(r)
  <2>1. CASE runtime' = runtime  BY <2>1, <1>3 DEF IsOver
  <2>2. CASE ~IsOver(follow.run) /\ runtime' = [runtime EXCEPT !.phase = "running"]
    <3>1. runtime \in [run : Runs, phase : Phases]  BY <1>3
    <3>2. runtime' \in [run : Runs, phase : Phases]
          /\ runtime'.run = runtime.run /\ runtime'.phase = "running"
        BY <3>1, <2>2 DEF Phases
    <3> QED BY <3>2, <1>3, NothingAssumption DEF IsOver, Statuses
  <2> QED BY <2>1, <2>2
<1>5. TypeOK'  BY <1>4 DEF TypeOK
<1>6. Single'  BY <1>3, <1>4 DEF Single
<1>7. AsRead'  BY <1>3, <1>4 DEF AsRead
<1>8. Owed'  BY <1>2 DEF Owed, NothingMissed
<1> QED BY <1>2, <1>5, <1>6, <1>7, <1>8

LEMMA StepSafe ==
  ASSUME PageIInv, ReplayLog \/ Attach \/ FillGap \/ ReceiveEvent \/ ReceiveClose \/ Breaks
  PROVE  PageIInv'
<1> USE DEF PageIInv
<1>1. follow # None /\ follow \in Follows
    BY DEF TypeOK, ReplayLog, Attach, FillGap, ReceiveEvent, ReceiveClose, Breaks, At
<1>0. PICK r \in Runs : r = follow.run  BY <1>1 DEF Follows
<1>2. /\ r \in Runs /\ follow.at \in Places /\ follow.cursor \in Nat /\ follow.next \in Nat
      /\ follow.application \in Applications /\ follow.refresh \in BOOLEAN /\ follow.early \in BOOLEAN
    BY <1>0, <1>1 DEF Follows
<1>3. /\ Len(log[r]) \in Nat /\ follow.cursor <= Len(log[r]) /\ first[r] \in Nat
      /\ first[r] <= Len(log[r]) + 1
      /\ entries \in [Runs -> SUBSET Nat] /\ faults \in Nat
      /\ runtime # None /\ runtime.run = r /\ runtime \in [run : Runs, phase : Phases]
    BY <1>0, <1>1, <1>2, LastIs DEF TypeOK, Following, Logged, Single
<1>4. posts \subseteq {q \in Runs : stage[q] = "none"}  BY DEF Logged, TypeOK
<1>5. ASSUME UNCHANGED daemon  PROVE \A q : HasClose(q)' <=> HasClose(q)
    BY <1>4, <1>5, Still DEF daemon
<1>6. ASSUME NEW application \in Applications, NEW whenRead \in {"attach", "reattach"},
             ReadPage(application, whenRead), follow.at \in {"replay", "gap"},
             follow.at = "gap" => application = "live" /\ whenRead = "reattach",
             follow.at = "replay" => application # "live"
      PROVE  PageIInv'
  <2> DEFINE end == EndOf(follow.cursor, r)
  <2>1. /\ end \in Nat /\ follow.cursor <= end /\ end <= Len(log[r])
        /\ entries' = [entries EXCEPT ![r] =
              @ \cup {i \in (follow.cursor + 1)..end : log[r][i].event = "agent-event"}]
        /\ follow' \in Follows /\ follow'.run = r /\ follow'.cursor = end
        /\ follow'.application = follow.application /\ follow'.early = TRUE
        /\ follow'.at \in {"close", whenRead, follow.at}
        /\ follow'.at = "close" => HasClose(r)
        /\ follow'.at = whenRead => end = Len(log[r])
        /\ runtime' = runtime \/
              /\ runtime' = Moved(application)
              /\ \E i \in (follow.cursor + 1)..Len(log[r]) : log[r][i].event = "agent-event"
      BY <1>0, <1>1, <1>6, ReadPageIs
  <2> HIDE DEF end
  <2>2. UNCHANGED <<daemon, shown, claimed, pending, settled, offered, streamed, faults>>
      BY <1>6 DEF ReadPage, Apply
  <2>3. entries' \in [Runs -> SUBSET Nat]  BY <2>1, <1>2, <1>3
  <2>4. runtime' = runtime \/ (~IsOver(r) /\ runtime' = [runtime EXCEPT !.phase = "running"])
    <3>1. CASE application # "live"  BY <3>1, <2>1 DEF Moved
    <3>2. CASE application = "live"
      <4>1. follow.at = "gap"  BY <3>2, <1>6
      <4>2. IsOver(r) =>
              ~\E i \in (follow.cursor + 1)..Len(log[r]) : log[r][i].event = "agent-event"
          BY <4>1, <1>0, <1>1 DEF Following
      <4> QED BY <2>1, <3>2, <4>2 DEF Moved
    <3> QED BY <3>1, <3>2
  <2>5. IsOver(r)' => IsOver(r)
      BY <2>4, <1>3 DEF IsOver, Statuses, Phases
  <2>6. Following'
    <3>1. (follow' # None /\ log' = log /\ stage' = stage) \/ follow' = None  BY <2>2 DEF daemon
    <3>2. HasClose(r)' <=> HasClose(r)  BY <1>5, <2>2
    <3>3. follow'.at \notin {"stream"} /\ (follow'.at = "replay" => follow.at = "replay")
        BY <2>1, <1>6
    <3>4. ASSUME follow'.at \in {"attach", "gap", "reattach", "stream"}, IsOver(r)',
                 NEW i \in (end + 1)..Len(log[r])
          PROVE  log[r][i].event = "close"
      <4>1. CASE follow'.at = whenRead  BY <4>1, <2>1, <1>3, <3>4
      <4>2. CASE follow'.at # whenRead
        <5>1. follow.at = "gap"  BY <4>2, <3>4, <2>1, <1>6
        <5>2. i \in (follow.cursor + 1)..Len(log[r])  BY <2>1, <1>2, <1>3
        <5> QED BY <5>1, <5>2, <2>5, <3>4, <1>0, <1>1 DEF Following
      <4> QED BY <4>1, <4>2
    <3> QED BY <3>1, <3>2, <3>3, <3>4, <2>1, <1>6, <1>0, <1>1 DEF Following
  <2>7. faults' \in Nat  BY <2>2, <1>3
  <2> QED BY <2>1, <2>2, <2>3, <2>4, <2>6, <2>7, <1>0, <1>1, FollowSafe
<1>7. CASE ReplayLog
    BY <1>0, <1>1, <1>2, <1>6, <1>7 DEF ReplayLog, At, Following
<1>8. CASE FillGap
    BY <1>6, <1>8 DEF FillGap, At, Applications
<1>9. CASE Attach
  <2> DEFINE next == IF follow.cursor < first[r] THEN first[r] ELSE follow.cursor + 1
             early == HasClose(r)
  <2>1. /\ follow.at \in {"attach", "reattach"}
        /\ UNCHANGED <<daemon, shown, runtime, claimed, pending, entries, settled, offered, streamed, faults>>
      BY <1>9 DEF Attach, record
  <2>2. \/ follow' = [follow EXCEPT !.at = "failed"]
        \/ follow' = [follow EXCEPT !.at = "gap"]
        \/ /\ ~ReplayGap(follow.cursor, r)
           /\ follow' = [follow EXCEPT !.at = "stream", !.early = early, !.next = next]
      BY <1>0, <1>9 DEF Attach
  <2>3. next \in Nat /\ next > follow.cursor /\ early \in BOOLEAN  BY <1>2, <1>3 DEF HasClose
  <2>4. ~ReplayGap(follow.cursor, r) => (follow.cursor > 0 => next = follow.cursor + 1)
      BY <1>2, <1>3 DEF ReplayGap
  <2> HIDE DEF next, early
  <2>5. /\ follow' \in Follows /\ follow'.run = r /\ follow'.cursor = follow.cursor
        /\ follow'.application = follow.application
        /\ follow'.at \in {"failed", "gap", "stream"}
        /\ follow'.at = "stream" =>
             follow'.next > follow'.cursor /\ (follow'.cursor > 0 => follow'.next = follow'.cursor + 1)
    <3>1. CASE follow' = [follow EXCEPT !.at = "failed"]  BY <3>1, <1>0, <1>1 DEF Follows, Places
    <3>2. CASE follow' = [follow EXCEPT !.at = "gap"]  BY <3>2, <1>0, <1>1 DEF Follows, Places
    <3>3. CASE /\ ~ReplayGap(follow.cursor, r)
               /\ follow' = [follow EXCEPT !.at = "stream", !.early = early, !.next = next]
        BY <3>3, <1>0, <1>1, <2>3, <2>4 DEF Follows, Places
    <3> QED BY <3>1, <3>2, <3>3, <2>2
  <2>6. Following'
    <3>1. IsOver(r)' <=> IsOver(r)  BY <2>1 DEF IsOver
    <3> QED BY <2>1, <2>5, <3>1, <1>0, <1>1 DEF Following, daemon
  <2> QED BY <2>1, <2>5, <2>6, <1>0, <1>1, <1>3, FollowSafe
<1>10. CASE ReceiveEvent
  <2>1. /\ follow.at = "stream" /\ follow.next <= Len(log[r])
        /\ log[r][follow.next].event = "agent-event"
        /\ entries' = [entries EXCEPT ![r] = @ \cup {follow.next}]
        /\ runtime' = [runtime EXCEPT !.phase = "running"]
        /\ follow' = [follow EXCEPT !.cursor = follow.next, !.next = @ + 1]
        /\ UNCHANGED <<daemon, shown, claimed, pending, settled, offered, streamed, faults>>
      BY <1>0, <1>10 DEF ReceiveEvent, At, Moved
  <2>2. entries' \in [Runs -> SUBSET Nat]  BY <2>1, <1>2, <1>3
  <2>3. /\ follow' \in Follows /\ follow'.run = r /\ follow'.cursor = follow.next
        /\ follow'.next = follow.next + 1 /\ follow'.at = "stream"
    <3>1. follow.next \in Nat /\ follow.next + 1 \in Nat  BY <1>2
    <3> QED BY <3>1, <2>1, <1>0, <1>1 DEF Follows
  <2>4. follow.next > follow.cursor  BY <2>1, <1>0, <1>1 DEF Following
  <2>5. ~IsOver(r)
    <3>1. follow.next \in (follow.cursor + 1)..Len(log[r])  BY <2>1, <2>4, <1>2, <1>3
    <3> QED BY <3>1, <2>1, <1>0, <1>1 DEF Following
  <2>6. ~IsOver(r)'  BY <2>1, <1>3 DEF IsOver, Statuses, Phases
  <2>7. Following'  BY <2>1, <2>3, <2>6, <1>2 DEF Following, daemon
  <2> QED BY <2>1, <2>2, <2>3, <2>5, <2>7, <1>0, <1>1, <1>3, FollowSafe
<1>11. CASE ReceiveClose
  <2>1. /\ HasClose(r) /\ (follow.early \/ stage[r] = "ended") /\ follow.at = "stream"
        /\ follow' = [follow EXCEPT !.at = "close"]
        /\ UNCHANGED <<daemon, shown, runtime, claimed, pending, entries, settled, offered, streamed, faults>>
      BY <1>0, <1>11 DEF ReceiveClose, At, Told, record
  <2>2. /\ follow' \in Follows /\ follow'.run = r /\ follow'.cursor = follow.cursor
        /\ follow'.early = follow.early /\ follow'.at = "close"
      BY <2>1, <1>0, <1>1 DEF Follows, Places
  <2>3. Following'  BY <2>1, <2>2, <1>3, <1>5 DEF Following, daemon
  <2> QED BY <2>1, <2>2, <2>3, <1>0, <1>1, <1>3, FollowSafe
<1>12. CASE Breaks
  <2>1. /\ follow' = [follow EXCEPT !.at = "failed"]
        /\ UNCHANGED <<daemon, shown, runtime, claimed, pending, entries, settled, offered, streamed>>
        /\ faults' \in Nat
      BY <1>12, <1>3 DEF Breaks, record, Fault
  <2>2. /\ follow' \in Follows /\ follow'.run = r /\ follow'.cursor = follow.cursor
        /\ follow'.at = "failed"
      BY <2>1, <1>0, <1>1 DEF Follows, Places
  <2>3. Following'  BY <2>1, <2>2, <1>3 DEF Following, daemon
  <2> QED BY <2>1, <2>2, <2>3, <1>0, <1>1, <1>3, FollowSafe
<1> QED BY <1>7, <1>8, <1>9, <1>10, <1>11, <1>12

LEMMA SettleSafe ==
  ASSUME PageIInv, SettleRun
  PROVE  PageIInv'
<1> USE DEF PageIInv
<1>1. follow # None /\ follow.at = "close" /\ follow \in Follows  BY DEF SettleRun, At, TypeOK
<1>2. PICK r \in Runs : r = follow.run  BY <1>1 DEF Follows
<1>3. HasClose(r) /\ (~follow.early => stage[r] = "ended")  BY <1>1, <1>2 DEF Following
<1>4. Last(log[r]) \in Closes /\ Last(log[r]).status \in Statuses
    BY <1>3, LastIs, EntriesAre DEF TypeOK
<1>5. /\ shown' = IF follow.refresh THEN canvas ELSE shown
      /\ settled' = settled \cup {r}
      /\ runtime' = [run |-> r, phase |-> Last(log[r]).status]
      /\ streamed' = IF follow.refresh /\ ~follow.early THEN streamed \cup {r} ELSE streamed
      /\ offered' = IF Last(log[r]).plan /\ r \notin offered \cup shown'.reviewed
                    THEN offered \cup {r} ELSE offered
      /\ follow' = None /\ claimed' = FALSE
      /\ UNCHANGED <<log, first, stage, order, held, canvas, posts, pending, entries, faults>>
    BY <1>2 DEF SettleRun, Offers, daemon
<1>6. posts \subseteq {q \in Runs : stage[q] = "none"}  BY DEF Logged, TypeOK
<1>7. /\ \A q : HasClose(q)' <=> HasClose(q)
      /\ \A q : Last(log'[q]) = Last(log[q])
      /\ \A q \in Runs : Logged(q)'
    BY <1>5, <1>6, Still
<1>8. /\ runtime' \in [run : Runs, phase : Phases]
      /\ shown' \in Documents /\ shown'.outputs \subseteq canvas.outputs /\ shown'.reviewed \subseteq canvas.reviewed
      /\ shown.outputs \subseteq shown'.outputs /\ shown.reviewed \subseteq shown'.reviewed
    BY <1>4, <1>5 DEF Statuses, Phases, TypeOK, AsRead
<1>9. TypeOK'  BY <1>5, <1>8 DEF TypeOK
<1>10. pending = None  BY <1>1 DEF Single
<1>11. Single' /\ Following'  BY <1>5, <1>10 DEF Single, Following
<1>12. AsRead'
  <2>1. stage[r] \notin {"none", "running"}  BY <1>3 DEF Logged
  <2>2. \A q \in Runs : IsOver(q)' => q = r  BY <1>5 DEF IsOver
  <2> QED BY <1>5, <1>8, <1>10, <2>1, <2>2 DEF AsRead
<1>13. Owed'
  <2>1. \A q \in settled' : HasClose(q)'  BY <1>3, <1>5, <1>7 DEF Owed
  <2>2. /\ streamed' \subseteq settled'
        /\ \A q \in streamed' : stage'[q] = "ended"
      BY <1>3, <1>5 DEF Owed
  <2>3. ASSUME NEW q \in settled'
        PROVE  /\ q \in streamed' /\ q \in canvas'.outputs => q \in shown'.outputs
               /\ Last(log'[q]).plan => q \in offered' \cup canvas'.reviewed
    <3>1. CASE q = r
      <4>1. \/ q \in streamed' => shown' = canvas
            \/ q \in streamed /\ streamed' = streamed
          BY <1>5
      <4>2. q \in streamed => stage[q] = "ended"  BY DEF Owed
      <4>3. q \in streamed' /\ q \in canvas'.outputs => q \in shown'.outputs
        <5>1. CASE q \in settled  BY <5>1, <1>5, <1>8, <4>1 DEF Owed, NothingMissed
        <5>2. CASE q \notin settled
          <6>1. q \notin streamed  BY <5>2 DEF Owed
          <6> QED BY <6>1, <4>1, <1>5
        <5> QED BY <5>1, <5>2
      <4>4. Last(log[q]).plan => q \in offered' \cup canvas.reviewed  BY <3>1, <1>5, <1>8
      <4> QED BY <4>3, <4>4, <1>5
    <3>2. CASE q # r
      <4>1. q \in settled /\ (q \in streamed' <=> q \in streamed)  BY <3>2, <1>5
      <4>2. offered \subseteq offered'  BY <1>5
      <4> QED BY <4>1, <4>2, <1>5, <1>8 DEF Owed, NothingMissed
    <3> QED BY <3>1, <3>2
  <2> QED BY <2>1, <2>2, <2>3 DEF Owed, NothingMissed
<1> QED BY <1>7, <1>9, <1>11, <1>12, <1>13

LEMMA OtherSafe ==
  ASSUME PageIInv, Failed \/ RefreshCanvas \/ LoadPage
  PROVE  PageIInv'
<1> USE DEF PageIInv, daemon, record
<1>1. posts \subseteq {q \in Runs : stage[q] = "none"}  BY DEF Logged, TypeOK
<1>2. UNCHANGED daemon  BY DEF Failed, RefreshCanvas, LoadPage
<1>3. /\ \A q : HasClose(q)' <=> HasClose(q)
      /\ \A q : Last(log'[q]) = Last(log[q])
      /\ \A q \in Runs : Logged(q)'
    BY <1>1, <1>2, Still
<1>4. CASE Failed
  <2>1. /\ follow # None /\ follow' = None /\ claimed' = FALSE
        /\ UNCHANGED <<shown, runtime, pending, entries, settled, offered, streamed, faults>>
      BY <1>4 DEF Failed, At, ReleasedClaim
  <2>2. pending = None  BY <2>1 DEF Single
  <2>3. TypeOK'  BY <1>2, <2>1 DEF TypeOK
  <2>4. Single' /\ Following'  BY <2>1, <2>2 DEF Single, Following
  <2>5. AsRead'  BY <1>2, <2>1 DEF AsRead, IsOver
  <2>6. Owed'  BY <1>2, <1>3, <2>1 DEF Owed, NothingMissed
  <2> QED BY <1>3, <2>3, <2>4, <2>5, <2>6
<1>5. CASE RefreshCanvas
  <2>1. /\ shown' = canvas
        /\ UNCHANGED <<runtime, claimed, pending, follow, entries, settled, offered, streamed, faults>>
      BY <1>5 DEF RefreshCanvas
  <2>2. TypeOK'  BY <1>2, <2>1 DEF TypeOK
  <2>3. Single'  BY <2>1 DEF Single
  <2>4. Following'  BY <1>2, <1>3, <2>1 DEF Following, IsOver
  <2>5. AsRead'  BY <1>2, <2>1 DEF AsRead, IsOver
  <2>6. Owed'  BY <1>2, <1>3, <2>1 DEF Owed, NothingMissed
  <2> QED BY <1>3, <2>2, <2>3, <2>4, <2>5, <2>6
<1>6. CASE LoadPage
  <2>1. /\ shown' = canvas /\ runtime' = None /\ claimed' = FALSE /\ pending' = None /\ follow' = None
        /\ entries' = [r \in Runs |-> {}]
        /\ settled' = {} /\ offered' = {} /\ streamed' = {}
      BY <1>6 DEF LoadPage
  <2>2. faults' \in Nat  BY <1>6, Constants DEF LoadPage, Fault, TypeOK
  <2>3. TypeOK'  BY <1>2, <2>1, <2>2 DEF TypeOK
  <2>4. Single' /\ Following'  BY <2>1 DEF Single, Following
  <2>5. AsRead'  BY <1>2, <2>1 DEF AsRead, IsOver
  <2>6. Owed'  BY <2>1 DEF Owed, NothingMissed
  <2> QED BY <1>3, <2>3, <2>4, <2>5, <2>6
<1> QED BY <1>4, <1>5, <1>6
-----------------------------------------------------------------------------
(* The invariant *)

LEMMA InitSafe ==
  PageInit => PageIInv
<1> SUFFICES ASSUME PageInit  PROVE PageIInv  OBVIOUS
<1>1. /\ log = [r \in Runs |-> <<>>] /\ first = [r \in Runs |-> 1]
      /\ stage = [r \in Runs |-> "none"] /\ order = <<>> /\ held = {}
      /\ canvas = [outputs |-> {}, reviewed |-> {}] /\ posts = {}
      /\ shown = canvas /\ runtime = None /\ claimed = FALSE /\ pending = None /\ follow = None
      /\ entries = [r \in Runs |-> {}] /\ settled = {} /\ offered = {} /\ streamed = {} /\ faults = 0
    BY DEF PageInit, NoPage
<1>2. TypeOK
  <2>1. <<>> \in Seq(Entries) /\ <<>> \in Seq(Runs)  OBVIOUS
  <2>2. log \in [Runs -> Seq(Entries)]  BY <1>1, <2>1
  <2>3. first \in [Runs -> Nat] /\ stage \in [Runs -> Stages]  BY <1>1 DEF Stages
  <2>4. canvas \in Documents /\ shown \in Documents  BY <1>1 DEF Documents
  <2>5. entries \in [Runs -> SUBSET Nat] /\ faults \in Nat  BY <1>1
  <2> QED BY <1>1, <2>1, <2>2, <2>3, <2>4, <2>5 DEF TypeOK
<1>3. \A r \in Runs : Logged(r)  BY <1>1 DEF Logged, HasClose
<1>4. Single /\ Following /\ AsRead /\ Owed
    BY <1>1 DEF Single, Following, AsRead, Owed, IsOver, NothingMissed
<1> QED BY <1>2, <1>3, <1>4 DEF PageIInv

LEMMA NextSafe ==
  PageIInv /\ [PageNext]_pageVars => PageIInv'
<1> SUFFICES ASSUME PageIInv, [PageNext]_pageVars  PROVE PageIInv'  OBVIOUS
<1>1. CASE DaemonStep
  <2>1. TypeOK'  BY <1>1, DaemonType DEF PageIInv
  <2>2. Grows /\ Waits /\ \A r \in Runs : Logged(r)'  BY <1>1, <2>1, DaemonGrows DEF PageIInv
  <2> QED BY <2>1, <2>2, WaitsSafe DEF PageIInv
<1>2. CASE Initiate  BY <1>2, RunTaskSafe, StartSafe, OtherSafe DEF Initiate
<1>3. CASE Proceed  BY <1>3, StartSafe, StepSafe, SettleSafe, OtherSafe DEF Proceed
<1>4. CASE Lose  BY <1>4, StartSafe, StepSafe DEF Lose
<1>5. CASE UNCHANGED pageVars
  <2>1. UNCHANGED <<log, first, stage, order, held, canvas, posts, shown, runtime, claimed, pending,
                    follow, entries, settled, offered, streamed, faults>>
      BY <1>5 DEF pageVars, daemon, page, record
  <2>2. TypeOK'  BY <2>1 DEF PageIInv, TypeOK
  <2>3. \A r \in Runs : Logged(r)'  BY <2>1 DEF PageIInv, Logged, HasClose
  <2>4. Single' /\ Following'  BY <2>1 DEF PageIInv, Single, Following, HasClose, IsOver
  <2>5. AsRead' /\ Owed'  BY <2>1 DEF PageIInv, AsRead, Owed, HasClose, IsOver, NothingMissed
  <2> QED BY <2>2, <2>3, <2>4, <2>5 DEF PageIInv
<1> QED BY <1>1, <1>2, <1>3, <1>4, <1>5 DEF PageNext

THEOREM PageInvariant == PageSpec => []PageIInv
<1> QED BY InitSafe, NextSafe, PTL DEF PageSpec

THEOREM TypeCorrect == PageSpec => []TypeOK
<1>1. PageIInv => TypeOK  BY DEF PageIInv
<1> QED BY <1>1, PageInvariant, PTL

\* Whichever way a page learns of the end of a run, it has its outputs and its plan.
THEOREM PagesMissNothing == PageSpec => []NothingMissed
<1>1. PageIInv => NothingMissed  BY DEF PageIInv, Owed
<1> QED BY <1>1, PageInvariant, PTL
-----------------------------------------------------------------------------
(* What a step may never do *)

\* A step that reads takes a follow from one cursor to the next and leaves out nothing
\* between them; no other step moves the cursor of a follow.
LEMMA CursorMoves ==
  ASSUME PageIInv, PageNext, follow # None, follow' # None, follow.cursor > 0, follow'.cursor > follow.cursor
  PROVE  \A i \in (follow.cursor + 1)..follow'.cursor :
           log[follow.run][i].event = "agent-event" => i \in entries'[follow.run]
<1> USE DEF PageIInv
<1>1. follow \in Follows /\ follow.run \in Runs /\ follow.cursor \in Nat /\ follow.next \in Nat
    BY DEF TypeOK, Follows
<1>2. pending = None  BY DEF Single
<1>3. entries \in [Runs -> SUBSET Nat]  BY DEF TypeOK
<1>4. ASSUME follow' = follow \/ follow' = [follow EXCEPT !.at = "failed"]
      PROVE  FALSE
    BY <1>1, <1>4 DEF Follows
<1>5. ASSUME NEW application \in Applications, NEW whenRead \in {"attach", "reattach"},
             ReadPage(application, whenRead)
      PROVE  \A i \in (follow.cursor + 1)..follow'.cursor :
               log[follow.run][i].event = "agent-event" => i \in entries'[follow.run]
  <2> DEFINE end == EndOf(follow.cursor, follow.run)
  <2>1. /\ entries' = [entries EXCEPT ![follow.run] =
              @ \cup {i \in (follow.cursor + 1)..end : log[follow.run][i].event = "agent-event"}]
        /\ follow'.cursor = end
      BY <1>5, ReadPageIs
  <2> HIDE DEF end
  <2> QED BY <2>1, <1>1, <1>3
<1>6. CASE DaemonStep
  <2>1. TypeOK' /\ Waits  BY <1>6, DaemonType, DaemonGrows
  <2> QED BY <2>1, <1>4 DEF Waits
<1>7. CASE Initiate
    BY <1>4, <1>7 DEF Initiate, RunTask, Recover, RefreshCanvas, LoadPage
<1>8. CASE ReplayLog
    BY <1>1, <1>5, <1>8 DEF ReplayLog, Follows
<1>9. CASE FillGap
    BY <1>5, <1>9 DEF FillGap, Applications
<1>10. CASE Attach
  <2>1. CASE follow' = [follow EXCEPT !.at = "failed"]  BY <2>1, <1>4
  <2>2. CASE follow' = [follow EXCEPT !.at = "gap"]  BY <2>2, <1>1 DEF Follows
  <2>3. ASSUME NEW early, NEW next, follow' = [follow EXCEPT !.at = "stream", !.early = early, !.next = next]
        PROVE  follow'.cursor = follow.cursor
      BY <2>3, <1>1 DEF Follows
  <2> QED BY <2>1, <2>2, <2>3, <1>1, <1>10 DEF Attach
<1>11. CASE ReceiveEvent
  <2>1. /\ follow.at = "stream"
        /\ entries' = [entries EXCEPT ![follow.run] = @ \cup {follow.next}]
        /\ follow' = [follow EXCEPT !.cursor = follow.next, !.next = @ + 1]
      BY <1>11 DEF ReceiveEvent, At
  <2>2. follow.next = follow.cursor + 1  BY <2>1 DEF Following
  <2>3. follow'.cursor = follow.next /\ entries'[follow.run] = entries[follow.run] \cup {follow.next}
      BY <2>1, <1>1, <1>3 DEF Follows
  <2> QED BY <2>2, <2>3, <1>1
<1>12. CASE ReceiveClose
  <2>1. follow' = [follow EXCEPT !.at = "close"]  BY <1>12 DEF ReceiveClose
  <2> QED BY <2>1, <1>1 DEF Follows
<1>13. CASE Breaks  BY <1>4, <1>13 DEF Breaks
<1>14. CASE Created \/ ReconcileRun \/ GiveUp \/ List \/ Recovered \/ PostFails
    BY <1>2, <1>14 DEF Created, ReconcileRun, GiveUp, List, Recovered, PostFails
<1>15. CASE SettleRun \/ Failed  BY <1>15 DEF SettleRun, Failed
<1> QED BY <1>6, <1>7, <1>8, <1>9, <1>10, <1>11, <1>12, <1>13, <1>14, <1>15
        DEF PageNext, Proceed, Lose

\* Once a page has read part of a run it misses none of what follows (ReplayGap of
\* subscribe and attachRun's 409).
THEOREM FollowsOnHolds == PageSpec => FollowsOn
<1> DEFINE A == (/\ follow # None /\ follow' # None /\ follow.run = follow'.run
                 /\ follow.cursor > 0 /\ follow'.cursor > follow.cursor)
                => \A i \in (follow.cursor + 1)..follow'.cursor :
                     log[follow.run][i].event = "agent-event" => i \in entries'[follow.run]
<1>1. PageIInv /\ PageNext => A  BY CursorMoves
<1>2. PageIInv /\ [PageNext]_pageVars => [A]_pageVars  BY <1>1
<1> QED BY <1>2, PageInvariant, PTL DEF PageSpec, FollowsOn

\* No step shows a run as under way that the page has shown as over.
LEMMA StaysOver ==
  ASSUME PageIInv, PageNext, runtime # None, runtime' # None, runtime.run = runtime'.run,
         runtime.phase \in Statuses
  PROVE  runtime'.phase \in Statuses
<1> USE DEF PageIInv
<1>1. runtime \in [run : Runs, phase : Phases] /\ IsOver(runtime.run) /\ runtime.run \in Runs
    BY DEF TypeOK, IsOver
<1>2. stage[runtime.run] \notin {"none", "running"}  BY <1>1 DEF AsRead
<1>3. CASE runtime' = runtime  BY <1>3
<1>4. ASSUME pending # None, pending.at \in {"post", "created", "reconcile"}
      PROVE  FALSE
  <2>1. runtime = [run |-> pending.run, phase |-> "queued"]  BY <1>4 DEF Single
  <2> QED BY <2>1 DEF Statuses
<1>5. CASE DaemonStep
  <2>1. TypeOK' /\ Waits  BY <1>5, DaemonType, DaemonGrows
  <2> QED BY <2>1 DEF Waits
<1>6. CASE RunTask
  <2> DEFINE Free == {q \in Runs : stage[q] = "none" /\ q \notin posts}
  <2>1. PICK r \in Runs : r = Min(Free) /\ runtime' = [run |-> r, phase |-> "queued"]
      BY <1>6 DEF RunTask
  <2>2. r \in Free
    <3>1. Free # {} /\ Free \subseteq Nat  BY <1>6, Constants DEF RunTask
    <3> HIDE DEF Free
    <3>2. PICK m \in Free : \A n \in Free : m <= n  BY <3>1, HasLeast
    <3> QED BY <2>1, <3>2 DEF Min
  <2> QED BY <2>1, <2>2, <1>2
<1>7. CASE Recover \/ RefreshCanvas \/ LoadPage
    BY <1>7 DEF Recover, RefreshCanvas, LoadPage
<1>8. CASE Created \/ ReconcileRun \/ PostFails
    BY <1>4, <1>8 DEF Created, ReconcileRun, PostFails
<1>9. CASE GiveUp \/ List
    BY <1>9 DEF GiveUp, List
<1>10. CASE Recovered
  <2>1. /\ pending # None /\ pending.at = "listed"  BY <1>10 DEF Recovered
  <2>2. pending.active \subseteq Runs /\ pending.terminal \subseteq Runs
        /\ pending.status \in [Runs -> Statuses]
      BY <2>1 DEF TypeOK, Creations, Recoveries
  <2>3. CASE runtime' = runtime  BY <2>3
  <2>4. ASSUME NEW r \in ToRecover(pending.active, pending.terminal),
               Begin(r, "replay",
                 IF r \in pending.active /\ r \notin pending.outputs THEN "replay-active" ELSE "replay-history",
                 r \in pending.active /\ r \notin pending.outputs,
                 IF r \in pending.active THEN (IF r \in pending.outputs THEN "done" ELSE "running")
                 ELSE pending.status[r])
        PROVE  runtime'.phase \in Statuses
    <3>1. r \in Runs  BY <2>2 DEF ToRecover
    <3> DEFINE phase == IF r \in pending.active THEN (IF r \in pending.outputs THEN "done" ELSE "running")
                        ELSE pending.status[r]
    <3>2. runtime' = [run |-> r, phase |-> IF phase = "queued" THEN "running" ELSE phase]
        BY <2>4 DEF Begin
    <3>3. r \notin pending.active  BY <3>2, <2>1, <1>1 DEF AsRead
    <3>4. phase \in Statuses  BY <3>1, <3>3, <2>2
    <3> HIDE DEF phase
    <3> QED BY <3>2, <3>4 DEF Statuses
  <2> QED BY <2>3, <2>4, <1>10 DEF Recovered
<1>11. ASSUME NEW application \in Applications, NEW whenRead \in {"attach", "reattach"},
              ReadPage(application, whenRead), follow # None,
              application = "live" => follow.at = "gap"
       PROVE  runtime' = runtime
  <2>1. runtime' = runtime \/
          /\ runtime' = Moved(application)
          /\ \E i \in (follow.cursor + 1)..Len(log[follow.run]) : log[follow.run][i].event = "agent-event"
      BY <1>11, ReadPageIs
  <2>2. CASE application # "live"  BY <2>1, <2>2 DEF Moved
  <2>3. CASE application = "live"
    <3>1. IsOver(follow.run)  BY <1>1, <1>11 DEF Single
    <3>2. \A i \in (follow.cursor + 1)..Len(log[follow.run]) : log[follow.run][i].event = "close"
        BY <2>3, <3>1, <1>11 DEF Following
    <3> QED BY <2>1, <3>2
  <2> QED BY <2>2, <2>3
<1>12. CASE ReplayLog
  <2>1. follow # None /\ follow.at = "replay"  BY <1>12 DEF ReplayLog, At
  <2>2. follow.application \in Applications /\ follow.application # "live"
      BY <2>1 DEF TypeOK, Follows, Following
  <2> QED BY <2>1, <2>2, <1>3, <1>11, <1>12 DEF ReplayLog
<1>13. CASE FillGap
    BY <1>3, <1>11, <1>13 DEF FillGap, At, Applications
<1>14. CASE ReceiveEvent
  <2>1. /\ follow # None /\ follow.at = "stream" /\ follow.next <= Len(log[follow.run])
        /\ log[follow.run][follow.next].event = "agent-event"
      BY <1>14 DEF ReceiveEvent, At
  <2>2. follow.run \in Runs /\ follow.next \in Nat /\ follow.cursor \in Nat /\ follow.next > follow.cursor
      BY <2>1 DEF TypeOK, Follows, Following
  <2>3. Len(log[follow.run]) \in Nat  BY <2>2, LastIs DEF TypeOK
  <2>4. follow.next \in (follow.cursor + 1)..Len(log[follow.run])  BY <2>1, <2>2, <2>3
  <2>5. IsOver(follow.run)  BY <1>1, <2>1 DEF Single
  <2> QED BY <2>1, <2>4, <2>5 DEF Following
<1>15. CASE SettleRun
  <2>1. follow # None /\ follow.at = "close" /\ follow.run \in Runs
      BY <1>15 DEF SettleRun, At, TypeOK, Follows
  <2>2. HasClose(follow.run)  BY <2>1 DEF Following
  <2>3. Last(log[follow.run]).status \in Statuses  BY <2>1, <2>2, LastIs, EntriesAre DEF TypeOK
  <2> QED BY <2>3, <1>15 DEF SettleRun
<1>16. CASE Attach \/ ReceiveClose \/ Failed \/ Breaks
    BY <1>16 DEF Attach, ReceiveClose, Failed, Breaks
<1> QED BY <1>5, <1>6, <1>7, <1>8, <1>9, <1>10, <1>12, <1>13, <1>14, <1>15, <1>16
        DEF PageNext, Initiate, Proceed, Lose

\* A run the page has shown as over is not shown as running again, whatever part of its
\* log is replayed to it afterwards (#applyAgentEvent).
THEOREM NeverRevived == PageSpec => NotRevived
<1> DEFINE A == (/\ runtime # None /\ runtime' # None /\ runtime.run = runtime'.run
                 /\ runtime.phase \in {"done", "interrupted"})
                => runtime'.phase \in {"done", "interrupted"}
<1>1. PageIInv /\ [PageNext]_pageVars => [A]_pageVars  BY StaysOver DEF Statuses
<1> QED BY <1>1, PageInvariant, PTL DEF PageSpec, NotRevived
-----------------------------------------------------------------------------
(***************************************************************************)
(* Theorems about ProjectionPlans, for any plans, clients' ids and         *)
(* documents a branch is opened with.                                      *)
(***************************************************************************)

\* What an edge of a plan may join: the plan's task, the nodes made from it and
\* the tasks accepted from it.
Joins(e, task, made, accepted) ==
  \/ e.relation = "produced" /\ e.from = task /\ e.to \in made
  \/ e.relation \in {"derived", "data"} /\ {e.from, e.to} \subseteq made
  \/ e.relation = "source" /\ e.from \in made /\ e.to \in accepted
  \/ e.relation = "depends-on" /\ {e.from, e.to} \subseteq accepted

\* What the receipts of plan p account for.
Accounted(e, p) == Joins(e, Plan[p].task, NodesOf(p), TasksOf(p))

\* Nodes and edges keep their fields, and receipts speak of their own plan.
Shaped ==
  /\ \A n \in DOMAIN nodes : DOMAIN nodes[n] = NodeFields
  /\ \A i \in DOMAIN edges :
       DOMAIN edges[i] = EdgeFields /\ edges[i].plan \in Plans \cup {None}
  /\ \A r \in receipts :
       /\ r.kind = "materialization" => \A w \in r.says : w[1] \in OutputsOf(r.plan)
       /\ r.kind = "graph-materialization" => \A w \in r.says : w[1] \in DOMAIN Plan[r.plan].graph

AllAccounted ==
  \A i \in DOMAIN edges, p \in Plans :
    edges[i].plan = p /\ p # None => Accounted(edges[i], p)

DocumentInv == Shaped /\ AllAccounted

\* A request that goes on to commit names a plan.
Asked ==
  /\ DOMAIN request = Browsers
  /\ \A b \in Browsers : request[b].at = "looked" => request[b].plan \in Plans

IInv == DocumentInv /\ Asked

\* ReceiptsStand, of one step.
Stand ==
  /\ \A r \in receipts : \E s \in receipts' :
       /\ s.kind = r.kind /\ s.plan = r.plan
       /\ IF r.kind = "materialization" THEN r.says \subseteq s.says ELSE s.says = r.says
  /\ \A n \in DOMAIN nodes' :
       nodes'[n].by \notin {"user", "copied"} =>
         \/ n \in DOMAIN nodes /\ nodes[n].by = nodes'[n].by
         \/ \A w \in Materialized(PlanOf(nodes'[n].by)) : w[1] # nodes'[n].by
  /\ \A p \in Plans :
       Has("plan-dismissal", p) =>
         /\ Says("materialization", p)' = Says("materialization", p)
         /\ Accepted(p)' = Accepted(p)
-----------------------------------------------------------------------------
(* The helpers of the handlers *)

LEMMA OverIs ==
  ASSUME NEW f, NEW g
  PROVE  /\ DOMAIN Over(f, g) = DOMAIN f \cup DOMAIN g
         /\ \A x \in DOMAIN f : Over(f, g)[x] = f[x]
         /\ \A x \in DOMAIN g : x \notin DOMAIN f => Over(f, g)[x] = g[x]
BY DEF Over

LEMMA WithoutIs ==
  ASSUME NEW f, NEW S
  PROVE  /\ DOMAIN Without(f, S) = DOMAIN f \ S
         /\ \A x \in DOMAIN Without(f, S) : x \in DOMAIN f /\ Without(f, S)[x] = f[x]
BY DEF Without, Restrict

LEMMA SaysIs ==
  ASSUME NEW kind, NEW p, NEW w
  PROVE  /\ w \in Says(kind, p) <=> \E r \in receipts : r.kind = kind /\ r.plan = p /\ w \in r.says
         /\ w \in Says(kind, p)' <=> \E r \in receipts' : r.kind = kind /\ r.plan = p /\ w \in r.says
BY DEF Says

\* A key belongs to one plan.
LEMMA PlanOfIs ==
  ASSUME NEW p \in Plans, NEW key \in KeysOf(p)
  PROVE  PlanOf(key) = p
BY PlanAssumption DEF PlanOf
-----------------------------------------------------------------------------
(* The commands that name no plan *)

\* They leave the receipts alone and make nothing in the agent's name.
UsersOwn ==
  /\ \A n \in DOMAIN nodes' :
       /\ DOMAIN nodes'[n] = NodeFields
       /\ nodes'[n].by \in {"user", "copied"} \/ (n \in DOMAIN nodes /\ nodes'[n].by = nodes[n].by)
  /\ \A i \in DOMAIN edges' :
       /\ DOMAIN edges'[i] = EdgeFields
       /\ edges'[i].plan = None \/ (i \in DOMAIN edges /\ edges'[i] = edges[i])
  /\ receipts' = receipts

LEMMA UsersOwnSafe ==
  ASSUME DocumentInv, UsersOwn
  PROVE  DocumentInv' /\ Stand
<1>1. receipts' = receipts  BY DEF UsersOwn
<1>2. Shaped'  BY <1>1 DEF DocumentInv, Shaped, UsersOwn
<1>3. AllAccounted'
  <2>1. SUFFICES ASSUME NEW i \in DOMAIN edges', NEW p \in Plans, edges'[i].plan = p, p # None
                 PROVE  Accounted(edges[i], p)'
      BY DEF AllAccounted
  <2>2. i \in DOMAIN edges /\ edges'[i] = edges[i] /\ Accounted(edges[i], p)
      BY <2>1 DEF UsersOwn, DocumentInv, AllAccounted
  <2> QED BY <2>2, <1>1 DEF Accounted, NodesOf, TasksOf, Materialized, Says
<1>4. Stand
  <2>1. \A p : Says("materialization", p)' = Says("materialization", p) /\ Accepted(p)' = Accepted(p)
      BY <1>1 DEF Says, Accepted
  <2>2. \A n \in DOMAIN nodes' : nodes'[n].by \notin {"user", "copied"} =>
          n \in DOMAIN nodes /\ nodes[n].by = nodes'[n].by
      BY DEF UsersOwn
  <2> QED BY <1>1, <2>1, <2>2 DEF Stand
<1> QED BY <1>2, <1>3, <1>4 DEF DocumentInv

LEMMA NodesOwn ==
  ASSUME DocumentInv, UNCHANGED <<edges, receipts>>,
         \A n \in DOMAIN nodes' :
           /\ DOMAIN nodes'[n] = NodeFields
           /\ nodes'[n].by \in {"user", "copied"} \/ (n \in DOMAIN nodes /\ nodes'[n].by = nodes[n].by)
  PROVE  UsersOwn
BY DEF UsersOwn, DocumentInv, Shaped

LEMMA EdgesOwn ==
  ASSUME DocumentInv, UNCHANGED <<nodes, receipts>>,
         \A i \in DOMAIN edges' :
           /\ DOMAIN edges'[i] = EdgeFields
           /\ edges'[i].plan = None \/ (i \in DOMAIN edges /\ edges'[i] = edges[i])
  PROVE  UsersOwn
BY DEF UsersOwn, DocumentInv, Shaped

LEMMA PutNode ==
  ASSUME DocumentInv, NEW n, NEW v, nodes' = Put(nodes, n, v), UNCHANGED <<edges, receipts>>,
         DOMAIN v = NodeFields, v.by \in {"user", "copied"}
  PROVE  UsersOwn
<1> DEFINE one == [y \in {n} |-> v]
<1>1. DOMAIN one = {n} /\ one[n] = v  OBVIOUS
<1>2. nodes' = Over(one, nodes)  BY DEF Put
<1> HIDE DEF one
<1>3. /\ DOMAIN Over(one, nodes) = DOMAIN one \cup DOMAIN nodes
      /\ \A m \in DOMAIN one : Over(one, nodes)[m] = one[m]
      /\ \A m \in DOMAIN nodes : m \notin DOMAIN one => Over(one, nodes)[m] = nodes[m]
    BY DEF Over
<1> QED BY <1>1, <1>2, <1>3, NodesOwn DEF DocumentInv, Shaped

LEMMA OverEdges ==
  ASSUME DocumentInv, NEW new, edges' = Over(new, edges), UNCHANGED <<nodes, receipts>>,
         \A i \in DOMAIN new : DOMAIN new[i] = EdgeFields /\ new[i].plan = None
  PROVE  UsersOwn
<1>1. /\ DOMAIN Over(new, edges) = DOMAIN new \cup DOMAIN edges
      /\ \A i \in DOMAIN new : Over(new, edges)[i] = new[i]
      /\ \A i \in DOMAIN edges : i \notin DOMAIN new => Over(new, edges)[i] = edges[i]
    BY OverIs
<1> QED BY <1>1, EdgesOwn DEF DocumentInv, Shaped

LEMMA Removed ==
  ASSUME DocumentInv, NEW gone, RemoveEntities(gone), receipts' = receipts
  PROVE  UsersOwn
<1>1. nodes' = Without(nodes, gone) /\ edges' = Without(edges, Touching(gone))
    BY DEF RemoveEntities
<1>2. \A n \in DOMAIN Without(nodes, gone) : n \in DOMAIN nodes /\ Without(nodes, gone)[n] = nodes[n]
    BY WithoutIs
<1>3. \A S : \A i \in DOMAIN Without(edges, S) : i \in DOMAIN edges /\ Without(edges, S)[i] = edges[i]
    BY WithoutIs
<1> QED BY <1>1, <1>2, <1>3 DEF UsersOwn, DocumentInv, Shaped

LEMMA TaskCommands ==
  ASSUME DocumentInv, CreateTask \/ DeleteTask \/ DeleteTaskAndViews \/ DuplicateTaskAsDraft
  PROVE  UsersOwn
<1>1. CASE CreateTask  BY <1>1, NodesOwn DEF CreateTask, DocumentInv, Shaped
<1>2. CASE DeleteTask
  <2>1. PICK t \in DOMAIN tasks :
          /\ nodes' = [n \in DOMAIN nodes |->
               IF nodes[n].home # t THEN nodes[n]
               ELSE [nodes[n] EXCEPT !.home = None,
                       !.coll = IF tasks[t].coll # None THEN tasks[t].coll ELSE @]]
          /\ edges' = Without(edges, Touching({t})) /\ receipts' = receipts
      BY <1>2 DEF DeleteTask
  <2>2. \A n \in DOMAIN nodes' : n \in DOMAIN nodes /\ DOMAIN nodes'[n] = NodeFields /\ nodes'[n].by = nodes[n].by
      BY <2>1 DEF DocumentInv, Shaped, NodeFields
  <2>3. \A S : \A i \in DOMAIN Without(edges, S) : i \in DOMAIN edges /\ Without(edges, S)[i] = edges[i]
      BY WithoutIs
  <2>4. edges' = Without(edges, Touching({t})) /\ receipts' = receipts  BY <2>1
  <2> QED BY <2>2, <2>3, <2>4 DEF UsersOwn, DocumentInv, Shaped
<1>3. CASE DeleteTaskAndViews
  <2>1. PICK gone : RemoveEntities(gone) /\ receipts' = receipts  BY <1>3 DEF DeleteTaskAndViews
  <2> QED BY <2>1, Removed
<1>4. CASE DuplicateTaskAsDraft
  <2>1. PICK s \in DOMAIN tasks, t \in UserTasks \ Taken :
          LET ids == {<<"draft", t, i>> : i \in {j \in DOMAIN edges : edges[j].to = s}} IN
          /\ edges' = Over([i \in ids |-> [edges[i[3]] EXCEPT !.to = t, !.plan = None]], edges)
          /\ UNCHANGED <<nodes, receipts>>
      BY <1>4 DEF DuplicateTaskAsDraft
  <2> DEFINE ids == {<<"draft", t, i>> : i \in {j \in DOMAIN edges : edges[j].to = s}}
             copies == [i \in ids |-> [edges[i[3]] EXCEPT !.to = t, !.plan = None]]
  <2>2. \A i \in DOMAIN copies : DOMAIN copies[i] = EdgeFields /\ copies[i].plan = None
    <3>1. ASSUME NEW e, DOMAIN e = EdgeFields
          PROVE  LET c == [e EXCEPT !.to = t, !.plan = None] IN DOMAIN c = EdgeFields /\ c.plan = None
        BY <3>1 DEF EdgeFields
    <3>2. \A j \in DOMAIN edges : DOMAIN edges[j] = EdgeFields  BY DEF DocumentInv, Shaped
    <3>3. ASSUME NEW i \in ids
          PROVE  i[3] \in DOMAIN edges /\ copies[i] = [edges[i[3]] EXCEPT !.to = t, !.plan = None]
      <4>1. PICK j \in DOMAIN edges : i = <<"draft", t, j>>  OBVIOUS
      <4> QED BY <4>1
    <3> HIDE DEF copies
    <3>4. DOMAIN copies = ids  BY DEF copies
    <3>5. ASSUME NEW i \in ids  PROVE DOMAIN copies[i] = EdgeFields /\ copies[i].plan = None
      <4>1. DOMAIN edges[i[3]] = EdgeFields  BY <3>2, <3>3
      <4> QED BY <4>1, <3>1, <3>3
    <3> QED BY <3>4, <3>5
  <2> HIDE DEF copies, ids
  <2>3. edges' = Over(copies, edges)  BY <2>1 DEF copies, ids
  <2> QED BY <2>1, <2>2, <2>3, OverEdges
<1> QED BY <1>1, <1>2, <1>3, <1>4

LEMMA NodeCommands ==
  ASSUME DocumentInv,
         \/ CreateNode \/ UpdateNodeContent \/ ReparentNodes \/ DeleteNode \/ DuplicateNode
         \/ DetachNodeFromTask \/ AssignNodeToTask
  PROVE  UsersOwn
<1> USE DEF DocumentInv, Shaped, NodeFields
<1>1. CASE CreateNode
  <2>1. PICK n, v : /\ nodes' = Put(nodes, n, v) /\ UNCHANGED <<edges, receipts>>
                    /\ DOMAIN v = NodeFields /\ v.by = "user"
      BY <1>1 DEF CreateNode
  <2> QED BY <2>1, PutNode
<1>2. CASE UpdateNodeContent  BY <1>2, NodesOwn DEF UpdateNodeContent
<1>3. CASE ReparentNodes
  <2>1. \A n \in DOMAIN nodes' : n \in DOMAIN nodes /\ DOMAIN nodes'[n] = NodeFields /\ nodes'[n].by = nodes[n].by
      BY <1>3 DEF ReparentNodes
  <2> QED BY <1>3, <2>1, NodesOwn DEF ReparentNodes
<1>4. CASE DeleteNode
  <2>1. PICK gone : RemoveEntities(gone) /\ receipts' = receipts  BY <1>4 DEF DeleteNode
  <2> QED BY <2>1, Removed
<1>5. CASE DuplicateNode
  <2>1. PICK n, copy :
          /\ n \in DOMAIN nodes
          /\ nodes' = Put(nodes, copy, [nodes[n] EXCEPT !.parent = None, !.by = "copied"])
          /\ UNCHANGED <<edges, receipts>>
      BY <1>5 DEF DuplicateNode
  <2> DEFINE v == [nodes[n] EXCEPT !.parent = None, !.by = "copied"]
  <2>2. DOMAIN v = NodeFields /\ v.by = "copied"  BY <2>1
  <2> HIDE DEF v
  <2>3. nodes' = Put(nodes, copy, v)  BY <2>1 DEF v
  <2> QED BY <2>1, <2>2, <2>3, PutNode
<1>6. CASE DetachNodeFromTask  BY <1>6, NodesOwn DEF DetachNodeFromTask
<1>7. CASE AssignNodeToTask
  <2>1. PICK n \in DOMAIN nodes, t \in DOMAIN tasks :
          nodes' = [nodes EXCEPT ![n].home = t, ![n].coll = None] /\ UNCHANGED <<edges, receipts>>
      BY <1>7 DEF AssignNodeToTask
  <2>2. \A m \in DOMAIN nodes' : m \in DOMAIN nodes /\ DOMAIN nodes'[m] = NodeFields /\ nodes'[m].by = nodes[m].by
      BY <2>1
  <2> QED BY <2>1, <2>2, NodesOwn
<1> QED BY <1>1, <1>2, <1>3, <1>4, <1>5, <1>6, <1>7

LEMMA EdgeCommands ==
  ASSUME DocumentInv, CreateEdge \/ UpdateEdge \/ DeleteEdge \/ CreateTaskForOutputSlot \/ CreateDerivedTask
  PROVE  UsersOwn
<1>1. \A f, t, link : DOMAIN UserEdge(f, t, link) = EdgeFields /\ UserEdge(f, t, link).plan = None
    BY DEF UserEdge, EdgeFields
<1> USE DEF DocumentInv, Shaped
<1>2. CASE CreateEdge
  <2>1. PICK i, e : /\ edges' = Put(edges, i, e) /\ UNCHANGED <<nodes, receipts>>
                    /\ DOMAIN e = EdgeFields /\ e.plan = None
      BY <1>1, <1>2 DEF CreateEdge
  <2> DEFINE one == [y \in {i} |-> e]
  <2>2. DOMAIN one = {i} /\ one[i] = e  OBVIOUS
  <2>3. edges' = Over(one, edges)  BY <2>1 DEF Put
  <2> HIDE DEF one
  <2> QED BY <2>1, <2>2, <2>3, OverEdges
<1>3. CASE UpdateEdge
  <2>1. PICK i \in DOMAIN edges, link \in UserLinks, f, t \in DOMAIN nodes \cup DOMAIN tasks :
          /\ edges' = [edges EXCEPT ![i] = UserEdge(f, t, link)] /\ UNCHANGED <<nodes, receipts>>
      BY <1>3 DEF UpdateEdge
  <2>2. DOMAIN edges' = DOMAIN edges /\ edges'[i] = UserEdge(f, t, link)
        /\ \A j \in DOMAIN edges : j # i => edges'[j] = edges[j]
      BY <2>1
  <2> QED BY <1>1, <2>1, <2>2, EdgesOwn
<1>4. CASE DeleteEdge
  <2>1. PICK S : edges' = Without(edges, S) /\ UNCHANGED <<nodes, receipts>>
      BY <1>4 DEF DeleteEdge
  <2>2. \A i \in DOMAIN Without(edges, S) : i \in DOMAIN edges /\ Without(edges, S)[i] = edges[i]
      BY WithoutIs
  <2> QED BY <2>1, <2>2, EdgesOwn
<1>5. CASE CreateTaskForOutputSlot
  <2>1. PICK n \in DOMAIN nodes, t \in UserTasks \ Taken :
          LET promoted == {i \in DOMAIN edges : edges[i].to = n /\ IsContext(edges[i])}
              sources == {edges[i].from : i \in promoted}
              roleOf(x) == IF \E i \in promoted : edges[i].from = x /\ edges[i].role = "full"
                           THEN "full" ELSE "summary"
              inputs == [i \in {<<"slot-input", t, x>> : x \in sources} |->
                UserEdge(i[3], t, [relation |-> IF i[3] \in DOMAIN tasks THEN "depends-on" ELSE "source",
                                   role |-> roleOf(i[3])])] IN
          /\ nodes' = [nodes EXCEPT ![n].home = t, ![n].coll = None]
          /\ edges' = Over(inputs, Without(edges, promoted)) /\ receipts' = receipts
      BY <1>5 DEF CreateTaskForOutputSlot
  <2> DEFINE promoted == {i \in DOMAIN edges : edges[i].to = n /\ IsContext(edges[i])}
             sources == {edges[i].from : i \in promoted}
             roleOf(x) == IF \E i \in promoted : edges[i].from = x /\ edges[i].role = "full"
                          THEN "full" ELSE "summary"
             inputs == [i \in {<<"slot-input", t, x>> : x \in sources} |->
               UserEdge(i[3], t, [relation |-> IF i[3] \in DOMAIN tasks THEN "depends-on" ELSE "source",
                                  role |-> roleOf(i[3])])]
  <2>5. \A i \in DOMAIN inputs : DOMAIN inputs[i] = EdgeFields /\ inputs[i].plan = None
    <3> HIDE DEF sources, roleOf
    <3> QED BY <1>1
  <2>6. /\ nodes' = [nodes EXCEPT ![n].home = t, ![n].coll = None]
        /\ edges' = Over(inputs, Without(edges, promoted)) /\ receipts' = receipts
      BY <2>1
  <2> HIDE DEF promoted, inputs
  <2>2. \A m \in DOMAIN nodes' : m \in DOMAIN nodes /\ DOMAIN nodes'[m] = NodeFields /\ nodes'[m].by = nodes[m].by
      BY <2>6 DEF NodeFields
  <2>3. \A i \in DOMAIN Without(edges, promoted) : i \in DOMAIN edges /\ Without(edges, promoted)[i] = edges[i]
      BY WithoutIs
  <2> DEFINE rest == Without(edges, promoted)
  <2> HIDE DEF rest
  <2>4. /\ DOMAIN Over(inputs, rest) = DOMAIN inputs \cup DOMAIN rest
        /\ \A i \in DOMAIN inputs : Over(inputs, rest)[i] = inputs[i]
        /\ \A i \in DOMAIN rest : i \notin DOMAIN inputs => Over(inputs, rest)[i] = rest[i]
      BY DEF Over
  <2>7. edges' = Over(inputs, rest)  BY <2>6 DEF rest
  <2>8. \A i \in DOMAIN rest : i \in DOMAIN edges /\ rest[i] = edges[i]  BY <2>3 DEF rest
  <2> QED BY <2>2, <2>4, <2>5, <2>6, <2>7, <2>8 DEF UsersOwn
<1>6. CASE CreateDerivedTask
  <2>1. PICK t \in UserTasks \ Taken, from \in Picks(DOMAIN nodes \cup DOMAIN tasks),
             relation \in {"source", "modified"} :
          /\ edges' = Over([i \in {<<"derived-source", t, x>> : x \in from} |->
                UserEdge(i[3], t, [relation |-> relation, role |-> "full"])], edges)
          /\ UNCHANGED <<nodes, receipts>>
      BY <1>6 DEF CreateDerivedTask
  <2> DEFINE inputs == [i \in {<<"derived-source", t, x>> : x \in from} |->
                          UserEdge(i[3], t, [relation |-> relation, role |-> "full"])]
  <2>2. \A i \in DOMAIN inputs : DOMAIN inputs[i] = EdgeFields /\ inputs[i].plan = None
      BY <1>1
  <2>3. edges' = Over(inputs, edges) /\ UNCHANGED <<nodes, receipts>>  BY <2>1
  <2> HIDE DEF inputs
  <2> QED BY <2>2, <2>3, OverEdges
<1> QED BY <1>2, <1>3, <1>4, <1>5, <1>6

LEMMA CollectionCommands ==
  ASSUME DocumentInv,
         \/ CreateCollection \/ AssignToCollection \/ RemoveFromCollection \/ DissolveCollection
         \/ DeleteCollectionAndContents \/ DuplicateCollection
  PROVE  UsersOwn
<1> USE DEF DocumentInv, Shaped, NodeFields
<1>1. ASSUME NEW S, NEW c, SetCollection(S, c), UNCHANGED <<edges, receipts>>  PROVE UsersOwn
  <2>1. nodes' = [n \in DOMAIN nodes |-> IF n \in S THEN [nodes[n] EXCEPT !.coll = c] ELSE nodes[n]]
      BY <1>1 DEF SetCollection
  <2>2. \A n \in DOMAIN nodes' : n \in DOMAIN nodes /\ DOMAIN nodes'[n] = NodeFields /\ nodes'[n].by = nodes[n].by
      BY <2>1
  <2> QED BY <1>1, <2>2, NodesOwn
<1>2. CASE CreateCollection  BY <1>1, <1>2 DEF CreateCollection
<1>3. CASE AssignToCollection  BY <1>1, <1>3 DEF AssignToCollection
<1>4. CASE RemoveFromCollection  BY <1>1, <1>4 DEF RemoveFromCollection
<1>5. CASE DissolveCollection  BY <1>1, <1>5 DEF DissolveCollection
<1>6. CASE DeleteCollectionAndContents
  <2>1. PICK gone : RemoveEntities(gone) /\ receipts' = receipts
      BY <1>6 DEF DeleteCollectionAndContents
  <2> QED BY <2>1, Removed
<1>7. CASE DuplicateCollection
  <2>1. PICK c \in collections, d \in UserCollections \ Taken :
          LET copied == Members(c) \cup Homed(Members(c))
              between == {i \in DOMAIN edges : {edges[i].from, edges[i].to} \subseteq copied} IN
          /\ nodes' = Over([i \in {<<d, n>> : n \in copied \cap DOMAIN nodes} |->
               LET home == nodes[i[2]].home IN
               [nodes[i[2]] EXCEPT !.parent = None, !.by = "copied",
                  !.home = IF home \in copied THEN <<d, home>> ELSE None,
                  !.coll = IF home \in copied THEN None ELSE d]], nodes)
          /\ edges' = Over([i \in {<<"duplicate", d, i>> : i \in between} |->
               [edges[i[3]] EXCEPT !.from = <<d, @>>, !.to = <<d, @>>, !.plan = None]], edges)
          /\ receipts' = receipts
      BY <1>7 DEF DuplicateCollection
  <2> DEFINE copied == Members(c) \cup Homed(Members(c))
             between == {i \in DOMAIN edges : {edges[i].from, edges[i].to} \subseteq copied}
             newNodes == [i \in {<<d, n>> : n \in copied \cap DOMAIN nodes} |->
               LET home == nodes[i[2]].home IN
               [nodes[i[2]] EXCEPT !.parent = None, !.by = "copied",
                  !.home = IF home \in copied THEN <<d, home>> ELSE None,
                  !.coll = IF home \in copied THEN None ELSE d]]
             newEdges == [i \in {<<"duplicate", d, i>> : i \in between} |->
               [edges[i[3]] EXCEPT !.from = <<d, @>>, !.to = <<d, @>>, !.plan = None]]
  <2>2. /\ nodes' = Over(newNodes, nodes) /\ edges' = Over(newEdges, edges) /\ receipts' = receipts
      BY <2>1
  <2>3. ASSUME NEW i \in DOMAIN newNodes
        PROVE  DOMAIN newNodes[i] = NodeFields /\ newNodes[i].by = "copied"
    <3>1. PICK n \in copied \cap DOMAIN nodes : i = <<d, n>>  BY <2>3
    <3> HIDE DEF copied
    <3>2. newNodes[i] = [nodes[n] EXCEPT !.parent = None, !.by = "copied",
                           !.home = IF nodes[n].home \in copied THEN <<d, nodes[n].home>> ELSE None,
                           !.coll = IF nodes[n].home \in copied THEN None ELSE d]
        BY <3>1
    <3> HIDE DEF newNodes
    <3>3. DOMAIN nodes[n] = NodeFields  BY <3>1
    <3> QED BY <3>2, <3>3
  <2>4. ASSUME NEW i \in DOMAIN newEdges
        PROVE  DOMAIN newEdges[i] = EdgeFields /\ newEdges[i].plan = None
    <3> HIDE DEF copied
    <3>1. PICK j \in between : i = <<"duplicate", d, j>>  BY <2>4
    <3>2. newEdges[i] = [edges[j] EXCEPT !.from = <<d, @>>, !.to = <<d, @>>, !.plan = None]
        BY <3>1
    <3> HIDE DEF newEdges
    <3>3. DOMAIN edges[j] = EdgeFields  BY <3>1
    <3> QED BY <3>2, <3>3 DEF EdgeFields
  <2> HIDE DEF newNodes, newEdges
  <2>5. /\ DOMAIN Over(newNodes, nodes) = DOMAIN newNodes \cup DOMAIN nodes
        /\ \A i \in DOMAIN newNodes : Over(newNodes, nodes)[i] = newNodes[i]
        /\ \A i \in DOMAIN nodes : i \notin DOMAIN newNodes => Over(newNodes, nodes)[i] = nodes[i]
      BY DEF Over
  <2>6. /\ DOMAIN Over(newEdges, edges) = DOMAIN newEdges \cup DOMAIN edges
        /\ \A i \in DOMAIN newEdges : Over(newEdges, edges)[i] = newEdges[i]
        /\ \A i \in DOMAIN edges : i \notin DOMAIN newEdges => Over(newEdges, edges)[i] = edges[i]
      BY DEF Over
  <2>7. \A n \in DOMAIN nodes' :
           /\ DOMAIN nodes'[n] = NodeFields
           /\ nodes'[n].by \in {"user", "copied"} \/ (n \in DOMAIN nodes /\ nodes'[n].by = nodes[n].by)
      BY <2>2, <2>3, <2>5
  <2>8. \A i \in DOMAIN edges' :
           /\ DOMAIN edges'[i] = EdgeFields
           /\ edges'[i].plan = None \/ (i \in DOMAIN edges /\ edges'[i] = edges[i])
      BY <2>2, <2>4, <2>6
  <2> QED BY <2>2, <2>7, <2>8 DEF UsersOwn
<1> QED BY <1>2, <1>3, <1>4, <1>5, <1>6, <1>7

LEMMA UserCommands ==
  ASSUME DocumentInv, PlainCommand \/ DestructiveCommand
  PROVE  DocumentInv' /\ Stand
<1>1. UsersOwn
    BY TaskCommands, NodeCommands, EdgeCommands, CollectionCommands
       DEF PlainCommand, DestructiveCommand
<1> QED BY <1>1, UsersOwnSafe
-----------------------------------------------------------------------------
(* The commands that name a plan *)

\* Edges of plan p that join what `made' and `accepted' allow.
PlanEdges(f, p, made, accepted) ==
  \A i \in DOMAIN f :
    DOMAIN f[i] = EdgeFields /\ f[i].plan = p /\ Joins(f[i], Plan[p].task, made, accepted)

LEMMA BothPlanEdges ==
  ASSUME NEW p, NEW made, NEW accepted, NEW f, NEW g,
         PlanEdges(f, p, made, accepted), PlanEdges(g, p, made, accepted)
  PROVE  PlanEdges(Over(f, g), p, made, accepted)
<1>1. /\ DOMAIN Over(f, g) = DOMAIN f \cup DOMAIN g
      /\ \A x \in DOMAIN f : Over(f, g)[x] = f[x]
      /\ \A x \in DOMAIN g : x \notin DOMAIN f => Over(f, g)[x] = g[x]
    BY OverIs
<1> DEFINE h == Over(f, g)
<1>2. ASSUME NEW i \in DOMAIN h
      PROVE  (i \in DOMAIN f /\ h[i] = f[i]) \/ (i \in DOMAIN g /\ h[i] = g[i])
    BY <1>1
<1> HIDE DEF h
<1>3. PlanEdges(h, p, made, accepted)  BY <1>2 DEF PlanEdges
<1> QED BY <1>3 DEF h

LEMMA ProducedEdgesAre ==
  ASSUME NEW p, NEW made, NEW accepted, NEW fresh, NEW at, \A o \in fresh : at[o] \in made
  PROVE  PlanEdges(ProducedEdges(p, fresh, at), p, made, accepted)
<1> SUFFICES ASSUME NEW i \in DOMAIN ProducedEdges(p, fresh, at)
             PROVE  LET e == ProducedEdges(p, fresh, at)[i] IN
                    DOMAIN e = EdgeFields /\ e.plan = p /\ Joins(e, Plan[p].task, made, accepted)
    BY DEF PlanEdges
<1>1. PICK o \in fresh : i = <<"produced", o>>  BY DEF ProducedEdges
<1>2. ProducedEdges(p, fresh, at)[i] = AgentEdge(Plan[p].task, at[o], "produced", Output[o].role, p)
    BY <1>1 DEF ProducedEdges
<1> QED BY <1>1, <1>2 DEF AgentEdge, EdgeFields, Joins

LEMMA DerivedEdgesAre ==
  ASSUME NEW p, NEW made, NEW accepted, NEW fresh, NEW at, \A o \in DOMAIN at : at[o] \in made
  PROVE  PlanEdges(DerivedEdges(p, fresh, at), p, made, accepted)
<1> SUFFICES ASSUME NEW i \in DOMAIN DerivedEdges(p, fresh, at)
             PROVE  LET e == DerivedEdges(p, fresh, at)[i] IN
                    DOMAIN e = EdgeFields /\ e.plan = p /\ Joins(e, Plan[p].task, made, accepted)
    BY DEF PlanEdges
<1>1. PICK x \in (DOMAIN at) \X (DOMAIN at) : i = <<"derived", x[1], x[2]>>  BY DEF DerivedEdges
<1>2. DerivedEdges(p, fresh, at)[i] = AgentEdge(at[x[1]], at[x[2]], "derived", "full", p)
    BY <1>1 DEF DerivedEdges
<1>3. at[x[1]] \in made /\ at[x[2]] \in made  BY <1>1
<1> QED BY <1>2, <1>3 DEF AgentEdge, EdgeFields, Joins

LEMMA ProposalEdgesAre ==
  ASSUME NEW p, NEW made, NEW accepted, NEW chosen, NEW needs, NEW at,
         chosen \subseteq accepted,
         \A q \in chosen : \A o \in OutputsOf(p) : o \in Inputs[q] => at[o] \in made
  PROVE  PlanEdges(ProposalEdges(p, chosen, needs, at), p, made, accepted)
<1> DEFINE sources == [i \in {<<"proposal-source", x[1], x[2]>> :
             x \in {y \in OutputsOf(p) \X chosen : y[1] \in Inputs[y[2]]}} |->
             AgentEdge(at[i[2]], i[3], "source", "full", p)]
           waits == [i \in {<<"proposal-dependency", x[1], x[2]>> :
             x \in {y \in chosen \X chosen : y[1] \in needs[y[2]]}} |->
             AgentEdge(i[2], i[3], "depends-on", "summary", p)]
<1>1. PlanEdges(sources, p, made, accepted)
  <2> SUFFICES ASSUME NEW i \in DOMAIN sources
               PROVE  DOMAIN sources[i] = EdgeFields /\ sources[i].plan = p
                      /\ Joins(sources[i], Plan[p].task, made, accepted)
      BY DEF PlanEdges
  <2>1. PICK x \in OutputsOf(p) \X chosen : x[1] \in Inputs[x[2]] /\ i = <<"proposal-source", x[1], x[2]>>
      OBVIOUS
  <2>2. sources[i] = AgentEdge(at[x[1]], x[2], "source", "full", p)  BY <2>1
  <2>3. at[x[1]] \in made /\ x[2] \in accepted  BY <2>1
  <2> HIDE DEF sources
  <2> QED BY <2>2, <2>3 DEF AgentEdge, EdgeFields, Joins
<1>2. PlanEdges(waits, p, made, accepted)
  <2> SUFFICES ASSUME NEW i \in DOMAIN waits
               PROVE  DOMAIN waits[i] = EdgeFields /\ waits[i].plan = p
                      /\ Joins(waits[i], Plan[p].task, made, accepted)
      BY DEF PlanEdges
  <2>1. PICK x \in chosen \X chosen : i = <<"proposal-dependency", x[1], x[2]>>  OBVIOUS
  <2>2. waits[i] = AgentEdge(x[1], x[2], "depends-on", "summary", p)  BY <2>1
  <2>3. x[1] \in accepted /\ x[2] \in accepted  BY <2>1
  <2> HIDE DEF waits
  <2> QED BY <2>2, <2>3 DEF AgentEdge, EdgeFields, Joins
<1>3. ProposalEdges(p, chosen, needs, at) = Over(sources, waits)  BY DEF ProposalEdges
<1> HIDE DEF sources, waits
<1> QED BY <1>1, <1>2, <1>3, BothPlanEdges

\* Each receipt stands, or has more outcomes.
Kept ==
  \A r \in receipts : \E s \in receipts' :
    /\ s.kind = r.kind /\ s.plan = r.plan
    /\ IF r.kind = "materialization" THEN r.says \subseteq s.says ELSE s.says = r.says

\* What a plan's commands do: what they make is of the plan, and new; receipts
\* are kept, and those of a plan once dismissed are as they were.
PlansOwn(p) ==
  /\ \A n \in DOMAIN nodes' :
       /\ DOMAIN nodes'[n] = NodeFields
       /\ \/ n \in DOMAIN nodes /\ nodes'[n].by = nodes[n].by
          \/ nodes'[n].by \in KeysOf(p) /\ \A w \in Materialized(p) : w[1] # nodes'[n].by
  /\ \A i \in DOMAIN edges' :
       \/ i \in DOMAIN edges /\ edges'[i] = edges[i]
       \/ DOMAIN edges'[i] = EdgeFields /\ edges'[i].plan = p
          /\ Joins(edges'[i], Plan[p].task, NodesOf(p)', TasksOf(p)')
  /\ Kept
  /\ \A r \in receipts' :
       /\ r.kind = "materialization" => \A w \in r.says : w[1] \in OutputsOf(r.plan)
       /\ r.kind = "graph-materialization" => \A w \in r.says : w[1] \in DOMAIN Plan[r.plan].graph
  /\ \A q \in Plans :
       Has("plan-dismissal", q) =>
         /\ Says("materialization", q)' = Says("materialization", q)
         /\ Accepted(q)' = Accepted(q)

LEMMA PlansOwnSafe ==
  ASSUME DocumentInv, NEW p \in Plans, PlansOwn(p)
  PROVE  DocumentInv' /\ Stand
<1>1. Shaped'  BY DEF DocumentInv, Shaped, PlansOwn
<1>2. \A kind, q : Says(kind, q) \subseteq Says(kind, q)'
  <2> SUFFICES ASSUME NEW kind, NEW q, NEW r \in receipts, r.kind = kind, r.plan = q,
                      NEW w \in r.says
               PROVE  \E s \in receipts' : s.kind = kind /\ s.plan = q /\ w \in s.says
      BY DEF Says
  <2> QED BY DEF PlansOwn, Kept
<1>3. \A q : NodesOf(q) \subseteq NodesOf(q)' /\ TasksOf(q) \subseteq TasksOf(q)'
    BY <1>2 DEF NodesOf, TasksOf, Materialized
<1>4. AllAccounted'
  <2>0. SUFFICES ASSUME NEW i \in DOMAIN edges', NEW q \in Plans, edges'[i].plan = q, q # None
                 PROVE  Joins(edges'[i], Plan[q].task, NodesOf(q)', TasksOf(q)')
      BY DEF AllAccounted, Accounted
  <2>1. CASE i \in DOMAIN edges /\ edges'[i] = edges[i]
    <3>1. Joins(edges[i], Plan[q].task, NodesOf(q), TasksOf(q))
        BY <2>0, <2>1 DEF DocumentInv, AllAccounted, Accounted
    <3> QED BY <3>1, <2>1, <1>3 DEF Joins
  <2>2. CASE edges'[i].plan = p /\ Joins(edges'[i], Plan[p].task, NodesOf(p)', TasksOf(p)')
      BY <2>0, <2>2
  <2> QED BY <2>1, <2>2 DEF PlansOwn
<1>5. Stand
  <2>1. ASSUME NEW n \in DOMAIN nodes', nodes'[n].by \notin {"user", "copied"}
        PROVE  \/ n \in DOMAIN nodes /\ nodes[n].by = nodes'[n].by
               \/ \A w \in Materialized(PlanOf(nodes'[n].by)) : w[1] # nodes'[n].by
    <3>1. CASE n \in DOMAIN nodes /\ nodes'[n].by = nodes[n].by  BY <3>1
    <3>2. CASE nodes'[n].by \in KeysOf(p) /\ \A w \in Materialized(p) : w[1] # nodes'[n].by
      <4>1. PICK key \in KeysOf(p) : key = nodes'[n].by  BY <3>2
      <4>2. PlanOf(key) = p  BY PlanOfIs
      <4> QED BY <4>1, <4>2, <3>2
    <3> QED BY <3>1, <3>2 DEF PlansOwn
  <2> QED BY <2>1 DEF Stand, PlansOwn, Kept
<1> QED BY <1>1, <1>4, <1>5 DEF DocumentInv

LEMMA ReceiptAdded ==
  ASSUME NEW r, receipts' = receipts \cup {r}
  PROVE  /\ Kept
         /\ r.says \subseteq Says(r.kind, r.plan)'
         /\ \A kind, q : kind # r.kind \/ q # r.plan => Says(kind, q)' = Says(kind, q)
<1>1. Kept  BY DEF Kept
<1>2. r.says \subseteq Says(r.kind, r.plan)'  BY DEF Says
<1>3. ASSUME NEW kind, NEW q, kind # r.kind \/ q # r.plan
      PROVE  Says(kind, q)' = Says(kind, q)
  <2>1. {s \in receipts' : s.kind = kind /\ s.plan = q} = {s \in receipts : s.kind = kind /\ s.plan = q}
      BY <1>3
  <2> QED BY <2>1 DEF Says
<1> QED BY <1>1, <1>2, <1>3

\* What the receipts of a plan say was made is of the plan.
LEMMA SaidOfThePlan ==
  ASSUME DocumentInv, NEW p
  PROVE  /\ \A w \in Says("materialization", p) : w[1] \in OutputsOf(p)
         /\ \A w \in Says("graph-materialization", p) : w[1] \in DOMAIN Plan[p].graph
<1>1. \A kind : \A w \in Says(kind, p) : \E r \in receipts : r.kind = kind /\ r.plan = p /\ w \in r.says
    BY SaysIs
<1> QED BY <1>1 DEF DocumentInv, Shaped

\* A plan with no receipt of a kind has made nothing of that kind.
LEMMA SaysNothing ==
  ASSUME NEW kind, NEW p, ~Has(kind, p)
  PROVE  Says(kind, p) = {}
BY DEF Has, Says

LEMMA Materializes ==
  ASSUME DocumentInv, NEW p \in Plans, ~IsIdempotentReplay("materialize", p),
         MaterializeProjectionPlan(p)
  PROVE  PlansOwn(p)
<1>1. PICK at :
        LET own == {o \in DOMAIN at : at[o] = o}
            new == Over(ProducedEdges(p, DOMAIN at, at), DerivedEdges(p, DOMAIN at, at)) IN
        /\ DOMAIN at \subseteq OutputsOf(p)
        /\ nodes' = Over([o \in own |-> OutputNode(o, p)],
             [n \in DOMAIN nodes |->
                IF \E o \in DOMAIN at \ own : at[o] = n
                THEN [nodes[n] EXCEPT !.by = CHOOSE o \in DOMAIN at \ own : at[o] = n]
                ELSE nodes[n]])
        /\ edges' = Over(new, edges)
        /\ receipts' = receipts \cup {[kind |-> "materialization", plan |-> p,
                                       says |-> {<<o, at[o]>> : o \in DOMAIN at}]}
  <2> DEFINE at == [o \in {x \in OutputsOf(p) : Output[x].shown} |->
               IF Adopted(p, o) = {} THEN o ELSE CHOOSE n \in Adopted(p, o) : TRUE]
  <2>1. DOMAIN at \subseteq OutputsOf(p)  OBVIOUS
  <2> QED BY <2>1 DEF MaterializeProjectionPlan
<1> DEFINE own == {o \in DOMAIN at : at[o] = o}
           kept == [n \in DOMAIN nodes |->
                IF \E o \in DOMAIN at \ own : at[o] = n
                THEN [nodes[n] EXCEPT !.by = CHOOSE o \in DOMAIN at \ own : at[o] = n]
                ELSE nodes[n]]
           mine == [o \in own |-> OutputNode(o, p)]
           says == {<<o, at[o]>> : o \in DOMAIN at}
           receipt == [kind |-> "materialization", plan |-> p, says |-> says]
<1>2. ~Has("materialization", p) /\ ~Has("plan-dismissal", p)  BY DEF IsIdempotentReplay
<1>3. \A o \in OutputsOf(p) : \A w \in Materialized(p) : w[1] # o
    BY <1>2, SaysNothing, SaidOfThePlan, PlanAssumption DEF Materialized
<1>4. ASSUME NEW n \in DOMAIN nodes'
      PROVE  /\ DOMAIN nodes'[n] = NodeFields
             /\ \/ n \in DOMAIN nodes /\ nodes'[n].by = nodes[n].by
                \/ nodes'[n].by \in OutputsOf(p)
  <2>1. \A o \in DOMAIN mine : DOMAIN mine[o] = NodeFields /\ mine[o].by = o /\ o \in OutputsOf(p)
      BY <1>1 DEF OutputNode, NodeFields
  <2>2. ASSUME NEW m \in DOMAIN kept
        PROVE  /\ m \in DOMAIN nodes
               /\ DOMAIN kept[m] = NodeFields
               /\ kept[m].by = nodes[m].by \/ kept[m].by \in OutputsOf(p)
    <3>1. DOMAIN nodes[m] = NodeFields  BY DEF DocumentInv, Shaped
    <3>2. CASE \E o \in DOMAIN at \ own : at[o] = m
      <4> DEFINE taker == CHOOSE o \in DOMAIN at \ own : at[o] = m
      <4>1. taker \in DOMAIN at  BY <3>2
      <4>2. kept[m] = [nodes[m] EXCEPT !.by = taker]  BY <3>2
      <4>3. m \in DOMAIN nodes  OBVIOUS
      <4>4. taker \in OutputsOf(p)  BY <1>1, <4>1
      <4> HIDE DEF taker, kept
      <4> QED BY <3>1, <4>2, <4>3, <4>4 DEF NodeFields
    <3>3. CASE ~\E o \in DOMAIN at \ own : at[o] = m
      <4>1. kept[m] = nodes[m]  BY <3>3
      <4> QED BY <3>1, <4>1
    <3> QED BY <3>2, <3>3
  <2>3. nodes' = Over(mine, kept)  BY <1>1
  <2> HIDE DEF mine, kept
  <2>4. /\ DOMAIN Over(mine, kept) = DOMAIN mine \cup DOMAIN kept
        /\ \A x \in DOMAIN mine : Over(mine, kept)[x] = mine[x]
        /\ \A x \in DOMAIN kept : x \notin DOMAIN mine => Over(mine, kept)[x] = kept[x]
      BY OverIs
  <2>5. \/ n \in DOMAIN mine /\ nodes'[n] = mine[n]
        \/ n \in DOMAIN kept /\ nodes'[n] = kept[n]
      BY <2>3, <2>4
  <2> QED BY <2>1, <2>2, <2>5
<1>5. receipts' = receipts \cup {receipt}  BY <1>1
<1>6. /\ Kept
      /\ says \subseteq Says("materialization", p)'
      /\ \A kind, q : kind # "materialization" \/ q # p => Says(kind, q)' = Says(kind, q)
  <2>1. receipt.kind = "materialization" /\ receipt.plan = p /\ receipt.says = says  OBVIOUS
  <2> HIDE DEF receipt
  <2> QED BY <1>5, <2>1, ReceiptAdded
<1>7. \A o \in DOMAIN at : at[o] \in NodesOf(p)'
  <2>1. \A w \in says : w[2] \in NodesOf(p)'  BY <1>6 DEF NodesOf, Materialized
  <2>2. \A o \in DOMAIN at : <<o, at[o]>> \in says /\ <<o, at[o]>>[2] = at[o]  OBVIOUS
  <2> HIDE DEF says
  <2> QED BY <2>1, <2>2
<1>8. ASSUME NEW i \in DOMAIN edges'
      PROVE  \/ i \in DOMAIN edges /\ edges'[i] = edges[i]
             \/ DOMAIN edges'[i] = EdgeFields /\ edges'[i].plan = p
                /\ Joins(edges'[i], Plan[p].task, NodesOf(p)', TasksOf(p)')
  <2>1. PICK made, accepted : made = NodesOf(p)' /\ accepted = TasksOf(p)'  OBVIOUS
  <2> DEFINE new == Over(ProducedEdges(p, DOMAIN at, at), DerivedEdges(p, DOMAIN at, at))
  <2>2. \A o \in DOMAIN at : at[o] \in made  BY <1>7, <2>1
  <2>3. PlanEdges(ProducedEdges(p, DOMAIN at, at), p, made, accepted)  BY <2>2, ProducedEdgesAre
  <2>4. PlanEdges(DerivedEdges(p, DOMAIN at, at), p, made, accepted)  BY <2>2, DerivedEdgesAre
  <2>5. PlanEdges(new, p, made, accepted)  BY <2>3, <2>4, BothPlanEdges
  <2>6. edges' = Over(new, edges)  BY <1>1
  <2> HIDE DEF new
  <2>7. /\ DOMAIN Over(new, edges) = DOMAIN new \cup DOMAIN edges
        /\ \A x \in DOMAIN new : Over(new, edges)[x] = new[x]
        /\ \A x \in DOMAIN edges : x \notin DOMAIN new => Over(new, edges)[x] = edges[x]
      BY OverIs
  <2> QED BY <2>1, <2>5, <2>6, <2>7 DEF PlanEdges
<1>9. ASSUME NEW r \in receipts'
      PROVE  /\ r.kind = "materialization" => \A w \in r.says : w[1] \in OutputsOf(r.plan)
             /\ r.kind = "graph-materialization" => \A w \in r.says : w[1] \in DOMAIN Plan[r.plan].graph
  <2>1. CASE r \in receipts  BY <2>1 DEF DocumentInv, Shaped
  <2>2. CASE r = receipt
    <3>1. r.kind = "materialization" /\ r.plan = p /\ r.says = says  BY <2>2
    <3>2. \A w \in says : w[1] \in OutputsOf(p)  BY <1>1
    <3> QED BY <3>1, <3>2
  <2> QED BY <1>5, <2>1, <2>2
<1>10. ASSUME NEW q \in Plans, Has("plan-dismissal", q)
       PROVE  /\ Says("materialization", q)' = Says("materialization", q)
              /\ Accepted(q)' = Accepted(q)
  <2>1. q # p  BY <1>2, <1>10
  <2> QED BY <2>1, <1>6 DEF Accepted
<1>11. OutputsOf(p) \subseteq KeysOf(p)  BY DEF KeysOf
<1> HIDE DEF own, kept, mine, says, receipt
<1> QED BY <1>3, <1>4, <1>6, <1>8, <1>9, <1>10, <1>11 DEF PlansOwn

LEMMA LineageHolds ==
  ASSUME NEW p, NEW chosen, NEW q \in chosen, NEW o \in OutputsOf(p), o \in Inputs[q]
  PROVE  o \in Lineage(p, chosen)
BY DEF Lineage

LEMMA Accepts ==
  ASSUME DocumentInv, NEW p \in Plans, ~IsIdempotentReplay("accept", p), AcceptTaskProposals(p)
  PROVE  PlansOwn(p)
<1>1. PICK chosen, needs :
        LET required == Lineage(p, chosen)
            fresh == MissingOutputs(p, required)
            made == Says("materialization", p) \cup {<<o, o>> : o \in fresh}
            at == [o \in {w[1] : w \in made} |-> (CHOOSE w \in made : w[1] = o)[2]]
            derived == DerivedEdges(p, fresh, at)
            new == Over(ProducedEdges(p, fresh, at), ProposalEdges(p, chosen, needs, at)) IN
        /\ nodes' = Over([o \in fresh |-> OutputNode(o, p)], nodes)
        /\ edges' = Over(new, Over(derived, edges))
        /\ receipts' =
             {r \in receipts : r.kind # "materialization" \/ r.plan # p}
             \cup {[kind |-> "materialization", plan |-> p, says |-> made],
                   [kind |-> "proposal-acceptance", plan |-> p, says |-> {<<q, q>> : q \in chosen}]}
             \cup {[kind |-> "plan-dismissal", plan |-> p, says |-> rest] :
                     rest \in {Plan[p].proposals \ chosen} \ {{}}}
    BY DEF AcceptTaskProposals
<1> DEFINE required == Lineage(p, chosen)
           fresh == MissingOutputs(p, required)
           made == Says("materialization", p) \cup {<<o, o>> : o \in fresh}
           at == [o \in {w[1] : w \in made} |-> (CHOOSE w \in made : w[1] = o)[2]]
           mine == [o \in fresh |-> OutputNode(o, p)]
           derived == DerivedEdges(p, fresh, at)
           new == Over(ProducedEdges(p, fresh, at), ProposalEdges(p, chosen, needs, at))
           kept == {r \in receipts : r.kind # "materialization" \/ r.plan # p}
           outcome == [kind |-> "materialization", plan |-> p, says |-> made]
           consent == [kind |-> "proposal-acceptance", plan |-> p, says |-> {<<q, q>> : q \in chosen}]
           refusal == {[kind |-> "plan-dismissal", plan |-> p, says |-> rest] :
                         rest \in {Plan[p].proposals \ chosen} \ {{}}}
<1>2. /\ nodes' = Over(mine, nodes)
      /\ edges' = Over(new, Over(derived, edges))
      /\ receipts' = kept \cup {outcome, consent} \cup refusal
    BY <1>1
<1>3. ~Has("plan-dismissal", p)  BY DEF IsIdempotentReplay
<1>4. \A o \in fresh : o \in OutputsOf(p) /\ \A w \in Materialized(p) : w[1] # o
  <2>1. \A o \in fresh : o \in OutputsOf(p) /\ \A w \in Says("materialization", p) : w[1] # o
      BY DEF MissingOutputs, Lineage
  <2>2. \A o \in OutputsOf(p) : o \notin DOMAIN Plan[p].graph  BY PlanAssumption
  <2> HIDE DEF fresh
  <2> QED BY <2>1, <2>2, SaidOfThePlan DEF Materialized
<1>5. /\ \A w \in made : w[1] \in DOMAIN at
      /\ \A o \in DOMAIN at : \E w \in made : w[1] = o /\ at[o] = w[2]
  <2> HIDE DEF made
  <2> QED OBVIOUS
<1>6. /\ \A w \in Says("materialization", p) : w \in made /\ w[1] \in OutputsOf(p)
      /\ \A o \in fresh : <<o, o>> \in made
      /\ \A w \in made : w[1] \in OutputsOf(p)
  <2>1. \A w \in made : w \in Says("materialization", p) \/ \E o \in fresh : w = <<o, o>>
      OBVIOUS
  <2>2. \A w \in Says("materialization", p) : w \in made  OBVIOUS
  <2>3. \A o \in fresh : <<o, o>> \in made  OBVIOUS
  <2> HIDE DEF made, fresh
  <2> QED BY <2>1, <2>2, <2>3, <1>4, SaidOfThePlan
<1>7. /\ outcome.kind = "materialization" /\ outcome.plan = p /\ outcome.says = made
      /\ consent.kind = "proposal-acceptance" /\ consent.plan = p
      /\ consent.says = {<<q, q>> : q \in chosen}
      /\ \A r \in refusal : r.kind = "plan-dismissal" /\ r.plan = p
    OBVIOUS
<1> HIDE DEF required, fresh, made, at, mine, derived, new, kept, outcome, consent, refusal
<1>8. made \subseteq Says("materialization", p)'
    BY <1>2, <1>7 DEF Says
<1>9. \A q \in chosen : q \in TasksOf(p)'
  <2>1. \A q \in chosen : <<q, q>> \in Says("proposal-acceptance", p)'
      BY <1>2, <1>7 DEF Says
  <2>2. \A a \in Says("proposal-acceptance", p)' : a[2] \in TasksOf(p)'  BY DEF TasksOf
  <2>3. \A q : <<q, q>>[2] = q  OBVIOUS
  <2> QED BY <2>1, <2>2, <2>3
<1>10. \A o \in DOMAIN at : at[o] \in NodesOf(p)'
    BY <1>5, <1>8 DEF NodesOf, Materialized
<1>11. Kept
  <2> SUFFICES ASSUME NEW r \in receipts
               PROVE  \E s \in receipts' :
                 /\ s.kind = r.kind /\ s.plan = r.plan
                 /\ IF r.kind = "materialization" THEN r.says \subseteq s.says ELSE s.says = r.says
      BY DEF Kept
  <2>1. CASE r.kind = "materialization" /\ r.plan = p
    <3>1. r.says \subseteq Says("materialization", p)  BY <2>1 DEF Says
    <3>2. r.says \subseteq outcome.says  BY <3>1, <1>6, <1>7
    <3> QED BY <1>2, <1>7, <2>1, <3>2
  <2>2. CASE r.kind # "materialization" \/ r.plan # p
    <3>1. r \in receipts'  BY <1>2, <2>2 DEF kept
    <3> QED BY <3>1
  <2> QED BY <2>1, <2>2
<1>12. ASSUME NEW n \in DOMAIN nodes'
       PROVE  /\ DOMAIN nodes'[n] = NodeFields
              /\ \/ n \in DOMAIN nodes /\ nodes'[n].by = nodes[n].by
                 \/ nodes'[n].by \in KeysOf(p) /\ \A w \in Materialized(p) : w[1] # nodes'[n].by
  <2>1. \A o \in DOMAIN mine : o \in fresh /\ DOMAIN mine[o] = NodeFields /\ mine[o].by = o
      BY DEF mine, OutputNode, NodeFields
  <2>2. /\ DOMAIN Over(mine, nodes) = DOMAIN mine \cup DOMAIN nodes
        /\ \A x \in DOMAIN mine : Over(mine, nodes)[x] = mine[x]
        /\ \A x \in DOMAIN nodes : x \notin DOMAIN mine => Over(mine, nodes)[x] = nodes[x]
      BY OverIs
  <2>3. \A m \in DOMAIN nodes : DOMAIN nodes[m] = NodeFields  BY DEF DocumentInv, Shaped
  <2>4. \A o \in OutputsOf(p) : o \in KeysOf(p)  BY DEF KeysOf
  <2> QED BY <2>1, <2>2, <2>3, <2>4, <1>2, <1>4
<1>13. ASSUME NEW i \in DOMAIN edges'
       PROVE  \/ i \in DOMAIN edges /\ edges'[i] = edges[i]
              \/ DOMAIN edges'[i] = EdgeFields /\ edges'[i].plan = p
                 /\ Joins(edges'[i], Plan[p].task, NodesOf(p)', TasksOf(p)')
  <2>1. PICK nodesMade, accepted : nodesMade = NodesOf(p)' /\ accepted = TasksOf(p)'  OBVIOUS
  <2>2. \A o \in DOMAIN at : at[o] \in nodesMade  BY <1>10, <2>1
  <2>3. \A o \in fresh : at[o] \in nodesMade
    <3>1. \A o \in fresh : o \in DOMAIN at
      <4>1. \A o \in fresh : <<o, o>>[1] = o  OBVIOUS
      <4> QED BY <4>1, <1>5, <1>6
    <3> QED BY <3>1, <2>2
  <2>4. \A q \in chosen : \A o \in OutputsOf(p) : o \in Inputs[q] => at[o] \in nodesMade
    <3> SUFFICES ASSUME NEW q \in chosen, NEW o \in OutputsOf(p), o \in Inputs[q]
                 PROVE  at[o] \in nodesMade
        OBVIOUS
    <3>1. o \in required  BY LineageHolds DEF required
    <3>2. CASE o \in fresh  BY <3>2, <2>3
    <3>3. CASE o \notin fresh
      <4>1. PICK w \in Says("materialization", p) : w[1] = o
          BY <3>1, <3>3 DEF fresh, MissingOutputs
      <4> QED BY <4>1, <1>5, <1>6, <2>2
    <3> QED BY <3>2, <3>3
  <2>5. chosen \subseteq accepted  BY <1>9, <2>1
  <2>6. PlanEdges(ProducedEdges(p, fresh, at), p, nodesMade, accepted)  BY <2>3, ProducedEdgesAre
  <2>7. PlanEdges(derived, p, nodesMade, accepted)  BY <2>2, DerivedEdgesAre DEF derived
  <2>8. PlanEdges(ProposalEdges(p, chosen, needs, at), p, nodesMade, accepted)
      BY <2>4, <2>5, ProposalEdgesAre
  <2>9. PlanEdges(new, p, nodesMade, accepted)  BY <2>6, <2>8, BothPlanEdges DEF new
  <2> DEFINE rest == Over(derived, edges)
  <2>10. /\ DOMAIN rest = DOMAIN derived \cup DOMAIN edges
         /\ \A x \in DOMAIN derived : rest[x] = derived[x]
         /\ \A x \in DOMAIN edges : x \notin DOMAIN derived => rest[x] = edges[x]
      BY OverIs
  <2>11. edges' = Over(new, rest)  BY <1>2
  <2> HIDE DEF rest
  <2>12. /\ DOMAIN Over(new, rest) = DOMAIN new \cup DOMAIN rest
         /\ \A x \in DOMAIN new : Over(new, rest)[x] = new[x]
         /\ \A x \in DOMAIN rest : x \notin DOMAIN new => Over(new, rest)[x] = rest[x]
      BY OverIs
  <2>13. \/ i \in DOMAIN new /\ edges'[i] = new[i]
         \/ i \in DOMAIN derived /\ edges'[i] = derived[i]
         \/ i \in DOMAIN edges /\ edges'[i] = edges[i]
      BY <2>10, <2>11, <2>12
  <2> QED BY <2>1, <2>7, <2>9, <2>13 DEF PlanEdges
<1>14. ASSUME NEW r \in receipts'
       PROVE  /\ r.kind = "materialization" => \A w \in r.says : w[1] \in OutputsOf(r.plan)
              /\ r.kind = "graph-materialization" => \A w \in r.says : w[1] \in DOMAIN Plan[r.plan].graph
  <2>1. CASE r \in receipts  BY <2>1 DEF DocumentInv, Shaped
  <2>2. CASE r = outcome  BY <2>2, <1>6, <1>7
  <2>3. CASE r = consent \/ r \in refusal  BY <2>3, <1>7
  <2> QED BY <1>2, <2>1, <2>2, <2>3 DEF kept
<1>15. ASSUME NEW q \in Plans, Has("plan-dismissal", q)
       PROVE  /\ Says("materialization", q)' = Says("materialization", q)
              /\ Accepted(q)' = Accepted(q)
  <2>1. q # p  BY <1>3, <1>15
  <2>2. \A kind : {s \in receipts' : s.kind = kind /\ s.plan = q} = {s \in receipts : s.kind = kind /\ s.plan = q}
      BY <2>1, <1>2, <1>7 DEF kept
  <2> QED BY <2>2 DEF Accepted, Says
<1> QED BY <1>11, <1>12, <1>13, <1>14, <1>15 DEF PlansOwn

LEMMA Dismisses ==
  ASSUME DocumentInv, NEW p \in Plans, ~IsIdempotentReplay("dismiss", p), DismissPlan(p)
  PROVE  PlansOwn(p)
<1> DEFINE receipt == [kind |-> "plan-dismissal", plan |-> p,
                       says |-> Plan[p].proposals \ Accepted(p)]
<1>1. receipts' = receipts \cup {receipt} /\ UNCHANGED <<nodes, edges>>  BY DEF DismissPlan
<1>2. receipt.kind = "plan-dismissal" /\ receipt.plan = p  OBVIOUS
<1> HIDE DEF receipt
<1>3. /\ Kept
      /\ \A kind, q : kind # "plan-dismissal" \/ q # p => Says(kind, q)' = Says(kind, q)
    BY <1>1, <1>2, ReceiptAdded
<1>4. \A q : /\ Says("materialization", q)' = Says("materialization", q)
             /\ Accepted(q)' = Accepted(q)
    BY <1>3 DEF Accepted
<1>5. \A r \in receipts' :
        /\ r.kind = "materialization" => \A w \in r.says : w[1] \in OutputsOf(r.plan)
        /\ r.kind = "graph-materialization" => \A w \in r.says : w[1] \in DOMAIN Plan[r.plan].graph
    BY <1>1, <1>2 DEF DocumentInv, Shaped
<1> QED BY <1>1, <1>3, <1>4, <1>5 DEF PlansOwn, DocumentInv, Shaped

LEMMA MaterializesGraph ==
  ASSUME DocumentInv, NEW p \in Plans, ~IsIdempotentReplay("graph", p), MaterializeGraphPlan(p)
  PROVE  PlansOwn(p)
<1> DEFINE graph == Plan[p].graph
           wires == [i \in {<<"wire", w[1], w[2]>> : w \in Plan[p].wires} |->
                       AgentEdge(i[2], i[3], "data", "none", p)]
           mine == [n \in DOMAIN graph |->
             [home |-> IF graph[n] = None THEN Plan[p].task ELSE None, coll |-> None,
              parent |-> graph[n], by |-> n, blank |-> FALSE, type |-> CHOOSE t \in Types : TRUE]]
           says == {<<n, n>> : n \in DOMAIN graph}
           receipt == [kind |-> "graph-materialization", plan |-> p, says |-> says]
<1>1. /\ nodes' = Over(mine, nodes) /\ edges' = Over(wires, edges)
      /\ receipts' = receipts \cup {receipt}
    BY DEF MaterializeGraphPlan
<1>2. receipt.kind = "graph-materialization" /\ receipt.plan = p /\ receipt.says = says  OBVIOUS
<1>3. ~Has("graph-materialization", p)  BY DEF IsIdempotentReplay
<1>4. \A n \in DOMAIN graph : \A w \in Materialized(p) : w[1] # n
    BY <1>3, SaysNothing, SaidOfThePlan, PlanAssumption DEF Materialized
<1>5. /\ Kept
      /\ says \subseteq Says("graph-materialization", p)'
      /\ \A kind, q : kind # "graph-materialization" \/ q # p => Says(kind, q)' = Says(kind, q)
  <2> HIDE DEF receipt
  <2> QED BY <1>1, <1>2, ReceiptAdded
<1>6. \A n \in DOMAIN graph : n \in NodesOf(p)'
  <2>1. \A n \in DOMAIN graph : <<n, n>> \in says /\ <<n, n>>[2] = n  OBVIOUS
  <2>2. \A w \in says : w[2] \in NodesOf(p)'  BY <1>5 DEF NodesOf, Materialized
  <2> HIDE DEF says
  <2> QED BY <2>1, <2>2
<1>7. ASSUME NEW n \in DOMAIN nodes'
      PROVE  /\ DOMAIN nodes'[n] = NodeFields
             /\ \/ n \in DOMAIN nodes /\ nodes'[n].by = nodes[n].by
                \/ nodes'[n].by \in KeysOf(p) /\ \A w \in Materialized(p) : w[1] # nodes'[n].by
  <2>1. \A m \in DOMAIN mine : m \in DOMAIN graph /\ DOMAIN mine[m] = NodeFields /\ mine[m].by = m
      BY DEF NodeFields
  <2>2. \A m \in DOMAIN graph : m \in KeysOf(p)  BY DEF KeysOf
  <2>3. \A m \in DOMAIN nodes : DOMAIN nodes[m] = NodeFields  BY DEF DocumentInv, Shaped
  <2> HIDE DEF mine, graph
  <2>4. /\ DOMAIN Over(mine, nodes) = DOMAIN mine \cup DOMAIN nodes
        /\ \A x \in DOMAIN mine : Over(mine, nodes)[x] = mine[x]
        /\ \A x \in DOMAIN nodes : x \notin DOMAIN mine => Over(mine, nodes)[x] = nodes[x]
      BY OverIs
  <2> QED BY <2>1, <2>2, <2>3, <2>4, <1>1, <1>4
<1>8. ASSUME NEW i \in DOMAIN edges'
      PROVE  \/ i \in DOMAIN edges /\ edges'[i] = edges[i]
             \/ DOMAIN edges'[i] = EdgeFields /\ edges'[i].plan = p
                /\ Joins(edges'[i], Plan[p].task, NodesOf(p)', TasksOf(p)')
  <2>1. ASSUME NEW j \in DOMAIN wires
        PROVE  DOMAIN wires[j] = EdgeFields /\ wires[j].plan = p
               /\ Joins(wires[j], Plan[p].task, NodesOf(p)', TasksOf(p)')
    <3>1. PICK w \in Plan[p].wires : j = <<"wire", w[1], w[2]>>  OBVIOUS
    <3>2. wires[j] = AgentEdge(w[1], w[2], "data", "none", p)  BY <3>1
    <3>3. w[1] \in NodesOf(p)' /\ w[2] \in NodesOf(p)'  BY <1>6, PlanAssumption
    <3> HIDE DEF wires
    <3> QED BY <3>2, <3>3 DEF AgentEdge, EdgeFields, Joins
  <2> HIDE DEF wires
  <2>2. /\ DOMAIN Over(wires, edges) = DOMAIN wires \cup DOMAIN edges
        /\ \A x \in DOMAIN wires : Over(wires, edges)[x] = wires[x]
        /\ \A x \in DOMAIN edges : x \notin DOMAIN wires => Over(wires, edges)[x] = edges[x]
      BY OverIs
  <2> QED BY <2>1, <2>2, <1>1
<1>9. ASSUME NEW r \in receipts'
      PROVE  /\ r.kind = "materialization" => \A w \in r.says : w[1] \in OutputsOf(r.plan)
             /\ r.kind = "graph-materialization" => \A w \in r.says : w[1] \in DOMAIN Plan[r.plan].graph
  <2>1. CASE r \in receipts  BY <2>1 DEF DocumentInv, Shaped
  <2>2. CASE r = receipt
    <3>1. \A w \in says : w[1] \in DOMAIN graph  OBVIOUS
    <3> HIDE DEF says
    <3> QED BY <2>2, <3>1, <1>2
  <2> QED BY <1>1, <2>1, <2>2
<1>10. \A q : /\ Says("materialization", q)' = Says("materialization", q)
              /\ Accepted(q)' = Accepted(q)
    BY <1>5 DEF Accepted
<1> HIDE DEF graph, wires, mine, says, receipt
<1> QED BY <1>5, <1>7, <1>8, <1>9, <1>10 DEF PlansOwn

LEMMA PlanCommandSafe ==
  ASSUME DocumentInv, NEW p \in Plans, NEW command, PlanCommand(command, p)
  PROVE  DocumentInv' /\ Stand
<1>1. PlansOwn(p)
    BY Materializes, Accepts, Dismisses, MaterializesGraph DEF PlanCommand
<1> QED BY <1>1, PlansOwnSafe
-----------------------------------------------------------------------------
(* The specification *)

LEMMA StartsSafe ==
  ASSUME Init
  PROVE  IInv
<1>1. PICK d \in Start : nodes = d.nodes /\ edges = d.edges  BY DEF Init
<1>2. receipts = {}  BY DEF Init
<1>3. DocumentInv  BY <1>1, <1>2, StartAssumption DEF DocumentInv, Shaped, AllAccounted
<1>4. Asked  BY DEF Init, Asked, Idle
<1> QED BY <1>3, <1>4 DEF IInv

\* Only Ask sends a request on to commit.
LEMMA AskedSafe ==
  ASSUME Asked, Next
  PROVE  Asked'
<1> USE DEF Asked
<1>1. CASE Edit  BY <1>1 DEF Edit, Stale, Idle
<1>2. ASSUME NEW b \in Browsers, Delete(b)
      PROVE  Asked'
    BY <1>2 DEF Delete, Answer, Stale, Idle
<1>3. ASSUME NEW b \in Browsers, Commit(b)
      PROVE  Asked'
    BY <1>3 DEF Commit, Answer, Stale, Idle
<1>4. ASSUME NEW b \in Browsers, Read(b) \/ Reconcile(b) \/ Refuse(b) \/ Settle(b)
      PROVE  Asked'
    BY <1>4 DEF Read, Reconcile, Refuse, Settle, Idle
<1>5. ASSUME NEW b \in Browsers, NEW p \in Plans, NEW command \in PlanCommands,
             Ask(b, command, p) \/ Replay(b, command, p)
      PROVE  Asked'
    BY <1>5 DEF Ask, Replay
<1>6. ASSUME NEW p \in Plans, CloseRun(p) \/ AutoMaterialize(p)
      PROVE  Asked'
    BY <1>6 DEF CloseRun, AutoMaterialize, Stale, Idle
<1>7. CASE Crash  BY <1>7 DEF Crash, Idle
<1> QED BY <1>1, <1>2, <1>3, <1>4, <1>5, <1>6, <1>7 DEF Next

\* Each step changes the document by one command, or leaves it alone.
LEMMA DocumentSafe ==
  ASSUME IInv, Next
  PROVE  DocumentInv' /\ (Stand \/ UNCHANGED <<nodes, receipts>>)
<1> USE DEF IInv
<1>0. ASSUME UNCHANGED document
      PROVE  DocumentInv' /\ UNCHANGED <<nodes, receipts>>
  <2>1. UNCHANGED <<nodes, edges, receipts>>  BY <1>0 DEF document
  <2> QED BY <2>1 DEF DocumentInv, Shaped, AllAccounted, Accounted, NodesOf, TasksOf, Materialized, Says
<1>1. CASE Edit  BY <1>1, UserCommands DEF Edit
<1>2. ASSUME NEW b \in Browsers, Delete(b)
      PROVE  DocumentInv' /\ Stand
    BY <1>2, UserCommands DEF Delete
<1>3. ASSUME NEW b \in Browsers, Commit(b)
      PROVE  DocumentInv' /\ (Stand \/ UNCHANGED <<nodes, receipts>>)
  <2>1. /\ request[b].plan \in Plans
        /\ PlanCommand(request[b].command, request[b].plan)
      BY <1>3 DEF Commit, Asked
  <2> QED BY <2>1, PlanCommandSafe
<1>4. ASSUME NEW p \in Plans, AutoMaterialize(p)
      PROVE  DocumentInv' /\ (Stand \/ UNCHANGED <<nodes, receipts>>)
  <2>1. CASE PlanCommand("materialize", p)  BY <2>1, PlanCommandSafe
  <2>2. CASE UNCHANGED document  BY <2>2, <1>0
  <2> QED BY <1>4, <2>1, <2>2 DEF AutoMaterialize
<1>5. ASSUME NEW b \in Browsers, Read(b) \/ Reconcile(b) \/ Refuse(b) \/ Settle(b)
      PROVE  UNCHANGED document
    BY <1>5 DEF Read, Reconcile, Refuse, Settle
<1>6. ASSUME NEW b \in Browsers, NEW p \in Plans, NEW command \in PlanCommands,
             Ask(b, command, p) \/ Replay(b, command, p)
      PROVE  UNCHANGED document
    BY <1>6 DEF Ask, Replay
<1>7. ASSUME NEW p \in Plans, CloseRun(p)
      PROVE  UNCHANGED document
    BY <1>7 DEF CloseRun
<1>8. CASE Crash  BY <1>0, <1>8 DEF Crash
<1> QED BY <1>0, <1>1, <1>2, <1>3, <1>4, <1>5, <1>6, <1>7, <1>8 DEF Next

\* The edges of the agent are accounted for, receipts speak of their own plan,
\* and a request goes on to commit only for a plan there is.
THEOREM Invariant == Spec => []IInv
<1>1. Init => IInv  BY StartsSafe
<1>2. IInv /\ [Next]_vars => IInv'
  <2>1. CASE Next  BY <2>1, AskedSafe, DocumentSafe DEF IInv
  <2>2. CASE UNCHANGED vars
      BY <2>2 DEF vars, document, IInv, Asked, DocumentInv, Shaped, AllAccounted, Accounted,
                  NodesOf, TasksOf, Materialized, Says
  <2> QED BY <2>1, <2>2
<1> QED BY <1>1, <1>2, PTL DEF Spec

LEMMA AccountedMeans ==
  ASSUME IInv
  PROVE  AgentEdgesReceipted
<1> SUFFICES ASSUME NEW i \in DOMAIN edges, edges[i].plan # None
             PROVE  LET e == edges[i] IN
                    CASE e.relation = "produced"   -> e.from = Plan[e.plan].task /\ e.to \in NodesOf(e.plan)
                      [] e.relation = "derived"    -> {e.from, e.to} \subseteq NodesOf(e.plan)
                      [] e.relation = "data"       -> {e.from, e.to} \subseteq NodesOf(e.plan)
                      [] e.relation = "source"     -> e.from \in NodesOf(e.plan) /\ e.to \in TasksOf(e.plan)
                      [] e.relation = "depends-on" -> {e.from, e.to} \subseteq TasksOf(e.plan)
    BY DEF AgentEdgesReceipted
<1>1. PICK e, p : e = edges[i] /\ p \in Plans /\ p = e.plan /\ Accounted(e, p)
    BY DEF IInv, DocumentInv, Shaped, AllAccounted
<1> QED BY <1>1 DEF Accounted, Joins

\* Whatever is drawn, redrawn, copied or deleted around it, an edge that bears
\* a plan joins what a receipt of that plan names: handlers of the reducer
\* write an agent's edges, and no other command gives an edge a plan.
THEOREM EdgesAreReceipted == Spec => []AgentEdgesReceipted
<1>1. IInv => AgentEdgesReceipted  BY AccountedMeans
<1> QED BY <1>1, Invariant, PTL

\* No step of a client, a run or a request takes a receipt back or rewrites it,
\* makes again what a receipt names, or makes anything of a dismissed plan,
\* however requests, deletions, crashes and the end of the run are ordered.
THEOREM ReceiptsAreKept == Spec => ReceiptsStand
<1>1. IInv /\ [Next]_vars => [Stand]_<<nodes, receipts>>
  <2>1. CASE IInv /\ Next  BY <2>1, DocumentSafe
  <2>2. CASE UNCHANGED vars  BY <2>2 DEF vars, document
  <2> QED BY <2>1, <2>2
<1>2. [][Stand]_<<nodes, receipts>> => ReceiptsStand  BY PTL DEF Stand, ReceiptsStand
<1> QED BY <1>1, <1>2, Invariant, PTL DEF Spec
==============================================================================
