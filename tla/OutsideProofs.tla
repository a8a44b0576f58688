---------------------------- MODULE OutsideProofs ----------------------------
(***************************************************************************)
(* Theorems about what the daemon shares with programs it does not         *)
(* control: about AgentTransport, the agents it starts and stops, and then *)
(* about FilesystemSync, the files others write. The two parts share no    *)
(* state and no invariant.                                                 *)
(***************************************************************************)
EXTENDS AgentTransport, FilesystemSync, FiniteSetTheorems, TLAPS
-----------------------------------------------------------------------------
(***************************************************************************)
(* Theorems about AgentTransport, for any runs, sessions and number of      *)
(* faults.  The invariant has one part for each run and one for the owners  *)
(* of sessions, so that a step of one run needs of the others only that     *)
(* what it shares with them (Others) does not get worse.                    *)
(***************************************************************************)

\* What the turn of a run has left at the owner of its session is known to be there.
Clean(r) == HandedOver(r) => SessionOf[r] \in stray

\* A child belongs to a run that waits for it.
Attended(r) == child[r] # "none" => run[r] \in {"ensuring", "prompting"}

\* Nothing is handed over before the client runs, and an owner has only what was.
Prompted(r) ==
    /\ run[r] \in {"out", "ensuring"} => r \notin sent
    /\ HandedOver(r) => r \in sent

\* A run has its session from its first child to the end of its finally block.
Scoped(r) ==
    r \in Acpx /\ run[r] \in {"ensuring", "prompting", "closing"} => scope[SessionOf[r]] = r

\* How far the run can be, given how far its cancellation is.
Phases(r) ==
    /\ run[r] = "out" => cancel[r] = "no"
    /\ cancel[r] \in {"ask", "grace", "confirm", "askAgain"} => r \in Acpx
    /\ cancel[r] \in {"ask", "grace", "stop", "confirm", "askAgain"} => run[r] # "ensuring"
    /\ r \in Acpx /\ cancel[r] \in {"stopEnsure", "stopped", "nothing"} => run[r] # "prompting"
    /\ cancel[r] = "stopEnsure" => r \notin sent
    /\ cancel[r] = "askAgain" => Settled(r)
    /\ r \in Acpx /\ run[r] = "over" => cancel[r] \in Verdicts \cup {"no"}

\* Where a client can no longer hand over and no cancel is to come, none is unknown.
Accounted(r) ==
    /\ run[r] = "prompting" /\ child[r] # "live" /\ cancel[r] \in {"no", "grace"} => Clean(r)
    /\ Settled(r) /\ cancel[r] \in {"no", "grace"} \cup Verdicts => Clean(r)
    /\ r \in Acpx /\ cancel[r] = "unconfirmed" => SessionOf[r] \in stray

RunInv(r) ==
    Attended(r) /\ Prompted(r) /\ Scoped(r) /\ Phases(r) /\ Accounted(r)

\* An owner has prompts of its session only, and one at a time, so that a cancel ends
\* the one it is meant for.
Turns ==
    \A s \in Sessions :
        /\ s \notin stray => Len(owner[s]) <= 1
        /\ \A q \in Range(owner[s]) : SessionOf[q] = s

AgentIInv == AgentTypeOK /\ Turns /\ \A r \in Runs : RunInv(r)
-----------------------------------------------------------------------------
(* Owners *)

LEMMA RangeOfAppend ==
    ASSUME NEW S, NEW s \in Seq(S), NEW e \in S
    PROVE  Range(Append(s, e)) = Range(s) \cup {e}
<1>1. DOMAIN s = 1..Len(s) /\ DOMAIN Append(s, e) = 1..(Len(s) + 1) /\ Len(s) \in Nat  OBVIOUS
<1>2. \A i \in 1..Len(s) : Append(s, e)[i] = s[i]  OBVIOUS
<1>3. Append(s, e)[Len(s) + 1] = e  OBVIOUS
<1> QED BY <1>1, <1>2, <1>3 DEF Range

LEMMA RangeOfTail ==
    ASSUME NEW S, NEW s \in Seq(S), s # <<>>
    PROVE  /\ Tail(s) \in Seq(S)
           /\ Len(Tail(s)) = Len(s) - 1
           /\ Range(Tail(s)) \subseteq Range(s)
<1>1. DOMAIN s = 1..Len(s) /\ DOMAIN Tail(s) = 1..(Len(s) - 1) /\ Len(s) \in Nat  OBVIOUS
<1>2. \A i \in 1..(Len(s) - 1) : Tail(s)[i] = s[i + 1] /\ i + 1 \in 1..Len(s)  BY <1>1
<1> QED BY <1>1, <1>2 DEF Range

\* A cancel, or the end of a turn, only takes prompts away.
LEMMA EndedIs ==
    ASSUME AgentTypeOK, NEW c \in Sessions
    PROVE  /\ Ended(c) \in [Sessions -> Seq(Acpx)]
           /\ \A s \in Sessions \ {c} : Ended(c)[s] = owner[s]
           /\ \A s \in Sessions :
                 Len(Ended(c)[s]) <= Len(owner[s]) /\ Range(Ended(c)[s]) \subseteq Range(owner[s])
           /\ Len(owner[c]) <= 1 => Range(Ended(c)[c]) = {}
<1>1. owner \in [Sessions -> Seq(Acpx)]  BY DEF AgentTypeOK
<1>2. \A s \in Sessions \ {c} : Ended(c)[s] = owner[s]  BY <1>1 DEF Ended
<1>3. Ended(c)[c] = IF owner[c] = <<>> THEN owner[c] ELSE Tail(owner[c])  BY <1>1 DEF Ended
<1>4. owner[c] \in Seq(Acpx) /\ Len(owner[c]) \in Nat  BY <1>1
<1>5. /\ Ended(c)[c] \in Seq(Acpx)
      /\ Len(Ended(c)[c]) <= Len(owner[c])
      /\ Range(Ended(c)[c]) \subseteq Range(owner[c])
      /\ Len(owner[c]) <= 1 => Ended(c)[c] = <<>>
  <2>1. CASE owner[c] = <<>>  BY <2>1, <1>3, <1>4
  <2>2. CASE owner[c] # <<>>
    <3>1. /\ Tail(owner[c]) \in Seq(Acpx)
          /\ Len(Tail(owner[c])) = Len(owner[c]) - 1
          /\ Range(Tail(owner[c])) \subseteq Range(owner[c])
        BY <2>2, <1>4, RangeOfTail
    <3> QED BY <3>1, <2>2, <1>3, <1>4
  <2> QED BY <2>1, <2>2
<1>6. Ended(c) = [s \in Sessions |-> Ended(c)[s]]  BY <1>1 DEF Ended
<1>7. \A s \in Sessions : Ended(c)[s] \in Seq(Acpx)  BY <1>1, <1>2, <1>5
<1>8. Ended(c) \in [Sessions -> Seq(Acpx)]  BY <1>6, <1>7
<1>9. \A s \in Sessions : Len(owner[s]) \in Nat  BY <1>1
<1>10. Range(<<>>) = {}  BY DEF Range
<1> HIDE DEF Ended
<1> QED BY <1>2, <1>5, <1>8, <1>9, <1>10
-----------------------------------------------------------------------------
(* What a step leaves to the runs it is not about *)

\* The state of a run that others can change, which they do not make worse.
Kept(q) ==
    /\ q \in sent' <=> q \in sent
    /\ HandedOver(q)' => HandedOver(q)
    /\ stray \subseteq stray'
    /\ q \in Acpx /\ scope[SessionOf[q]] = q => scope'[SessionOf[q]] = q

LEMMA Others ==
    ASSUME NEW q \in Runs, RunInv(q), Kept(q),
           run'[q] = run[q], child'[q] = child[q], cancel'[q] = cancel[q]
    PROVE  RunInv(q)'
<1> USE DEF RunInv, Kept
<1>1. Attended(q)' /\ Scoped(q)'  BY DEF Attended, Scoped
<1>2. Prompted(q)'  BY DEF Prompted
<1>3. Phases(q)'  BY DEF Phases, Settled
<1>4. Accounted(q)'  BY DEF Accounted, Clean, Settled
<1> QED BY <1>1, <1>2, <1>3, <1>4

\* Steps that touch neither sessions nor owners.
LEMMA KeptWork ==
    ASSUME NEW q \in Runs, UNCHANGED <<scope, work>>, stray \subseteq stray'
    PROVE  Kept(q)
BY DEF Kept, work, HandedOver

\* A cancel of a session.
LEMMA KeptEnded ==
    ASSUME AgentTypeOK, NEW c \in Sessions, owner' = Ended(c), UNCHANGED <<scope, sent>>,
           stray \subseteq stray', NEW q \in Runs
    PROVE  Kept(q)
<1>1. \A s \in Sessions : Range(owner'[s]) \subseteq Range(owner[s])  BY EndedIs
<1>2. HandedOver(q)' => HandedOver(q)  BY <1>1, TransportAssumption DEF HandedOver
<1> QED BY <1>2 DEF Kept

LEMMA TurnsKept ==
    ASSUME Turns, UNCHANGED owner, stray \subseteq stray'
    PROVE  Turns'
BY DEF Turns

LEMMA TurnsEnded ==
    ASSUME AgentTypeOK, Turns, NEW c \in Sessions, owner' = Ended(c), stray \subseteq stray'
    PROVE  Turns'
<1>1. \A s \in Sessions :
         Len(owner'[s]) <= Len(owner[s]) /\ Range(owner'[s]) \subseteq Range(owner[s])
    BY EndedIs
<1>2. \A s \in Sessions : owner[s] \in Seq(Acpx) /\ owner'[s] \in Seq(Acpx)
    BY EndedIs DEF AgentTypeOK
<1>3. \A s \in Sessions : Len(owner[s]) \in Nat /\ Len(owner'[s]) \in Nat  BY <1>2
<1> QED BY <1>1, <1>3 DEF Turns

\* A step of one run keeps the invariant if it keeps it for that run.
Same(q) == run'[q] = run[q] /\ child'[q] = child[q] /\ cancel'[q] = cancel[q]

LEMMA StepOf ==
    ASSUME AgentIInv, AgentTypeOK', Turns', NEW r \in Runs, RunInv(r)',
           \A q \in Runs \ {r} : Kept(q) /\ Same(q)
    PROVE  AgentIInv'
<1>1. \A q \in Runs \ {r} : RunInv(q)'  BY Others DEF AgentIInv, Same
<1> QED BY <1>1 DEF AgentIInv
-----------------------------------------------------------------------------
(* transport.run *)

USE DEF Verdicts, CancelPcs, RunPcs, Groups

\* The end of a run, or of its last child.
LEMMA OverIs ==
    ASSUME AgentTypeOK, NEW r \in Runs, Over(r)
    PROVE  /\ run' \in [Runs -> RunPcs]
           /\ run'[r] = "over"
           /\ \A q \in Runs \ {r} : run'[q] = run[q]
           /\ scope' \in [Sessions -> Acpx \cup {None}]
           /\ \A q \in Acpx \ {r} : scope[SessionOf[q]] = q => scope'[SessionOf[q]] = q
BY TransportAssumption DEF AgentTypeOK, Over, Runs

LEMMA FinallyIs ==
    ASSUME AgentTypeOK, NEW r \in Runs, Finally(r)
    PROVE  /\ run' \in [Runs -> RunPcs]
           /\ run'[r] \in {"closing", "over"}
           /\ r \in Acpx /\ run'[r] = "over" => cancel[r] \in Verdicts \cup {"no"}
           /\ run'[r] = "closing" => r \in Acpx /\ UNCHANGED scope
           /\ \A q \in Runs \ {r} : run'[q] = run[q]
           /\ scope' \in [Sessions -> Acpx \cup {None}]
           /\ \A q \in Acpx \ {r} : scope[SessionOf[q]] = q => scope'[SessionOf[q]] = q
<1>1. CASE r \in Acpx /\ cancel[r] \notin Verdicts \cup {"no"}
    BY <1>1 DEF AgentTypeOK, Finally
<1>2. CASE ~(r \in Acpx /\ cancel[r] \notin Verdicts \cup {"no"})
    BY <1>2, OverIs DEF Finally
<1> QED BY <1>1, <1>2

LEMMA SpawnIs ==
    ASSUME AgentTypeOK, NEW r \in Runs, Spawn(r)
    PROVE  /\ child' \in [Runs -> Groups]
           /\ stop' \in [Runs -> {"no", "asked", "done", "failed"}]
           /\ child'[r] = "live"
           /\ \A q \in Runs \ {r} : child'[q] = child[q]
BY DEF AgentTypeOK, Spawn

\* Steps that leave the owners alone.
LEMMA KeptOwner ==
    ASSUME UNCHANGED <<work, stray>>, NEW q \in Runs,
           q \in Acpx /\ scope[SessionOf[q]] = q => scope'[SessionOf[q]] = q
    PROVE  Kept(q)
BY DEF Kept, work, HandedOver

LEMMA RunStep == ASSUME AgentIInv, NEW r \in Runs, Run(r) PROVE AgentIInv'
<1> USE DEF AgentIInv
<1>1. UNCHANGED <<cancel, work, stray, faults>> /\ run[r] = "out"  BY DEF Run
<1>2. Turns'  BY <1>1, TurnsKept DEF work
<1>3. RunInv(r)  OBVIOUS
<1>4. cancel[r] = "no" /\ r \notin sent /\ child[r] = "none" /\ ~HandedOver(r)
    BY <1>1, <1>3 DEF RunInv, Phases, Prompted, Attended, AgentTypeOK
<1>5. ~HandedOver(r)' /\ cancel'[r] = "no" /\ r \notin sent'
    BY <1>1, <1>4 DEF HandedOver, work
<1>6. CASE r \in Codex
    <2>1. /\ run' = [run EXCEPT ![r] = "prompting"]
          /\ Spawn(r)
          /\ UNCHANGED scope
        BY <1>6 DEF Run
    <2>2. r \notin Acpx  BY <1>6, TransportAssumption
    <2>3. AgentTypeOK'  BY <1>1, <2>1, SpawnIs DEF AgentTypeOK, work
    <2>4. \A q \in Runs \ {r} : Same(q) /\ Kept(q)
        BY <1>1, <2>1, SpawnIs, KeptOwner DEF AgentTypeOK, Same
    <2>5. run'[r] = "prompting" /\ child'[r] = "live"  BY <2>1, SpawnIs DEF AgentTypeOK
    <2>6. RunInv(r)'
        BY <1>5, <2>2, <2>5
        DEF RunInv, Attended, Prompted, Scoped, Phases, Accounted, Clean, Settled
    <2> QED BY <1>2, <2>3, <2>4, <2>6, StepOf
<1>7. CASE r \in Acpx /\ scope[SessionOf[r]] # None
    <2>1. run' = [run EXCEPT ![r] = "over"] /\ UNCHANGED <<processes, scope>>
        BY <1>7, TransportAssumption DEF Run
    <2>2. AgentTypeOK'  BY <1>1, <2>1 DEF AgentTypeOK, work, processes
    <2>3. \A q \in Runs \ {r} : Same(q) /\ Kept(q)
        BY <1>1, <2>1, KeptOwner DEF AgentTypeOK, Same, processes
    <2>4. run'[r] = "over" /\ child'[r] = "none"  BY <1>4, <2>1 DEF AgentTypeOK, processes
    <2>5. RunInv(r)'
        BY <1>5, <2>4
        DEF RunInv, Attended, Prompted, Scoped, Phases, Accounted, Clean, Settled
    <2> QED BY <1>2, <2>2, <2>3, <2>5, StepOf
<1>8. CASE r \in Acpx /\ scope[SessionOf[r]] = None
    <2>1. /\ run' = [run EXCEPT ![r] = "ensuring"]
          /\ scope' = [scope EXCEPT ![SessionOf[r]] = r]
          /\ Spawn(r)
        BY <1>8, TransportAssumption DEF Run
    <2>2. SessionOf[r] \in Sessions  BY <1>8, TransportAssumption
    <2>3. AgentTypeOK'
        BY <1>1, <1>8, <2>1, <2>2, SpawnIs DEF AgentTypeOK, work
    <2>4. \A q \in Runs \ {r} : q \in Acpx /\ scope[SessionOf[q]] = q => SessionOf[q] # SessionOf[r]
        BY <1>8, TransportAssumption DEF Runs
    <2>5. \A q \in Runs \ {r} : q \in Acpx /\ scope[SessionOf[q]] = q => scope'[SessionOf[q]] = q
        BY <2>1, <2>4, TransportAssumption DEF AgentTypeOK
    <2>6. \A q \in Runs \ {r} : Same(q) /\ Kept(q)
        BY <1>1, <2>1, <2>5, SpawnIs, KeptOwner DEF AgentTypeOK, Same
    <2>7. run'[r] = "ensuring" /\ child'[r] = "live" /\ scope'[SessionOf[r]] = r
        BY <2>1, <2>2, SpawnIs DEF AgentTypeOK
    <2>8. RunInv(r)'
        BY <1>5, <2>7
        DEF RunInv, Attended, Prompted, Scoped, Phases, Accounted, Clean, Settled
    <2> QED BY <1>2, <2>3, <2>6, <2>8, StepOf
<1> QED BY <1>6, <1>7, <1>8 DEF Runs

\* The last child of a run closes.
LEMMA LastClose ==
    ASSUME AgentIInv, NEW r \in Runs, run[r] \in {"ensuring", "prompting"}, Closes(r),
           child' = [child EXCEPT ![r] = "none"], Finally(r),
           UNCHANGED <<stop, cancel, work, stray, faults>>
    PROVE  AgentIInv'
<1> USE DEF AgentIInv
<1>1. RunInv(r)  OBVIOUS
<1>2. Turns'  BY TurnsKept DEF work
<1>3. AgentTypeOK'  BY FinallyIs DEF AgentTypeOK, work
<1>4. \A q \in Runs \ {r} : Same(q) /\ Kept(q)
    BY FinallyIs, KeptOwner DEF AgentTypeOK, Same
<1>5. child'[r] = "none" /\ child[r] # "live"  BY DEF AgentTypeOK, Closes
<1>6. run'[r] \in {"closing", "over"} /\ (r \in Acpx /\ run'[r] = "over" => cancel[r] \in Verdicts \cup {"no"})
    BY FinallyIs
<1>7. Clean(r)' <=> Clean(r)  BY DEF Clean, HandedOver, work
<1>8. Attended(r)' /\ Prompted(r)'
    BY <1>1, <1>5, <1>6 DEF RunInv, Attended, Prompted, HandedOver, work
<1>9. Scoped(r)'
    BY <1>1, <1>6, FinallyIs DEF RunInv, Scoped
<1>10. Phases(r)'
    BY <1>1, <1>6 DEF RunInv, Phases, work, Settled
<1>11. Accounted(r)'
  <2>1. CASE run[r] = "prompting"
    <3>1. cancel[r] \in {"no", "grace"} => Clean(r)  BY <1>1, <1>5, <2>1 DEF RunInv, Accounted
    <3>2. r \in Acpx /\ cancel[r] \in Verdicts => SessionOf[r] \in stray
        BY <1>1, <2>1 DEF RunInv, Accounted, Phases
    <3>3. cancel[r] \in Verdicts => Clean(r)  BY <3>2 DEF Clean, HandedOver
    <3> QED BY <1>1, <1>6, <1>7, <3>1, <3>3 DEF RunInv, Accounted
  <2>2. CASE run[r] = "ensuring"
    <3>1. Clean(r)  BY <1>1, <2>2 DEF RunInv, Prompted, Clean
    <3> QED BY <1>1, <1>7, <3>1 DEF RunInv, Accounted
  <2> QED BY <2>1, <2>2
<1> QED BY <1>2, <1>3, <1>4, <1>8, <1>9, <1>10, <1>11, StepOf DEF RunInv

LEMMA ClosingStep == ASSUME AgentIInv, NEW r \in Runs, Closing(r) PROVE AgentIInv'
<1> USE DEF AgentIInv
<1>1. RunInv(r)  OBVIOUS
<1>2. CASE EnsureCloses(r) /\ ~Asked(r) /\ stop[r] = "no" /\ run' = [run EXCEPT ![r] = "prompting"]
           /\ Spawn(r) /\ UNCHANGED scope
    <2>1. UNCHANGED <<cancel, work, stray, faults>> /\ run[r] = "ensuring"
        BY <1>2 DEF EnsureCloses
    <2>2. Turns'  BY <2>1, TurnsKept DEF work
    <2>3. AgentTypeOK'  BY <1>2, <2>1, SpawnIs DEF AgentTypeOK, work
    <2>4. \A q \in Runs \ {r} : Same(q) /\ Kept(q)
        BY <1>2, <2>1, SpawnIs, KeptOwner DEF AgentTypeOK, Same
    <2>5. run'[r] = "prompting" /\ child'[r] = "live" /\ cancel'[r] = "no"
        BY <1>2, <2>1, SpawnIs DEF AgentTypeOK, Asked
    <2>6. RunInv(r)'
        BY <1>1, <1>2, <2>1, <2>5
        DEF RunInv, Attended, Prompted, Scoped, Phases, Accounted, Clean, Settled, HandedOver, work
    <2> QED BY <2>2, <2>3, <2>4, <2>6, StepOf
<1>3. CASE EnsureCloses(r) /\ child' = [child EXCEPT ![r] = "none"] /\ Finally(r) /\ UNCHANGED stop
    BY <1>3, LastClose DEF EnsureCloses
<1>4. CASE ChildCloses(r)  BY <1>4, LastClose DEF ChildCloses
<1>5. CASE Leave(r)
    <2>1. UNCHANGED <<processes, cancel, work, stray, faults>> /\ run[r] = "closing"
          /\ cancel[r] \in Verdicts /\ Over(r)
        BY <1>5 DEF Leave
    <2>2. Turns'  BY <2>1, TurnsKept DEF work
    <2>3. AgentTypeOK'  BY <2>1, OverIs DEF AgentTypeOK, work, processes
    <2>4. \A q \in Runs \ {r} : Same(q) /\ Kept(q)
        BY <2>1, OverIs, KeptOwner DEF Same, processes
    <2>5. run'[r] = "over"  BY <2>1, OverIs
    <2>6. RunInv(r)'
        BY <1>1, <2>1, <2>5
        DEF RunInv, Attended, Prompted, Scoped, Phases, Accounted, Clean, Settled, HandedOver, work, processes
    <2> QED BY <2>2, <2>3, <2>4, <2>6, StepOf
<1>6. EnsureCloses(r) =>
         \/ ~Asked(r) /\ stop[r] = "no" /\ run' = [run EXCEPT ![r] = "prompting"]
            /\ Spawn(r) /\ UNCHANGED scope
         \/ child' = [child EXCEPT ![r] = "none"] /\ Finally(r) /\ UNCHANGED stop
    BY DEF EnsureCloses
<1> QED BY <1>2, <1>3, <1>4, <1>5, <1>6 DEF Closing
-----------------------------------------------------------------------------
(* The processes *)

LEMMA HandOverStep == ASSUME AgentIInv, NEW r \in Runs, HandOver(r) PROVE AgentIInv'
<1> USE DEF AgentIInv
<1>1. RunInv(r)  OBVIOUS
<1> DEFINE s == SessionOf[r]
<1>2. /\ r \in Acpx /\ s \in Sessions /\ run[r] = "prompting" /\ child[r] = "live" /\ r \notin sent
      /\ sent' = sent \cup {r}
      /\ owner' = [owner EXCEPT ![s] = Append(@, r)]
      /\ UNCHANGED <<run, processes, cancel, scope, stray, faults>>
    BY TransportAssumption DEF HandOver
<1> HIDE DEF s
<1>3. owner[s] \in Seq(Acpx)  BY <1>2 DEF AgentTypeOK
<1>4. AgentTypeOK'  BY <1>2, <1>3 DEF AgentTypeOK, processes
<1>5. /\ owner'[s] = Append(owner[s], r)
      /\ \A t \in Sessions \ {s} : owner'[t] = owner[t]
    BY <1>2 DEF AgentTypeOK
<1>6. Range(owner'[s]) = Range(owner[s]) \cup {r}  BY <1>2, <1>3, <1>5, RangeOfAppend
<1>7. \A q \in Runs \ {r} : Same(q) /\ Kept(q)
  <2> SUFFICES ASSUME NEW q \in Runs \ {r} PROVE HandedOver(q)' => HandedOver(q)
      BY <1>2 DEF Same, Kept, processes
  <2>1. q \in Acpx => SessionOf[q] \in Sessions  BY TransportAssumption
  <2> QED BY <1>5, <1>6, <2>1 DEF HandedOver
<1>8. scope[s] = r  BY <1>1, <1>2 DEF RunInv, Scoped, s
\* The session is this run's, so that a turn of another has lost its client.
<1>9. s \notin stray => owner[s] = <<>>
  <2> SUFFICES ASSUME s \notin stray, owner[s] # <<>> PROVE FALSE
      OBVIOUS
  <2>1. PICK q \in Acpx : q \in Range(owner[s])
    <3>1. 1 \in DOMAIN owner[s] /\ owner[s][1] \in Acpx  BY <1>3
    <3> QED BY <3>1 DEF Range
  <2>2. SessionOf[q] = s /\ HandedOver(q)  BY <1>2, <2>1 DEF Turns, HandedOver
  <2>3. q \in Runs /\ RunInv(q)  BY DEF Runs
  <2>4. q \in sent /\ q # r  BY <1>2, <2>2, <2>3 DEF RunInv, Prompted
  <2>5. scope[s] # q  BY <1>8, <2>4
  <2>6. run[q] = "over"
      BY <2>2, <2>3, <2>4, <2>5 DEF RunInv, Prompted, Scoped, AgentTypeOK
  <2>7. Clean(q)  BY <2>3, <2>6 DEF RunInv, Phases, Accounted, Settled
  <2> QED BY <2>2, <2>7 DEF Clean
<1>10. Turns'
  <2>1. s \notin stray => Len(owner'[s]) = 1  BY <1>2, <1>5, <1>9
  <2>2. \A q \in Range(owner'[s]) : SessionOf[q] = s  BY <1>2, <1>6 DEF Turns, s
  <2> QED BY <1>2, <1>5, <2>1, <2>2 DEF Turns
<1>11. RunInv(r)'
    BY <1>1, <1>2
    DEF RunInv, Attended, Prompted, Scoped, Phases, Accounted, Clean, Settled, processes
<1> QED BY <1>4, <1>7, <1>10, <1>11, StepOf

LEMMA FaultType == ASSUME AgentTypeOK, Fault \/ NoFault PROVE faults' \in 0..MaxFaults
BY TransportAssumption DEF AgentTypeOK, Fault, NoFault

LEMMA ExitsStep == ASSUME AgentIInv, NEW r \in Runs, Exits(r) PROVE AgentIInv'
<1> USE DEF AgentIInv
<1>1. RunInv(r)  OBVIOUS
<1>2. UNCHANGED <<run, stop, cancel, scope, work>> /\ stray \subseteq stray' /\ child[r] = "live"
    BY DEF Exits
<1>3. AgentTypeOK'
  <2>1. faults' \in 0..MaxFaults  BY FaultType DEF Exits
  <2>2. stray' \subseteq Sessions  BY TransportAssumption DEF AgentTypeOK, Exits, HandedOver
  <2> QED BY <2>1, <2>2 DEF AgentTypeOK, Exits, work
<1>4. Turns'  BY <1>2, TurnsKept DEF work
<1>5. \A q \in Runs \ {r} : Same(q) /\ Kept(q)
    BY <1>2, KeptWork DEF Same, Exits, AgentTypeOK
<1>6. cancel[r] \in {"no", "grace"} => Clean(r)'
    BY <1>2 DEF Exits, Clean, HandedOver, work
<1>7. ~Settled(r)  BY <1>1, <1>2 DEF RunInv, Attended, Settled
<1>8. child[r] # "none" /\ UNCHANGED <<run[r], cancel[r], Settled(r)>>
    BY <1>2 DEF Settled
<1>9. RunInv(r)'
    BY <1>1, <1>2, <1>6, <1>7, <1>8
    DEF RunInv, Attended, Prompted, Scoped, Phases, Accounted, HandedOver, work
<1> QED BY <1>3, <1>4, <1>5, <1>9, StepOf

\* Steps that only bring a child or its termination further.
LEMMA ProcessStep ==
    ASSUME AgentIInv, NEW r \in Runs, GroupEnds(r) \/ Overruns(r) \/ Terminated(r)
    PROVE  AgentIInv'
<1> USE DEF AgentIInv
<1>1. RunInv(r)  OBVIOUS
<1>2. UNCHANGED <<run, cancel, scope, work, stray>>
    BY DEF GroupEnds, Overruns, Terminated
<1>3. /\ child' \in [Runs -> Groups]
      /\ child'[r] = child[r] \/ (child[r] = "tail" /\ child'[r] = "gone")
      /\ \A q \in Runs \ {r} : child'[q] = child[q]
    BY DEF AgentTypeOK, GroupEnds, Overruns, Terminated
<1>4. AgentTypeOK'
  <2>1. faults' \in 0..MaxFaults  BY FaultType DEF GroupEnds, Overruns, Terminated, NoFault
  <2>2. stop' \in [Runs -> {"no", "asked", "done", "failed"}]
      BY DEF AgentTypeOK, GroupEnds, Overruns, Terminated, Terminate
  <2> QED BY <1>2, <1>3, <2>1, <2>2 DEF AgentTypeOK, work
<1>5. Turns'  BY <1>2, TurnsKept DEF work
<1>6. \A q \in Runs \ {r} : Same(q) /\ Kept(q)  BY <1>2, <1>3, KeptWork DEF Same
<1>7. UNCHANGED <<Clean(r), Settled(r)>>  BY <1>2 DEF Clean, HandedOver, Settled, work
<1>8. RunInv(r)'
    BY <1>1, <1>2, <1>3, <1>7
    DEF RunInv, Attended, Prompted, Scoped, Phases, Accounted, HandedOver, work
<1> QED BY <1>4, <1>5, <1>6, <1>8, StepOf

LEMMA TurnEndsStep == ASSUME AgentIInv, NEW s \in Sessions, TurnEnds(s) PROVE AgentIInv'
<1> USE DEF AgentIInv
<1>1. owner' = Ended(s)  BY DEF TurnEnds, Ended, AgentTypeOK
<1>2. UNCHANGED <<run, processes, cancel, scope, sent, stray, faults>>  BY DEF TurnEnds
<1>3. AgentTypeOK'  BY <1>1, <1>2, EndedIs DEF AgentTypeOK, processes
<1>4. Turns'  BY <1>1, <1>2, TurnsEnded
<1>5. \A q \in Runs : RunInv(q)'  BY <1>1, <1>2, KeptEnded, Others DEF processes
<1> QED BY <1>3, <1>4, <1>5
-----------------------------------------------------------------------------
(* transport.cancel *)

\* What a cancellation changes whichever way it goes on.
LEMMA CancelTypes ==
    ASSUME AgentTypeOK, NEW r \in Runs,
           \/ \E v \in Verdicts : Verdict(r, v)
           \/ \E p \in CancelPcs : Continue(r, p)
           \/ StopClient(r)
    PROVE  /\ cancel' \in [Runs -> CancelPcs]
           /\ stop' \in [Runs -> {"no", "asked", "done", "failed"}]
           /\ stray' \subseteq Sessions
           /\ stray \subseteq stray'
           /\ \A q \in Runs \ {r} : cancel'[q] = cancel[q]
<1>1. cancel' \in [Runs -> CancelPcs] /\ \A q \in Runs \ {r} : cancel'[q] = cancel[q]
    BY DEF AgentTypeOK, Verdict, Continue, StopClient
<1>2. stop' \in [Runs -> {"no", "asked", "done", "failed"}]
    BY DEF AgentTypeOK, Verdict, Continue, StopClient, Terminate
<1>3. stray' \subseteq Sessions /\ stray \subseteq stray'
    BY TransportAssumption DEF AgentTypeOK, Verdict, Continue, StopClient
<1> QED BY <1>1, <1>2, <1>3

LEMMA CancelIs ==
    ASSUME AgentTypeOK, NEW r \in Runs
    PROVE  /\ \A v \in Verdicts : Verdict(r, v) =>
                 /\ cancel'[r] = v
                 /\ r \in Acpx /\ v = "unconfirmed" => SessionOf[r] \in stray'
           /\ \A p \in CancelPcs : Continue(r, p) => cancel'[r] = p
           /\ StopClient(r) => cancel'[r] \in {"stop", "confirm"}
BY DEF AgentTypeOK, Verdict, Continue, StopClient

\* A cancellation goes on without the owners of sessions.
LEMMA CancelGoesOn ==
    ASSUME AgentIInv, NEW r \in Runs,
           \/ \E v \in Verdicts : Verdict(r, v)
           \/ \E p \in CancelPcs : Continue(r, p)
           \/ StopClient(r),
           UNCHANGED <<run, child, scope, work>>, Fault \/ NoFault,
           Phases(r)', Accounted(r)'
    PROVE  AgentIInv'
<1> USE DEF AgentIInv
<1>1. AgentTypeOK'  BY FaultType, CancelTypes DEF AgentTypeOK, work
<1>2. Turns'  BY CancelTypes, TurnsKept DEF work
<1>3. \A q \in Runs \ {r} : Same(q) /\ Kept(q)  BY CancelTypes, KeptWork DEF Same
<1>4. RunInv(r)'  BY DEF RunInv, Attended, Prompted, Scoped, HandedOver, work
<1> QED BY <1>1, <1>2, <1>3, <1>4, StepOf

\* A cancellation goes on after a cancel that has, or may have, ended a turn.
LEMMA CancelAsked ==
    ASSUME AgentIInv, NEW r \in Acpx, owner' \in {owner, Ended(SessionOf[r])},
           \/ \E v \in Verdicts : Verdict(r, v)
           \/ \E p \in CancelPcs : Continue(r, p)
           \/ StopClient(r),
           UNCHANGED <<run, child, scope, sent>>, Fault \/ NoFault,
           Phases(r)', Accounted(r)'
    PROVE  AgentIInv'
<1> USE DEF AgentIInv
<1>1. CASE owner' = owner  BY <1>1, CancelGoesOn DEF Runs, work
<1>2. CASE owner' = Ended(SessionOf[r])
  <2>1. SessionOf[r] \in Sessions /\ r \in Runs  BY TransportAssumption DEF Runs
  <2>2. AgentTypeOK'  BY <1>2, <2>1, FaultType, CancelTypes, EndedIs DEF AgentTypeOK
  <2>3. Turns'  BY <1>2, <2>1, CancelTypes, TurnsEnded
  <2>4. \A q \in Runs : Kept(q)  BY <1>2, <2>1, CancelTypes, KeptEnded
  <2>5. \A q \in Runs \ {r} : Same(q)  BY <2>1, CancelTypes DEF Same
  <2>6. RunInv(r)'
      BY <2>1, <2>4 DEF RunInv, Attended, Prompted, Scoped, Kept
  <2> QED BY <2>1, <2>2, <2>3, <2>4, <2>5, <2>6, StepOf
<1> QED BY <1>1, <1>2

\* After a cancel that succeeded the run has nothing left that is not known.
LEMMA EndedCleans ==
    ASSUME AgentIInv, NEW r \in Acpx, owner' = Ended(SessionOf[r]), stray \subseteq stray'
    PROVE  Clean(r)'
<1>1. SessionOf[r] \in Sessions  BY TransportAssumption
<1>2. SessionOf[r] \notin stray => Range(owner'[SessionOf[r]]) = {}
    BY <1>1, EndedIs DEF AgentIInv, Turns
<1> QED BY <1>2 DEF Clean, HandedOver

LEMMA CancelStep == ASSUME AgentIInv, NEW r \in Runs, Cancel(r) PROVE AgentIInv'
<1> USE DEF AgentIInv
<1>1. RunInv(r)  OBVIOUS
<1>2. cancel[r] = "no" /\ UNCHANGED <<child, scope, work, faults>>  BY DEF Cancel
<1>3. CASE run[r] \in {"out", "over"} /\ Verdict(r, "nothing") /\ run' = [run EXCEPT ![r] = "over"]
    <2>1. AgentTypeOK'  BY <1>2, <1>3, CancelTypes DEF AgentTypeOK, work
    <2>2. Turns'  BY <1>2, <1>3, CancelTypes, TurnsKept DEF work
    <2>3. \A q \in Runs \ {r} : Same(q) /\ Kept(q)
        BY <1>2, <1>3, CancelTypes, KeptWork DEF Same, AgentTypeOK
    <2>4. run'[r] = "over" /\ cancel'[r] = "nothing"  BY <1>3, CancelIs DEF AgentTypeOK
    <2>5. Clean(r)  BY <1>1, <1>2, <1>3 DEF RunInv, Prompted, Accounted, Settled, Clean
    <2>6. Clean(r)'  BY <1>2, <1>3, <2>5, CancelTypes DEF Clean, HandedOver, work
    <2>7. RunInv(r)'
        BY <1>1, <1>2, <1>3, <2>4, <2>6
        DEF RunInv, Attended, Prompted, Scoped, Phases, Accounted, HandedOver, work
    <2> QED BY <2>1, <2>2, <2>3, <2>7, StepOf
<1>4. CASE \/ run[r] = "ensuring" /\ cancel' = [cancel EXCEPT ![r] = "stopEnsure"]
              /\ stop' = Terminate(r) /\ UNCHANGED <<run, stray>>
           \/ run[r] = "prompting" /\ cancel' = [cancel EXCEPT ![r] = IF r \in Acpx THEN "ask" ELSE "stop"]
              /\ stop' = (IF r \in Acpx THEN stop ELSE Terminate(r))
              /\ UNCHANGED <<run, stray>>
    <2>1. AgentTypeOK'  BY <1>2, <1>4 DEF AgentTypeOK, work, Terminate
    <2>2. Turns'  BY <1>2, <1>4, TurnsKept DEF work
    <2>3. \A q \in Runs \ {r} : Same(q) /\ Kept(q)  BY <1>2, <1>4, KeptWork DEF Same, AgentTypeOK
    <2>4. \/ run[r] = "ensuring" /\ cancel'[r] = "stopEnsure"
          \/ run[r] = "prompting" /\ r \in Acpx /\ cancel'[r] = "ask"
          \/ run[r] = "prompting" /\ r \notin Acpx /\ cancel'[r] = "stop"
        BY <1>4 DEF AgentTypeOK
    <2>5. run'[r] = run[r]  BY <1>4
    <2>6. RunInv(r)'
        BY <1>1, <1>2, <2>4, <2>5
        DEF RunInv, Attended, Prompted, Scoped, Phases, Accounted, Settled, HandedOver, work
    <2> QED BY <2>1, <2>2, <2>3, <2>6, StepOf
<1> QED BY <1>3, <1>4 DEF Cancel

LEMMA AskStep == ASSUME AgentIInv, NEW r \in Runs, Ask(r) PROVE AgentIInv'
<1>1. RunInv(r)  BY DEF AgentIInv
<1>2. cancel[r] = "ask" /\ UNCHANGED <<run, child, scope, sent>>  BY DEF Ask
<1>3. r \in Acpx  BY <1>1, <1>2 DEF RunInv, Phases
<1>4. CASE NoFault /\ owner' = Ended(SessionOf[r]) /\ Continue(r, "grace")
    <2>1. cancel'[r] = "grace"  BY <1>4, CancelIs DEF AgentIInv
    <2>2. Clean(r)'  BY <1>3, <1>4, EndedCleans DEF Continue
    <2>3. Phases(r)' /\ Accounted(r)'
        BY <1>1, <1>2, <2>1, <2>2 DEF RunInv, Phases, Accounted, Settled
    <2> QED BY <1>2, <1>3, <1>4, <2>3, CancelAsked
<1>5. CASE Fault /\ owner' \in {owner, Ended(SessionOf[r])} /\ StopClient(r)
    <2>1. cancel'[r] \in {"stop", "confirm"}  BY <1>5, CancelIs DEF AgentIInv
    <2>2. Phases(r)' /\ Accounted(r)'
        BY <1>1, <1>2, <1>3, <2>1 DEF RunInv, Phases, Accounted, Settled
    <2> QED BY <1>2, <1>3, <1>5, <2>2, CancelAsked
<1> QED BY <1>4, <1>5 DEF Ask

LEMMA AskAgainStep == ASSUME AgentIInv, NEW r \in Runs, AskAgain(r) PROVE AgentIInv'
<1>1. RunInv(r)  BY DEF AgentIInv
<1>2. cancel[r] = "askAgain" /\ UNCHANGED <<run, child, scope, sent>>  BY DEF AskAgain
<1>3. r \in Acpx /\ Settled(r)  BY <1>1, <1>2 DEF RunInv, Phases
<1>4. CASE NoFault /\ owner' = Ended(SessionOf[r]) /\ Verdict(r, "stopped")
    <2>1. cancel'[r] = "stopped" /\ stray \subseteq stray'
        BY <1>4, CancelIs, CancelTypes DEF AgentIInv
    <2>2. Clean(r)'  BY <1>3, <1>4, <2>1, EndedCleans
    <2>3. Phases(r)' /\ Accounted(r)'
        BY <1>1, <1>2, <1>3, <2>1, <2>2 DEF RunInv, Phases, Accounted, Settled
    <2> QED BY <1>2, <1>3, <1>4, <2>3, CancelAsked
<1>5. CASE Fault /\ owner' \in {owner, Ended(SessionOf[r])} /\ Verdict(r, "unconfirmed")
    <2>1. cancel'[r] = "unconfirmed" /\ SessionOf[r] \in stray'
        BY <1>3, <1>5, CancelIs DEF AgentIInv
    <2>2. Phases(r)' /\ Accounted(r)'
        BY <1>1, <1>2, <1>3, <2>1 DEF RunInv, Phases, Accounted, Settled, Clean
    <2> QED BY <1>2, <1>3, <1>5, <2>2, CancelAsked
<1> QED BY <1>4, <1>5 DEF AskAgain

\* The steps that wait for a child.
LEMMA WaitStep ==
    ASSUME AgentIInv, NEW r \in Runs, Grace(r) \/ Stop(r) \/ StopEnsure(r) \/ Confirm(r)
    PROVE  AgentIInv'
<1>1. RunInv(r)  BY DEF AgentIInv
<1>2. UNCHANGED <<run, child, scope, work>> /\ (Fault \/ NoFault)
    BY DEF Grace, Stop, StopEnsure, Confirm, NoFault
<1>3. CASE Settled(r) /\ cancel[r] = "grace" /\ Verdict(r, "stopped")
    <2>1. cancel'[r] = "stopped" /\ stray \subseteq stray'
        BY <1>3, CancelIs, CancelTypes DEF AgentIInv
    <2>2. Clean(r)'
        BY <1>1, <1>2, <1>3, <2>1 DEF RunInv, Accounted, Clean, HandedOver, work
    <2>3. Phases(r)' /\ Accounted(r)'
        BY <1>1, <1>2, <1>3, <2>1, <2>2 DEF RunInv, Phases, Accounted, Settled, work
    <2> QED BY <1>2, <1>3, <2>3, CancelGoesOn
<1>4. CASE cancel[r] = "grace" /\ StopClient(r)
    <2>1. cancel'[r] \in {"stop", "confirm"}  BY <1>4, CancelIs DEF AgentIInv
    <2>2. Phases(r)' /\ Accounted(r)'
        BY <1>1, <1>2, <1>4, <2>1 DEF RunInv, Phases, Accounted, Settled, work
    <2> QED BY <1>2, <1>4, <2>2, CancelGoesOn
<1>5. CASE cancel[r] = "stop" /\ r \in Acpx /\ Continue(r, "confirm")
    <2>1. cancel'[r] = "confirm"  BY <1>5, CancelIs DEF AgentIInv
    <2>2. Phases(r)' /\ Accounted(r)'
        BY <1>1, <1>2, <1>5, <2>1 DEF RunInv, Phases, Accounted, Settled, work
    <2> QED BY <1>2, <1>5, <2>2, CancelGoesOn
<1>6. CASE cancel[r] = "stop" /\ r \in Codex /\ Verdict(r, "stopped")
    <2>1. cancel'[r] = "stopped" /\ r \notin Acpx
        BY <1>6, CancelIs, TransportAssumption DEF AgentIInv
    <2>2. Phases(r)' /\ Accounted(r)'
        BY <1>1, <1>2, <1>6, <2>1 DEF RunInv, Phases, Accounted, Settled, Clean, HandedOver, work
    <2> QED BY <1>2, <1>6, <2>2, CancelGoesOn
<1>7. CASE cancel[r] \in {"stop", "stopEnsure", "confirm"} /\ Verdict(r, "unconfirmed")
    <2>1. cancel'[r] = "unconfirmed" /\ (r \in Acpx => SessionOf[r] \in stray')
        BY <1>7, CancelIs DEF AgentIInv
    <2>2. Phases(r)' /\ Accounted(r)'
        BY <1>1, <1>2, <1>7, <2>1 DEF RunInv, Phases, Accounted, Settled, Clean, HandedOver, work
    <2> QED BY <1>2, <1>7, <2>2, CancelGoesOn
<1>8. CASE cancel[r] = "stopEnsure" /\ Verdict(r, "stopped")
    <2>1. cancel'[r] = "stopped"  BY <1>8, CancelIs DEF AgentIInv
    <2>2. r \notin sent /\ ~HandedOver(r)  BY <1>1, <1>8 DEF RunInv, Phases, Prompted
    <2>3. Phases(r)' /\ Accounted(r)'
        BY <1>1, <1>2, <1>8, <2>1, <2>2
        DEF RunInv, Phases, Accounted, Settled, Clean, HandedOver, work
    <2> QED BY <1>2, <1>8, <2>3, CancelGoesOn
<1>9. CASE cancel[r] = "confirm" /\ Settled(r) /\ Continue(r, "askAgain")
    <2>1. cancel'[r] = "askAgain"  BY <1>9, CancelIs DEF AgentIInv
    <2>2. Phases(r)' /\ Accounted(r)'
        BY <1>1, <1>2, <1>9, <2>1 DEF RunInv, Phases, Accounted, Settled, work
    <2> QED BY <1>2, <1>9, <2>2, CancelGoesOn
<1> QED BY <1>3, <1>4, <1>5, <1>6, <1>7, <1>8, <1>9 DEF Grace, Stop, StopEnsure, Confirm
-----------------------------------------------------------------------------
LEMMA Initial == ASSUME AgentInit PROVE AgentIInv
<1>1. AgentTypeOK  BY TransportAssumption DEF AgentInit, AgentTypeOK
<1>2. \A s \in Sessions : owner[s] = <<>> /\ Len(owner[s]) = 0 /\ Range(owner[s]) = {}
    BY DEF AgentInit, Range
<1>3. Turns  BY <1>2 DEF Turns
<1>4. \A r \in Runs : run[r] = "out" /\ child[r] = "none" /\ cancel[r] = "no" /\ r \notin sent
    BY DEF AgentInit
<1>5. \A r \in Runs : ~HandedOver(r)  BY <1>2, TransportAssumption DEF HandedOver
<1>6. \A r \in Runs : RunInv(r)
    BY <1>4, <1>5 DEF RunInv, Attended, Prompted, Scoped, Phases, Accounted, Clean, Settled
<1> QED BY <1>1, <1>3, <1>6 DEF AgentIInv

LEMMA Step == ASSUME AgentIInv, [AgentNext]_agentVars PROVE AgentIInv'
<1>1. CASE UNCHANGED agentVars
    <2>1. AgentTypeOK'  BY <1>1 DEF AgentIInv, AgentTypeOK, agentVars, processes, work
    <2>2. Turns'  BY <1>1, TurnsKept DEF AgentIInv, agentVars, work
    <2>3. \A q \in Runs : RunInv(q)'
        BY <1>1, KeptWork, Others DEF AgentIInv, agentVars, processes
    <2> QED BY <2>1, <2>2, <2>3 DEF AgentIInv
<1>2. CASE \E r \in Runs : Run(r) \/ Closing(r)  BY <1>2, RunStep, ClosingStep
<1>3. CASE \E r \in Runs :
              HandOver(r) \/ Exits(r) \/ GroupEnds(r) \/ Overruns(r) \/ Terminated(r)
    BY <1>3, HandOverStep, ExitsStep, ProcessStep
<1>4. CASE \E r \in Runs : Cancel(r) \/ Cancelling(r)
    BY <1>4, CancelStep, AskStep, WaitStep, AskAgainStep DEF Cancelling
<1>5. CASE \E s \in Sessions : TurnEnds(s)  BY <1>5, TurnEndsStep
<1> QED BY <1>1, <1>2, <1>3, <1>4, <1>5 DEF AgentNext

LEMMA Invariance == AgentSpec => []AgentIInv
<1> QED BY Initial, Step, PTL DEF AgentSpec

\* The state has its shape; an owner holds prompts of acpx runs only.
THEOREM AgentTypeCorrect == AgentSpec => []AgentTypeOK
<1>1. AgentIInv => AgentTypeOK  BY DEF AgentIInv
<1> QED BY <1>1, Invariance, PTL

\* When a cancellation is confirmed no process works for the run any more, nor will one.
THEOREM ConfirmedCancelsStop == AgentSpec => []CancelledStops
<1>1. ASSUME AgentIInv PROVE CancelledStops
  <2> SUFFICES ASSUME NEW r \in Runs, Answered(r), cancel[r] # "unconfirmed"
               PROVE  child[r] \notin {"live", "tail"} /\ Clean(r)
      BY DEF CancelledStops, Clean
  <2>1. RunInv(r) /\ run[r] = "over" /\ cancel[r] \in Verdicts  BY <1>1 DEF AgentIInv, Answered
  <2> QED BY <2>1 DEF RunInv, Attended, Accounted, Settled
<1> QED BY <1>1, Invariance, PTL

\* No step of the cancellation of a run ends the turn of another run that is under way.
THEOREM CancelsSpareOthers == AgentSpec => SparesOthers
<1> DEFINE Spares ==
        \A r, q \in Acpx :
            r # q /\ cancel[r] # cancel'[r] /\ run[q] # "over" /\ HandedOver(q) => HandedOver(q)'
<1>1. ASSUME AgentIInv, [AgentNext]_agentVars PROVE [Spares]_agentVars
  <2> SUFFICES ASSUME NEW r \in Acpx, NEW q \in Acpx, r # q, cancel[r] # cancel'[r],
                      run[q] # "over", HandedOver(q)
               PROVE  HandedOver(q)'
      OBVIOUS
  <2>1. RunInv(r) /\ RunInv(q) /\ r \in Runs /\ q \in Runs  BY <1>1 DEF AgentIInv, Runs
  <2>2. scope[SessionOf[q]] = q
      BY <1>1, <2>1 DEF RunInv, Prompted, Scoped, AgentIInv, AgentTypeOK
  <2>3. CASE UNCHANGED owner  BY <2>3 DEF HandedOver
  <2>4. CASE ~UNCHANGED owner
    <3>1. \E p \in Runs : Cancel(p) \/ Cancelling(p)
        BY <1>1 DEF AgentNext, agentVars, Run, HandOver, Exits, GroupEnds, Overruns, Terminated, Closing,
                    EnsureCloses, ChildCloses, Leave, TurnEnds
    <3>2. PICK p \in Runs : Ask(p) \/ AskAgain(p)
        BY <2>4, <3>1 DEF Cancelling, Cancel, Grace, Stop, StopEnsure, Confirm, work
    <3>3. \A e \in Runs \ {p} : cancel'[e] = cancel[e]
        BY <1>1, <3>2, CancelTypes DEF AgentIInv, Ask, AskAgain
    <3>4. p = r  BY <2>1, <3>3
    <3>5. cancel[r] \in {"ask", "askAgain"} /\ owner' = Ended(SessionOf[r])
        BY <2>4, <3>2, <3>4 DEF Ask, AskAgain
    <3>6. scope[SessionOf[r]] = r
        BY <1>1, <2>1, <3>5 DEF RunInv, Phases, Scoped, Settled, AgentIInv, AgentTypeOK
    <3>7. SessionOf[q] # SessionOf[r]  BY <2>2, <3>6
    <3>8. owner'[SessionOf[q]] = owner[SessionOf[q]]
        BY <1>1, <3>5, <3>7, TransportAssumption, EndedIs DEF AgentIInv
    <3> QED BY <3>8 DEF HandedOver
  <2> QED BY <2>3, <2>4
<1> QED BY <1>1, Invariance, PTL DEF AgentSpec, SparesOthers
-----------------------------------------------------------------------------
(***************************************************************************)
(* Theorems about FilesystemSync, for any number of nodes, paths,          *)
(* bindings and activities.                                                *)
(***************************************************************************)

Places ==
  {"idle", "read", "commit", "conflict", "update", "insert", "attach",
   "announce", "check", "rename", "settle", "failed"}

\* What an activity reads of a row.
Views == [node : Nodes, path : Paths, mode : Modes, base : Texts, echo : Texts \cup {None}, first : Texts]

\* What a reconcile changes of a row.
Patches ==
  [echo : {None}, state : States]
  \cup [echo : {None}, base : Texts, state : States]
  \cup [identity : Inodes, base : Texts, state : States]
  \cup [identity : Inodes, state : States]
  \cup [identity : Inodes, echo : {None}, base : Texts, state : States]

Calls ==
  [pc : Places, b : Bindings \cup {None}, row : {None} \cup Rows \cup Views,
   text : Texts \cup {None}, disk : Texts \cup {None}, patch : {None} \cup Patches, slipped : BOOLEAN]

TypeOK ==
  /\ canvas \in [Nodes -> [text : Texts, binding : Bindings \cup {None}]]
  /\ spent \subseteq Bindings \X Texts
  /\ past \in [Nodes -> SUBSET Texts]
  /\ files \in [Paths -> {None} \cup [text : Texts, inode : Inodes]]
  /\ rows \in [Bindings -> {None} \cup Rows]
  /\ made \in Nat
  /\ conflicts \subseteq [b : Bindings, canvas : Texts, disk : Texts]
  /\ act \in [Activities -> Calls]
  /\ watching \in BOOLEAN
  /\ hints \subseteq Paths /\ sweep \subseteq Bindings
  /\ missed \in BOOLEAN
  /\ inputs \in Nat

Attached(b) == b \in Bound /\ canvas[rows[b].node].binding = b

\* A binding has one row at most, written by the one activity that made it and taken
\* back by no other; no two rows have a node or a path.
Once ==
  /\ \A b \in Bound : b <= made
  /\ \A b \in Bound, c \in Bound : b # c => rows[b].node # rows[c].node /\ rows[b].path # rows[c].path
  /\ \A w \in Activities :
       /\ act[w].pc # "idle" => act[w].b \in Bindings /\ act[w].b <= made
       /\ act[w].pc = "insert" => act[w].b \notin Bound
       /\ act[w].pc = "attach" => act[w].b \in Bound
  /\ \A w \in Activities, v \in Activities :
       w # v /\ act[w].pc \in {"insert", "attach"} /\ act[v].pc # "idle" /\ act[v].b = act[w].b =>
         act[w].pc = "attach" /\ act[v].pc # "attach"

\* A node refers to a binding only when it is made, and then for good.
Linked ==
  /\ \A n \in Nodes : canvas[n].binding # None =>
       /\ canvas[n].binding \in Bound /\ rows[canvas[n].binding].node = n
       /\ \A w \in Activities : act[w].pc \in {"insert", "attach"} => act[w].b # canvas[n].binding
  /\ \A w \in Activities :
       act[w].pc \in {"commit", "conflict", "announce", "check", "rename", "settle", "failed"} =>
         Attached(act[w].b)

\* What rows and activities hold of texts, the canvas has had.
Honest(row) == row.base \in Known(row) /\ row.echo \in past[row.node] \cup {None}

Of(row, b) == b \in Bound => row.node = rows[b].node /\ row.first = rows[b].first

Call(w) ==
  LET a == act[w] IN
  /\ a.pc \in {"insert", "attach"} => a.row \in Rows
  /\ a.pc \in {"read", "commit", "announce", "check", "rename", "settle", "failed"} => a.row \in Views
  /\ a.pc \notin {"idle", "conflict", "update"} => Honest(a.row) /\ Of(a.row, a.b)
  /\ a.pc \in {"commit", "conflict"} => a.disk \in Texts
  /\ a.pc = "conflict" => a.text \in Texts
  /\ a.pc = "update" =>
       /\ a.patch \in Patches
       /\ a.b \in Bound /\ "base" \in DOMAIN a.patch => a.patch.base \in Known(rows[a.b])
  /\ a.pc \in {"announce", "check", "rename", "settle", "failed"} =>
       a.text \in past[a.row.node] /\ a.disk \in Known(a.row)
  /\ a.pc = "rename" /\ Exists(a.row.path) =>
       files[a.row.path].text \in Known(a.row) \/ a.slipped

Had ==
  /\ \A n \in Nodes : canvas[n].text \in past[n]
  /\ \A id \in spent : Attached(id[1]) /\ id[2] \in past[rows[id[1]].node]
  /\ \A b \in Bound : Honest(rows[b])
  /\ \A w \in Activities : Call(w)

\* The text of a bound file is known or disputed, or else somebody is to look at it.
Due(b) ==
  LET p == rows[b].path IN
  \/ p \in hints
  \/ \E w \in Activities :
       /\ act[w].b = b
       /\ \/ act[w].pc = "read" /\ act[w].row.path = p
          \/ act[w].pc \in {"commit", "conflict"} /\ act[w].disk = files[p].text

AtRest(b) ==
  \/ files[rows[b].path].text \in Known(rows[b])
  \/ \E c \in conflicts : c.b = b /\ c.disk = files[rows[b].path].text

Noticed ==
  ~missed => \A b \in Bound : Attached(b) /\ Exists(rows[b].path) => AtRest(b) \/ Due(b)

IInv == TypeOK /\ Once /\ Linked /\ Had /\ Noticed
-----------------------------------------------------------------------------
(* Types *)

LEMMA Constants ==
  /\ Bindings \subseteq Nat /\ None \notin Nodes \cup Texts \cup Bindings
  /\ \A m \in Nat : m < Cardinality(Bindings) => m + 1 \in Bindings
  /\ Modes \subseteq {"fs-authoritative", "canvas-authoritative", "bidirectional"}
  /\ MaxInputs \in Nat
<1>1. Cardinality(Bindings) \in Nat  BY FS_CardinalityType, FilesAssumption
<1> QED BY <1>1, FilesAssumption

LEMMA IdleIs ==
  /\ Idle \in Calls /\ Idle.pc = "idle"
BY DEF Idle, Calls, Places

LEMMA ViewIs ==
  ASSUME NEW row \in Rows
  PROVE  LET view == Restrict(row, ReadColumns) IN
         /\ view \in Views
         /\ view.node = row.node /\ view.path = row.path /\ view.mode = row.mode
         /\ view.base = row.base /\ view.echo = row.echo /\ view.first = row.first
<1> DEFINE view == Restrict(row, ReadColumns)
<1>1. DOMAIN row = {"node", "path", "mode", "base", "state", "identity", "echo", "first"}
    BY DEF Rows
<1>2. view = [c \in ReadColumns |-> row[c]]
    BY <1>1 DEF Restrict, ReadColumns
<1>3. view = [node |-> row.node, path |-> row.path, mode |-> row.mode, base |-> row.base,
              echo |-> row.echo, first |-> row.first]
    BY <1>2 DEF ReadColumns
<1> HIDE DEF view
<1>4. view \in Views  BY <1>3 DEF Rows, Views
<1> QED BY <1>3, <1>4 DEF view

LEMMA PatchedIs ==
  ASSUME NEW row \in Rows, NEW patch \in Patches
  PROVE  LET new == Patched(row, patch) IN
         /\ new \in Rows
         /\ new.node = row.node /\ new.path = row.path /\ new.first = row.first
         /\ new.base = row.base \/ ("base" \in DOMAIN patch /\ new.base = patch.base)
         /\ new.echo \in {row.echo, None}
<1> DEFINE new == Patched(row, patch)
           col(c) == IF c \in DOMAIN patch THEN patch[c] ELSE row[c]
<1>1. DOMAIN row = {"node", "path", "mode", "base", "state", "identity", "echo", "first"}
    BY DEF Rows
<1>2. /\ DOMAIN patch \subseteq {"identity", "echo", "base", "state"}
      /\ "identity" \in DOMAIN patch => patch["identity"] \in Inodes
      /\ "echo" \in DOMAIN patch => patch["echo"] = None
      /\ "base" \in DOMAIN patch => patch["base"] \in Texts
      /\ "state" \in DOMAIN patch => patch["state"] \in States
    BY DEF Patches
<1>3. new = [node |-> col("node"), path |-> col("path"), mode |-> col("mode"), base |-> col("base"),
             state |-> col("state"), identity |-> col("identity"), echo |-> col("echo"), first |-> col("first")]
    BY <1>1 DEF Patched
<1>4. /\ row.node \in Nodes /\ row.path \in Paths /\ row.mode \in Modes /\ row.base \in Texts
      /\ row.state \in States /\ row.identity \in Inodes /\ row.echo \in Texts \cup {None}
      /\ row.first \in Texts
    BY DEF Rows
<1>5. /\ col("node") = row.node /\ col("path") = row.path /\ col("mode") = row.mode
      /\ col("first") = row.first
      /\ col("base") = row.base \/ ("base" \in DOMAIN patch /\ col("base") = patch.base)
      /\ col("echo") \in {row.echo, None}
      /\ col("state") \in States /\ col("identity") \in Inodes /\ col("base") \in Texts
    BY <1>2, <1>4
<1> HIDE DEF new, col
<1>6. new \in Rows  BY <1>3, <1>4, <1>5 DEF Rows
<1> QED BY <1>3, <1>5, <1>6 DEF new

\* Of an activity.
LEMMA CallIs ==
  ASSUME TypeOK, NEW w \in Activities
  PROVE  /\ act[w] \in Calls
         /\ act[w].pc \in Places /\ act[w].b \in Bindings \cup {None} /\ act[w].slipped \in BOOLEAN
         /\ act[w].text \in Texts \cup {None} /\ act[w].disk \in Texts \cup {None}
BY DEF TypeOK, Calls

\* Of a row.
LEMMA RowIs ==
  ASSUME TypeOK, NEW b \in Bound
  PROVE  /\ b \in Bindings /\ rows[b] \in Rows
         /\ rows[b].node \in Nodes /\ rows[b].path \in Paths /\ rows[b].mode \in Modes
         /\ rows[b].base \in Texts /\ rows[b].identity \in Inodes
         /\ rows[b].echo \in Texts \cup {None} /\ rows[b].first \in Texts
<1>1. b \in Bindings /\ rows[b] \in Rows  BY DEF TypeOK, Bound
<1> QED BY <1>1 DEF Rows

LEMMA GoIs ==
  ASSUME TypeOK, NEW w \in Activities, NEW next \in Calls, Go(w, next)
  PROVE  /\ act' \in [Activities -> Calls] /\ act'[w] = next
         /\ \A v \in Activities : v # w => act'[v] = act[v]
BY DEF TypeOK, Go
-----------------------------------------------------------------------------
(* What most steps leave alone *)

Grows == \A n \in Nodes : past[n] \subseteq past'[n]

SameRow(b) == b \in Bound' => b \in Bound /\ rows'[b].node = rows[b].node /\ rows'[b].first = rows[b].first

\* The activity w works; the others wait, and what they know stays.
Working(w) ==
  /\ UNCHANGED <<files, made>>
  /\ Grows
  /\ \A n \in Nodes : canvas'[n].binding = canvas[n].binding
  /\ Bound' = Bound /\ \A b \in Bound : SameRow(b)
  /\ \A v \in Activities : v # w => act'[v] = act[v]

LEMMA HonestGrows ==
  ASSUME NEW row, row.node \in Nodes, Grows
  PROVE  /\ Known(row) \subseteq Known(row)'
         /\ Honest(row) => Honest(row)'
BY DEF Grows, Known, Honest

LEMMA CallRow ==
  ASSUME TypeOK, NEW w \in Activities, Call(w), act[w].pc \notin {"idle", "conflict", "update"}
  PROVE  /\ act[w].row \in Rows \cup Views
         /\ act[w].row.node \in Nodes /\ act[w].row.path \in Paths /\ act[w].row.mode \in Modes
         /\ act[w].row.base \in Texts /\ act[w].row.first \in Texts
         /\ act[w].row.echo \in Texts \cup {None}
         /\ Honest(act[w].row) /\ Of(act[w].row, act[w].b)
<1>1. act[w].row \in Rows \cup Views  BY CallIs DEF Call, Places
<1> QED BY <1>1 DEF Call, Rows, Views

LEMMA CallKept ==
  ASSUME TypeOK, NEW v \in Activities, Call(v), Grows, act'[v] = act[v],
         act[v].pc # "idle" => SameRow(act[v].b),
         act[v].pc = "rename" => files'[act[v].row.path] = files[act[v].row.path]
  PROVE  Call(v)'
<1> DEFINE a == act[v]
<1>1. a.pc \notin {"idle", "conflict", "update"} =>
        /\ a.row.node \in Nodes /\ a.row.path \in Paths
        /\ Known(a.row) \subseteq Known(a.row)'
        /\ Honest(a.row)' /\ Of(a.row, a.b)'
        /\ past[a.row.node] \subseteq past'[a.row.node]
  <2>1. SUFFICES ASSUME a.pc \notin {"idle", "conflict", "update"}
                 PROVE  /\ a.row.node \in Nodes /\ a.row.path \in Paths
                        /\ Known(a.row) \subseteq Known(a.row)'
                        /\ Honest(a.row)' /\ Of(a.row, a.b)'
                        /\ past[a.row.node] \subseteq past'[a.row.node]
      OBVIOUS
  <2>2. a.row.node \in Nodes /\ a.row.path \in Paths /\ Honest(a.row) /\ Of(a.row, a.b)
      BY <2>1, CallRow
  <2>3. past[a.row.node] \subseteq past'[a.row.node]  BY <2>2 DEF Grows
  <2>4. a' = a  OBVIOUS
  <2>5. Known(a.row) \subseteq Known(a.row)' /\ Honest(a.row)'
      BY <2>2, <2>3, <2>4 DEF Known, Honest
  <2>6. Of(a.row, a.b)'  BY <2>1, <2>2, <2>4 DEF Of, SameRow
  <2> QED BY <2>2, <2>3, <2>5, <2>6
<1>2. a.pc = "update" =>
        (a.patch \in Patches)
        /\ (a.b \in Bound' /\ "base" \in DOMAIN a.patch => a.patch.base \in Known(rows[a.b])')
  <2>1. SUFFICES ASSUME a.pc = "update", a.b \in Bound', "base" \in DOMAIN a.patch
                 PROVE  a.patch.base \in Known(rows[a.b])'
      BY DEF Call
  <2>2. a.b \in Bound /\ rows'[a.b].node = rows[a.b].node /\ rows'[a.b].first = rows[a.b].first
      BY <2>1 DEF SameRow
  <2>3. a.patch.base \in Known(rows[a.b])  BY <2>1, <2>2 DEF Call
  <2>4. rows[a.b].node \in Nodes  BY <2>2, RowIs
  <2>5. a' = a  OBVIOUS
  <2> QED BY <2>2, <2>3, <2>4, <2>5 DEF Known, Grows
<1>3. a.pc = "rename" /\ Exists(a.row.path)' =>
        files'[a.row.path].text \in Known(a.row)' \/ a.slipped
    BY <1>1 DEF Call, Exists
<1>4. /\ a.pc \in {"insert", "attach"} => a.row \in Rows
      /\ a.pc \in {"read", "commit", "announce", "check", "rename", "settle", "failed"} => a.row \in Views
      /\ a.pc \in {"commit", "conflict"} => a.disk \in Texts
      /\ a.pc = "conflict" => a.text \in Texts
      /\ a.pc \in {"announce", "check", "rename", "settle", "failed"} =>
           a.text \in past[a.row.node] /\ a.disk \in Known(a.row)
    BY DEF Call
<1>5. a' = a  OBVIOUS
<1>6. a.pc \in {"announce", "check", "rename", "settle", "failed"} =>
           a.text \in past'[a.row.node] /\ a.disk \in Known(a.row)'
    BY <1>1, <1>4
<1> HIDE DEF a
<1>7. act'[v] = a  BY DEF a
<1>8. Honest(act[v].row)' <=> Honest(a.row)'  BY <1>5 DEF a
<1> QED BY <1>1, <1>2, <1>3, <1>4, <1>5, <1>6, <1>7 DEF Call, Exists, Honest, Of, Known

\* A binding that is attached stays so.
LEMMA AttachedKept ==
  ASSUME TypeOK, NEW b, Attached(b),
         \A n \in Nodes : canvas'[n].binding = canvas[n].binding,
         b \in Bound', SameRow(b)
  PROVE  Attached(b)'
<1>1. b \in Bound /\ rows[b].node \in Nodes  BY RowIs DEF Attached
<1>2. rows'[b].node = rows[b].node  BY DEF SameRow
<1> QED BY <1>1, <1>2 DEF Attached

Attaching == {"commit", "conflict", "announce", "check", "rename", "settle", "failed"}

LEMMA WorkSafe ==
  ASSUME IInv, TypeOK', NEW w \in Activities, Working(w),
         act'[w].pc \notin {"insert", "attach"},
         act'[w].pc # "idle" => act'[w].b \in Bound \/ (act[w].pc # "idle" /\ act'[w].b = act[w].b),
         act'[w].pc \in Attaching => Attached(act'[w].b),
         \A b \in Bound, c \in Bound : b # c => rows'[b].path # rows'[c].path,
         \A n \in Nodes : canvas'[n].text \in past'[n],
         \A id \in spent' : id \in spent \/ (Attached(id[1]) /\ id[2] \in past'[rows[id[1]].node]),
         \A b \in Bound : Honest(rows[b])',
         Call(w)', Noticed'
  PROVE  IInv'
<1> USE DEF IInv
<1>1. \A b \in Bound : SameRow(b) /\ b \in Bound' /\ b \in Bindings  BY DEF Working, Bound
<1>2. Bound' = Bound /\ made' = made  BY DEF Working
<1>3. \A b : Attached(b) => Attached(b)'
    BY <1>1, AttachedKept DEF Working, Attached
<1>4. Once'
  <2>1. \A b \in Bound' : b <= made'  BY <1>2 DEF Once
  <2>2. \A b \in Bound', c \in Bound' : b # c => rows'[b].node # rows'[c].node /\ rows'[b].path # rows'[c].path
      BY <1>1, <1>2 DEF Once, SameRow
  <2>3. ASSUME NEW v \in Activities
        PROVE  /\ act'[v].pc # "idle" => act'[v].b \in Bindings /\ act'[v].b <= made'
               /\ act'[v].pc = "insert" => act'[v].b \notin Bound'
               /\ act'[v].pc = "attach" => act'[v].b \in Bound'
    <3>1. CASE v # w  BY <3>1, <1>2 DEF Once, Working
    <3>2. CASE v = w  BY <3>2, <1>1, <1>2 DEF Once
    <3> QED BY <3>1, <3>2
  <2>4. ASSUME NEW u \in Activities, NEW v \in Activities, u # v,
               act'[u].pc \in {"insert", "attach"}, act'[v].pc # "idle", act'[v].b = act'[u].b
        PROVE  act'[u].pc = "attach" /\ act'[v].pc # "attach"
    <3>1. u # w /\ act'[u] = act[u]  BY <2>4 DEF Working
    <3>2. CASE v # w
      <4>1. act'[v] = act[v]  BY <3>2 DEF Working
      <4> QED BY <3>1, <4>1, <2>4 DEF Once
    <3>3. CASE v = w
      <4>1. CASE act'[w].b \in Bound  BY <4>1, <3>1, <3>3, <2>4 DEF Once
      <4>2. CASE act[w].pc # "idle" /\ act'[w].b = act[w].b  BY <4>2, <3>1, <3>3, <2>4 DEF Once
      <4> QED BY <4>1, <4>2, <3>3, <2>4
    <3> QED BY <3>2, <3>3
  <2> QED BY <2>1, <2>2, <2>3, <2>4 DEF Once
<1>5. Linked'
  <2>1. ASSUME NEW n \in Nodes, canvas'[n].binding # None
        PROVE  /\ canvas'[n].binding \in Bound' /\ rows'[canvas'[n].binding].node = n
               /\ \A v \in Activities : act'[v].pc \in {"insert", "attach"} => act'[v].b # canvas'[n].binding
    <3>1. canvas'[n].binding = canvas[n].binding  BY DEF Working
    <3>2. canvas[n].binding \in Bound /\ rows[canvas[n].binding].node = n
        BY <3>1, <2>1 DEF Linked
    <3>3. \A v \in Activities : act'[v].pc \in {"insert", "attach"} => act'[v] = act[v]
        BY DEF Working
    <3> QED BY <3>1, <3>2, <3>3, <2>1, <1>1, <1>2 DEF Linked, SameRow
  <2>2. ASSUME NEW v \in Activities, act'[v].pc \in Attaching  PROVE Attached(act[v].b)'
    <3>1. CASE v = w  BY <3>1, <2>2, <1>3
    <3>2. CASE v # w
      <4>1. act'[v] = act[v]  BY <3>2 DEF Working
      <4>2. Attached(act[v].b)  BY <4>1, <2>2 DEF Linked, Attaching
      <4>3. Attached(act'[v].b)  BY <4>1, <4>2
      <4> QED BY <4>3, <1>3
    <3> QED BY <3>1, <3>2
  <2> QED BY <2>1, <2>2 DEF Linked, Attaching
<1>6. Had'
  <2>1. ASSUME NEW id \in spent'  PROVE Attached(id[1])' /\ id[2] \in past'[rows'[id[1]].node]
    <3>1. Attached(id[1]) /\ id[2] \in past'[rows[id[1]].node]
      <4>1. CASE id \in spent
        <5>1. Attached(id[1]) /\ id[2] \in past[rows[id[1]].node]  BY <4>1 DEF Had
        <5>2. rows[id[1]].node \in Nodes  BY <5>1, RowIs DEF Attached
        <5> QED BY <5>1, <5>2 DEF Working, Grows
      <4> QED BY <4>1
    <3>2. rows'[id[1]].node = rows[id[1]].node  BY <3>1, <1>1 DEF Attached, SameRow
    <3> QED BY <3>1, <3>2, <1>3
  <2>2. ASSUME NEW v \in Activities  PROVE Call(v)'
    <3>1. CASE v = w  BY <3>1
    <3>2. CASE v # w
      <4>1. act'[v] = act[v] /\ Grows /\ files' = files /\ Call(v)  BY <3>2 DEF Working, Had
      <4>2. SameRow(act[v].b)  BY <1>1, <1>2 DEF SameRow
      <4> QED BY <4>1, <4>2, CallKept
    <3> QED BY <3>1, <3>2
  <2>3. \A b \in Bound' : Honest(rows[b])'  BY <1>2
  <2> QED BY <2>1, <2>2, <2>3 DEF Had
<1> QED BY <1>4, <1>5, <1>6

\* What is due stays due, but for what w was about.
LEMMA NoticedKept ==
  ASSUME IInv, NEW w \in Activities, Working(w),
         missed => missed', conflicts \subseteq conflicts', hints \subseteq hints',
         \A b \in Bound : rows'[b].path = rows[b].path,
         \A b \in Bound :
           (/\ ~missed' /\ act[w].b = b /\ Attached(b) /\ Exists(rows[b].path)
            /\ \/ act[w].pc = "read" /\ act[w].row.path = rows[b].path
               \/ act[w].pc \in {"commit", "conflict"} /\ act[w].disk = files[rows[b].path].text)
           => AtRest(b)' \/ Due(b)'
  PROVE  Noticed'
<1> USE DEF IInv
<1>1. Bound' = Bound /\ files' = files  BY DEF Working
<1>2. SUFFICES ASSUME ~missed', NEW b \in Bound, Attached(b)', Exists(rows[b].path)'
               PROVE  AtRest(b)' \/ Due(b)'
    BY <1>1 DEF Noticed
<1>3. /\ rows[b].node \in Nodes /\ rows'[b].node = rows[b].node /\ rows'[b].first = rows[b].first
      /\ rows'[b].path = rows[b].path
    BY RowIs DEF Working, SameRow
<1>4. Attached(b) /\ Exists(rows[b].path)  BY <1>1, <1>2, <1>3 DEF Attached, Exists, Working
<1>5. AtRest(b) \/ Due(b)  BY <1>2, <1>4 DEF Noticed
<1>6. CASE AtRest(b)
  <2>1. Known(rows[b]) \subseteq Known(rows[b])'  BY <1>3 DEF Known, Working, Grows
  <2> QED BY <1>1, <1>3, <1>6, <2>1 DEF AtRest
<1>7. CASE rows[b].path \in hints  BY <1>3, <1>7 DEF Due
<1>8. ASSUME NEW v \in Activities, act[v].b = b,
             \/ act[v].pc = "read" /\ act[v].row.path = rows[b].path
             \/ act[v].pc \in {"commit", "conflict"} /\ act[v].disk = files[rows[b].path].text
      PROVE  AtRest(b)' \/ Due(b)'
  <2>1. CASE v = w  BY <2>1, <1>2, <1>4, <1>8
  <2>2. CASE v # w
    <3>1. act'[v] = act[v]  BY <2>2 DEF Working
    <3> QED BY <3>1, <1>1, <1>3, <1>8 DEF Due
  <2> QED BY <2>1, <2>2
<1> QED BY <1>5, <1>6, <1>7, <1>8 DEF Due
-----------------------------------------------------------------------------
(* Reconciling *)

LEMMA ReconcileIs ==
  ASSUME TypeOK, NEW w \in Activities, NEW b \in Bindings, NEW row \in Rows, Reconcile(w, b, row)
  PROVE  /\ act' \in [Activities -> Calls]
         /\ act'[w].pc = "read" /\ act'[w].b = b /\ act'[w].row \in Views
         /\ act'[w].row.node = row.node /\ act'[w].row.first = row.first /\ act'[w].row.path = row.path
         /\ act'[w].row.base = row.base /\ act'[w].row.echo = row.echo
         /\ \A v \in Activities : v # w => act'[v] = act[v]
<1> DEFINE view == Restrict(row, ReadColumns)
           next == [Idle EXCEPT !.pc = "read", !.b = b, !.row = view]
<1>1. /\ view \in Views
      /\ view.node = row.node /\ view.first = row.first /\ view.path = row.path
      /\ view.base = row.base /\ view.echo = row.echo
    BY ViewIs
<1> HIDE DEF view
<1>2. next \in Calls /\ next.pc = "read" /\ next.b = b /\ next.row = view
    BY <1>1, IdleIs DEF Idle, Calls, Places
<1>3. Go(w, next)  BY DEF Reconcile, view
<1> HIDE DEF next
<1> QED BY <1>1, <1>2, <1>3, GoIs

\* Then(w, patch)
LEMMA ThenIs ==
  ASSUME TypeOK, NEW w \in Activities, act[w].b \in Bindings, NEW patch \in Patches, Then(w, patch)
  PROVE  /\ act' \in [Activities -> Calls]
         /\ act'[w].pc = "update" /\ act'[w].b = act[w].b /\ act'[w].patch = patch
         /\ \A v \in Activities : v # w => act'[v] = act[v]
<1> DEFINE next == [Idle EXCEPT !.pc = "update", !.b = act[w].b, !.patch = patch]
<1>1. next \in Calls /\ next.pc = "update" /\ next.b = act[w].b /\ next.patch = patch
    BY IdleIs DEF Idle, Calls, Places
<1>2. Go(w, next)  BY DEF Then
<1> HIDE DEF next
<1> QED BY <1>1, <1>2, GoIs

LEMMA LeaveIs ==
  ASSUME TypeOK, NEW w \in Activities, Return(w)
  PROVE  /\ act' \in [Activities -> Calls] /\ act'[w].pc = "idle"
         /\ \A v \in Activities : v # w => act'[v] = act[v]
BY IdleIs, GoIs DEF Return

\* The activity goes on with what it has.
LEMMA GoesOn ==
  ASSUME TypeOK, NEW w \in Activities, NEW pc \in Places, Go(w, [act[w] EXCEPT !.pc = pc])
  PROVE  /\ act' \in [Activities -> Calls]
         /\ act'[w].pc = pc /\ act'[w].b = act[w].b /\ act'[w].row = act[w].row
         /\ act'[w].text = act[w].text /\ act'[w].disk = act[w].disk /\ act'[w].slipped = act[w].slipped
         /\ \A v \in Activities : v # w => act'[v] = act[v]
<1> DEFINE next == [act[w] EXCEPT !.pc = pc]
<1>1. /\ next \in Calls /\ next.pc = pc /\ next.b = act[w].b /\ next.row = act[w].row
      /\ next.text = act[w].text /\ next.disk = act[w].disk /\ next.slipped = act[w].slipped
    BY CallIs DEF Calls
<1> HIDE DEF next
<1> QED BY <1>1, GoIs DEF next

LEMMA IdleCall ==
  ASSUME NEW w \in Activities, act'[w].pc = "idle"
  PROVE  Call(w)'
BY DEF Call

\* Of a step that changes the activity only, and counts an input.
LEMMA ActOnly ==
  ASSUME IInv, UNCHANGED <<canvasVars, files, storeVars>>,
         act' \in [Activities -> Calls], NEW w \in Activities,
         \A v \in Activities : v # w => act'[v] = act[v]
  PROVE  /\ Working(w)
         /\ \A b \in Bound, c \in Bound : b # c => rows'[b].path # rows'[c].path
         /\ \A n \in Nodes : canvas'[n].text \in past'[n]
         /\ \A id \in spent' : id \in spent \/ (Attached(id[1]) /\ id[2] \in past'[rows[id[1]].node])
         /\ \A b \in Bound : Honest(rows[b])'
         /\ \A b \in Bound : rows'[b].path = rows[b].path
         /\ Bound' = Bound /\ conflicts' = conflicts /\ rows' = rows
         /\ \A row : Known(row)' = Known(row) /\ (Honest(row)' <=> Honest(row))
         /\ \A b : SameRow(b)
<1> USE DEF IInv, canvasVars, storeVars
<1>1. Bound' = Bound /\ \A row : Known(row)' = Known(row) /\ (Honest(row)' <=> Honest(row))
    BY DEF Bound, Known, Honest
<1> QED BY <1>1 DEF Working, Grows, SameRow, Once, Had, Honest, Known

LEMMA InputIs ==
  ASSUME TypeOK, Input \/ UNCHANGED inputs
  PROVE  inputs' \in Nat
BY DEF Input, TypeOK

LEMMA CompareSafe ==
  ASSUME IInv, UNCHANGED <<canvasVars, inputs, files, storeVars, watchVars>>,
         NEW w \in Activities, act[w].pc = "read", act' \in [Activities -> Calls],
         \A v \in Activities : v # w => act'[v] = act[v],
         act'[w].pc # "idle" => act'[w].b = act[w].b,
         act'[w].pc \in {"idle", "update", "commit", "conflict"},
         act'[w].pc \in {"commit", "conflict"} => Attached(act[w].b),
         Call(w)',
         \A b \in Bound :
           (/\ act[w].b = b /\ Attached(b) /\ Exists(rows[b].path)
            /\ act[w].row.path = rows[b].path)
           => AtRest(b)' \/ Due(b)'
  PROVE  IInv'
<1>1. /\ Working(w)
      /\ \A b \in Bound, c \in Bound : b # c => rows'[b].path # rows'[c].path
      /\ \A n \in Nodes : canvas'[n].text \in past'[n]
      /\ \A id \in spent' : id \in spent \/ (Attached(id[1]) /\ id[2] \in past'[rows[id[1]].node])
      /\ \A b \in Bound : Honest(rows[b])'
      /\ \A b \in Bound : rows'[b].path = rows[b].path
    BY ActOnly
<1>2. TypeOK'  BY DEF IInv, TypeOK, canvasVars, storeVars, watchVars
<1>3. Noticed'  BY <1>1, NoticedKept DEF storeVars, watchVars
<1>4. act'[w].pc \in Attaching => act'[w].pc \in {"commit", "conflict"}
    BY DEF Attaching
<1> QED BY <1>1, <1>2, <1>3, <1>4, WorkSafe

LEMMA ReadSafe ==
  ASSUME IInv, NEW w \in Activities, Read(w)
  PROVE  IInv'
<1> DEFINE a == act[w]
           b == a.b
           row == a.row
           n == row.node
           t == canvas[n].text
           file == files[row.path]
<1>1. act[w].pc = "read" /\ UNCHANGED <<canvasVars, inputs, files, storeVars, watchVars>>
    BY DEF Read, Busy
<1>2. /\ TypeOK /\ Call(w) /\ row \in Views /\ n \in Nodes /\ row.path \in Paths /\ row.mode \in Modes
      /\ row.base \in Texts /\ row.first \in Texts /\ row.echo \in Texts \cup {None}
      /\ Honest(row) /\ Of(row, b) /\ b \in Bindings
  <2>1. TypeOK /\ Call(w) /\ b \in Bindings  BY <1>1 DEF IInv, Had, Once
  <2> QED BY <2>1, <1>1, CallRow DEF Call
<1>3. Exists(row.path) => file.text \in Texts /\ file.inode \in Inodes
    BY <1>2 DEF TypeOK, Exists
<1>4. t \in past[n] /\ t \in Texts  BY <1>2 DEF IInv, Had, TypeOK
<1>5. ASSUME NEW patch \in Patches, Then(w, patch),
             "base" \in DOMAIN patch => patch.base \in Known(row),
             Exists(row.path) => file.text \in Known(row)
      PROVE  IInv'
  <2>1. /\ act' \in [Activities -> Calls]
        /\ act'[w].pc = "update" /\ act'[w].b = b /\ act'[w].patch = patch
        /\ \A v \in Activities : v # w => act'[v] = act[v]
      BY <1>2, <1>5, ThenIs
  <2>2. Bound' = Bound /\ rows' = rows /\ \A r : Known(r)' = Known(r)
      BY <1>1, <2>1, ActOnly
  <2>3. b \in Bound => Known(rows[b]) = Known(row)
      BY <1>2 DEF Of, Known
  <2> HIDE DEF a, b, row, n, t, file
  <2>4. Call(w)'
    <3>1. act'[w].b \in Bound' /\ "base" \in DOMAIN act'[w].patch => act'[w].patch.base \in Known(rows[b])
        BY <2>1, <2>2, <2>3, <1>5
    <3> QED BY <2>1, <2>2, <3>1, <1>1 DEF Call, Known, canvasVars
  <2>5. ASSUME NEW c \in Bound, b = c, Exists(rows[c].path), row.path = rows[c].path
        PROVE  AtRest(c)'
    <3>1. files[rows[c].path].text \in Known(rows[c])
        BY <2>3, <2>5, <1>5 DEF file
    <3> QED BY <3>1, <2>2, <1>1 DEF AtRest, Known, canvasVars
  <2> QED BY <2>1, <2>4, <2>5, <1>1, CompareSafe DEF a, b, row
<1>6. ASSUME Exists(row.path), Attached(b), Go(w, [a EXCEPT !.pc = "commit", !.disk = file.text])
      PROVE  IInv'
  <2> DEFINE next == [a EXCEPT !.pc = "commit", !.disk = file.text]
  <2>1. /\ next \in Calls /\ next.pc = "commit" /\ next.b = b /\ next.row = row /\ next.disk = file.text
      BY <1>2, <1>3, <1>6, CallIs DEF Calls, Places
  <2> HIDE DEF next
  <2>2. /\ act' \in [Activities -> Calls] /\ act'[w] = next
        /\ \A v \in Activities : v # w => act'[v] = act[v]
      BY <1>2, <1>6, <2>1, GoIs DEF next
  <2>3. Bound' = Bound /\ rows' = rows /\ files' = files /\ past' = past
      BY <1>1, <2>2, ActOnly DEF canvasVars
  <2> HIDE DEF a, b, row, n, t, file
  <2>4. Call(w)'
    <3>1. act'[w].row = row /\ act'[w].b = b /\ act'[w].pc = "commit" /\ act'[w].disk = file.text
        BY <2>1, <2>2
    <3>2. file.text \in Texts  BY <1>3, <1>6
    <3>3. Honest(act'[w].row) /\ Of(act'[w].row, act'[w].b)  BY <1>2, <3>1
    <3>4. Honest(act[w].row)' /\ Of(act[w].row, act[w].b)'  BY <3>3, <2>3 DEF Honest, Of, Known
    <3> QED BY <1>2, <3>1, <3>2, <3>4 DEF Call
  <2>5. ASSUME NEW c \in Bound, b = c, Exists(rows[c].path), row.path = rows[c].path
        PROVE  Due(c)'
      BY <2>1, <2>2, <2>3, <2>5 DEF Due, file
  <2> QED BY <2>1, <2>2, <2>4, <2>5, <1>1, <1>6, CompareSafe DEF a, b, row
<1>7. ASSUME Exists(row.path), Attached(b), Dispute(w, t, file.text)
      PROVE  IInv'
  <2> DEFINE next == [Idle EXCEPT !.pc = "conflict", !.b = b, !.text = t, !.disk = file.text]
  <2>1. /\ next \in Calls /\ next.pc = "conflict" /\ next.b = b /\ next.text = t /\ next.disk = file.text
      BY <1>2, <1>3, <1>4, <1>7, IdleIs DEF Idle, Calls, Places
  <2> HIDE DEF next
  <2>2. /\ act' \in [Activities -> Calls] /\ act'[w] = next
        /\ \A v \in Activities : v # w => act'[v] = act[v]
      BY <1>2, <1>7, <2>1, GoIs DEF next, Dispute
  <2>3. Bound' = Bound /\ rows' = rows /\ files' = files
      BY <1>1, <2>2, ActOnly
  <2> HIDE DEF a, b, row, n, t, file
  <2>4. Call(w)'
    <3>1. act'[w].pc = "conflict" /\ act'[w].text \in Texts /\ act'[w].disk \in Texts
        BY <2>1, <2>2, <1>3, <1>4, <1>7
    <3> QED BY <3>1 DEF Call
  <2>5. ASSUME NEW c \in Bound, b = c, Exists(rows[c].path), row.path = rows[c].path
        PROVE  Due(c)'
      BY <2>1, <2>2, <2>3, <2>5 DEF Due, file
  <2> QED BY <2>1, <2>2, <2>4, <2>5, <1>1, <1>7, CompareSafe DEF a, b, row
<1>8. CASE ~Exists(row.path)
  <2> DEFINE patch == [echo |-> None, state |-> "missing"]
  <2>1. Then(w, patch)  BY <1>8 DEF Read
  <2>2. patch \in Patches /\ "base" \notin DOMAIN patch  BY DEF Patches, States
  <2> HIDE DEF patch
  <2> QED BY <2>1, <2>2, <1>5, <1>8
<1>9. CASE Exists(row.path) /\ row.echo = file.text
  <2> DEFINE patch == [identity |-> file.inode, echo |-> None, base |-> file.text, state |-> "clean"]
  <2>1. Then(w, patch)  BY <1>9 DEF Read
  <2>2. patch \in Patches /\ patch.base = file.text  BY <1>3, <1>9 DEF Patches, States
  <2>3. file.text \in Known(row)
      BY <1>2, <1>3, <1>9, Constants DEF Honest, Known
  <2> HIDE DEF patch
  <2> QED BY <2>1, <2>2, <2>3, <1>5
<1>10. CASE Exists(row.path) /\ row.echo # file.text /\ canvas[n].binding # b
  <2>1. Return(w)  BY <1>10 DEF Read
  <2>2. /\ act' \in [Activities -> Calls] /\ act'[w].pc = "idle"
        /\ \A v \in Activities : v # w => act'[v] = act[v]
      BY <2>1, <1>2, LeaveIs
  <2>3. Call(w)'  BY <2>2, IdleCall
  <2>4. ~Attached(b)  BY <1>2, <1>10 DEF Attached, Of
  <2> QED BY <2>2, <2>3, <2>4, <1>1, CompareSafe
<1>11. CASE Exists(row.path) /\ row.echo # file.text /\ canvas[n].binding = b
  <2>1. Compare(w, t, file)  BY <1>11 DEF Read
  <2>2. Attached(b)
    <3>1. canvas[n].binding # None  BY <1>2, <1>11, Constants
    <3>2. b \in Bound /\ rows[b].node = n  BY <3>1, <1>2, <1>11 DEF IInv, Linked
    <3> QED BY <3>2, <1>11 DEF Attached
  <2> DEFINE agreed == [identity |-> file.inode, base |-> file.text, state |-> "clean"]
             followed == [echo |-> None, base |-> file.text, state |-> "clean"]
             ahead == [identity |-> file.inode, state |-> IF t = file.text THEN "clean" ELSE "canvas-dirty"]
  <2>3. /\ agreed \in Patches /\ agreed.base = file.text
        /\ followed \in Patches /\ followed.base = file.text
        /\ ahead \in Patches /\ "base" \notin DOMAIN ahead
      BY <1>3, <1>11 DEF Patches, States
  <2>4. /\ t = file.text => file.text \in Known(row)
        /\ row.base \in Known(row)
      BY <1>2, <1>4 DEF Known, Honest
  <2>5. \/ t = file.text /\ Then(w, followed)
        \/ Go(w, [a EXCEPT !.pc = "commit", !.disk = file.text])
        \/ t = file.text /\ Then(w, agreed)
        \/ file.text = row.base /\ Then(w, ahead)
        \/ Dispute(w, t, file.text)
    <3>1. row.mode \in {"fs-authoritative", "canvas-authoritative", "bidirectional"}
        BY <1>2, Constants
    <3>2. CASE row.mode = "fs-authoritative"  BY <2>1, <3>2 DEF Compare, Adopt, Follow
    <3>3. CASE row.mode = "canvas-authoritative"  BY <2>1, <3>3 DEF Compare
    <3>4. CASE row.mode = "bidirectional"  BY <2>1, <3>4 DEF Compare, Adopt, Follow
    <3> QED BY <3>1, <3>2, <3>3, <3>4
  <2> HIDE DEF agreed, followed, ahead, a, b, row, n, t, file
  <2> QED BY <2>2, <2>3, <2>4, <2>5, <1>5, <1>6, <1>7, <1>11
<1> QED BY <1>8, <1>9, <1>10, <1>11

LEMMA CommitSafe ==
  ASSUME IInv, NEW w \in Activities, Commit(w)
  PROVE  IInv'
<1> DEFINE b == act[w].b
           n == act[w].row.node
           disk == act[w].disk
           patch == [echo |-> None, base |-> disk, state |-> "clean"]
<1>1. /\ act[w].pc = "commit" /\ UNCHANGED <<inputs, files, storeVars, watchVars>>
      /\ CommitLatest(<<b, disk>>, n, disk) /\ Then(w, patch)
    BY DEF Commit, Busy, Follow
<1>2. /\ TypeOK /\ n \in Nodes /\ disk \in Texts /\ Attached(b) /\ b \in Bound /\ b \in Bindings
      /\ rows[b].node = n
  <2>1. TypeOK /\ Call(w) /\ Attached(b) /\ b \in Bindings
      BY <1>1 DEF IInv, Had, Once, Linked
  <2> QED BY <2>1, <1>1, CallRow DEF Call, Attached, Of
<1>3. patch \in Patches /\ patch.base = disk /\ "base" \in DOMAIN patch
    BY <1>2 DEF Patches, States
<1> HIDE DEF patch
<1>4. /\ act' \in [Activities -> Calls]
      /\ act'[w].pc = "update" /\ act'[w].b = b /\ act'[w].patch = patch
      /\ \A v \in Activities : v # w => act'[v] = act[v]
    BY <1>1, <1>2, <1>3, ThenIs
<1>5. /\ canvas' \in [Nodes -> [text : Texts, binding : Bindings \cup {None}]]
      /\ past' \in [Nodes -> SUBSET Texts] /\ spent' \subseteq Bindings \X Texts
      /\ Grows /\ disk \in past'[n]
      /\ \A m \in Nodes : canvas'[m].binding = canvas[m].binding /\ canvas'[m].text \in past'[m]
      /\ \A id \in spent' : id \in spent \/ (Attached(id[1]) /\ id[2] \in past'[rows[id[1]].node])
  <2>0. /\ canvas \in [Nodes -> [text : Texts, binding : Bindings \cup {None}]]
        /\ past \in [Nodes -> SUBSET Texts] /\ spent \subseteq Bindings \X Texts
        /\ \A m \in Nodes : canvas[m].text \in past[m]
      BY DEF IInv, TypeOK, Had
  <2>1. CASE <<b, disk>> \in spent
    <3>1. UNCHANGED canvasVars  BY <1>1, <2>1 DEF CommitLatest
    <3>2. disk \in past[n]  BY <1>2, <2>1 DEF IInv, Had
    <3> QED BY <3>1, <3>2, <2>0 DEF canvasVars, Grows
  <2>2. CASE <<b, disk>> \notin spent
    <3>1. /\ canvas' = [canvas EXCEPT ![n].text = disk]
          /\ past' = [past EXCEPT ![n] = @ \cup {disk}]
          /\ spent' = spent \cup {<<b, disk>>}
        BY <1>1, <2>2 DEF CommitLatest, SetText
    <3> HIDE DEF b, n, disk
    <3>2. canvas' \in [Nodes -> [text : Texts, binding : Bindings \cup {None}]]
        BY <3>1, <2>0, <1>2
    <3>3. \A m \in Nodes : canvas'[m].binding = canvas[m].binding /\ canvas'[m].text \in past'[m]
        BY <3>1, <2>0, <1>2
    <3>4. past' \in [Nodes -> SUBSET Texts] /\ Grows /\ disk \in past'[n]
        BY <3>1, <2>0, <1>2 DEF Grows
    <3>5. \A id \in spent' : id \in spent \/ (Attached(id[1]) /\ id[2] \in past'[rows[id[1]].node])
        BY <3>1, <3>4, <1>2
    <3> QED BY <3>1, <3>2, <3>3, <3>4, <3>5, <2>0, <1>2
  <2> QED BY <2>1, <2>2
<1> HIDE DEF b, n, disk
<1>6. Working(w)
  <2>1. Bound' = Bound /\ rows' = rows  BY <1>1 DEF storeVars, Bound
  <2> QED BY <2>1, <1>1, <1>4, <1>5 DEF Working, SameRow, storeVars
<1>7. TypeOK'  BY <1>1, <1>4, <1>5 DEF IInv, TypeOK, storeVars, watchVars
<1>8. Call(w)'
    BY <1>1, <1>2, <1>3, <1>4, <1>5 DEF Call, Known, storeVars
<1>9. ASSUME NEW c \in Bound, b = c, disk = files[rows[c].path].text
      PROVE  AtRest(c)'
    BY <1>1, <1>2, <1>5, <1>9 DEF AtRest, Known, storeVars
<1>10. Noticed'
    BY <1>1, <1>6, <1>9, NoticedKept DEF storeVars, watchVars, b, disk
<1>11. \A c \in Bound : Honest(rows[c])'
  <2>1. \A c \in Bound : Honest(rows[c]) /\ rows[c].node \in Nodes  BY RowIs DEF IInv, Had
  <2> QED BY <2>1, <1>1, <1>5 DEF Honest, Known, Grows, storeVars
<1>12. \A c \in Bound, d \in Bound : c # d => rows'[c].path # rows'[d].path
    BY <1>1 DEF IInv, Once, storeVars
<1> QED BY <1>2, <1>4, <1>5, <1>6, <1>7, <1>8, <1>10, <1>11, <1>12, WorkSafe DEF Attaching

\* An activity changes a row, but for its node and its path.
LEMMA RowSafe ==
  ASSUME IInv, UNCHANGED <<canvasVars, files, made, watchVars>>,
         NEW w \in Activities, act' \in [Activities -> Calls],
         \A v \in Activities : v # w => act'[v] = act[v],
         NEW b \in Bound, NEW new \in Rows, rows' = [rows EXCEPT ![b] = new],
         new.node = rows[b].node, new.path = rows[b].path, new.first = rows[b].first, Honest(new),
         inputs' \in Nat, conflicts' \subseteq [b : Bindings, canvas : Texts, disk : Texts],
         conflicts \subseteq conflicts',
         act'[w].pc \notin {"insert", "attach"},
         act'[w].pc # "idle" => act'[w].b = act[w].b /\ act[w].pc # "idle",
         act'[w].pc \in Attaching => Attached(act'[w].b),
         Call(w)',
         \A c \in Bound :
           act[w].b = c /\ act[w].pc \in {"read", "commit", "conflict"}
             /\ act[w].disk = files[rows[c].path].text
           => act[w].pc = "conflict" /\ \E d \in conflicts' : d.b = c /\ d.disk = files[rows[c].path].text,
         act[w].pc # "read"
  PROVE  IInv'
<1>1. TypeOK /\ rows \in [Bindings -> {None} \cup Rows] /\ b \in Bindings /\ new # None
    BY NothingAssumption, RowIs DEF IInv, TypeOK
<1>2. /\ rows' \in [Bindings -> {None} \cup Rows] /\ rows'[b] = new
      /\ \A c \in Bindings : c # b => rows'[c] = rows[c]
    BY <1>1
<1>3. Bound' = Bound  BY <1>1, <1>2 DEF Bound
<1>4. \A c \in Bound : /\ c \in Bindings
                       /\ rows'[c].node = rows[c].node /\ rows'[c].first = rows[c].first
                       /\ rows'[c].path = rows[c].path
    BY <1>1, <1>2, RowIs
<1>5. Working(w)  BY <1>3, <1>4 DEF Working, Grows, SameRow, canvasVars
<1>6. TypeOK'  BY <1>2 DEF IInv, TypeOK, canvasVars, watchVars
<1>7. \A c \in Bound : Honest(rows[c])'
  <2>1. \A c \in Bound : Honest(rows[c])  BY DEF IInv, Had
  <2> QED BY <2>1, <1>1, <1>2, RowIs DEF Honest, Known, canvasVars
<1>8. Noticed'
  <2>1. ASSUME NEW c \in Bound, act[w].b = c,
               \/ act[w].pc = "read" /\ act[w].row.path = rows[c].path
               \/ act[w].pc \in {"commit", "conflict"} /\ act[w].disk = files[rows[c].path].text
        PROVE  AtRest(c)'
      BY <2>1, <1>4 DEF AtRest
  <2> QED BY <2>1, <1>4, <1>5, NoticedKept DEF watchVars
<1>9. \A c \in Bound, d \in Bound : c # d => rows'[c].path # rows'[d].path
    BY <1>4 DEF IInv, Once
<1>10. /\ \A n \in Nodes : canvas'[n].text \in past'[n]
       /\ \A id \in spent' : id \in spent
    BY DEF IInv, Had, canvasVars
<1> QED BY <1>5, <1>6, <1>7, <1>8, <1>9, <1>10, WorkSafe

LEMMA RecordConflictSafe ==
  ASSUME IInv, NEW w \in Activities, RecordConflict(w)
  PROVE  IInv'
<1> DEFINE b == act[w].b
           t == act[w].text
           disk == act[w].disk
           patch == [echo |-> None, state |-> "conflict"]
           new == Patched(rows[b], patch)
<1>1. /\ act[w].pc = "conflict" /\ UNCHANGED <<canvasVars, inputs, files, made, watchVars>>
      /\ b \in Bound /\ conflicts' = conflicts \cup {Conflict(b, t, disk)}
      /\ rows' = [rows EXCEPT ![b] = new] /\ Return(w)
    BY DEF RecordConflict, Busy
<1>2. TypeOK /\ b \in Bindings /\ t \in Texts /\ disk \in Texts /\ Honest(rows[b]) /\ rows[b] \in Rows
    BY <1>1, RowIs DEF IInv, Had, Call, Bound
<1>3. patch \in Patches /\ "base" \notin DOMAIN patch  BY DEF Patches, States
<1> HIDE DEF patch
<1>4. /\ new \in Rows /\ new.node = rows[b].node /\ new.path = rows[b].path /\ new.first = rows[b].first
      /\ new.base = rows[b].base /\ new.echo \in {rows[b].echo, None}
    BY <1>2, <1>3, PatchedIs
<1> HIDE DEF new
<1>5. Honest(new)  BY <1>2, <1>4 DEF Honest, Known
<1>6. /\ act' \in [Activities -> Calls] /\ act'[w].pc = "idle"
      /\ \A v \in Activities : v # w => act'[v] = act[v]
    BY <1>1, <1>2, LeaveIs
<1>7. Call(w)'  BY <1>6, IdleCall
<1>8. /\ Conflict(b, t, disk) \in [b : Bindings, canvas : Texts, disk : Texts]
      /\ Conflict(b, t, disk).b = b /\ Conflict(b, t, disk).disk = disk
    BY <1>2 DEF Conflict
<1>9. conflicts' \subseteq [b : Bindings, canvas : Texts, disk : Texts] /\ inputs' \in Nat
    BY <1>1, <1>2, <1>8 DEF TypeOK
<1>10. \A c \in Bound : b = c /\ disk = files[rows[c].path].text =>
         \E d \in conflicts' : d.b = c /\ d.disk = files[rows[c].path].text
    BY <1>1, <1>8
<1> HIDE DEF b, t, disk
<1>11. \A c \in Bound : act[w].b = c /\ act[w].disk = files[rows[c].path].text =>
         \E d \in conflicts' : d.b = c /\ d.disk = files[rows[c].path].text
    BY <1>10 DEF b, disk
<1> QED BY <1>1, <1>4, <1>5, <1>6, <1>7, <1>9, <1>11, RowSafe DEF Attaching

LEMMA UpdateSafe ==
  ASSUME IInv, NEW w \in Activities, Update(w)
  PROVE  IInv'
<1> DEFINE b == act[w].b
           patch == act[w].patch
           new == Patched(rows[b], patch)
<1>1. /\ act[w].pc = "update" /\ UNCHANGED <<canvasVars, inputs, files, made, conflicts, watchVars>>
      /\ b \in Bound /\ rows' = [rows EXCEPT ![b] = new] /\ Return(w)
    BY DEF Update, Busy
<1>2. /\ TypeOK /\ b \in Bindings /\ Honest(rows[b]) /\ rows[b] \in Rows /\ patch \in Patches
      /\ "base" \in DOMAIN patch => patch.base \in Known(rows[b])
    BY <1>1, RowIs DEF IInv, Had, Call, Bound
<1> HIDE DEF patch
<1>4. /\ new \in Rows /\ new.node = rows[b].node /\ new.path = rows[b].path /\ new.first = rows[b].first
      /\ new.base = rows[b].base \/ ("base" \in DOMAIN patch /\ new.base = patch.base)
      /\ new.echo \in {rows[b].echo, None}
    BY <1>2, PatchedIs
<1> HIDE DEF new
<1>5. Honest(new)  BY <1>2, <1>4 DEF Honest, Known
<1>6. /\ act' \in [Activities -> Calls] /\ act'[w].pc = "idle"
      /\ \A v \in Activities : v # w => act'[v] = act[v]
    BY <1>1, <1>2, LeaveIs
<1>7. Call(w)'  BY <1>6, IdleCall
<1>8. conflicts' \subseteq [b : Bindings, canvas : Texts, disk : Texts] /\ inputs' \in Nat
      /\ conflicts' = conflicts
    BY <1>1, <1>2 DEF TypeOK
<1> HIDE DEF b
<1> QED BY <1>1, <1>4, <1>5, <1>6, <1>7, <1>8, RowSafe DEF Attaching
-----------------------------------------------------------------------------
(* Saving *)

Saving == {"announce", "check", "rename", "settle", "failed"}

\* A save goes on, with what it has read of its row.
LEMMA SaveGoesOn ==
  ASSUME TypeOK, NEW w \in Activities, Call(w), act[w].pc \in Saving, act'[w].pc \in Saving,
         act'[w].b = act[w].b, act'[w].row = act[w].row, act'[w].text = act[w].text,
         act'[w].disk = act[w].disk, Grows, SameRow(act[w].b),
         act'[w].pc = "rename" /\ Exists(act[w].row.path) =>
           files[act[w].row.path].text \in Known(act[w].row),
         files' = files
  PROVE  Call(w)'
<1> DEFINE row == act[w].row
<1>1. /\ row \in Views /\ row.node \in Nodes /\ Honest(row) /\ Of(row, act[w].b)
      /\ act[w].text \in past[row.node] /\ act[w].disk \in Known(row)
    BY CallRow DEF Saving, Call
<1>2. past[row.node] \subseteq past'[row.node]  BY <1>1 DEF Grows
<1>3. act'[w].row = row /\ act'[w].b = act[w].b  OBVIOUS
<1> HIDE DEF row
<1>4. /\ act'[w].row \in Views /\ Honest(act[w].row)' /\ Of(act[w].row, act[w].b)'
      /\ act'[w].text \in past'[act'[w].row.node] /\ act'[w].disk \in Known(act[w].row)'
    BY <1>1, <1>2, <1>3 DEF Honest, Known, Of, SameRow
<1>5. act'[w].pc = "rename" /\ Exists(act[w].row.path)' =>
        files'[act'[w].row.path].text \in Known(act[w].row)'
    BY <1>1, <1>2, <1>3 DEF Exists, Known, row
<1> QED BY <1>4, <1>5 DEF Call, Saving

LEMMA SaveIs ==
  ASSUME IInv, NEW w \in Activities, act[w].pc \in Saving
  PROVE  /\ TypeOK /\ Call(w) /\ Attached(act[w].b)
         /\ act[w].b \in Bound /\ act[w].b \in Bindings /\ rows[act[w].b] \in Rows
         /\ Honest(rows[act[w].b])
         /\ act[w].row.node = rows[act[w].b].node /\ act[w].row.path \in Paths
         /\ act[w].row.node \in Nodes
         /\ act[w].text \in past[rows[act[w].b].node] /\ act[w].text \in Texts
<1>1. TypeOK /\ Call(w) /\ Attached(act[w].b)  BY DEF IInv, Had, Linked, Saving
<1>2. act[w].b \in Bound  BY <1>1 DEF Attached
<1>3. /\ act[w].row.node \in Nodes /\ act[w].row.path \in Paths
      /\ act[w].row.node = rows[act[w].b].node
      /\ act[w].text \in past[act[w].row.node]
    BY <1>1, <1>2, CallRow DEF Saving, Call, Of
<1>4. act[w].text \in Texts  BY <1>1, <1>3 DEF TypeOK
<1> QED BY <1>1, <1>2, <1>3, <1>4, RowIs DEF IInv, Had

LEMMA AnnounceSafe ==
  ASSUME IInv, NEW w \in Activities, Announce(w)
  PROVE  IInv'
<1> DEFINE b == act[w].b
           t == act[w].text
           new == [rows[b] EXCEPT !.echo = t, !.state = "canvas-dirty"]
<1>1. act[w].pc = "announce" /\ UNCHANGED <<canvasVars, inputs, files, made, conflicts, watchVars>>
    BY DEF Announce, Busy
<1>2. /\ TypeOK /\ Call(w) /\ Attached(b) /\ b \in Bound /\ rows[b] \in Rows /\ Honest(rows[b])
      /\ t \in past[rows[b].node] /\ t \in Texts
    BY <1>1, SaveIs DEF Saving
<1>3. rows' = [rows EXCEPT ![b].echo = t, ![b].state = "canvas-dirty"]
      /\ Go(w, [act[w] EXCEPT !.pc = "check"])
    BY <1>2 DEF Announce
<1>4. rows' = [rows EXCEPT ![b] = new]  BY <1>2, <1>3 DEF TypeOK, Bound
<1>5. /\ new \in Rows /\ new.node = rows[b].node /\ new.path = rows[b].path /\ new.first = rows[b].first
      /\ new.base = rows[b].base /\ new.echo = t
    BY <1>2 DEF Rows, States
<1>6. /\ act' \in [Activities -> Calls]
      /\ act'[w].pc = "check" /\ act'[w].b = act[w].b /\ act'[w].row = act[w].row
      /\ act'[w].text = act[w].text /\ act'[w].disk = act[w].disk
      /\ \A v \in Activities : v # w => act'[v] = act[v]
    BY <1>2, <1>3, GoesOn DEF Places
<1> HIDE DEF new
<1>7. Honest(new)  BY <1>2, <1>5 DEF Honest, Known
<1>8. Grows /\ SameRow(act[w].b)
    BY <1>1, <1>2, <1>4, <1>5 DEF Grows, SameRow, canvasVars, TypeOK, Bound
<1>9. Call(w)'  BY <1>1, <1>2, <1>6, <1>8, SaveGoesOn DEF Saving
<1>10. /\ conflicts' \subseteq [b : Bindings, canvas : Texts, disk : Texts] /\ conflicts' = conflicts
       /\ inputs' \in Nat
    BY <1>1, <1>2 DEF TypeOK
<1> QED BY <1>1, <1>2, <1>4, <1>5, <1>6, <1>7, <1>9, <1>10, RowSafe

LEMMA SaveFailedSafe ==
  ASSUME IInv, NEW w \in Activities, SaveFailed(w)
  PROVE  IInv'
<1> DEFINE b == act[w].b
           new == [rows[b] EXCEPT !.echo = None, !.state = "conflict"]
<1>1. /\ act[w].pc = "failed" /\ UNCHANGED <<canvasVars, inputs, files, made, conflicts, watchVars>>
      /\ Return(w)
    BY DEF SaveFailed, Busy
<1>2. TypeOK /\ b \in Bound /\ rows[b] \in Rows /\ Honest(rows[b])
    BY <1>1, SaveIs DEF Saving
<1>3. rows' = [rows EXCEPT ![b].echo = None, ![b].state = "conflict"]
    BY <1>2 DEF SaveFailed
<1>4. rows' = [rows EXCEPT ![b] = new]  BY <1>2, <1>3 DEF TypeOK, Bound
<1>5. /\ new \in Rows /\ new.node = rows[b].node /\ new.path = rows[b].path /\ new.first = rows[b].first
      /\ new.base = rows[b].base /\ new.echo = None
    BY <1>2 DEF Rows, States
<1>6. /\ act' \in [Activities -> Calls] /\ act'[w].pc = "idle"
      /\ \A v \in Activities : v # w => act'[v] = act[v]
    BY <1>1, <1>2, LeaveIs
<1> HIDE DEF new
<1>7. Honest(new)  BY <1>2, <1>5 DEF Honest, Known
<1>8. Call(w)'  BY <1>6, IdleCall
<1>9. /\ conflicts' \subseteq [b : Bindings, canvas : Texts, disk : Texts] /\ conflicts' = conflicts
       /\ inputs' \in Nat
    BY <1>1, <1>2 DEF TypeOK
<1> HIDE DEF b
<1> QED BY <1>1, <1>2, <1>4, <1>5, <1>6, <1>7, <1>8, <1>9, RowSafe DEF Attaching

\* Of a step that changes no row.
LEMMA ActSafe ==
  ASSUME IInv, UNCHANGED <<canvasVars, files, storeVars, watching, hints, sweep>>,
         missed => missed', missed' \in BOOLEAN, inputs' \in Nat,
         NEW w \in Activities, act' \in [Activities -> Calls],
         \A v \in Activities : v # w => act'[v] = act[v],
         act'[w].pc \notin {"insert", "attach"},
         act'[w].pc # "idle" => act'[w].b \in Bound \/ (act[w].pc # "idle" /\ act'[w].b = act[w].b),
         act'[w].pc \in Attaching => Attached(act'[w].b),
         Call(w)',
         missed' \/ act[w].pc \notin {"read", "commit", "conflict"}
  PROVE  IInv'
<1>1. /\ Working(w)
      /\ \A b \in Bound, c \in Bound : b # c => rows'[b].path # rows'[c].path
      /\ \A n \in Nodes : canvas'[n].text \in past'[n]
      /\ \A id \in spent' : id \in spent \/ (Attached(id[1]) /\ id[2] \in past'[rows[id[1]].node])
      /\ \A b \in Bound : Honest(rows[b])'
      /\ \A b \in Bound : rows'[b].path = rows[b].path
    BY ActOnly
<1>2. TypeOK'  BY DEF IInv, TypeOK, canvasVars, storeVars
<1>3. Noticed'
  <2>1. CASE missed'  BY <2>1 DEF Noticed
  <2>2. CASE ~missed'  BY <2>2, <1>1, NoticedKept DEF storeVars
  <2> QED BY <2>1, <2>2
<1> QED BY <1>1, <1>2, <1>3, WorkSafe

LEMMA SettleSafe ==
  ASSUME IInv, NEW w \in Activities, Settle(w)
  PROVE  IInv'
<1> DEFINE b == act[w].b
           t == act[w].text
           p == act[w].row.path
           new == [rows[b] EXCEPT !.base = t, !.echo = t, !.identity = files[p].inode, !.state = "clean"]
<1>1. act[w].pc = "settle" /\ UNCHANGED <<canvasVars, inputs, files, made, conflicts, watchVars>>
    BY DEF Settle, Busy
<1>2. /\ TypeOK /\ Call(w) /\ Attached(b) /\ b \in Bound /\ rows[b] \in Rows /\ Honest(rows[b])
      /\ t \in past[rows[b].node] /\ t \in Texts /\ p \in Paths
    BY <1>1, SaveIs DEF Saving
<1>3. CASE Exists(p)
  <2>1. /\ rows' = [rows EXCEPT ![b].base = t, ![b].echo = t, ![b].identity = files[p].inode, ![b].state = "clean"]
        /\ Return(w)
      BY <1>2, <1>3 DEF Settle
  <2>2. rows' = [rows EXCEPT ![b] = new]  BY <1>2, <2>1 DEF TypeOK, Bound
  <2>3. files[p].inode \in Inodes  BY <1>2, <1>3 DEF TypeOK, Exists
  <2>4. /\ new \in Rows /\ new.node = rows[b].node /\ new.path = rows[b].path /\ new.first = rows[b].first
        /\ new.base = t /\ new.echo = t
      BY <1>2, <2>3 DEF Rows, States
  <2>5. /\ act' \in [Activities -> Calls] /\ act'[w].pc = "idle"
        /\ \A v \in Activities : v # w => act'[v] = act[v]
      BY <1>2, <2>1, LeaveIs
  <2> HIDE DEF new
  <2>6. Honest(new)  BY <1>2, <2>4 DEF Honest, Known
  <2>7. Call(w)'  BY <2>5, IdleCall
  <2>8. /\ conflicts' \subseteq [b : Bindings, canvas : Texts, disk : Texts] /\ conflicts' = conflicts
        /\ inputs' \in Nat
      BY <1>1, <1>2 DEF TypeOK
  <2> HIDE DEF b, t, p
  <2> QED BY <1>1, <1>2, <2>2, <2>4, <2>5, <2>6, <2>7, <2>8, RowSafe DEF Attaching
<1>4. CASE ~Exists(p)
  <2>1. UNCHANGED rows /\ Go(w, [act[w] EXCEPT !.pc = "failed"])  BY <1>4 DEF Settle
  <2>2. /\ act' \in [Activities -> Calls]
        /\ act'[w].pc = "failed" /\ act'[w].b = act[w].b /\ act'[w].row = act[w].row
        /\ act'[w].text = act[w].text /\ act'[w].disk = act[w].disk
        /\ \A v \in Activities : v # w => act'[v] = act[v]
      BY <1>2, <2>1, GoesOn DEF Places
  <2>3. Grows /\ SameRow(act[w].b)
      BY <1>1, <1>2, <2>1 DEF Grows, SameRow, canvasVars, Bound
  <2>4. Call(w)'  BY <1>1, <1>2, <2>2, <2>3, SaveGoesOn DEF Saving
  <2>5. missed' = missed /\ missed \in BOOLEAN /\ inputs' \in Nat
      BY <1>1, <1>2 DEF watchVars, TypeOK
  <2> QED BY <1>1, <1>2, <2>1, <2>2, <2>4, <2>5, ActSafe DEF watchVars, storeVars
<1> QED BY <1>3, <1>4

LEMMA CheckSafe ==
  ASSUME IInv, NEW w \in Activities, Check(w)
  PROVE  IInv'
<1> DEFINE p == act[w].row.path
           pc == IF Exists(p) /\ files[p].text = act[w].disk THEN "rename" ELSE "failed"
<1>1. /\ act[w].pc = "check" /\ UNCHANGED <<canvasVars, inputs, files, storeVars, watchVars>>
      /\ Go(w, [act[w] EXCEPT !.pc = pc])
    BY DEF Check, Busy
<1>2. TypeOK /\ Call(w) /\ Attached(act[w].b) /\ act[w].b \in Bound
    BY <1>1, SaveIs DEF Saving
<1>3. pc \in {"rename", "failed"} /\ (pc = "rename" => files[p].text = act[w].disk)  OBVIOUS
<1> HIDE DEF pc
<1>4. pc \in Places  BY <1>3 DEF Places
<1>5. /\ act' \in [Activities -> Calls]
      /\ act'[w].pc = pc /\ act'[w].b = act[w].b /\ act'[w].row = act[w].row
      /\ act'[w].text = act[w].text /\ act'[w].disk = act[w].disk
      /\ \A v \in Activities : v # w => act'[v] = act[v]
    BY <1>1, <1>2, <1>4, GoesOn
<1>6. Grows /\ SameRow(act[w].b)
    BY <1>1, <1>2 DEF Grows, SameRow, canvasVars, storeVars, Bound
<1>7. act[w].disk \in Known(act[w].row)  BY <1>1, <1>2 DEF Call
<1>8. Call(w)'  BY <1>1, <1>2, <1>3, <1>5, <1>6, <1>7, SaveGoesOn DEF Saving
<1>9. missed' = missed /\ missed \in BOOLEAN /\ inputs' \in Nat
    BY <1>1, <1>2 DEF watchVars, TypeOK
<1> QED BY <1>1, <1>2, <1>3, <1>5, <1>8, <1>9, ActSafe DEF watchVars

LEMMA SaveSafe ==
  ASSUME IInv, NEW w \in Activities, NEW b \in Bindings, Save(w, b)
  PROVE  IInv'
<1> DEFINE row == Restrict(rows[b], ReadColumns)
           t == canvas[rows[b].node].text
           disk == files[rows[b].path].text
           pc == IF disk \in {rows[b].base, t} THEN "announce" ELSE "conflict"
           next == [Idle EXCEPT !.b = b, !.row = row, !.text = t, !.disk = disk, !.pc = pc]
<1>1. /\ act[w].pc = "idle" /\ UNCHANGED <<canvasVars, files, storeVars, watchVars>> /\ Input
      /\ b \in Bound /\ canvas[rows[b].node].binding = b /\ Exists(rows[b].path)
      /\ Go(w, next)
    BY DEF Save, Busy
<1>2. /\ TypeOK /\ rows[b] \in Rows /\ rows[b].node \in Nodes /\ rows[b].path \in Paths
      /\ rows[b].first \in Texts /\ Honest(rows[b])
      /\ t \in past[rows[b].node] /\ t \in Texts
    BY <1>1, RowIs DEF IInv, Had, TypeOK
<1>3. disk \in Texts  BY <1>1, <1>2 DEF TypeOK, Exists
<1>4. /\ row \in Views
      /\ row.node = rows[b].node /\ row.path = rows[b].path
      /\ row.base = rows[b].base /\ row.echo = rows[b].echo /\ row.first = rows[b].first
    BY <1>2, ViewIs
<1>5. pc \in {"announce", "conflict"} /\ (pc = "announce" => disk \in {rows[b].base, t})  OBVIOUS
<1> HIDE DEF pc, row
<1>6. /\ next \in Calls /\ next.pc = pc /\ next.b = b /\ next.row = row /\ next.text = t /\ next.disk = disk
  <2> HIDE DEF t, disk
  <2> QED BY <1>2, <1>3, <1>4, <1>5, IdleIs DEF Idle, Calls, Places
<1> HIDE DEF next
<1>7. /\ act' \in [Activities -> Calls] /\ act'[w] = next
      /\ \A v \in Activities : v # w => act'[v] = act[v]
    BY <1>1, <1>2, <1>6, GoIs
<1>8. Attached(b)  BY <1>1 DEF Attached
<1> HIDE DEF t, disk
<1>9. Call(w)'
  <2>1. act'[w].pc \in {"announce", "conflict"} /\ act'[w].b = b /\ act'[w].row = row
        /\ act'[w].text = t /\ act'[w].disk = disk
      BY <1>5, <1>6, <1>7
  <2>2. /\ past' = past /\ rows' = rows /\ b \in Bound'
      BY <1>1 DEF canvasVars, storeVars, Bound
  <2>3. pc = "announce" => disk \in Known(row)
      BY <1>2, <1>4, <1>5 DEF Known, Honest
  <2>4. Honest(act[w].row)' /\ Of(act[w].row, act[w].b)'
      BY <1>2, <1>4, <2>1, <2>2 DEF Honest, Known, Of
  <2>5. act'[w].pc = "announce" => act'[w].disk \in Known(act[w].row)'
      BY <1>6, <1>7, <2>1, <2>2, <2>3 DEF Known
  <2> QED BY <1>2, <1>3, <1>4, <2>1, <2>2, <2>4, <2>5 DEF Call
<1>10. missed' = missed /\ missed \in BOOLEAN /\ inputs' \in Nat
    BY <1>1, <1>2, InputIs DEF watchVars, TypeOK
<1> QED BY <1>1, <1>5, <1>6, <1>7, <1>8, <1>9, <1>10, ActSafe DEF watchVars

LEMMA ActivityFailsSafe ==
  ASSUME IInv, NEW w \in Activities, ActivityFails(w)
  PROVE  IInv'
<1>1. /\ act[w].pc \notin {"idle", "attach"}
      /\ UNCHANGED <<canvasVars, files, storeVars, watching, hints, sweep>> /\ missed' = TRUE
      /\ Input \/ UNCHANGED inputs
    BY DEF ActivityFails
<1>2. TypeOK /\ inputs' \in Nat  BY <1>1, InputIs DEF IInv
<1>3. CASE act[w].pc \in {"check", "rename", "settle"}
  <2>1. Go(w, [act[w] EXCEPT !.pc = "failed"])  BY <1>3 DEF ActivityFails
  <2>2. Call(w) /\ Attached(act[w].b) /\ act[w].b \in Bound  BY <1>3, SaveIs DEF Saving
  <2>3. /\ act' \in [Activities -> Calls]
        /\ act'[w].pc = "failed" /\ act'[w].b = act[w].b /\ act'[w].row = act[w].row
        /\ act'[w].text = act[w].text /\ act'[w].disk = act[w].disk
        /\ \A v \in Activities : v # w => act'[v] = act[v]
      BY <1>2, <2>1, GoesOn DEF Places
  <2>4. Grows /\ SameRow(act[w].b)
      BY <1>1, <2>2 DEF Grows, SameRow, canvasVars, storeVars, Bound
  <2>5. Call(w)'  BY <1>1, <1>2, <1>3, <2>2, <2>3, <2>4, SaveGoesOn DEF Saving
  <2> QED BY <1>1, <1>2, <2>2, <2>3, <2>5, ActSafe
<1>4. CASE act[w].pc \notin {"check", "rename", "settle"}
  <2>1. Return(w)  BY <1>4 DEF ActivityFails
  <2>2. /\ act' \in [Activities -> Calls] /\ act'[w].pc = "idle"
        /\ \A v \in Activities : v # w => act'[v] = act[v]
      BY <1>2, <2>1, LeaveIs
  <2>3. Call(w)'  BY <2>2, IdleCall
  <2> QED BY <1>1, <1>2, <2>2, <2>3, ActSafe DEF Attaching
<1> QED BY <1>3, <1>4
-----------------------------------------------------------------------------
(* Noticing *)

LEMMA ReconcileSafe ==
  ASSUME IInv, UNCHANGED <<canvasVars, inputs, files, made, conflicts, watching, missed>>,
         NEW w \in Activities, act[w].pc = "idle", NEW b \in Bound, NEW q \in Paths,
         rows' = [rows EXCEPT ![b].path = q], Reconcile(w, b, rows'[b]),
         \A c \in Bound : c # b => rows[c].path # q,
         hints \ {q} \subseteq hints', hints' \subseteq Paths, sweep' \subseteq Bindings
  PROVE  IInv'
<1>1. TypeOK /\ b \in Bindings /\ rows[b] \in Rows /\ Honest(rows[b])
      /\ rows \in [Bindings -> {None} \cup Rows]
    BY RowIs DEF IInv, Had, TypeOK
<1> DEFINE new == [rows[b] EXCEPT !.path = q]
<1>2. /\ new \in Rows /\ new # None /\ new.path = q /\ new.node = rows[b].node
      /\ new.first = rows[b].first /\ new.base = rows[b].base /\ new.echo = rows[b].echo
  <2>1. new \in Rows  BY <1>1 DEF Rows
  <2> QED BY <2>1, <1>1, NothingAssumption DEF Rows
<1>3. rows' \in [Bindings -> {None} \cup Rows] /\ rows'[b] = new
      /\ \A c \in Bindings : c # b => rows'[c] = rows[c]
    BY <1>1, <1>2
<1>4. Bound' = Bound  BY <1>2, <1>3 DEF Bound
<1> HIDE DEF new
<1>5. /\ act' \in [Activities -> Calls]
      /\ act'[w].pc = "read" /\ act'[w].b = b /\ act'[w].row \in Views
      /\ act'[w].row.node = new.node /\ act'[w].row.first = new.first /\ act'[w].row.path = q
      /\ act'[w].row.base = new.base /\ act'[w].row.echo = new.echo
      /\ \A v \in Activities : v # w => act'[v] = act[v]
    BY <1>1, <1>2, <1>3, ReconcileIs
<1>6. TypeOK'  BY <1>3, <1>5 DEF IInv, TypeOK, canvasVars
<1>7. \A c \in Bound : /\ c \in Bindings
                       /\ rows'[c].node = rows[c].node /\ rows'[c].first = rows[c].first
                       /\ rows'[c].base = rows[c].base /\ rows'[c].echo = rows[c].echo
                       /\ c # b => rows'[c].path = rows[c].path
    BY <1>2, <1>3, RowIs, <1>1
<1>8. Working(w)  BY <1>4, <1>5, <1>7 DEF Working, Grows, SameRow, canvasVars
<1>9. Call(w)'
  <2>1. Honest(act[w].row)' /\ Of(act[w].row, act[w].b)'
      BY <1>1, <1>2, <1>3, <1>5 DEF Honest, Known, Of, canvasVars
  <2> QED BY <2>1, <1>5 DEF Call
<1>10. \A c \in Bound : Honest(rows[c])'
  <2>1. \A c \in Bound : Honest(rows[c])  BY DEF IInv, Had
  <2> QED BY <2>1, <1>7 DEF Honest, Known, canvasVars
<1>11. \A c \in Bound, d \in Bound : c # d => rows'[c].path # rows'[d].path
  <2>1. \A c \in Bound, d \in Bound : c # d => rows[c].path # rows[d].path  BY DEF IInv, Once
  <2> QED BY <2>1, <1>2, <1>3, <1>7
<1>12. Noticed'
  <2> SUFFICES ASSUME ~missed, NEW c \in Bound, Attached(c)', Exists(rows[c].path)'
               PROVE  AtRest(c)' \/ Due(c)'
      BY <1>4 DEF Noticed
  <2>1. CASE c = b
    <3>1. act'[w].row.path = rows'[c].path  BY <2>1, <1>2, <1>3, <1>5
    <3> QED BY <2>1, <3>1, <1>5 DEF Due
  <2>2. CASE c # b
    <3>1. rows'[c].path = rows[c].path /\ rows[c].path # q  BY <2>2, <1>7
    <3>2. Attached(c) /\ Exists(rows[c].path)
      <4>1. canvas' = canvas /\ files' = files  BY DEF canvasVars
      <4> QED BY <3>1, <4>1, <1>7 DEF Attached, Exists
    <3>3. AtRest(c) \/ Due(c)  BY <3>2 DEF IInv, Noticed
    <3>4. AtRest(c) => AtRest(c)'
        BY <3>1, <1>7 DEF AtRest, Known, canvasVars
    <3>5. rows[c].path \in hints => rows'[c].path \in hints'  BY <3>1
    <3>6. ASSUME NEW v \in Activities, act[v].pc # "idle"  PROVE act'[v] = act[v]
        BY <3>6, <1>5
    <3>7. Due(c) => Due(c)'
        BY <3>1, <3>5, <3>6 DEF Due
    <3> QED BY <3>3, <3>4, <3>7
  <2> QED BY <2>1, <2>2
<1>13. /\ \A n \in Nodes : canvas'[n].text \in past'[n]
       /\ \A id \in spent' : id \in spent
    BY DEF IInv, Had, canvasVars
<1>14. act'[w].pc \notin Attaching \cup {"insert", "attach"} /\ act'[w].b \in Bound
    BY <1>5 DEF Attaching
<1> QED BY <1>6, <1>8, <1>9, <1>10, <1>11, <1>12, <1>13, <1>14, WorkSafe

\* Of a step that changes no file, no row and no activity.
LEMMA StillSafe ==
  ASSUME IInv, TypeOK', UNCHANGED <<files, storeVars, act, spent>>, Grows,
         \A n \in Nodes : canvas'[n].binding = canvas[n].binding /\ canvas'[n].text \in past'[n],
         missed => missed',
         missed' \/ \A b \in Bound : rows[b].path \in hints => rows[b].path \in hints'
  PROVE  IInv'
<1> USE DEF storeVars
<1>1. TypeOK /\ Bound' = Bound /\ \A b : SameRow(b)  BY DEF IInv, Bound, SameRow
<1>2. \A b \in Bound : rows[b].node \in Nodes  BY <1>1, RowIs
<1>3. \A b : Attached(b)' <=> Attached(b)  BY <1>1, <1>2 DEF Attached
<1>4. Once'  BY <1>1 DEF IInv, Once
<1>5. Linked'
  <2>1. \A v \in Activities : act'[v].pc \in Attaching => Attached(act[v].b)'
      BY <1>3 DEF IInv, Linked, Attaching
  <2> QED BY <2>1, <1>1 DEF IInv, Linked, Attaching
<1>6. Had'
  <2>1. \A v \in Activities : Call(v)'  BY <1>1, CallKept DEF IInv, Had
  <2>2. \A id \in spent' : Attached(id[1])' /\ id[2] \in past'[rows'[id[1]].node]
      BY <1>2, <1>3 DEF IInv, Had, Attached, Grows
  <2>3. \A b \in Bound' : Honest(rows[b])'
      BY <1>1, <1>2 DEF IInv, Had, Honest, Known, Grows
  <2> QED BY <2>1, <2>2, <2>3 DEF Had
<1>7. Noticed'
  <2>1. CASE missed'  BY <2>1 DEF Noticed
  <2>2. CASE ~missed'
    <3>1. \A b \in Bound : AtRest(b) => AtRest(b)'  BY <1>2 DEF AtRest, Known, Grows
    <3>2. \A b \in Bound : Due(b) => Due(b)'  BY <2>2 DEF Due
    <3> QED BY <2>2, <3>1, <3>2, <1>1, <1>3 DEF IInv, Noticed, Exists
  <2> QED BY <2>1, <2>2
<1> QED BY <1>4, <1>5, <1>6, <1>7 DEF IInv

LEMMA EditSafe ==
  ASSUME IInv, NEW n \in Nodes, NEW t \in Texts, Edit(n, t)
  PROVE  IInv'
<1>1. /\ UNCHANGED <<spent, files, storeVars, act, watchVars>> /\ Input
      /\ canvas' = [canvas EXCEPT ![n].text = t] /\ past' = [past EXCEPT ![n] = @ \cup {t}]
    BY DEF Edit, SetText
<1>2. /\ canvas \in [Nodes -> [text : Texts, binding : Bindings \cup {None}]]
      /\ past \in [Nodes -> SUBSET Texts] /\ \A m \in Nodes : canvas[m].text \in past[m]
    BY DEF IInv, TypeOK, Had
<1>3. canvas' \in [Nodes -> [text : Texts, binding : Bindings \cup {None}]] /\ past' \in [Nodes -> SUBSET Texts]
    BY <1>1, <1>2
<1>4. Grows /\ \A m \in Nodes : canvas'[m].binding = canvas[m].binding /\ canvas'[m].text \in past'[m]
    BY <1>1, <1>2 DEF Grows
<1>5. TypeOK'  BY <1>1, <1>3, InputIs DEF IInv, TypeOK, storeVars, watchVars
<1> QED BY <1>1, <1>4, <1>5, StillSafe DEF watchVars

LEMMA WatchSafe ==
  ASSUME IInv, Watch
  PROVE  IInv'
<1>1. UNCHANGED <<canvasVars, inputs, files, storeVars, act, hints, sweep, missed>> /\ watching' = TRUE
    BY DEF Watch
<1>2. TypeOK'  BY <1>1 DEF IInv, TypeOK, canvasVars, storeVars
<1>3. Grows /\ \A n \in Nodes : canvas'[n].binding = canvas[n].binding /\ canvas'[n].text \in past'[n]
    BY <1>1 DEF IInv, Had, Grows, canvasVars
<1> QED BY <1>1, <1>2, <1>3, StillSafe DEF canvasVars

\* The statement fails.
LEMMA FailsSafe ==
  ASSUME IInv, UNCHANGED <<canvasVars, inputs, files, rows, act, made, conflicts, watching>>, missed' = TRUE,
         hints' \subseteq Paths, sweep' \subseteq Bindings
  PROVE  IInv'
<1>1. TypeOK'  BY DEF IInv, TypeOK, canvasVars
<1>2. Grows /\ \A n \in Nodes : canvas'[n].binding = canvas[n].binding /\ canvas'[n].text \in past'[n]
    BY DEF IInv, Had, Grows, canvasVars
<1> QED BY <1>1, <1>2, StillSafe DEF canvasVars, storeVars

LEMMA SamePath ==
  ASSUME TypeOK, NEW b \in Bound
  PROVE  [rows EXCEPT ![b].path = rows[b].path] = rows
<1>1. rows[b] \in Rows /\ b \in Bindings /\ rows \in [Bindings -> {None} \cup Rows]
    BY RowIs DEF TypeOK
<1>2. [rows[b] EXCEPT !.path = rows[b].path] = rows[b]  BY <1>1 DEF Rows
<1> QED BY <1>1, <1>2

LEMMA FollowFileSafe ==
  ASSUME IInv, UNCHANGED <<canvasVars, inputs, files, made, conflicts, watching>>,
         NEW w \in Activities, act[w].pc = "idle", NEW b \in Bound, NEW p \in Paths, FollowFile(w, b, p),
         hints \ {p} \subseteq hints', hints' \subseteq Paths, sweep' \subseteq Bindings
  PROVE  IInv'
<1>1. CASE Taken(p)
    BY <1>1, FailsSafe DEF FollowFile
<1>2. CASE ~Taken(p)
  <2>1. rows' = [rows EXCEPT ![b].path = p] /\ Reconcile(w, b, rows'[b]) /\ UNCHANGED missed
      BY <1>2 DEF FollowFile
  <2>2. \A c \in Bound : rows[c].path # p  BY <1>2 DEF Taken
  <2> QED BY <2>1, <2>2, ReconcileSafe
<1> QED BY <1>1, <1>2

\* An activity looks at a row that stays where it is.
LEMMA LookSafe ==
  ASSUME IInv, UNCHANGED <<canvasVars, inputs, files, rows, made, conflicts, watching, missed>>,
         NEW w \in Activities, act[w].pc = "idle", NEW b \in Bound, Reconcile(w, b, rows[b]),
         hints \ {rows[b].path} \subseteq hints', hints' \subseteq Paths, sweep' \subseteq Bindings
  PROVE  IInv'
<1> DEFINE q == rows[b].path
<1>1. TypeOK /\ q \in Paths  BY RowIs DEF IInv
<1>2. rows' = [rows EXCEPT ![b].path = q]  BY <1>1, SamePath
<1>3. \A c \in Bound : c # b => rows[c].path # q  BY DEF IInv, Once
<1>4. Reconcile(w, b, rows'[b])  OBVIOUS
<1>5. hints \ {q} \subseteq hints'  OBVIOUS
<1>6. UNCHANGED <<canvasVars, inputs, files, made, conflicts, watching, missed>>  OBVIOUS
<1> HIDE DEF q
<1> QED BY <1>1, <1>2, <1>3, <1>4, <1>5, <1>6, ReconcileSafe, ZenonT(60)

LEMMA NoticeSafe ==
  ASSUME IInv, NEW w \in Activities, NEW p \in Paths, Notice(w, p)
  PROVE  IInv'
<1>1. /\ act[w].pc = "idle" /\ hints' = hints \ {p} /\ sweep' = Bindings
      /\ UNCHANGED <<canvasVars, inputs, files, made, conflicts, watching>>
      /\ hints \subseteq Paths /\ TypeOK
    BY DEF Notice, Busy, IInv, TypeOK
<1>2. ASSUME NEW b \in Elsewhere(p), FollowFile(w, b, p)  PROVE IInv'
  <2>1. b \in Bound  BY DEF Elsewhere
  <2> QED BY <1>1, <1>2, <2>1, FollowFileSafe
<1>3. ASSUME NEW b \in Bound, rows[b].path = p, Reconcile(w, b, rows[b]), UNCHANGED <<rows, missed>>
      PROVE  IInv'
    BY <1>1, <1>3, LookSafe
<1>4. ASSUME \A b \in Bound : rows[b].path # p, UNCHANGED <<act, rows, missed>>
      PROVE  IInv'
  <2>1. TypeOK'  BY <1>1, <1>4 DEF TypeOK, canvasVars
  <2>2. Grows /\ \A n \in Nodes : canvas'[n].binding = canvas[n].binding /\ canvas'[n].text \in past'[n]
      BY <1>1 DEF IInv, Had, Grows, canvasVars
  <2> QED BY <1>1, <1>4, <2>1, <2>2, StillSafe DEF canvasVars, storeVars
<1> QED BY <1>2, <1>3, <1>4 DEF Notice

LEMMA SweepOneSafe ==
  ASSUME IInv, NEW w \in Activities, NEW b \in Bindings, SweepOne(w, b)
  PROVE  IInv'
<1>1. /\ act[w].pc = "idle" /\ sweep' \subseteq Bindings
      /\ UNCHANGED <<canvasVars, inputs, files, made, conflicts, watching, hints>>
      /\ hints \subseteq Paths /\ sweep \subseteq Bindings /\ TypeOK
  <2>1. sweep' \subseteq sweep  BY DEF SweepOne
  <2> QED BY <2>1 DEF SweepOne, Busy, IInv, TypeOK
<1>2. ASSUME UNCHANGED <<rows, act, missed>>  PROVE IInv'
  <2>1. TypeOK'  BY <1>1, <1>2 DEF TypeOK, canvasVars
  <2>2. Grows /\ \A n \in Nodes : canvas'[n].binding = canvas[n].binding /\ canvas'[n].text \in past'[n]
      BY <1>1 DEF IInv, Had, Grows, canvasVars
  <2> QED BY <1>1, <1>2, <2>1, <2>2, StillSafe DEF canvasVars, storeVars
<1>3. ASSUME b \in Bound, NEW p \in Paths, FollowFile(w, b, p)  PROVE IInv'
    BY <1>1, <1>3, FollowFileSafe
<1>4. ASSUME b \in Bound, Reconcile(w, b, rows[b]), UNCHANGED <<rows, missed>>  PROVE IInv'
    BY <1>1, <1>4, LookSafe
<1> QED BY <1>2, <1>3, <1>4 DEF SweepOne

LEMMA CrashSafe ==
  ASSUME IInv, Crash
  PROVE  IInv'
<1>1. /\ UNCHANGED <<canvasVars, files, storeVars>> /\ Input
      /\ \A w \in Activities : act'[w].pc = "idle"
      /\ act' \in [Activities -> Calls] /\ watching' = FALSE /\ hints' = {} /\ sweep' = {}
      /\ missed' = (missed \/ hints # {} \/ sweep # {} \/ \E w \in Activities : ~Busy(w, "idle"))
    BY IdleIs DEF Crash
<1>2. TypeOK /\ Bound' = Bound  BY <1>1 DEF IInv, Bound, storeVars
<1>3. missed' \in BOOLEAN  BY <1>1, <1>2 DEF TypeOK
<1>4. TypeOK'  BY <1>1, <1>2, <1>3, InputIs DEF TypeOK, canvasVars, storeVars
<1>5. Once'  BY <1>1, <1>2 DEF IInv, Once, storeVars
<1>6. Linked'  BY <1>1, <1>2 DEF IInv, Linked, canvasVars, storeVars
<1>7. Had'
  <2>1. \A w \in Activities : Call(w)'  BY <1>1, IdleCall
  <2>2. \A b \in Bound' : Honest(rows[b])'
      BY <1>1, <1>2 DEF IInv, Had, Honest, Known, canvasVars, storeVars
  <2> QED BY <1>1, <1>2, <2>1, <2>2 DEF IInv, Had, Attached, canvasVars, storeVars
<1>8. Noticed'
  <2>1. SUFFICES ASSUME ~missed', NEW b \in Bound, Attached(b)', Exists(rows[b].path)'
                 PROVE  AtRest(b)'
      BY <1>2 DEF Noticed
  <2>2. ~missed /\ hints = {} /\ \A w \in Activities : act[w].pc = "idle"  BY <1>1, <2>1 DEF Busy
  <2>3. Attached(b) /\ Exists(rows[b].path)
      BY <1>1, <1>2, <2>1 DEF Attached, Exists, canvasVars, storeVars
  <2>4. AtRest(b)  BY <2>2, <2>3 DEF IInv, Noticed, Due
  <2> QED BY <2>4, <1>1 DEF AtRest, Known, canvasVars, storeVars
<1> QED BY <1>4, <1>5, <1>6, <1>7, <1>8 DEF IInv
-----------------------------------------------------------------------------
(* Files that change *)

\* Of a step after which an activity is where it was, or past its rename.
LEMMA CallMoves ==
  ASSUME NEW v, Call(v), UNCHANGED <<past, rows>>, Bound' = Bound,
         act'[v].b = act[v].b, act'[v].row = act[v].row, act'[v].text = act[v].text,
         act'[v].disk = act[v].disk, act'[v].patch = act[v].patch,
         act'[v].pc = act[v].pc \/ (act[v].pc = "rename" /\ act'[v].pc \in {"settle", "failed"}),
         act'[v].pc = "rename" /\ files'[act[v].row.path] # None =>
           files'[act[v].row.path].text \in Known(act[v].row) \/ act'[v].slipped
  PROVE  Call(v)'
<1>1. ASSUME act'[v].pc \notin {"idle", "conflict", "update"}
      PROVE  Honest(act[v].row)' /\ Of(act[v].row, act[v].b)'
  <2>1. Honest(act[v].row) /\ Of(act[v].row, act[v].b)  BY <1>1 DEF Call
  <2> QED BY <2>1 DEF Honest, Of, Known
<1>2. ASSUME act'[v].pc = "update"
      PROVE  /\ act'[v].patch \in Patches
             /\ act'[v].b \in Bound' /\ "base" \in DOMAIN act'[v].patch =>
                  act'[v].patch.base \in Known(rows[act[v].b])'
  <2>1. act[v].pc = "update"  BY <1>2
  <2> QED BY <2>1 DEF Call, Known
<1>3. /\ act'[v].pc \in {"insert", "attach"} => act'[v].row \in Rows
      /\ act'[v].pc \in {"read", "commit", "announce", "check", "rename", "settle", "failed"} =>
           act'[v].row \in Views
      /\ act'[v].pc \in {"commit", "conflict"} => act'[v].disk \in Texts
      /\ act'[v].pc = "conflict" => act'[v].text \in Texts
    BY DEF Call
<1>4. ASSUME act'[v].pc \in {"announce", "check", "rename", "settle", "failed"}
      PROVE  act'[v].text \in past'[act'[v].row.node] /\ act'[v].disk \in Known(act[v].row)'
    BY <1>4 DEF Call, Known
<1>5. ASSUME act'[v].pc = "rename", Exists(act[v].row.path)'
      PROVE  files'[act'[v].row.path].text \in Known(act[v].row)' \/ act'[v].slipped
    BY <1>5 DEF Exists, Known
<1> QED BY <1>1, <1>2, <1>3, <1>4, <1>5 DEF Call

\* Of a step that changes the files at ps; a save may end with it.
LEMMA FilesSafe ==
  ASSUME IInv, TypeOK', UNCHANGED <<canvasVars, storeVars>>, NEW ps, Changed(ps),
         \A p \in Paths : p \notin ps => files'[p] = files[p],
         \A v \in Activities :
           /\ act'[v].b = act[v].b /\ act'[v].row = act[v].row /\ act'[v].text = act[v].text
           /\ act'[v].disk = act[v].disk /\ act'[v].patch = act[v].patch
           /\ act'[v].pc = act[v].pc \/ (act[v].pc = "rename" /\ act'[v].pc \in {"settle", "failed"})
           /\ act[v].slipped => act'[v].slipped
           /\ act'[v].pc = "rename" /\ act[v].row.path \in ps =>
                act'[v].slipped \/ files'[act[v].row.path].text \in Known(act[v].row)
  PROVE  IInv'
<1> USE DEF canvasVars, storeVars
<1>1. TypeOK /\ Bound' = Bound /\ \A b : SameRow(b)  BY DEF IInv, Bound, SameRow
<1>2. \A b : Attached(b)' <=> Attached(b)  BY <1>1 DEF Attached
<1>3. Once'  BY <1>1 DEF IInv, Once
<1>4. Linked'
  <2>1. \A v \in Activities : act'[v].pc \in Attaching => act[v].pc \in Attaching
      BY DEF Attaching
  <2>2. \A v \in Activities : act'[v].pc \in Attaching => Attached(act'[v].b)
      BY <2>1 DEF IInv, Linked, Attaching
  <2>3. \A v \in Activities : act'[v].pc \in {"insert", "attach"} => act[v].pc \in {"insert", "attach"}
      OBVIOUS
  <2>4. \A v \in Activities : act'[v].pc \in Attaching => Attached(act[v].b)'
      BY <2>2, <1>1 DEF Attached
  <2> QED BY <2>3, <2>4, <1>1 DEF IInv, Linked, Attaching
<1>5. Had'
  <2>1. ASSUME NEW v \in Activities  PROVE Call(v)'
    <3>1. Call(v)  BY DEF IInv, Had
    <3>2. /\ act'[v].b = act[v].b /\ act'[v].row = act[v].row /\ act'[v].text = act[v].text
          /\ act'[v].disk = act[v].disk /\ act'[v].patch = act[v].patch
          /\ act'[v].pc = act[v].pc \/ (act[v].pc = "rename" /\ act'[v].pc \in {"settle", "failed"})
          /\ act[v].slipped => act'[v].slipped
          /\ UNCHANGED <<past, rows>> /\ Bound' = Bound
        BY <1>1
    <3>3. act'[v].pc = "rename" /\ files'[act[v].row.path] # None =>
            files'[act[v].row.path].text \in Known(act[v].row) \/ act'[v].slipped
      <4>1. SUFFICES ASSUME act'[v].pc = "rename", files'[act[v].row.path] # None
                     PROVE  files'[act[v].row.path].text \in Known(act[v].row) \/ act'[v].slipped
          OBVIOUS
      <4>2. act[v].pc = "rename" /\ act[v].row.path \in Paths
          BY <4>1, <3>1, <1>1, CallRow
      <4>3. CASE act[v].row.path \in ps  BY <4>1, <4>3
      <4>4. CASE act[v].row.path \notin ps
          BY <4>1, <4>2, <4>4, <3>1, <3>2 DEF Call, Exists
      <4> QED BY <4>3, <4>4
    <3> QED BY <3>1, <3>2, <3>3, CallMoves
  <2>2. \A b \in Bound' : Honest(rows[b])'
      BY <1>1 DEF IInv, Had, Honest, Known
  <2> QED BY <1>2, <2>1, <2>2 DEF IInv, Had
<1>6. Noticed'
  <2>1. SUFFICES ASSUME ~missed', NEW b \in Bound, Attached(b)', Exists(rows[b].path)'
                 PROVE  AtRest(b)' \/ Due(b)'
      BY <1>1 DEF Noticed
  <2>2. ~missed /\ watching /\ hints' = hints \cup ps  BY <2>1 DEF Changed
  <2>3. rows[b].path \in Paths  BY <1>1, RowIs
  <2>4. CASE rows[b].path \in ps  BY <2>2, <2>4 DEF Due
  <2>5. CASE rows[b].path \notin ps
    <3>1. files'[rows[b].path] = files[rows[b].path]  BY <2>3, <2>5
    <3>2. AtRest(b) \/ Due(b)  BY <2>1, <2>2, <3>1, <1>2 DEF IInv, Noticed, Exists
    <3>3. AtRest(b) => AtRest(b)'  BY <3>1 DEF AtRest, Known
    <3>4. Due(b) => Due(b)'
      <4>1. \A v \in Activities : act[v].pc \in {"read", "commit", "conflict"} => act'[v].pc = act[v].pc
          OBVIOUS
      <4> QED BY <3>1, <2>2, <4>1 DEF Due
    <3> QED BY <3>2, <3>3, <3>4
  <2> QED BY <2>4, <2>5
<1> QED BY <1>3, <1>4, <1>5, <1>6 DEF IInv

LEMMA ChangedIs ==
  ASSUME TypeOK, NEW ps \in SUBSET Paths, Changed(ps)
  PROVE  /\ hints' \subseteq Paths /\ sweep' \subseteq Bindings
         /\ watching' \in BOOLEAN /\ missed' \in BOOLEAN
BY DEF TypeOK, Changed

LEMMA SlipIs ==
  ASSUME TypeOK, NEW v \in Activities
  PROVE  /\ Slip(v) \in Calls /\ Slip(v).slipped = TRUE
         /\ Slip(v).b = act[v].b /\ Slip(v).row = act[v].row /\ Slip(v).text = act[v].text
         /\ Slip(v).disk = act[v].disk /\ Slip(v).patch = act[v].patch /\ Slip(v).pc = act[v].pc
BY CallIs DEF Slip, Calls

LEMMA ByOthersSafe ==
  ASSUME IInv, NEW ps \in SUBSET Paths, ByOthers(ps),
         files' \in [Paths -> {None} \cup [text : Texts, inode : Inodes]],
         \A p \in Paths : p \notin ps => files'[p] = files[p]
  PROVE  IInv'
<1>1. /\ Changed(ps) /\ Input /\ UNCHANGED <<canvasVars, storeVars>>
      /\ act' = [v \in Activities |-> IF Unaware(v, ps) THEN Slip(v) ELSE act[v]]
    BY DEF ByOthers
<1>2. TypeOK  BY DEF IInv
<1>3. ASSUME NEW v \in Activities
      PROVE  /\ act'[v] \in Calls
             /\ act'[v].b = act[v].b /\ act'[v].row = act[v].row /\ act'[v].text = act[v].text
             /\ act'[v].disk = act[v].disk /\ act'[v].patch = act[v].patch /\ act'[v].pc = act[v].pc
             /\ act[v].slipped => act'[v].slipped
             /\ act'[v].pc = "rename" /\ act[v].row.path \in ps => act'[v].slipped
    BY <1>1, <1>2, SlipIs, CallIs DEF Unaware, Busy
<1>4. act' \in [Activities -> Calls]  BY <1>1, <1>3
<1>5. TypeOK'  BY <1>1, <1>2, <1>4, ChangedIs, InputIs DEF TypeOK, canvasVars, storeVars
<1> QED BY <1>1, <1>3, <1>5, FilesSafe

LEMMA OthersSafe ==
  ASSUME IInv, NEW p \in Paths,
         \/ \E t \in Texts : Overwrite(p, t) \/ Replace(p, t)
         \/ Unlink(p)
         \/ \E q \in Paths : Move(p, q)
  PROVE  IInv'
<1>1. files \in [Paths -> {None} \cup [text : Texts, inode : Inodes]]  BY DEF IInv, TypeOK
<1>2. ASSUME NEW t \in Texts, Overwrite(p, t)  PROVE IInv'
  <2>1. [files[p] EXCEPT !.text = t] \in [text : Texts, inode : Inodes]
      BY <1>1, <1>2 DEF Overwrite, Exists
  <2>2. files' = [files EXCEPT ![p] = [files[p] EXCEPT !.text = t]] /\ ByOthers({p})
      BY <1>1, <1>2 DEF Overwrite
  <2>3. files' \in [Paths -> {None} \cup [text : Texts, inode : Inodes]]
        /\ \A q \in Paths : q \notin {p} => files'[q] = files[q]
      BY <1>1, <2>1, <2>2
  <2>4. {p} \in SUBSET Paths  OBVIOUS
  <2> QED BY <2>2, <2>3, <2>4, ByOthersSafe
<1>3. ASSUME NEW t \in Texts, Replace(p, t)  PROVE IInv'
  <2>1. PICK i \in Inodes : files' = [files EXCEPT ![p] = [text |-> t, inode |-> i]]
      BY <1>3 DEF Replace, FreeInodes
  <2>2. [text |-> t, inode |-> i] \in [text : Texts, inode : Inodes]  OBVIOUS
  <2>3. files' \in [Paths -> {None} \cup [text : Texts, inode : Inodes]]
        /\ \A q \in Paths : q \notin {p} => files'[q] = files[q]
      BY <1>1, <2>1, <2>2
  <2>4. {p} \in SUBSET Paths /\ ByOthers({p})  BY <1>3 DEF Replace
  <2> QED BY <2>3, <2>4, ByOthersSafe
<1>4. CASE Unlink(p)
  <2>1. files' \in [Paths -> {None} \cup [text : Texts, inode : Inodes]]
        /\ \A q \in Paths : q \notin {p} => files'[q] = files[q]
      BY <1>1, <1>4 DEF Unlink
  <2>2. {p} \in SUBSET Paths /\ ByOthers({p})  BY <1>4 DEF Unlink
  <2> QED BY <2>1, <2>2, ByOthersSafe
<1>5. ASSUME NEW q \in Paths, Move(p, q)  PROVE IInv'
  <2>1. files' = [files EXCEPT ![p] = None, ![q] = files[p]]  BY <1>5 DEF Move
  <2>2. files' \in [Paths -> {None} \cup [text : Texts, inode : Inodes]]
        /\ \A r \in Paths : r \notin {p, q} => files'[r] = files[r]
      BY <1>1, <2>1
  <2>3. {p, q} \in SUBSET Paths /\ ByOthers({p, q})  BY <1>5 DEF Move
  <2> QED BY <2>2, <2>3, ByOthersSafe
<1> QED BY <1>2, <1>3, <1>4, <1>5

LEMMA RenameSafe ==
  ASSUME IInv, NEW w \in Activities, Rename(w)
  PROVE  IInv'
<1> DEFINE p == act[w].row.path
           t == act[w].text
<1>1. act[w].pc = "rename" /\ UNCHANGED <<canvasVars, storeVars>> /\ Changed({p})
    BY DEF Rename, Busy
<1>2. /\ TypeOK /\ Call(w) /\ p \in Paths /\ t \in Texts /\ act[w].row.node \in Nodes
      /\ t \in past[act[w].row.node]
    BY <1>1, SaveIs DEF Saving, Call
<1>3. PICK i \in Inodes : files' = [files EXCEPT ![p] = [text |-> t, inode |-> i]]
    BY DEF Rename, FreeInodes
<1>4. PICK next \in {"settle", "failed"} :
        /\ act' = [v \in Activities |->
                     IF v = w THEN [act[w] EXCEPT !.pc = next]
                     ELSE IF Unaware(v, {p}) /\ act[v].row.node # act[w].row.node THEN Slip(v)
                     ELSE act[v]]
        /\ Input \/ UNCHANGED inputs
    BY DEF Rename
<1>5. files \in [Paths -> {None} \cup [text : Texts, inode : Inodes]]  BY <1>2 DEF TypeOK
<1>6. /\ files' \in [Paths -> {None} \cup [text : Texts, inode : Inodes]]
      /\ \A q \in Paths : q \notin {p} => files'[q] = files[q]
      /\ files'[p].text = t
  <2>1. [text |-> t, inode |-> i] \in [text : Texts, inode : Inodes]  BY <1>2
  <2> HIDE DEF p, t
  <2>2. files'[p] = [text |-> t, inode |-> i]  BY <1>2, <1>3, <1>5
  <2> QED BY <1>2, <1>3, <1>5, <2>1, <2>2
<1>7. /\ act'[w] \in Calls /\ act'[w].pc = next
      /\ act'[w].b = act[w].b /\ act'[w].row = act[w].row /\ act'[w].text = act[w].text
      /\ act'[w].disk = act[w].disk /\ act'[w].patch = act[w].patch /\ act'[w].slipped = act[w].slipped
  <2>1. act[w] \in Calls /\ next \in Places  BY <1>2, CallIs DEF Places
  <2>2. act'[w] = [act[w] EXCEPT !.pc = next]  BY <1>4
  <2> QED BY <2>1, <2>2 DEF Calls
<1>8. ASSUME NEW v \in Activities, v # w
      PROVE  /\ act'[v] \in Calls
             /\ act'[v].b = act[v].b /\ act'[v].row = act[v].row /\ act'[v].text = act[v].text
             /\ act'[v].disk = act[v].disk /\ act'[v].patch = act[v].patch /\ act'[v].pc = act[v].pc
             /\ act[v].slipped => act'[v].slipped
             /\ act'[v].pc = "rename" /\ act[v].row.path \in {p} =>
                  act'[v].slipped \/ act[v].row.node = act[w].row.node
    BY <1>2, <1>4, <1>8, SlipIs, CallIs DEF Unaware, Busy
<1>9. act' \in [Activities -> Calls]
  <2>1. \A v \in Activities : act'[v] \in Calls  BY <1>7, <1>8
  <2> QED BY <2>1, <1>4
<1>10. TypeOK'
  <2>1. {p} \in SUBSET Paths  BY <1>2
  <2> QED BY <2>1, <1>1, <1>2, <1>4, <1>6, <1>9, ChangedIs, InputIs DEF TypeOK, canvasVars, storeVars
<1>11. \A v \in Activities : act'[v].pc = "rename" /\ act[v].row.path \in {p} =>
         act'[v].slipped \/ files'[act[v].row.path].text \in Known(act[v].row)
  <2>1. act'[w].pc # "rename"  BY <1>7
  <2> QED BY <2>1, <1>2, <1>6, <1>8 DEF Known
<1> HIDE DEF p, t
<1>12. \A v \in Activities :
         /\ act'[v].b = act[v].b /\ act'[v].row = act[v].row /\ act'[v].text = act[v].text
         /\ act'[v].disk = act[v].disk /\ act'[v].patch = act[v].patch
         /\ act'[v].pc = act[v].pc \/ (act[v].pc = "rename" /\ act'[v].pc \in {"settle", "failed"})
         /\ act[v].slipped => act'[v].slipped
    BY <1>1, <1>7, <1>8
<1> QED BY <1>1, <1>6, <1>10, <1>11, <1>12, FilesSafe

-----------------------------------------------------------------------------
(* Binding *)

\* Of a step that takes no row away and leaves the files and the other activities alone.
LEMMA OthersWait ==
  ASSUME IInv, NEW w \in Activities, UNCHANGED <<spent, past, files, conflicts, hints, missed>>,
         \A v \in Activities : v # w => act'[v] = act[v],
         \A v \in Activities : v # w /\ act[v].pc # "idle" => SameRow(act[v].b),
         act[w].pc \notin {"read", "commit", "conflict"}
  PROVE  /\ \A v \in Activities : v # w => Call(v)'
         /\ \A c \in Bound :
              rows'[c] = rows[c] /\ (\A d \in conflicts : d.b = c => d \in conflicts') => 
                (AtRest(c) => AtRest(c)') /\ (Due(c) => Due(c)') /\ (Honest(rows[c]) => Honest(rows[c])')
<1>1. TypeOK /\ Grows  BY DEF IInv, Grows
<1>2. ASSUME NEW v \in Activities, v # w  PROVE Call(v)'
  <2>1. Call(v) /\ act'[v] = act[v]  BY <1>2 DEF IInv, Had
  <2>2. act[v].pc # "idle" => SameRow(act[v].b)  BY <1>2
  <2> QED BY <1>1, <2>1, <2>2, CallKept
<1>3. ASSUME NEW c \in Bound, rows'[c] = rows[c]
      PROVE  (AtRest(c) => AtRest(c)') /\ (Due(c) => Due(c)') /\ (Honest(rows[c]) => Honest(rows[c])')
  <2>1. AtRest(c) => AtRest(c)'  BY <1>3 DEF AtRest, Known
  <2>2. Due(c) => Due(c)'  BY <1>3 DEF Due
  <2>3. Honest(rows[c]) => Honest(rows[c])'  BY <1>3 DEF Honest, Known
  <2> QED BY <2>1, <2>2, <2>3
<1> QED BY <1>2, <1>3

LEMMA BindSafe ==
  ASSUME IInv, NEW w \in Activities, NEW n \in Nodes, NEW p \in Paths, NEW mode \in Modes, Bind(w, n, p, mode)
  PROVE  IInv'
<1> DEFINE t == canvas[n].text
           disk == files[p].text
           new == [node |-> n, path |-> p, mode |-> mode, base |-> disk,
                   state |-> IF t = disk THEN "clean"
                             ELSE IF mode = "fs-authoritative" THEN "disk-dirty" ELSE "canvas-dirty",
                   identity |-> files[p].inode, echo |-> None, first |-> disk]
           next == [Idle EXCEPT !.pc = "insert", !.b = made + 1, !.row = new]
<1>1. /\ act[w].pc = "idle" /\ made < Cardinality(Bindings) /\ Exists(p) /\ Go(w, next) /\ made' = made + 1
      /\ UNCHANGED <<canvasVars, inputs, files, rows, conflicts, watchVars>>
    BY DEF Bind, Busy
<1>2. TypeOK /\ made \in Nat /\ made + 1 \in Bindings /\ Bindings \subseteq Nat
  <2>1. TypeOK /\ made \in Nat  BY DEF IInv, TypeOK
  <2> QED BY <2>1, <1>1, Constants
<1>3. disk \in Texts /\ files[p].inode \in Inodes  BY <1>1, <1>2 DEF TypeOK, Exists
<1>4. /\ new \in Rows /\ new.node = n /\ new.base = disk /\ new.first = disk /\ new.echo = None
    BY <1>3 DEF Rows, States
<1> HIDE DEF new
<1>5. next \in Calls /\ next.pc = "insert" /\ next.b = made + 1 /\ next.row = new
    BY <1>2, <1>4, IdleIs DEF Idle, Calls, Places
<1> HIDE DEF next
<1>6. /\ act' \in [Activities -> Calls] /\ act'[w] = next
      /\ \A v \in Activities : v # w => act'[v] = act[v]
    BY <1>1, <1>2, <1>5, GoIs
<1>7. TypeOK'  BY <1>1, <1>2, <1>6 DEF TypeOK, canvasVars, watchVars
<1>8. Bound' = Bound /\ \A b : SameRow(b)  BY <1>1 DEF Bound, SameRow
<1>9. \A b : Attached(b)' <=> Attached(b)  BY <1>1, <1>8 DEF Attached, canvasVars
<1>10. /\ \A b \in Bound : b <= made /\ b \in Nat /\ b # made + 1
       /\ \A v \in Activities : act[v].pc # "idle" => act[v].b \in Nat /\ act[v].b <= made /\ act[v].b # made + 1
  <2>1. \A b \in Bound : b \in Nat /\ b <= made  BY <1>2 DEF IInv, Once, Bound
  <2>2. \A v \in Activities : act[v].pc # "idle" => act[v].b \in Nat /\ act[v].b <= made
      BY <1>2 DEF IInv, Once
  <2> QED BY <1>2, <2>1, <2>2
<1>11. Once'
  <2>1. \A b \in Bound' : b <= made'  BY <1>1, <1>2, <1>8, <1>10
  <2>2. \A b \in Bound', c \in Bound' : b # c => rows'[b].node # rows'[c].node /\ rows'[b].path # rows'[c].path
      BY <1>1, <1>8 DEF IInv, Once
  <2>3. ASSUME NEW v \in Activities
        PROVE  /\ act'[v].pc # "idle" => act'[v].b \in Bindings /\ act'[v].b <= made'
               /\ act'[v].pc = "insert" => act'[v].b \notin Bound'
               /\ act'[v].pc = "attach" => act'[v].b \in Bound'
    <3>1. CASE v = w
      <4>1. made + 1 <= made' /\ made + 1 \notin Bound  BY <1>1, <1>2, <1>10
      <4> QED BY <3>1, <4>1, <1>2, <1>5, <1>6, <1>8
    <3>2. CASE v # w
      <4>1. act'[v] = act[v]  BY <3>2, <1>6
      <4>2. act[v].pc # "idle" => act[v].b <= made'  BY <1>1, <1>2, <1>10
      <4> QED BY <4>1, <4>2, <1>8 DEF IInv, Once
    <3> QED BY <3>1, <3>2
  <2>4. ASSUME NEW u \in Activities, NEW v \in Activities, u # v,
               act'[u].pc \in {"insert", "attach"}, act'[v].pc # "idle", act'[v].b = act'[u].b
        PROVE  act'[u].pc = "attach" /\ act'[v].pc # "attach"
    <3>1. u # w  BY <2>4, <1>5, <1>6, <1>10
    <3>2. v # w  BY <2>4, <1>5, <1>6, <1>10
    <3>3. act'[u] = act[u] /\ act'[v] = act[v]  BY <3>1, <3>2, <1>6
    <3> QED BY <2>4, <3>3 DEF IInv, Once
  <2> QED BY <2>1, <2>2, <2>3, <2>4 DEF Once
<1>12. Linked'
  <2>1. ASSUME NEW m \in Nodes, canvas'[m].binding # None
        PROVE  /\ canvas'[m].binding \in Bound' /\ rows'[canvas'[m].binding].node = m
               /\ \A v \in Activities : act'[v].pc \in {"insert", "attach"} => act'[v].b # canvas'[m].binding
    <3>1. canvas' = canvas /\ canvas[m].binding \in Bound /\ rows[canvas[m].binding].node = m
        BY <1>1, <2>1 DEF IInv, Linked, canvasVars
    <3>2. canvas[m].binding # made + 1  BY <3>1, <1>10
    <3>3. \A v \in Activities : act[v].pc \in {"insert", "attach"} => act[v].b # canvas[m].binding
        BY <2>1, <3>1 DEF IInv, Linked
    <3> QED BY <3>1, <3>2, <3>3, <1>1, <1>5, <1>6, <1>8
  <2>2. ASSUME NEW v \in Activities, act'[v].pc \in Attaching  PROVE Attached(act[v].b)'
    <3>1. v # w  BY <2>2, <1>5, <1>6 DEF Attaching
    <3>2. act'[v] = act[v] /\ Attached(act[v].b)  BY <3>1, <2>2, <1>6 DEF IInv, Linked, Attaching
    <3>3. Attached(act[v].b)'  BY <3>2, <1>1, <1>8 DEF Attached, canvasVars
    <3> QED BY <3>2, <3>3
  <2> QED BY <2>1, <2>2 DEF Linked, Attaching
<1>13. /\ \A v \in Activities : v # w => Call(v)'
       /\ \A c \in Bound : (AtRest(c) => AtRest(c)') /\ (Due(c) => Due(c)')
                           /\ (Honest(rows[c]) => Honest(rows[c])')
  <2>1. \A v \in Activities : v # w => act'[v] = act[v]  BY <1>6
  <2>2. \A v \in Activities : v # w /\ act[v].pc # "idle" => SameRow(act[v].b)  BY <1>8
  <2>3. UNCHANGED <<spent, past, files, conflicts, hints, missed>> /\ rows' = rows
      BY <1>1 DEF canvasVars, watchVars
  <2> QED BY <2>1, <2>2, <2>3, <1>1, OthersWait
<1>14. Had'
  <2>1. Call(w)'
    <3>3. act'[w].pc = "insert" /\ act'[w].row \in Rows  BY <1>4, <1>5, <1>6
    <3>4. Honest(act[w].row)'  BY <1>4, <1>5, <1>6 DEF Honest, Known
    <3>5. Of(act[w].row, act[w].b)'  BY <1>5, <1>6, <1>8, <1>10 DEF Of
    <3> QED BY <3>3, <3>4, <3>5 DEF Call
  <2>2. \A v \in Activities : Call(v)'  BY <2>1, <1>13
  <2>3. \A b \in Bound' : Honest(rows[b])'  BY <1>8, <1>13 DEF IInv, Had
  <2> QED BY <2>2, <2>3, <1>1, <1>9 DEF IInv, Had, canvasVars
<1>15. Noticed'
  <2>1. \A b \in Bound : Exists(rows[b].path)' <=> Exists(rows[b].path)  BY <1>1 DEF Exists
  <2> QED BY <2>1, <1>1, <1>8, <1>9, <1>13 DEF IInv, Noticed, watchVars
<1> QED BY <1>7, <1>11, <1>12, <1>14, <1>15 DEF IInv

LEMMA InsertSafe ==
  ASSUME IInv, NEW w \in Activities, Insert(w)
  PROVE  IInv'
<1>0. PICK b, row : b = act[w].b /\ row = act[w].row  OBVIOUS
<1>1. /\ act[w].pc = "insert"
      /\ UNCHANGED <<canvasVars, inputs, files, made, conflicts, hints, sweep, missed>>
    BY DEF Insert, Busy
<1>2. /\ TypeOK /\ row \in Rows /\ row # None /\ Honest(row) /\ b \in Bindings /\ b \notin Bound /\ b <= made
      /\ rows \in [Bindings -> {None} \cup Rows]
  <2>1. TypeOK /\ Call(w) /\ Once  BY DEF IInv, Had
  <2> QED BY <1>0, <1>1, <2>1, NothingAssumption DEF Call, Once, TypeOK
<1>3. CASE Return(w) /\ UNCHANGED <<rows, watching>>
  <2>1. /\ act' \in [Activities -> Calls] /\ act'[w].pc = "idle"
        /\ \A v \in Activities : v # w => act'[v] = act[v]
      BY <1>2, <1>3, LeaveIs
  <2>2. Call(w)' /\ inputs' \in Nat /\ missed' \in BOOLEAN
      BY <1>1, <1>2, <2>1, IdleCall DEF TypeOK
  <2>3. UNCHANGED <<canvasVars, files, storeVars, watching, hints, sweep, missed>>
      BY <1>1, <1>3 DEF storeVars
  <2> QED BY <1>1, <2>1, <2>2, <2>3, ActSafe DEF Attaching
<1>4. CASE /\ ~\E c \in Bound : rows[c].node = row.node \/ rows[c].path = row.path
           /\ rows' = [rows EXCEPT ![b] = row]
           /\ watching' = TRUE
           /\ Go(w, [act[w] EXCEPT !.pc = "attach"])
  <2>1. rows' \in [Bindings -> {None} \cup Rows] /\ rows'[b] = row /\ \A c \in Bindings : c # b => rows'[c] = rows[c]
      BY <1>2, <1>4
  <2>2. /\ Bound' = Bound \cup {b} /\ Bound \subseteq Bindings
        /\ \A c \in Bound : c # b /\ rows'[c] = rows[c] /\ rows[c].node # row.node /\ rows[c].path # row.path
      BY <1>2, <1>4, <2>1 DEF Bound
  <2>3. /\ act' \in [Activities -> Calls]
        /\ act'[w].pc = "attach" /\ act'[w].b = b /\ act'[w].row = row
        /\ \A v \in Activities : v # w => act'[v] = act[v]
      BY <1>0, <1>2, <1>4, GoesOn DEF Places
  <2>4. TypeOK'  BY <1>1, <1>2, <1>4, <2>1, <2>3 DEF TypeOK, canvasVars
  <2>5. ASSUME NEW v \in Activities, v # w, act[v].pc # "idle"  PROVE act[v].b # b
      BY <2>5, <1>0, <1>1 DEF IInv, Once
  <2>6. \A n \in Nodes : canvas[n].binding # b
      BY <1>0, <1>1, <1>2, Constants DEF IInv, Linked
  <2>7. ~Attached(b)'
    <3>1. canvas' = canvas /\ row.node \in Nodes  BY <1>1, <1>2 DEF canvasVars, Rows
    <3> QED BY <3>1, <2>1, <2>6 DEF Attached
  <2>8. \A c : Attached(c)' <=> Attached(c)
    <3>1. canvas' = canvas /\ ~Attached(b)  BY <1>1, <1>2 DEF canvasVars, Attached
    <3> QED BY <3>1, <2>2, <2>7 DEF Attached
  <2>9. Once'
    <3>1. \A c \in Bound' : c <= made'  BY <1>1, <1>2, <2>2 DEF IInv, Once
    <3>2. \A c \in Bound', d \in Bound' : c # d => rows'[c].node # rows'[d].node /\ rows'[c].path # rows'[d].path
        BY <2>1, <2>2 DEF IInv, Once
    <3>3. ASSUME NEW v \in Activities
          PROVE  /\ act'[v].pc # "idle" => act'[v].b \in Bindings /\ act'[v].b <= made'
                 /\ act'[v].pc = "insert" => act'[v].b \notin Bound'
                 /\ act'[v].pc = "attach" => act'[v].b \in Bound'
      <4>1. CASE v = w  BY <4>1, <1>1, <1>2, <2>2, <2>3
      <4>2. CASE v # w  BY <4>2, <1>1, <2>2, <2>3, <2>5 DEF IInv, Once
      <4> QED BY <4>1, <4>2
    <3>4. ASSUME NEW u \in Activities, NEW v \in Activities, u # v,
                 act'[u].pc \in {"insert", "attach"}, act'[v].pc # "idle", act'[v].b = act'[u].b
          PROVE  act'[u].pc = "attach" /\ act'[v].pc # "attach"
      <4>1. u # w  BY <3>4, <2>3, <2>5
      <4>2. v # w  BY <3>4, <2>3, <2>5
      <4>3. act'[u] = act[u] /\ act'[v] = act[v]  BY <4>1, <4>2, <2>3
      <4> QED BY <3>4, <4>3 DEF IInv, Once
    <3> QED BY <3>1, <3>2, <3>3, <3>4 DEF Once
  <2>10. Linked'
    <3>1. ASSUME NEW m \in Nodes, canvas'[m].binding # None
          PROVE  /\ canvas'[m].binding \in Bound' /\ rows'[canvas'[m].binding].node = m
                 /\ \A v \in Activities : act'[v].pc \in {"insert", "attach"} => act'[v].b # canvas'[m].binding
      <4>1. canvas' = canvas /\ canvas[m].binding \in Bound /\ rows[canvas[m].binding].node = m
          BY <1>1, <3>1 DEF IInv, Linked, canvasVars
      <4>2. \A v \in Activities : act[v].pc \in {"insert", "attach"} => act[v].b # canvas[m].binding
          BY <3>1, <4>1 DEF IInv, Linked
      <4> QED BY <4>1, <4>2, <2>2, <2>3, <2>6
    <3>2. ASSUME NEW v \in Activities, act'[v].pc \in Attaching  PROVE Attached(act[v].b)'
      <4>1. v # w  BY <3>2, <2>3 DEF Attaching
      <4>2. act'[v] = act[v] /\ Attached(act[v].b)
          BY <4>1, <3>2, <2>3 DEF IInv, Linked, Attaching
      <4>3. Attached(act[v].b)'
        <5>1. canvas' = canvas  BY <1>1 DEF canvasVars
        <5> QED BY <4>2, <5>1, <2>2 DEF Attached
      <4> QED BY <4>2, <4>3
    <3> QED BY <3>1, <3>2 DEF Linked, Attaching
  <2>11. /\ \A v \in Activities : v # w => Call(v)'
         /\ \A c \in Bound : (AtRest(c) => AtRest(c)') /\ (Due(c) => Due(c)')
                             /\ (Honest(rows[c]) => Honest(rows[c])')
    <3>1. \A v \in Activities : v # w => act'[v] = act[v]  BY <2>3
    <3>2. \A v \in Activities : v # w /\ act[v].pc # "idle" => SameRow(act[v].b)
        BY <2>2, <2>5 DEF SameRow
    <3>3. UNCHANGED <<spent, past, files, conflicts, hints, missed>> BY <1>1 DEF canvasVars
    <3> QED BY <3>1, <3>2, <3>3, <1>1, <2>2, OthersWait
  <2>12. Had'
    <3>1. Honest(row)'  BY <1>1, <1>2 DEF Honest, Known, canvasVars
    <3>2. Honest(rows[b])'  BY <1>1, <1>2, <2>1 DEF Honest, Known, canvasVars
    <3>3. Call(w)'
      <4>1. Honest(act[w].row)'  BY <1>1, <1>2, <2>3 DEF Honest, Known, canvasVars
      <4>2. Of(act[w].row, act[w].b)'  BY <2>1, <2>3 DEF Of
      <4> QED BY <4>1, <4>2, <1>2, <2>3 DEF Call
    <3>4. \A v \in Activities : Call(v)'  BY <3>3, <2>11
    <3>5. \A c \in Bound' : Honest(rows[c])'  BY <3>2, <2>2, <2>11 DEF IInv, Had
    <3>6. \A id \in spent' : Attached(id[1])' /\ id[2] \in past'[rows'[id[1]].node]
        BY <1>1, <2>2, <2>8 DEF IInv, Had, Attached, canvasVars
    <3> QED BY <3>4, <3>5, <3>6, <1>1 DEF IInv, Had, canvasVars
  <2>13. Noticed'
    <3>1. \A c \in Bound : Exists(rows[c].path)' <=> Exists(rows[c].path)
        BY <1>1, <2>2 DEF Exists
    <3> QED BY <3>1, <1>1, <2>2, <2>7, <2>8, <2>11 DEF IInv, Noticed
  <2> QED BY <2>4, <2>9, <2>10, <2>12, <2>13 DEF IInv
<1> QED BY <1>0, <1>3, <1>4 DEF Insert

LEMMA AttachSafe ==
  ASSUME IInv, NEW w \in Activities, Attach(w)
  PROVE  IInv'
<1>0. PICK b, n : b = act[w].b /\ n = act[w].row.node  OBVIOUS
<1>1. act[w].pc = "attach" /\ UNCHANGED <<files, made, watchVars>>  BY DEF Attach, Busy
<1>2. /\ TypeOK /\ b \in Bindings /\ b \in Bound /\ n = rows[b].node /\ n \in Nodes
      /\ rows[b] \in Rows /\ Honest(rows[b])
  <2>1. TypeOK /\ Call(w) /\ Once  BY DEF IInv, Had
  <2>2. b \in Bound /\ b \in Bindings  BY <1>0, <1>1, <2>1 DEF Once
  <2> QED BY <1>0, <1>1, <2>1, <2>2, RowIs DEF Call, Of, IInv, Had
<1>3. \A m \in Nodes : canvas[m].binding # b
    BY <1>0, <1>1, <1>2, Constants DEF IInv, Linked
<1>4. ASSUME NEW v \in Activities, v # w, act[v].pc # "idle", act[v].b = b
      PROVE  act[v].pc \notin {"insert", "attach"}
    BY <1>0, <1>1, <1>4 DEF IInv, Once
<1>5. CASE BindNode(n, b) /\ Reconcile(w, b, rows[b]) /\ UNCHANGED <<inputs, rows, conflicts>>
  <2>1. /\ act' \in [Activities -> Calls]
        /\ act'[w].pc = "read" /\ act'[w].b = b /\ act'[w].row \in Views
        /\ act'[w].row.node = rows[b].node /\ act'[w].row.first = rows[b].first
        /\ act'[w].row.path = rows[b].path
        /\ act'[w].row.base = rows[b].base /\ act'[w].row.echo = rows[b].echo
        /\ \A v \in Activities : v # w => act'[v] = act[v]
      BY <1>2, <1>5, ReconcileIs
  <2>2. /\ canvas' = [canvas EXCEPT ![n].binding = b] /\ UNCHANGED <<spent, past>>
        /\ canvas \in [Nodes -> [text : Texts, binding : Bindings \cup {None}]]
      BY <1>2, <1>5 DEF BindNode, TypeOK
  <2>3. /\ canvas' \in [Nodes -> [text : Texts, binding : Bindings \cup {None}]]
        /\ canvas'[n].binding = b /\ \A m \in Nodes : canvas'[m].text = canvas[m].text
        /\ \A m \in Nodes : m # n => canvas'[m] = canvas[m]
      BY <1>2, <2>2
  <2>4. TypeOK'  BY <1>1, <1>2, <1>5, <2>1, <2>2, <2>3 DEF TypeOK, watchVars
  <2>5. Bound' = Bound /\ \A c : SameRow(c)  BY <1>5 DEF Bound, SameRow
  <2>6. canvas[n].binding = None
    <3>1. SUFFICES ASSUME canvas[n].binding # None  PROVE FALSE  OBVIOUS
    <3>2. canvas[n].binding \in Bound /\ rows[canvas[n].binding].node = rows[b].node
        BY <1>2, <3>1 DEF IInv, Linked
    <3> QED BY <1>2, <1>3, <3>2 DEF IInv, Once
  <2>7. Attached(b)' /\ \A c \in Bound : c # b => (Attached(c)' <=> Attached(c))
    <3>1. \A c \in Bound : c # b => rows[c].node \in Nodes /\ rows[c].node # n
        BY <1>2, RowIs DEF IInv, Once
    <3> QED BY <3>1, <1>2, <1>5, <2>3, <2>5 DEF Attached
  <2>8. \A c : Attached(c) => Attached(c)'  BY <2>7 DEF Attached
  <2>9. Once'
    <3>1. ASSUME NEW v \in Activities
          PROVE  /\ act'[v].pc # "idle" => act'[v].b \in Bindings /\ act'[v].b <= made'
                 /\ act'[v].pc = "insert" => act'[v].b \notin Bound'
                 /\ act'[v].pc = "attach" => act'[v].b \in Bound'
      <4>1. CASE v = w  BY <4>1, <1>1, <1>2, <2>1 DEF IInv, Once
      <4>2. CASE v # w  BY <4>2, <1>1, <2>1, <2>5 DEF IInv, Once
      <4> QED BY <4>1, <4>2
    <3>2. ASSUME NEW u \in Activities, NEW v \in Activities, u # v,
                 act'[u].pc \in {"insert", "attach"}, act'[v].pc # "idle", act'[v].b = act'[u].b
          PROVE  act'[u].pc = "attach" /\ act'[v].pc # "attach"
      <4>1. u # w /\ act'[u] = act[u]  BY <3>2, <2>1
      <4>2. v # w  BY <3>2, <4>1, <2>1, <1>4
      <4>3. act'[v] = act[v]  BY <4>2, <2>1
      <4> QED BY <3>2, <4>1, <4>3 DEF IInv, Once
    <3>3. \A c \in Bound' : c <= made'  BY <1>1, <2>5 DEF IInv, Once
    <3>4. \A c \in Bound', d \in Bound' : c # d => rows'[c].node # rows'[d].node /\ rows'[c].path # rows'[d].path
        BY <1>5, <2>5 DEF IInv, Once
    <3> QED BY <3>1, <3>2, <3>3, <3>4 DEF Once
  <2>10. Linked'
    <3>1. ASSUME NEW m \in Nodes, canvas'[m].binding # None
          PROVE  /\ canvas'[m].binding \in Bound' /\ rows'[canvas'[m].binding].node = m
                 /\ \A v \in Activities : act'[v].pc \in {"insert", "attach"} => act'[v].b # canvas'[m].binding
      <4>1. CASE m = n
        <5>1. \A v \in Activities : act'[v].pc \in {"insert", "attach"} => act'[v].b # b
            BY <2>1, <1>4
        <5> QED BY <4>1, <5>1, <1>2, <1>5, <2>3, <2>5
      <4>2. CASE m # n
        <5>1. canvas'[m].binding = canvas[m].binding  BY <4>2, <2>3
        <5>2. /\ canvas[m].binding \in Bound /\ rows[canvas[m].binding].node = m
              /\ \A v \in Activities : act[v].pc \in {"insert", "attach"} => act[v].b # canvas[m].binding
            BY <3>1, <5>1 DEF IInv, Linked
        <5>3. \A v \in Activities : act'[v].pc \in {"insert", "attach"} => act'[v] = act[v]
            BY <2>1
        <5> QED BY <5>1, <5>2, <5>3, <1>5, <2>5
      <4> QED BY <4>1, <4>2
    <3>2. ASSUME NEW v \in Activities, act'[v].pc \in Attaching  PROVE Attached(act[v].b)'
      <4>1. v # w  BY <3>2, <2>1 DEF Attaching
      <4>2. act'[v] = act[v] /\ Attached(act[v].b)
          BY <4>1, <3>2, <2>1 DEF IInv, Linked, Attaching
      <4>3. Attached(act[v].b)'
        <5>1. act[v].b \in Bound /\ act[v].b \in Bindings  BY <4>2 DEF Attached, Bound
        <5>2. canvas'[rows'[act[v].b].node].binding = act[v].b
          <6>1. rows[act[v].b].node \in Nodes  BY <5>1, <1>2, RowIs
          <6>2. act[v].b # b  BY <4>2, <1>2, <1>3 DEF Attached
          <6>3. rows[act[v].b].node # n  BY <5>1, <6>2, <1>2 DEF IInv, Once
          <6> QED BY <4>2, <6>1, <6>3, <1>5, <2>3 DEF Attached
        <5> QED BY <4>2, <5>1, <5>2, <2>5 DEF Attached
      <4> QED BY <4>2, <4>3
    <3> QED BY <3>1, <3>2 DEF Linked, Attaching
  <2>11. /\ \A v \in Activities : v # w => Call(v)'
         /\ \A c \in Bound : (AtRest(c) => AtRest(c)') /\ (Due(c) => Due(c)')
                             /\ (Honest(rows[c]) => Honest(rows[c])')
    <3>1. \A v \in Activities : v # w => act'[v] = act[v]  BY <2>1
    <3>2. \A v \in Activities : v # w /\ act[v].pc # "idle" => SameRow(act[v].b)  BY <2>5
    <3>3. UNCHANGED <<spent, past, files, conflicts, hints, missed>> /\ rows' = rows
        BY <1>1, <1>5, <2>2 DEF watchVars
    <3> QED BY <3>1, <3>2, <3>3, <1>1, OthersWait
  <2>12. Had'
    <3>1. Call(w)'
      <4>1. Honest(act[w].row)'  BY <1>2, <2>1, <2>2 DEF Honest, Known
      <4>2. Of(act[w].row, act[w].b)'  BY <1>5, <2>1 DEF Of
      <4> QED BY <4>1, <4>2, <2>1 DEF Call
    <3>2. \A v \in Activities : Call(v)'  BY <3>1, <2>11
    <3>3. \A c \in Bound' : Honest(rows[c])'  BY <2>5, <2>11 DEF IInv, Had
    <3>4. \A id \in spent' : Attached(id[1])' /\ id[2] \in past'[rows'[id[1]].node]
        BY <1>5, <2>2, <2>8 DEF IInv, Had
    <3>5. \A m \in Nodes : canvas'[m].text \in past'[m]  BY <2>2, <2>3 DEF IInv, Had
    <3> QED BY <3>2, <3>3, <3>4, <3>5 DEF Had
  <2>13. Noticed'
    <3>1. SUFFICES ASSUME ~missed', NEW c \in Bound, Attached(c)', Exists(rows[c].path)'
                   PROVE  AtRest(c)' \/ Due(c)'
        BY <2>5 DEF Noticed
    <3>2. CASE c = b  BY <3>2, <1>5, <2>1 DEF Due
    <3>3. CASE c # b
      <4>1. ~missed /\ Attached(c) /\ Exists(rows[c].path)
          BY <3>1, <3>3, <1>1, <1>5, <2>7 DEF Exists, watchVars
      <4> QED BY <4>1, <2>11 DEF IInv, Noticed
    <3> QED BY <3>2, <3>3
  <2> QED BY <2>4, <2>9, <2>10, <2>12, <2>13 DEF IInv
<1>6. CASE /\ Return(w) /\ rows' = [rows EXCEPT ![b] = None] /\ conflicts' = {c \in conflicts : c.b # b}
           /\ UNCHANGED inputs /\ UNCHANGED canvasVars
  <2>1. /\ act' \in [Activities -> Calls] /\ act'[w].pc = "idle"
        /\ \A v \in Activities : v # w => act'[v] = act[v]
      BY <1>2, <1>6, LeaveIs
  <2>2. rows' \in [Bindings -> {None} \cup Rows] /\ rows'[b] = None /\ \A c \in Bindings : c # b => rows'[c] = rows[c]
      BY <1>2, <1>6 DEF TypeOK
  <2>3. Bound' = Bound \ {b} /\ Bound \subseteq Bindings  BY <2>2 DEF Bound
  <2>4. conflicts' \subseteq conflicts /\ \A c \in conflicts : c.b # b => c \in conflicts'
      BY <1>6
  <2>5. TypeOK'  BY <1>1, <1>2, <1>6, <2>1, <2>2, <2>4 DEF TypeOK, canvasVars, watchVars
  <2>6. ~Attached(b)  BY <1>2, <1>3 DEF Attached
  <2>7. \A c : Attached(c)' <=> Attached(c)
    <3>1. canvas' = canvas /\ ~Attached(b)'  BY <1>6, <2>3 DEF canvasVars, Attached
    <3> QED BY <3>1, <2>2, <2>3, <2>6 DEF Attached
  <2>8. Once'
    <3>1. \A c \in Bound' : c <= made'  BY <1>1, <2>3 DEF IInv, Once
    <3>2. \A c \in Bound', d \in Bound' : c # d => rows'[c].node # rows'[d].node /\ rows'[c].path # rows'[d].path
        BY <2>2, <2>3 DEF IInv, Once
    <3>3. ASSUME NEW v \in Activities
          PROVE  /\ act'[v].pc # "idle" => act'[v].b \in Bindings /\ act'[v].b <= made'
                 /\ act'[v].pc = "insert" => act'[v].b \notin Bound'
                 /\ act'[v].pc = "attach" => act'[v].b \in Bound'
      <4>1. CASE v = w  BY <4>1, <2>1
      <4>2. CASE v # w
        <5>1. act'[v] = act[v]  BY <4>2, <2>1
        <5>2. act[v].pc = "attach" => act[v].b # b  BY <4>2, <1>4
        <5> QED BY <5>1, <5>2, <1>1, <2>3 DEF IInv, Once
      <4> QED BY <4>1, <4>2
    <3>4. ASSUME NEW u \in Activities, NEW v \in Activities, u # v,
                 act'[u].pc \in {"insert", "attach"}, act'[v].pc # "idle", act'[v].b = act'[u].b
          PROVE  act'[u].pc = "attach" /\ act'[v].pc # "attach"
      <4>1. u # w /\ v # w  BY <3>4, <2>1
      <4>2. act'[u] = act[u] /\ act'[v] = act[v]  BY <4>1, <2>1
      <4> QED BY <3>4, <4>2 DEF IInv, Once
    <3> QED BY <3>1, <3>2, <3>3, <3>4 DEF Once
  <2>9. Linked'
    <3>1. ASSUME NEW m \in Nodes, canvas'[m].binding # None
          PROVE  /\ canvas'[m].binding \in Bound' /\ rows'[canvas'[m].binding].node = m
                 /\ \A v \in Activities : act'[v].pc \in {"insert", "attach"} => act'[v].b # canvas'[m].binding
      <4>1. /\ canvas' = canvas /\ canvas[m].binding \in Bound /\ rows[canvas[m].binding].node = m
            /\ \A v \in Activities : act[v].pc \in {"insert", "attach"} => act[v].b # canvas[m].binding
          BY <1>6, <3>1 DEF IInv, Linked, canvasVars
      <4>2. canvas[m].binding # b  BY <1>3
      <4>3. \A v \in Activities : act'[v].pc \in {"insert", "attach"} => act'[v] = act[v]  BY <2>1
      <4> QED BY <4>1, <4>2, <4>3, <2>2, <2>3
    <3>2. ASSUME NEW v \in Activities, act'[v].pc \in Attaching  PROVE Attached(act[v].b)'
      <4>1. v # w  BY <3>2, <2>1 DEF Attaching
      <4>2. act'[v] = act[v] /\ Attached(act[v].b)
          BY <4>1, <3>2, <2>1 DEF IInv, Linked, Attaching
      <4>3. Attached(act[v].b)'
        <5>1. canvas' = canvas /\ act[v].b # b  BY <1>6, <2>6, <4>2 DEF canvasVars
        <5> QED BY <4>2, <5>1, <2>2, <2>3 DEF Attached
      <4> QED BY <4>2, <4>3
    <3> QED BY <3>1, <3>2 DEF Linked, Attaching
  <2>10. /\ \A v \in Activities : v # w => Call(v)'
         /\ \A c \in Bound : c # b => (AtRest(c) => AtRest(c)') /\ (Due(c) => Due(c)')
                                      /\ (Honest(rows[c]) => Honest(rows[c])')
    <3>1. canvas' = canvas /\ past' = past /\ spent' = spent /\ files' = files /\ hints' = hints /\ missed' = missed
        BY <1>1, <1>6 DEF canvasVars, watchVars
    <3>2. \A v \in Activities : v # w => Call(v)'
      <4>1. Grows /\ \A c : SameRow(c)  BY <3>1, <2>2, <2>3 DEF Grows, SameRow
      <4> QED BY <4>1, <1>2, <2>1, <3>1, CallKept DEF IInv, Had
    <3>3. ASSUME NEW c \in Bound, c # b
          PROVE  (AtRest(c) => AtRest(c)') /\ (Due(c) => Due(c)') /\ (Honest(rows[c]) => Honest(rows[c])')
      <4>1. rows'[c] = rows[c]  BY <2>2, <2>3, <3>3
      <4>2. AtRest(c) => AtRest(c)'  BY <3>1, <3>3, <4>1, <2>4 DEF AtRest, Known
      <4>3. Due(c) => Due(c)'
        <5>1. \A v \in Activities : act[v].pc \in {"read", "commit", "conflict"} => act'[v] = act[v]
            BY <1>1, <2>1
        <5> QED BY <3>1, <4>1, <5>1 DEF Due
      <4>4. Honest(rows[c]) => Honest(rows[c])'  BY <3>1, <4>1 DEF Honest, Known
      <4> QED BY <4>2, <4>3, <4>4
    <3> QED BY <3>2, <3>3
  <2>11. Had'
    <3>1. \A v \in Activities : Call(v)'  BY <2>1, <2>10, IdleCall
    <3>2. \A c \in Bound' : Honest(rows[c])'  BY <2>3, <2>10 DEF IInv, Had
    <3>3. \A id \in spent : Attached(id[1]) /\ id[2] \in past[rows[id[1]].node]  BY DEF IInv, Had
    <3>4. \A id \in spent' : Attached(id[1])' /\ id[2] \in past'[rows'[id[1]].node]
      <4>1. \A c : Attached(c) => rows'[c] = rows[c]  BY <2>2, <2>3, <2>6 DEF Attached
      <4> QED BY <3>3, <4>1, <1>6, <2>7 DEF canvasVars
    <3> QED BY <3>1, <3>2, <3>4, <1>6 DEF IInv, Had, canvasVars
  <2>12. Noticed'
    <3>1. SUFFICES ASSUME ~missed', NEW c \in Bound, c # b, Attached(c)', Exists(rows[c].path)'
                   PROVE  AtRest(c)' \/ Due(c)'
        BY <2>3 DEF Noticed
    <3>2. rows'[c] = rows[c]  BY <2>2, <2>3, <3>1
    <3>3. ~missed /\ Attached(c) /\ Exists(rows[c].path)
        BY <3>1, <3>2, <1>1, <2>7 DEF Exists, watchVars
    <3> QED BY <3>1, <3>3, <2>10 DEF IInv, Noticed
  <2> QED BY <2>5, <2>8, <2>9, <2>11, <2>12 DEF IInv
<1>7. CASE Return(w) /\ Input /\ UNCHANGED <<rows, conflicts>> /\ UNCHANGED canvasVars
  <2>1. /\ act' \in [Activities -> Calls] /\ act'[w].pc = "idle"
        /\ \A v \in Activities : v # w => act'[v] = act[v]
      BY <1>2, <1>7, LeaveIs
  <2>2. Call(w)' /\ inputs' \in Nat /\ missed' \in BOOLEAN
      BY <1>1, <1>2, <1>7, <2>1, IdleCall, InputIs DEF TypeOK, watchVars
  <2>3. UNCHANGED <<canvasVars, files, storeVars, watching, hints, sweep, missed>>
      BY <1>1, <1>7 DEF storeVars, watchVars
  <2> QED BY <1>1, <2>1, <2>2, <2>3, ActSafe DEF Attaching
<1> QED BY <1>0, <1>5, <1>6, <1>7 DEF Attach

-----------------------------------------------------------------------------
(* The specification *)

LEMMA InitSafe == Init => IInv
<1> SUFFICES ASSUME Init  PROVE IInv
    OBVIOUS
<1>1. PICK t \in Texts : /\ canvas = [n \in Nodes |-> [text |-> t, binding |-> None]]
                         /\ past = [n \in Nodes |-> {t}]
    BY DEF Init
<1>2. PICK start \in Start, inode \in Injection(Paths, Inodes) :
        files = [p \in Paths |-> IF start[p] = None THEN None ELSE [text |-> start[p], inode |-> inode[p]]]
    BY DEF Init
<1>3. files \in [Paths -> {None} \cup [text : Texts, inode : Inodes]]
  <2>1. start \in [Paths -> Texts \cup {None}] /\ inode \in [Paths -> Inodes]
      BY FilesAssumption DEF Injection
  <2> QED BY <2>1, <1>2
<1>4. /\ spent = {} /\ inputs = 0 /\ rows = [b \in Bindings |-> None] /\ made = 0 /\ conflicts = {}
      /\ act \in [Activities -> Calls] /\ \A w \in Activities : act[w].pc = "idle"
      /\ watching = FALSE /\ hints = {} /\ sweep = {} /\ missed = FALSE
    BY IdleIs DEF Init
<1>5. Bound = {}  BY <1>4 DEF Bound
<1>6. TypeOK  BY <1>1, <1>3, <1>4 DEF TypeOK
<1>7. Once  BY <1>4, <1>5 DEF Once
<1>8. Linked  BY <1>1, <1>4 DEF Linked
<1>9. Had
  <2>1. \A w \in Activities : Call(w)  BY <1>4 DEF Call
  <2> QED BY <2>1, <1>1, <1>4, <1>5 DEF Had
<1>10. Noticed  BY <1>5 DEF Noticed
<1> QED BY <1>6, <1>7, <1>8, <1>9, <1>10 DEF IInv

LEMMA StutterSafe ==
  ASSUME IInv, UNCHANGED vars
  PROVE  IInv'
<1>1. TypeOK'  BY DEF IInv, TypeOK, vars, canvasVars, storeVars, watchVars
<1>2. Grows /\ \A n \in Nodes : canvas'[n].binding = canvas[n].binding /\ canvas'[n].text \in past'[n]
    BY DEF IInv, Had, Grows, vars, canvasVars
<1> QED BY <1>1, <1>2, StillSafe DEF vars, canvasVars, storeVars, watchVars

LEMMA NextSafe == IInv /\ [Next]_vars => IInv'
<1> SUFFICES ASSUME IInv, [Next]_vars  PROVE IInv'
    OBVIOUS
<1>1. ASSUME NEW n \in Nodes, NEW t \in Texts, Edit(n, t)  PROVE IInv'
    BY <1>1, EditSafe
<1>2. ASSUME NEW p \in Paths,
             \/ \E t \in Texts : Overwrite(p, t) \/ Replace(p, t)
             \/ Unlink(p)
             \/ \E q \in Paths : Move(p, q)
      PROVE  IInv'
    BY <1>2, OthersSafe
<1>3. CASE Watch  BY <1>3, WatchSafe
<1>4. ASSUME NEW w \in Activities, NEW p \in Paths, Notice(w, p)  PROVE IInv'
    BY <1>4, NoticeSafe
<1>5. ASSUME NEW w \in Activities, NEW b \in Bindings, SweepOne(w, b) \/ Save(w, b)  PROVE IInv'
    BY <1>5, SweepOneSafe, SaveSafe
<1>6. ASSUME NEW w \in Activities, Read(w) \/ Commit(w) \/ RecordConflict(w) \/ Update(w)  PROVE IInv'
    BY <1>6, ReadSafe, CommitSafe, RecordConflictSafe, UpdateSafe
<1>7. ASSUME NEW w \in Activities, NEW n \in Nodes, NEW p \in Paths, NEW mode \in Modes, Bind(w, n, p, mode)
      PROVE  IInv'
    BY <1>7, BindSafe
<1>8. ASSUME NEW w \in Activities, Insert(w) \/ Attach(w)  PROVE IInv'
    BY <1>8, InsertSafe, AttachSafe
<1>9. ASSUME NEW w \in Activities,
             Announce(w) \/ Check(w) \/ Rename(w) \/ Settle(w) \/ SaveFailed(w) \/ ActivityFails(w)
      PROVE  IInv'
    BY <1>9, AnnounceSafe, CheckSafe, RenameSafe, SettleSafe, SaveFailedSafe, ActivityFailsSafe
<1>10. CASE Crash  BY <1>10, CrashSafe
<1>11. CASE UNCHANGED vars  BY <1>11, StutterSafe
<1> QED BY <1>1, <1>2, <1>3, <1>4, <1>5, <1>6, <1>7, <1>8, <1>9, <1>10, <1>11 DEF Next

\* Bindings, nodes and activities stay tied to one another, and what rows and activities
\* hold of texts the canvas has had (createBinding, #reconcileBinding, save).
THEOREM Invariant == Spec => []IInv
BY InitSafe, NextSafe, PTL DEF Spec

\* Every column and every argument keeps its type (node_bindings, sync_conflicts).
THEOREM TypeCorrect == Spec => []TypeOK
<1>1. IInv => TypeOK  BY DEF IInv
<1> QED BY <1>1, Invariant, PTL

LEMMA QuietIsSettled == IInv => NoSilentEdit
<1> SUFFICES ASSUME IInv, Quiet, NEW b \in Bound, Exists(rows[b].path), canvas[rows[b].node].binding = b
             PROVE  AtRest(b)
    BY DEF NoSilentEdit, AtRest
<1>1. ~Due(b)  BY DEF Quiet, Due, Busy
<1>2. AtRest(b) \/ Due(b)  BY DEF IInv, Noticed, Quiet, Attached
<1> QED BY <1>1, <1>2

\* No edit on disk goes unnoticed by a service that has watched all along and met no
\* failure: every text of a bound file has come to the canvas or is under an open
\* conflict once nothing is left to do (#onFilesystemEvent, #reconcileBinding, save).
THEOREM NoEditIsSilent == Spec => []NoSilentEdit
BY Invariant, QuietIsSettled, PTL

\* A save replaces no text its node has not had, unless it was written between the last
\* look at the digest and the rename (save, atomicCasWriteText).
THEOREM NothingIsUnseen == Spec => NothingUnseen
<1> DEFINE A == \A w \in Activities :
                  (Busy(w, "rename") /\ act'[w].pc \in {"settle", "failed"} /\ files' # files) =>
                    LET p == act[w].row.path IN
                    \/ ~Exists(p)
                    \/ files[p].text \in Known(act[w].row)
                    \/ act[w].slipped
<1>1. IInv /\ [Next]_vars => [A]_<<act, files>>
    BY DEF IInv, Had, Call, Busy, vars
<1> QED BY <1>1, Invariant, PTL DEF Spec, NothingUnseen
==============================================================================
