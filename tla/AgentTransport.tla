----------------------------- MODULE AgentTransport -----------------------------
(***************************************************************************)
(* The agents of runs as processes: the acpx transport                      *)
(* (daemon/transport/acpx.ts), the codex transport (codex.ts), their pool   *)
(* of child processes (process.ts), and the cancellation of a run           *)
(* (RunManager in daemon/runs.ts).                                          *)
(*                                                                          *)
(* A codex child does the work itself.  An acpx run has two children, one   *)
(* that ensures the named session and a client that hands its prompt to the *)
(* owner of that session, a process of acpx outside the process group of    *)
(* the client.  To stop the client is therefore not to stop the work, and   *)
(* `acpx cancel' ends whatever turn the session is at: README.md says it    *)
(* cannot name a prompt.                                                    *)
(*                                                                          *)
(* Promises settle in one step with what waits for nothing but them.  Left  *)
(* out are events and output, Windows, run ids that come back, and a        *)
(* descendant that leaves its process group or outlives an agent nobody     *)
(* cancelled.                                                               *)
(***************************************************************************)
EXTENDS Naturals, Sequences, SequencesExt, Nothing

CONSTANTS
    Acpx, Codex,    \* the runs of each transport
    Sessions,
    SessionOf,      \* workspace, agent and session name of each acpx run
    MaxFaults       \* bound: children that fail by themselves or do not stop, cancels that fail

Runs == Acpx \cup Codex

ASSUME TransportAssumption ==
    /\ SessionOf \in [Acpx -> Sessions]
    /\ Acpx \cap Codex = {}
    /\ None \notin Runs
    /\ MaxFaults \in Nat

VARIABLES
    run,        \* where transport.run of each run is
    child,      \* its entry in #children: the process group behind it
    stop,       \* the entry of that child in #terminations
    cancel,     \* where transport.cancel is, and then what it said
    scope,      \* #activeSessionScopes
    owner,      \* the prompts the owner of each session has, the current turn first
    sent,       \* acpx runs whose client has handed its prompt over
    stray,      \* history: sessions with a turn that lost its client, or may have
    faults

processes == <<child, stop>>
work == <<owner, sent>>
agentVars == <<run, processes, cancel, scope, work, stray, faults>>

\* An acpx run is at "prompting" while its client is, and "closing" in its finally block.
RunPcs == {"out", "ensuring", "prompting", "closing", "over"}
\* A group without its leader is a "tail"; one that is "gone" has not told the pool yet.
Groups == {"none", "live", "tail", "gone"}
Verdicts == {"stopped", "nothing", "unconfirmed"}
CancelPcs == {"no", "stopEnsure", "ask", "grace", "stop", "confirm", "askAgain"} \cup Verdicts

AgentInit ==
    /\ run = [r \in Runs |-> "out"]
    /\ child = [r \in Runs |-> "none"]
    /\ stop = [r \in Runs |-> "no"]
    /\ cancel = [r \in Runs |-> "no"]
    /\ scope = [s \in Sessions |-> None]
    /\ owner = [s \in Sessions |-> <<>>]
    /\ sent = {}
    /\ stray = {}
    /\ faults = 0

Fault == faults < MaxFaults /\ faults' = faults + 1
NoFault == UNCHANGED faults

HandedOver(r) == r \in Acpx /\ r \in Range(owner[SessionOf[r]])
Asked(r) == cancel[r] # "no"
Settled(r) == run[r] \in {"closing", "over"}
Answered(r) == cancel[r] \in Verdicts /\ run[r] = "over"

\* #terminate: all who want a child stopped share one attempt.
Terminate(r) == IF stop[r] = "no" THEN [stop EXCEPT ![r] = "asked"] ELSE stop
Spawn(r) == child' = [child EXCEPT ![r] = "live"] /\ stop' = [stop EXCEPT ![r] = "no"]
-----------------------------------------------------------------------------
(* transport.run *)

Over(r) ==
    /\ run' = [run EXCEPT ![r] = "over"]
    /\ scope' = [s \in Sessions |-> IF scope[s] = r THEN None ELSE scope[s]]

\* Mutant: the session is free as soon as the client is gone.
FinallyAtOnce(r) == Over(r)

\* The finally block: a run that is being cancelled keeps its session until that ends.
Finally(r) ==
    IF r \in Acpx /\ cancel[r] \notin Verdicts \cup {"no"}
    THEN run' = [run EXCEPT ![r] = "closing"] /\ UNCHANGED scope
    ELSE Over(r)

Run(r) ==
    /\ run[r] = "out"
    /\ IF r \in Codex
       THEN run' = [run EXCEPT ![r] = "prompting"] /\ Spawn(r) /\ UNCHANGED scope
       ELSE IF scope[SessionOf[r]] # None    \* session_busy
       THEN run' = [run EXCEPT ![r] = "over"] /\ UNCHANGED <<processes, scope>>
       ELSE /\ run' = [run EXCEPT ![r] = "ensuring"]
            /\ scope' = [scope EXCEPT ![SessionOf[r]] = r]
            /\ Spawn(r)
    /\ UNCHANGED <<cancel, work, stray, faults>>

\* The pool sees the child close; the id stays taken while a termination is under way.
Closes(r) == child[r] \in {"tail", "gone"} /\ stop[r] # "asked"

EnsureCloses(r) ==
    /\ run[r] = "ensuring"
    /\ Closes(r)
    /\ \/ /\ ~Asked(r) /\ stop[r] = "no"
          /\ run' = [run EXCEPT ![r] = "prompting"]
          /\ Spawn(r)
          /\ UNCHANGED scope
       \/ /\ child' = [child EXCEPT ![r] = "none"]    \* it failed, or the run is cancelled
          /\ Finally(r)
          /\ UNCHANGED stop
    /\ UNCHANGED <<cancel, work, stray, faults>>

ChildCloses(r) ==
    /\ run[r] = "prompting"
    /\ Closes(r)
    /\ child' = [child EXCEPT ![r] = "none"]
    /\ Finally(r)
    /\ UNCHANGED <<stop, cancel, work, stray, faults>>

\* The cancellation that the finally block waits for has ended.
Leave(r) ==
    /\ run[r] = "closing"
    /\ cancel[r] \in Verdicts
    /\ Over(r)
    /\ UNCHANGED <<processes, cancel, work, stray, faults>>
-----------------------------------------------------------------------------
(* The processes *)

\* The client gives its prompt to the owner; SIGTERM does not keep it from that.
HandOver(r) ==
    /\ r \in Acpx
    /\ run[r] = "prompting"
    /\ child[r] = "live"
    /\ r \notin sent
    /\ sent' = sent \cup {r}
    /\ owner' = [owner EXCEPT ![SessionOf[r]] = Append(@, r)]
    /\ UNCHANGED <<run, processes, cancel, scope, stray, faults>>

TurnEnds(s) ==
    /\ owner[s] # <<>>
    /\ owner' = [owner EXCEPT ![s] = Tail(@)]
    /\ UNCHANGED <<run, processes, cancel, scope, sent, stray, faults>>

\* The leader exits, on a signal or when its work is done.  A client that dies while the
\* owner has its prompt leaves it behind, unless a cancel of the session is yet to come.
Exits(r) ==
    /\ child[r] = "live"
    /\ child' \in {[child EXCEPT ![r] = "tail"], [child EXCEPT ![r] = "gone"]}
    /\ IF HandedOver(r) /\ stop[r] = "no" THEN Fault ELSE NoFault
    /\ stray' = IF HandedOver(r) /\ cancel[r] \in {"no", "grace"}
                THEN stray \cup {SessionOf[r]} ELSE stray
    /\ UNCHANGED <<run, stop, cancel, scope, work>>

GroupEnds(r) ==
    /\ child[r] = "tail"
    /\ child' = [child EXCEPT ![r] = "gone"]
    /\ UNCHANGED <<run, stop, cancel, scope, work, stray, faults>>

\* More output than MAX_STDOUT_BYTES: the pool stops the child without being asked to.
Overruns(r) ==
    /\ child[r] = "live"
    /\ stop[r] = "no"
    /\ Fault
    /\ stop' = Terminate(r)
    /\ UNCHANGED <<run, child, cancel, scope, work, stray>>

\* #terminateProcessTree: SIGTERM, SIGKILL, and whether the group is seen to end.
Terminated(r) ==
    /\ stop[r] = "asked"
    /\ \/ child[r] = "gone" /\ NoFault /\ stop' = [stop EXCEPT ![r] = "done"]
       \/ child[r] # "gone" /\ Fault /\ stop' = [stop EXCEPT ![r] = "failed"]
    /\ UNCHANGED <<run, child, cancel, scope, work, stray>>
-----------------------------------------------------------------------------
(* transport.cancel, and #cancelRun around it *)

\* #cancelRun aborts the run whatever the transport said; the pool then stops its child.
Verdict(r, verdict) ==
    /\ cancel' = [cancel EXCEPT ![r] = verdict]
    /\ stop' = IF child[r] # "none" THEN Terminate(r) ELSE stop
    /\ stray' = IF verdict = "unconfirmed" /\ r \in Acpx THEN stray \cup {SessionOf[r]} ELSE stray

Continue(r, pc) == cancel' = [cancel EXCEPT ![r] = pc] /\ UNCHANGED <<stop, stray>>

\* cancelAndWait, of a client that has not closed yet.
StopClient(r) ==
    IF child[r] = "none" THEN Continue(r, "confirm")
    ELSE /\ cancel' = [cancel EXCEPT ![r] = "stop"]
         /\ stop' = Terminate(r)
         /\ UNCHANGED stray

Cancel(r) ==
    /\ cancel[r] = "no"
    /\ \/ /\ run[r] \in {"out", "over"}
          /\ Verdict(r, "nothing")
          /\ run' = [run EXCEPT ![r] = "over"]
       \/ /\ run[r] = "ensuring"
          /\ cancel' = [cancel EXCEPT ![r] = "stopEnsure"]
          /\ stop' = Terminate(r)
          /\ UNCHANGED <<run, stray>>
       \/ /\ run[r] = "prompting"
          /\ cancel' = [cancel EXCEPT ![r] = IF r \in Acpx THEN "ask" ELSE "stop"]
          /\ stop' = IF r \in Acpx THEN stop ELSE Terminate(r)
          /\ UNCHANGED <<run, stray>>
    /\ UNCHANGED <<child, scope, work, faults>>

\* requestCooperativeCancel: a process of its own, bounded by timers.  One that fails
\* or is killed may have ended the turn all the same.
Ended(s) == [owner EXCEPT ![s] = IF @ = <<>> THEN @ ELSE Tail(@)]

Ask(r) ==
    /\ cancel[r] = "ask"
    /\ \/ NoFault /\ owner' = Ended(SessionOf[r]) /\ Continue(r, "grace")
       \/ Fault /\ owner' \in {owner, Ended(SessionOf[r])} /\ StopClient(r)
    /\ UNCHANGED <<run, child, scope, sent>>

\* Mutant: a first cancel that succeeded is believed.
BelieveFirst(r) ==
    /\ cancel[r] = "grace"
    /\ Verdict(r, "stopped")
    /\ UNCHANGED <<run, child, scope, work, faults>>

\* Mutant: the grace period has no end.
GraceForEver(r) ==
    /\ cancel[r] = "grace"
    /\ Settled(r)
    /\ Verdict(r, "stopped")
    /\ UNCHANGED <<run, child, scope, work, faults>>

\* settlesWithin COOPERATIVE_CANCEL_GRACE_MS
Grace(r) ==
    /\ cancel[r] = "grace"
    /\ IF Settled(r) THEN Verdict(r, "stopped") ELSE StopClient(r)
    /\ UNCHANGED <<run, child, scope, work, faults>>

\* The client, or the codex child, is stopped or not.
Stop(r) ==
    /\ cancel[r] = "stop"
    /\ \/ stop[r] = "done" /\ r \in Acpx /\ Continue(r, "confirm")
       \/ stop[r] = "done" /\ r \in Codex /\ Verdict(r, "stopped")
       \/ stop[r] = "failed" /\ Verdict(r, "unconfirmed")
    /\ UNCHANGED <<run, child, scope, work, faults>>

StopEnsure(r) ==
    /\ cancel[r] = "stopEnsure"
    /\ stop[r] \in {"done", "failed"}
    /\ Verdict(r, IF stop[r] = "done" THEN "stopped" ELSE "unconfirmed")
    /\ UNCHANGED <<run, child, scope, work, faults>>

\* settlesWithin CLIENT_STOP_CONFIRM_MS
Confirm(r) ==
    /\ cancel[r] = "confirm"
    /\ \/ Settled(r) /\ NoFault /\ Continue(r, "askAgain")
       \/ ~Settled(r) /\ Fault /\ Verdict(r, "unconfirmed")
    /\ UNCHANGED <<run, child, scope, work>>

\* The client cannot hand anything over any more: end what it has handed over.
AskAgain(r) ==
    /\ cancel[r] = "askAgain"
    /\ \/ NoFault /\ owner' = Ended(SessionOf[r]) /\ Verdict(r, "stopped")
       \/ Fault /\ owner' \in {owner, Ended(SessionOf[r])} /\ Verdict(r, "unconfirmed")
    /\ UNCHANGED <<run, child, scope, sent>>
-----------------------------------------------------------------------------
\* Steps of the daemon, which its timers and its event loop bring about.
Cancelling(r) ==
    Ask(r) \/ Grace(r) \/ Stop(r) \/ StopEnsure(r) \/ Confirm(r) \/ AskAgain(r)
Closing(r) == EnsureCloses(r) \/ ChildCloses(r) \/ Leave(r)

\* A process that was told to stop.
Dies(r) == stop[r] # "no" /\ (Exits(r) \/ GroupEnds(r))

AgentNext ==
    \/ \E r \in Runs :
        \/ Run(r) \/ HandOver(r) \/ Exits(r) \/ GroupEnds(r) \/ Overruns(r) \/ Terminated(r)
        \/ Cancel(r) \/ Cancelling(r) \/ Closing(r)
    \/ \E s \in Sessions : TurnEnds(s)

\* Nothing is asked of agents: a turn may last for ever, a run may never be cancelled.
\* SIGKILL ends a process some time, though maybe not while the daemon waits for it.
Fairness ==
    \A r \in Runs :
        WF_agentVars(Cancelling(r)) /\ WF_agentVars(Closing(r)) /\ WF_agentVars(Terminated(r)) /\ WF_agentVars(Dies(r))

AgentSpec == AgentInit /\ [][AgentNext]_agentVars
FairSpec == AgentSpec /\ Fairness
-----------------------------------------------------------------------------
AgentTypeOK ==
    /\ run \in [Runs -> RunPcs]
    /\ child \in [Runs -> Groups]
    /\ stop \in [Runs -> {"no", "asked", "done", "failed"}]
    /\ cancel \in [Runs -> CancelPcs]
    /\ scope \in [Sessions -> Acpx \cup {None}]
    /\ owner \in [Sessions -> Seq(Acpx)]
    /\ sent \subseteq Acpx
    /\ stray \subseteq Sessions
    /\ faults \in 0..MaxFaults

\* When a cancellation is confirmed no process works for the run any more, nor will one:
\* its own processes are gone and the owner of its session neither has its prompt nor gets
\* it later (#cancelActiveRun, the comment above clientStopped).  A session whose turn an
\* earlier client left behind is excepted: `acpx cancel' then ends that turn.
CancelledStops ==
    \A r \in Runs : Answered(r) /\ cancel[r] # "unconfirmed" =>
        /\ child[r] \notin {"live", "tail"}
        /\ HandedOver(r) => SessionOf[r] \in stray

\* The cancellation of one run never ends the turn of another that is under way (the
\* finally block of run: a successor would be cancelled by its predecessor's cleanup).
SparesOthers ==
    [][\A r, q \in Acpx :
        r # q /\ cancel[r] # cancel'[r] /\ run[q] # "over" /\ HandedOver(q) => HandedOver(q)']_agentVars

\* Every cancelled run ends, with an answer for who cancelled it, however its processes
\* behave: RunLifecycle takes this for granted.
Returns == \A r \in Runs : Asked(r) ~> Answered(r)
=============================================================================
