----------------------------- MODULE ProjectLease -----------------------------
(***************************************************************************)
(* The one-writer lease of a project (daemon/projectLease.ts): several      *)
(* daemon processes over one directory, of which any may be killed between  *)
(* two file operations, and inside each daemon the operations that need the *)
(* lease and the maintenance that fences them.                              *)
(*                                                                          *)
(* One project is modelled; projects share no state.  A daemon is one       *)
(* process, with its pid: a restart is another member of Daemons, and pids  *)
(* are not reused.  The token of a lock file is the daemon that linked it,  *)
(* which has at most one lease of the project at a time.  The temporary     *)
(* file of an attempt is seen by nobody and is left out.                    *)
(***************************************************************************)
EXTENDS Integers, FiniteSets, Nothing

CONSTANTS
    Daemons,    \* processes, each started at most once
    Requests,   \* calls of withProjectOperation and beginMaintenance, finitely many
    Attempts    \* LEASE_RECOVERY_ATTEMPTS

ASSUME LeaseAssumption ==
    /\ None \notin Daemons
    /\ IsFiniteSet(Requests)
    /\ Attempts \in Nat \ {0}

VARIABLES
    status,     \* per daemon: "off", "up", "closing" (#closing) or "dead"
    lock,       \* the daemon whose lock file is linked, or None
    recovery,   \* who made the recovery directory, or None; it names nobody
    frozen,     \* an operator's maintenance lock file is present
    pc,         \* where the one acquisition of #leases is, "held" once it is settled
    tries,      \* attempts of that acquisition
    release,    \* where releaseProjectLease is
    fence,      \* #maintenanceProjects has the project
    active,     \* #activeProjectOperations of the project
    req,        \* the requests: at which daemon, of which kind, how far
    gap         \* history: a recovery found no lock file when it read the owner again

lockFiles == <<lock, recovery, frozen>>
local == <<tries, release, fence, active, req>>
leaseVars == <<status, lock, recovery, frozen, pc, tries, release, fence, active, req, gap>>

RequestKinds == {"operation", "maintenance"}
Idle == [at |-> None, kind |-> "operation", pc |-> "idle"]

LeaseInit ==
    /\ status = [d \in Daemons |-> "off"]
    /\ lock = None
    /\ recovery = None
    /\ frozen = FALSE
    /\ pc = [d \in Daemons |-> "none"]
    /\ tries = [d \in Daemons |-> 0]
    /\ release = [d \in Daemons |-> "none"]
    /\ fence = [d \in Daemons |-> FALSE]
    /\ active = [d \in Daemons |-> 0]
    /\ req = [r \in Requests |-> Idle]
    /\ gap = FALSE

\* processIsAlive of the pid in the lock file.
Alive(d) == status[d] \in {"up", "closing"}

\* What the requests that await the acquisition of d become when it is settled:
\* the continuations run before anything else does.  An operation passes the
\* second fence check of acquire or is refused; maintenance waits until d is idle.
Waiting(d) == {r \in Requests : req[r].at = d /\ req[r].pc = "waiting"}
Admitted(d, R) == {r \in R : req[r].kind = "operation" /\ ~fence[d]}

\* Mutant: the fence is not checked again after the lease.
AfterLeaseUnfenced(d, r) ==
    IF req[r].kind = "operation"
    THEN [req[r] EXCEPT !.pc = "running"]
    ELSE [req[r] EXCEPT !.pc = IF active[d] = 0 THEN "granted" ELSE "draining"]

AfterLease(d, r) ==
    IF req[r].kind = "operation"
    THEN IF fence[d] THEN Idle ELSE [req[r] EXCEPT !.pc = "running"]
    ELSE [req[r] EXCEPT !.pc = IF active[d] = 0 THEN "granted" ELSE "draining"]

Admit(d, R) ==
    /\ req' = [r \in Requests |-> IF r \in R THEN AfterLease(d, r) ELSE req[r]]
    /\ active' = [active EXCEPT ![d] = @ + Cardinality(Admitted(d, R))]
    /\ fence' = fence

\* A rejected request; beginMaintenance takes its fence down again.
Refuse(d, R) ==
    /\ req' = [r \in Requests |-> IF r \in R THEN Idle ELSE req[r]]
    /\ fence' = [fence EXCEPT ![d] = @ /\ \A r \in R : req[r].kind # "maintenance"]
    /\ active' = active
-----------------------------------------------------------------------------
(* Requests inside one daemon *)

\* acquire and beginMaintenance up to their first await: the fence is checked, or put up.
Arrive(r, d, kind) ==
    /\ req[r].pc = "idle"
    /\ status[d] = "up"
    /\ ~fence[d]
    /\ req' = [req EXCEPT ![r] = [at |-> d, kind |-> kind, pc |-> "asked"]]
    /\ fence' = [fence EXCEPT ![d] = kind = "maintenance"]
    /\ UNCHANGED <<status, lockFiles, pc, tries, release, active, gap>>

\* #projectLease, reached after assertManagedPath: one acquisition serves all who ask.
Ask(r) ==
    LET d == req[r].at IN
    /\ req[r].pc = "asked"
    /\ UNCHANGED <<status, lockFiles, release, gap>>
    /\ \/ /\ status[d] = "closing"
          /\ Refuse(d, {r})
          /\ UNCHANGED <<pc, tries>>
       \/ /\ status[d] = "up"
          /\ pc[d] = "held"
          /\ Admit(d, {r})
          /\ UNCHANGED <<pc, tries>>
       \/ /\ status[d] = "up"
          /\ pc[d] # "held"
          /\ req' = [req EXCEPT ![r].pc = "waiting"]
          /\ IF pc[d] = "none"
             THEN /\ pc' = [pc EXCEPT ![d] = "enter"]
                  /\ tries' = [tries EXCEPT ![d] = 0]
             ELSE UNCHANGED <<pc, tries>>
          /\ UNCHANGED <<fence, active>>

\* Mutant: nobody is woken.
FinishSilently(r) ==
    /\ req[r].pc = "running"
    /\ active' = [active EXCEPT ![req[r].at] = @ - 1]
    /\ req' = [req EXCEPT ![r] = Idle]
    /\ UNCHANGED <<status, lockFiles, pc, tries, release, fence, gap>>

\* The end of withProjectOperation: the last one wakes whoever waits for idleness.
Finish(r) ==
    LET d == req[r].at
        woken == {m \in Requests : req[m].at = d /\ req[m].pc = "draining" /\ active[d] = 1}
    IN
    /\ req[r].pc = "running"
    /\ active' = [active EXCEPT ![d] = @ - 1]
    /\ req' = [q \in Requests |->
                 IF q = r THEN Idle
                 ELSE IF q \notin woken THEN req[q]
                 ELSE IF status[d] = "up" THEN [req[q] EXCEPT !.pc = "granted"] ELSE Idle]
    /\ fence' = [fence EXCEPT ![d] = @ /\ (woken = {} \/ status[d] = "up")]
    /\ UNCHANGED <<status, lockFiles, pc, tries, release, gap>>

\* releaseForMaintenance: the lease leaves #leases, then its file is removed.
ReleaseForMaintenance(r) ==
    LET d == req[r].at IN
    /\ req[r].pc = "granted"
    /\ pc[d] = "held"
    /\ pc' = [pc EXCEPT ![d] = "none"]
    /\ release' = [release EXCEPT ![d] = "read"]
    /\ req' = [req EXCEPT ![r].pc = "releasing"]
    /\ UNCHANGED <<status, lockFiles, tries, fence, active, gap>>

\* endMaintenance, after the work under the fence or when it failed.
EndMaintenance(r) ==
    LET d == req[r].at IN
    /\ \/ req[r].pc = "granted"
       \/ req[r].pc = "releasing" /\ release[d] = "none"
    /\ req' = [req EXCEPT ![r] = Idle]
    /\ fence' = [fence EXCEPT ![d] = FALSE]
    /\ UNCHANGED <<status, lockFiles, pc, tries, release, active, gap>>
-----------------------------------------------------------------------------
(* acquireProjectLease *)

\* A step of the acquisition of d that changes no file and settles nothing.
Goto(d, from, to) ==
    /\ Alive(d)
    /\ pc[d] = from
    /\ pc' = [pc EXCEPT ![d] = to]
    /\ UNCHANGED <<status, lockFiles, local>>

\* The acquisition throws: #leases forgets it and everyone who awaits it is refused.
GiveUp(d, from) ==
    /\ Alive(d)
    /\ pc[d] = from
    /\ pc' = [pc EXCEPT ![d] = "none"]
    /\ Refuse(d, Waiting(d))
    /\ UNCHANGED <<status, lockFiles, tries, release, gap>>

\* assertNoCanvasMaintenance before the first attempt.
Enter(d) ==
    \/ frozen /\ GiveUp(d, "enter")
    \/ ~frozen /\ Goto(d, "enter", "attempt") /\ gap' = gap

\* The head of the loop: give up, or wait while a recovery directory exists.
Attempt(d) ==
    \/ tries[d] = Attempts /\ GiveUp(d, "attempt")
    \/ /\ Alive(d)
       /\ pc[d] = "attempt"
       /\ tries[d] < Attempts
       /\ tries' = [tries EXCEPT ![d] = @ + 1]
       /\ pc' = [pc EXCEPT ![d] = IF recovery # None THEN "attempt" ELSE "link"]
       /\ UNCHANGED <<status, lockFiles, release, fence, active, req, gap>>

\* link(temporary, filePath) succeeds for one daemon at a time.
Link(d) ==
    /\ Alive(d)
    /\ pc[d] = "link"
    /\ pc' = [pc EXCEPT ![d] = IF lock = None THEN "checkRecovery" ELSE "owner"]
    /\ lock' = IF lock = None THEN d ELSE lock
    /\ UNCHANGED <<status, recovery, frozen, local, gap>>

\* assertNoLeaseRecovery and assertNoCanvasMaintenance, after the link.
CheckRecovery(d) ==
    Goto(d, "checkRecovery", IF recovery # None THEN "backOff" ELSE "checkFrozen") /\ gap' = gap

\* A daemon that closes meanwhile gives the new lease back.
CheckFrozen(d) ==
    \/ frozen /\ Goto(d, "checkFrozen", "retreat") /\ gap' = gap
    \/ ~frozen /\ status[d] = "closing" /\ Goto(d, "checkFrozen", "retreat") /\ gap' = gap
    \/ /\ ~frozen
       /\ status[d] = "up"
       /\ pc[d] = "checkFrozen"
       /\ pc' = [pc EXCEPT ![d] = "held"]
       /\ Admit(d, Waiting(d))
       /\ UNCHANGED <<status, lockFiles, tries, release, gap>>

\* The own lock is removed after its token was read: to try again, or to throw.
BackOff(d) ==
    Goto(d, "backOff", IF lock = d THEN "unlinkAgain" ELSE "attempt") /\ gap' = gap
Retreat(d) ==
    \/ lock = d /\ Goto(d, "retreat", "unlink") /\ gap' = gap
    \/ lock # d /\ GiveUp(d, "retreat")

UnlinkAgain(d) ==
    /\ Alive(d)
    /\ pc[d] = "unlinkAgain"
    /\ lock' = None
    /\ pc' = [pc EXCEPT ![d] = "attempt"]
    /\ UNCHANGED <<status, recovery, frozen, local, gap>>
Unlink(d) ==
    /\ Alive(d)
    /\ pc[d] = "unlink"
    /\ lock' = None
    /\ pc' = [pc EXCEPT ![d] = "none"]
    /\ Refuse(d, Waiting(d))
    /\ UNCHANGED <<status, recovery, frozen, tries, release, gap>>

\* EEXIST: a live owner refuses the request; a lock that is gone is tried again.
ReadOwner(d) ==
    \/ lock # None /\ Alive(lock) /\ GiveUp(d, "owner")
    \/ ~(lock # None /\ Alive(lock)) /\ Goto(d, "owner", "exists") /\ gap' = gap
Exists(d) ==
    Goto(d, "exists", IF lock = None THEN "attempt" ELSE "mkdir") /\ gap' = gap

\* recoverStaleProjectLease: one recovery at a time, by the exclusive mkdir.
BeginRecovery(d) ==
    /\ Alive(d)
    /\ pc[d] = "mkdir"
    /\ pc' = [pc EXCEPT ![d] = IF recovery = None THEN "reread" ELSE "attempt"]
    /\ recovery' = IF recovery = None THEN d ELSE recovery
    /\ UNCHANGED <<status, lock, frozen, local, gap>>

\* Mutant: the owner found before is trusted.
ReadAgainNever(d) == Goto(d, "reread", "remove") /\ gap' = gap

\* The owner is read again; a file that is gone counts like a dead owner.
ReadAgain(d) ==
    /\ Goto(d, "reread", IF lock # None /\ Alive(lock) THEN "rmdir" ELSE "remove")
    /\ gap' = (gap \/ lock = None)

RemoveStale(d) ==
    /\ Alive(d)
    /\ pc[d] = "remove"
    /\ lock' = None
    /\ pc' = [pc EXCEPT ![d] = "rmdir"]
    /\ UNCHANGED <<status, recovery, frozen, local, gap>>

EndRecovery(d) ==
    /\ Alive(d)
    /\ pc[d] = "rmdir"
    /\ recovery' = None
    /\ pc' = [pc EXCEPT ![d] = "attempt"]
    /\ UNCHANGED <<status, lock, frozen, local, gap>>

AcquireStep(d) ==
    \/ Enter(d) \/ Attempt(d) \/ Link(d) \/ CheckRecovery(d) \/ CheckFrozen(d)
    \/ BackOff(d) \/ Retreat(d) \/ UnlinkAgain(d) \/ Unlink(d)
    \/ ReadOwner(d) \/ Exists(d)
    \/ BeginRecovery(d) \/ ReadAgain(d) \/ RemoveStale(d) \/ EndRecovery(d)
-----------------------------------------------------------------------------
(* releaseProjectLease, processes and operators *)

ReadReleased(d) ==
    /\ Alive(d)
    /\ release[d] = "read"
    /\ release' = [release EXCEPT ![d] = IF lock = d THEN "remove" ELSE "none"]
    /\ UNCHANGED <<status, lockFiles, pc, tries, fence, active, req, gap>>

RemoveReleased(d) ==
    /\ Alive(d)
    /\ release[d] = "remove"
    /\ lock' = None
    /\ release' = [release EXCEPT ![d] = "none"]
    /\ UNCHANGED <<status, recovery, frozen, pc, tries, fence, active, req, gap>>

Boot(d) ==
    /\ status[d] = "off"
    /\ status' = [status EXCEPT ![d] = "up"]
    /\ UNCHANGED <<lockFiles, pc, local, gap>>

\* close: no new leases; the one that is settled is released.
Close(d) ==
    /\ status[d] = "up"
    /\ status' = [status EXCEPT ![d] = "closing"]
    /\ IF pc[d] = "held"
       THEN /\ pc' = [pc EXCEPT ![d] = "none"]
            /\ release' = [release EXCEPT ![d] = "read"]
       ELSE UNCHANGED <<pc, release>>
    /\ UNCHANGED <<lockFiles, tries, fence, active, req, gap>>

\* The process is gone: at any time when it is killed, at the end of close otherwise.
Die(d) ==
    /\ status' = [status EXCEPT ![d] = "dead"]
    /\ pc' = [pc EXCEPT ![d] = "none"]
    /\ release' = [release EXCEPT ![d] = "none"]
    /\ fence' = [fence EXCEPT ![d] = FALSE]
    /\ active' = [active EXCEPT ![d] = 0]
    /\ tries' = [tries EXCEPT ![d] = 0]
    /\ req' = [r \in Requests |-> IF req[r].at = d THEN Idle ELSE req[r]]
    /\ UNCHANGED <<lockFiles, gap>>
Kill(d) == Alive(d) /\ Die(d)

\* An operator puts the maintenance lock file there, or takes it away.
Freeze == frozen' = ~frozen /\ UNCHANGED <<status, lock, recovery, pc, local, gap>>
-----------------------------------------------------------------------------
DaemonStep(d) == AcquireStep(d) \/ ReadReleased(d) \/ RemoveReleased(d)

LeaseNext ==
    \/ \E r \in Requests, d \in Daemons, kind \in RequestKinds : Arrive(r, d, kind)
    \/ \E r \in Requests :
         Ask(r) \/ Finish(r) \/ ReleaseForMaintenance(r) \/ EndMaintenance(r)
    \/ \E d \in Daemons : DaemonStep(d) \/ Boot(d) \/ Close(d) \/ Kill(d)
    \/ Freeze

LeaseSpec == LeaseInit /\ [][LeaseNext]_leaseVars

\* The event loop runs what is ready, file operations return, operations end.
Fairness ==
    /\ \A d \in Daemons : WF_leaseVars(DaemonStep(d))
    /\ \A r \in Requests : WF_leaseVars(Ask(r) \/ Finish(r))

FairSpec == LeaseSpec /\ Fairness
-----------------------------------------------------------------------------
AcquirePcs == {"none", "enter", "attempt", "link", "checkRecovery", "checkFrozen", "backOff",
    "retreat", "unlinkAgain", "unlink", "owner", "exists", "mkdir", "reread", "remove", "rmdir",
    "held"}
RequestPcs == {"idle", "asked", "waiting", "running", "draining", "granted", "releasing"}

\* The shape of the state.
LeaseTypeOK ==
    /\ status \in [Daemons -> {"off", "up", "closing", "dead"}]
    /\ lock \in Daemons \cup {None}
    /\ recovery \in Daemons \cup {None}
    /\ frozen \in BOOLEAN
    /\ pc \in [Daemons -> AcquirePcs]
    /\ tries \in [Daemons -> 0..Attempts]
    /\ release \in [Daemons -> {"none", "read", "remove"}]
    /\ fence \in [Daemons -> BOOLEAN]
    /\ active \in [Daemons -> Nat]
    /\ req \in [Requests -> [at : Daemons \cup {None}, kind : RequestKinds, pc : RequestPcs]]
    /\ gap \in BOOLEAN

\* A daemon that was given the lease owns the lock file for as long as it lives,
\* so no second daemon can be given it: killed daemons, recoveries of stale locks
\* and retreats of other daemons included, unless some recovery found the file
\* gone when it read the owner again: it then removes whatever is linked next.
HolderKeepsLock == gap \/ \A d \in Daemons : pc[d] = "held" => lock = d

\* While maintenance has the project, none of the daemon's operations runs in it,
\* and no second maintenance does.
MaintenanceIsExclusive ==
    \A m, r \in Requests :
        req[m].kind = "maintenance" /\ req[m].pc \in {"granted", "releasing"}
        /\ m # r /\ req[r].at = req[m].at
            => /\ req[r].pc # "running"
               /\ req[r].kind = "maintenance" => req[r].pc = "idle"

\* Every request is answered, whatever happens to the daemons that compete for
\* the lease: an acquisition settles for all who await it, and the end of the last
\* operation wakes the maintenance that waits for it.
Pending(r) == req[r].pc \in {"asked", "waiting", "draining"}
Answered == \A r \in Requests : Pending(r) ~> ~Pending(r)
=============================================================================
