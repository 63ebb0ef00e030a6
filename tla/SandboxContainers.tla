------------------------- MODULE SandboxContainers -------------------------
(***************************************************************************)
(* Sandbox sessions and the Docker containers behind them (sandbox/        *)
(* container_manager.py, with its callers in sandbox/routes.py,            *)
(* verification/verifiers.py and main.py).                                 *)
(*                                                                         *)
(* Four parties share the session table and the Docker daemon: the request *)
(* or verification run that creates a session, the disconnect request, the *)
(* cleanup thread that reaps expired sessions, and the reconciliation that *)
(* removes containers nobody tracks, at startup and again when the cleanup *)
(* thread starts.  The table is guarded by a lock for single accesses      *)
(* only; every call to Docker happens outside of it.                       *)
(***************************************************************************)
EXTENDS Naturals, FiniteSets

CONSTANTS
  Session,          \* session ids that can be handed out
  Source,           \* sessions built from a repository: dependencies are installed
  UserOf,           \* the user_id a session is created with
  NoUser,           \* none: the API routes pass no user_id
  UserLimit,        \* MAX_CONCURRENT_SESSIONS_PER_USER = 2
  MaxFaults         \* bound: Docker failures and restarts in a behaviour

ASSUME SandboxAssumption ==
  /\ Source \subseteq Session
  /\ UserLimit \in Nat \ {0} /\ MaxFaults \in Nat

\* The verification worker is the only caller that names a user.
Verifier == {s \in Session : UserOf[s] # NoUser}

VARIABLES
  life,             \* the coroutine that creates a session
  container,        \* what Docker knows of its container
  tracked, status,  \* the session table, and the status of each session object
  expired,          \* sessions past their deadline
  destroy,          \* destroy_container in flight, per caller
  recon, targets,   \* reconciliations: step and containers to remove
  batch,            \* expired sessions the cleanup thread still has to destroy
  orphan,           \* history: sessions of an earlier process
  lost,             \* history: sessions whose container Docker or an installation failed on
  raced,            \* history: sessions caught between container and table by a listing
  faults            \* history: faults used up

table  == <<tracked, status>>
thread == <<recon, targets, batch>>
ghosts == <<orphan, lost, raced>>
vars   == <<life, container, table, expired, destroy, thread, ghosts, faults>>

-----------------------------------------------------------------------------
\* Who may be inside destroy_container for a session: its creator or its
\* user, the user a second time, the cleanup thread.
Destroyer  == {"caller", "again", "cleanup"}
Reconciler == {"startup", "cleanup"}

Fault == faults < MaxFaults /\ faults' = faults + 1

Fresh == [s \in Session |-> "idle"]

Destroyed(s) == \E d \in Destroyer : destroy[d][s] # "idle"

WithinLimit(s) ==
  UserOf[s] # NoUser => Cardinality({t \in tracked : UserOf[t] = UserOf[s]}) < UserLimit

\* The worker runs one verification at a time, its clean-up included.
WorkerBusy == \E s \in Verifier : life[s] \in {"creating", "up", "connecting"}
                                  \/ destroy["caller"][s] # "idle"

Init ==
  /\ life = [s \in Session |-> "unborn"]
  /\ container = [s \in Session |-> "none"]
  /\ tracked = {} /\ status = [s \in Session |-> "starting"] /\ expired = {}
  /\ destroy = [d \in Destroyer |-> Fresh]
  /\ recon = [r \in Reconciler |-> IF r = "startup" THEN "list" ELSE "unborn"]
  /\ targets = [r \in Reconciler |-> {}] /\ batch = {}
  /\ orphan = {} /\ lost = {} /\ raced = {} /\ faults = 0

-----------------------------------------------------------------------------
(* create_container and create_container_from_source.  The deadline runs    *)
(* from the first line on, the session is registered at the last.  main.py  *)
(* starts the worker before it awaits the startup reconciliation; requests  *)
(* are served only after it.                                                *)

Create(s) ==
  /\ life[s] = "unborn"
  /\ s \notin Verifier => recon["startup"] = "done"
  /\ WithinLimit(s)
  /\ s \in Verifier => ~WorkerBusy
  /\ life' = [life EXCEPT ![s] = "creating"]
  /\ UNCHANGED <<container, table, expired, destroy, thread, ghosts, faults>>

ContainerUp(s) ==
  /\ life[s] = "creating"
  /\ \/ container' = [container EXCEPT ![s] = "running"] /\ life' = [life EXCEPT ![s] = "up"]
     \/ life' = [life EXCEPT ![s] = "closed"] /\ UNCHANGED container
  /\ UNCHANGED <<table, expired, destroy, thread, ghosts, faults>>

\* The error path removes the cloned directory and not the container.
InstallFails(s) ==
  /\ life[s] = "up" /\ s \in Source
  /\ life' = [life EXCEPT ![s] = "closed"]
  /\ lost' = lost \cup {s}
  /\ UNCHANGED <<container, table, expired, destroy, thread, orphan, raced, faults>>

\* faulty: nobody starts the cleanup thread
NeverEnsured == recon

Ensured == IF recon["cleanup"] = "unborn" THEN [recon EXCEPT !["cleanup"] = "list"] ELSE recon

Register(s) ==
  /\ life[s] = "up"
  /\ life' = [life EXCEPT ![s] = "connecting"]
  /\ tracked' = tracked \cup {s}
  /\ status' = [status EXCEPT ![s] = "ready"]
  /\ recon' = Ensured
  /\ UNCHANGED <<container, expired, destroy, targets, batch, ghosts, faults>>

-----------------------------------------------------------------------------
(* destroy_container: mark, remove, forget; each part on its own.           *)

\* faulty: the record goes before the container
ForgetFirst == "forget"

AfterMark == "remove"

\* A session that is no longer in the table is left alone.
Mark(d, s) ==
  IF s \in tracked
  THEN /\ status' = [status EXCEPT ![s] = "stopped"]
       /\ destroy' = [destroy EXCEPT ![d][s] = AfterMark]
  ELSE UNCHANGED <<status, destroy>>

RemoveContainer(d, s) ==
  /\ destroy[d][s] = "remove"
  /\ container' = [container EXCEPT ![s] = "gone"]
  /\ destroy' = [destroy EXCEPT ![d][s] = "forget"]
  /\ UNCHANGED <<life, table, expired, thread, ghosts, faults>>

\* faulty: the failure ends the destruction
GivesUp == "idle"

AfterRefusal == "forget"

\* Docker refuses to stop or remove the container: logged and swallowed.
RemovalFails(d, s) ==
  /\ destroy[d][s] = "remove"
  /\ Fault
  /\ lost' = lost \cup {s}
  /\ destroy' = [destroy EXCEPT ![d][s] = AfterRefusal]
  /\ UNCHANGED <<life, container, table, expired, thread, orphan, raced>>

Forget(d, s) ==
  /\ destroy[d][s] = "forget"
  /\ tracked' = tracked \ {s}
  /\ destroy' = [destroy EXCEPT ![d][s] = "idle"]
  /\ UNCHANGED <<life, container, status, expired, thread, ghosts, faults>>

-----------------------------------------------------------------------------
(* The callers: connect routes, verification runs, disconnect and invoke.   *)

\* The handshake succeeded; the session may have been destroyed meanwhile.
Connected(s) ==
  /\ life[s] = "connecting" /\ s \notin Verifier
  /\ life' = [life EXCEPT ![s] = "open"]
  /\ status' = [status EXCEPT ![s] = "running"]
  /\ UNCHANGED <<container, tracked, expired, destroy, thread, ghosts, faults>>

\* The handshake failed, or the verification run is over, one way or another.
Disconnects(s) ==
  /\ life[s] = "connecting"
  /\ life' = [life EXCEPT ![s] = "closed"]
  /\ Mark("caller", s)
  /\ UNCHANGED <<container, tracked, expired, thread, ghosts, faults>>

\* connect_local and connect_source catch what connecting raises and answer
\* without the session id; the session stays behind.
ConnectRaises(s) ==
  /\ life[s] = "connecting" /\ s \notin Verifier
  /\ life' = [life EXCEPT ![s] = "closed"]
  /\ UNCHANGED <<container, table, expired, destroy, thread, ghosts, faults>>

\* disconnect_local on a session that get_session returns.  A second request
\* while the first is under way finds the session and does the same again.
UserDisconnects(s) ==
  /\ life[s] = "open" /\ s \in tracked \ expired
  /\ \E d \in {"caller", "again"} : destroy[d][s] = "idle" /\ Mark(d, s)
  /\ UNCHANGED <<life, container, tracked, expired, thread, ghosts, faults>>

\* get_session, for invoke or disconnect: an expired session is marked and
\* reported as already cleaned up.
LookupExpired(s) ==
  /\ life[s] = "open" /\ s \in tracked \cap expired
  /\ status' = [status EXCEPT ![s] = "expired"]
  /\ UNCHANGED <<life, container, tracked, expired, destroy, thread, ghosts, faults>>

\* Deadlines are only read of sessions in the table.
Expire(s) ==
  /\ life[s] \in {"creating", "up"} \/ s \in tracked
  /\ s \notin expired
  /\ expired' = expired \cup {s}
  /\ UNCHANGED <<life, container, table, destroy, thread, ghosts, faults>>

-----------------------------------------------------------------------------
(* _reconcile_orphaned_containers: list what runs, compare with the table,  *)
(* remove the rest.                                                         *)

ReconcileList(r) ==
  /\ recon[r] = "list"
  /\ recon' = [recon EXCEPT ![r] = "compare"]
  /\ targets' = [targets EXCEPT ![r] = {s \in Session : container[s] = "running"}]
  /\ raced' = raced \cup {s \in Session : life[s] = "up"}
  /\ UNCHANGED <<life, container, table, expired, destroy, batch, orphan, lost, faults>>

ListFails(r) ==
  /\ recon[r] = "list"
  /\ Fault
  /\ recon' = [recon EXCEPT ![r] = "done"]
  /\ lost' = lost \cup orphan
  /\ UNCHANGED <<life, container, table, expired, destroy, targets, batch, orphan, raced>>

AllListed(r)     == targets[r]                    \* faulty: no comparison
OnlyTracked(r)   == targets[r] \cap tracked       \* faulty: the wrong way round
Untracked(r)     == targets[r] \ tracked

ReconcileCompare(r) ==
  /\ recon[r] = "compare"
  /\ recon' = [recon EXCEPT ![r] = "remove"]
  /\ targets' = [targets EXCEPT ![r] = Untracked(r)]
  /\ UNCHANGED <<life, container, table, expired, destroy, batch, ghosts, faults>>

ReconcileRemove(r, s) ==
  /\ recon[r] = "remove" /\ s \in targets[r]
  /\ targets' = [targets EXCEPT ![r] = @ \ {s}]
  /\ \/ container' = [container EXCEPT ![s] = "gone"] /\ UNCHANGED <<lost, faults>>
     \/ Fault /\ lost' = lost \cup {s} /\ UNCHANGED container
  /\ UNCHANGED <<life, table, expired, destroy, recon, batch, orphan, raced>>

ReconcileDone(r) ==
  /\ recon[r] = "remove" /\ targets[r] = {}
  /\ recon' = [recon EXCEPT ![r] = "done"]
  /\ UNCHANGED <<life, container, table, expired, destroy, targets, batch, ghosts, faults>>

-----------------------------------------------------------------------------
(* _cleanup_loop and cleanup_expired, after the reconciliation.             *)

\* faulty: sessions that never got past "ready" are not reaped
OverdueRunning == {s \in tracked \cap expired : status[s] = "running"}

Overdue == {s \in tracked \cap expired : status[s] \notin {"stopped", "expired"}}

CleanupIdle == recon["cleanup"] = "done" /\ \A s \in Session : destroy["cleanup"][s] = "idle"

CleanupStart ==
  /\ CleanupIdle /\ batch = {} /\ Overdue # {}
  /\ batch' = Overdue
  /\ UNCHANGED <<life, container, table, expired, destroy, recon, targets, ghosts, faults>>

Reap(s) ==
  /\ CleanupIdle /\ s \in batch
  /\ batch' = batch \ {s}
  /\ Mark("cleanup", s)
  /\ UNCHANGED <<life, container, tracked, expired, recon, targets, ghosts, faults>>

\* The process restarts: containers stay, and one that was being created may
\* have come up; the table and everything in flight is gone.
Restart ==
  /\ Fault
  /\ \E up \in SUBSET {s \in Session : life[s] = "creating"} :
       /\ container' = [s \in Session |-> IF s \in up THEN "running" ELSE container[s]]
       /\ orphan' = orphan \cup up \cup {s \in Session : container[s] = "running"}
  /\ life' = [s \in Session |-> IF life[s] = "unborn" THEN "unborn" ELSE "closed"]
  /\ tracked' = {} /\ status' = [s \in Session |-> "starting"] /\ expired' = {}
  /\ destroy' = [d \in Destroyer |-> Fresh]
  /\ recon' = [r \in Reconciler |-> IF r = "startup" THEN "list" ELSE "unborn"]
  /\ targets' = [r \in Reconciler |-> {}] /\ batch' = {}
  /\ UNCHANGED <<lost, raced>>

-----------------------------------------------------------------------------
Reconcile(r) ==
  \/ ReconcileList(r) \/ ReconcileCompare(r) \/ ReconcileDone(r)
  \/ \E s \in Session : ReconcileRemove(r, s)

DestroyStep(d) == \E s \in Session : RemoveContainer(d, s) \/ Forget(d, s)

Handlers == DestroyStep("caller") \/ DestroyStep("again")

Cleanup ==
  \/ Reconcile("cleanup") \/ DestroyStep("cleanup")
  \/ CleanupStart \/ \E s \in Session : Reap(s)

Next ==
  \/ Reconcile("startup") \/ Handlers \/ Cleanup \/ Restart
  \/ \E r \in Reconciler : ListFails(r)
  \/ \E s \in Session :
       \/ Create(s) \/ ContainerUp(s) \/ InstallFails(s) \/ Register(s)
       \/ Connected(s) \/ Disconnects(s) \/ ConnectRaises(s)
       \/ UserDisconnects(s) \/ LookupExpired(s) \/ Expire(s)
       \/ \E d \in Destroyer : RemovalFails(d, s)

Spec == Init /\ [][Next]_vars

\* The cleanup thread, the startup reconciliation and started destructions go
\* on; nobody has to create, connect, look up or disconnect.
FairSpec ==
  /\ Spec
  /\ WF_vars(Cleanup) /\ WF_vars(Reconcile("startup")) /\ WF_vars(Handlers)

-----------------------------------------------------------------------------
TypeOK ==
  /\ life \in [Session -> {"unborn", "creating", "up", "connecting", "open", "closed"}]
  /\ container \in [Session -> {"none", "running", "gone"}]
  /\ tracked \subseteq Session
  /\ status \in [Session -> {"starting", "ready", "running", "expired", "stopped"}]
  /\ expired \subseteq Session
  /\ destroy \in [Destroyer -> [Session -> {"idle", "remove", "forget"}]]
  /\ recon \in [Reconciler -> {"unborn", "list", "compare", "remove", "done"}]
  /\ targets \in [Reconciler -> SUBSET Session] /\ batch \subseteq Session
  /\ orphan \subseteq Session /\ lost \subseteq Session /\ raced \subseteq Session
  /\ faults \in 0..MaxFaults
  /\ tracked # {} => recon["cleanup"] # "unborn"

\* cleanup_expired never looks at a stopped session again, so somebody must be
\* about to remove it, whichever of caller, user and cleanup thread meet on it.
StoppedIsBeingDestroyed == \A s \in tracked : status[s] = "stopped" => Destroyed(s)

\* A running container holds its memory for somebody: a session in the table
\* or on its way there, or an earlier process, unless Docker refused to remove
\* it or the installation of its dependencies failed.
RunningIsAccountedFor ==
  \A s \in Session : container[s] = "running" =>
    s \in tracked \/ life[s] = "up" \/ s \in orphan \/ s \in lost

\* A session that is offered to its user has its container, unless a
\* reconciliation listed the containers while the session was not yet in the
\* table.
LiveUnlessRaced ==
  \A s \in tracked :
    status[s] \in {"ready", "running"} /\ ~Destroyed(s) /\ s \notin raced => container[s] = "running"

\* A session that runs into its deadline is reaped, unless a look-up marks it
\* first.
ExpiredIsReaped ==
  \A s \in Session : s \in tracked \cap expired ~> s \notin tracked \/ status[s] = "expired"

\* Containers of an earlier process are removed, unless Docker refuses.
OrphansEnd ==
  \A s \in Session : s \in orphan ~> container[s] # "running" \/ s \in lost

-----------------------------------------------------------------------------
(* Refuted by runs.                                                         *)

\* _reconcile_orphaned_containers: "force-remove labeled sandbox containers
\* this process no longer tracks" - it removes containers not tracked yet.
LiveSessionHasContainer ==
  \A s \in tracked :
    status[s] \in {"ready", "running"} /\ ~Destroyed(s) => container[s] = "running"

\* get_session: "mark as expired but don't auto-remove (let cleanup handle
\* it)" - cleanup skips what is marked.
MarkedIsCleanedUp == \A s \in Session : s \in tracked \cap expired ~> s \notin tracked
=============================================================================
