----------------------- MODULE SandboxContainersProofs -----------------------
(***************************************************************************)
(* Proofs about SandboxContainers, for any sessions, users, limits and any *)
(* number of faults.  The three safety properties speak of the table and   *)
(* the containers; the inductive invariant adds where a session is in its  *)
(* creation (Unregistered, UpIsUp), what a destruction has done so far     *)
(* (RemovedFirst) and what a reconciliation may still hold against a       *)
(* session (TargetsAreOld).                                                *)
(***************************************************************************)
EXTENDS SandboxContainers, TLAPS

Early == {"unborn", "creating", "up"}

Unregistered ==
  \A s \in Session :
    /\ life[s] \in Early => s \notin tracked /\ \A d \in Destroyer : destroy[d][s] = "idle"
    /\ life[s] \in {"unborn", "creating"} => container[s] # "running"

RemovedFirst ==
  \A d \in Destroyer, s \in Session :
    destroy[d][s] = "forget" => container[s] # "running" \/ s \in lost

NotYetOffered ==
  \A s \in tracked : life[s] = "connecting" => status[s] \in {"ready", "stopped"}

UpIsUp == \A s \in Session : life[s] = "up" /\ s \notin raced => container[s] = "running"

TargetsAreOld ==
  \A r \in Reconciler, s \in Session : s \in targets[r] /\ s \notin raced =>
    life[s] \notin Early /\ (recon[r] = "remove" => s \notin tracked)

Memory == RemovedFirst /\ RunningIsAccountedFor
Offers == NotYetOffered /\ UpIsUp /\ TargetsAreOld /\ LiveUnlessRaced

IInv == TypeOK /\ Unregistered /\ StoppedIsBeingDestroyed /\ Memory /\ Offers

-----------------------------------------------------------------------------
(* One lemma for each group of conjuncts, one step for each action.         *)

\* Every step keeps the types, and whoever registers a session has seen to it
\* that the cleanup thread runs.
LEMMA TypeStep == TypeOK /\ [Next]_vars => TypeOK'
<1>1. SUFFICES ASSUME TypeOK, [Next]_vars PROVE TypeOK'
  OBVIOUS
<1> USE DEF TypeOK, Destroyer, Reconciler
<1>2. ASSUME NEW s \in Session, Create(s) PROVE TypeOK'
  BY <1>1, <1>2 DEF Create, table, thread, ghosts
<1>3. ASSUME NEW s \in Session, ContainerUp(s) PROVE TypeOK'
  BY <1>1, <1>3 DEF ContainerUp, table, thread, ghosts
<1>4. ASSUME NEW s \in Session, InstallFails(s) PROVE TypeOK'
  BY <1>1, <1>4 DEF InstallFails, table, thread, ghosts
<1>5. ASSUME NEW s \in Session, Register(s) PROVE TypeOK'
  BY <1>1, <1>5 DEF Register, Ensured, table, thread, ghosts
<1>6. ASSUME NEW d \in Destroyer, NEW s \in Session, RemoveContainer(d, s) PROVE TypeOK'
  BY <1>1, <1>6 DEF RemoveContainer, table, thread, ghosts
<1>7. ASSUME NEW d \in Destroyer, NEW s \in Session, RemovalFails(d, s) PROVE TypeOK'
  BY <1>1, <1>7, SandboxAssumption DEF RemovalFails, AfterRefusal, Fault, table, thread, ghosts
<1>8. ASSUME NEW d \in Destroyer, NEW s \in Session, Forget(d, s) PROVE TypeOK'
  BY <1>1, <1>8 DEF Forget, table, thread, ghosts
<1>9. ASSUME NEW s \in Session, Connected(s) PROVE TypeOK'
  BY <1>1, <1>9 DEF Connected, table, thread, ghosts
<1>10. ASSUME NEW s \in Session, Disconnects(s) PROVE TypeOK'
  BY <1>1, <1>10 DEF Disconnects, Mark, AfterMark, table, thread, ghosts
<1>11. ASSUME NEW s \in Session, ConnectRaises(s) PROVE TypeOK'
  BY <1>1, <1>11 DEF ConnectRaises, table, thread, ghosts
<1>12. ASSUME NEW s \in Session, UserDisconnects(s) PROVE TypeOK'
  BY <1>1, <1>12 DEF UserDisconnects, Mark, AfterMark, table, thread, ghosts
<1>13. ASSUME NEW s \in Session, LookupExpired(s) PROVE TypeOK'
  BY <1>1, <1>13 DEF LookupExpired, table, thread, ghosts
<1>14. ASSUME NEW s \in Session, Expire(s) PROVE TypeOK'
  BY <1>1, <1>14 DEF Expire, table, thread, ghosts
<1>15. ASSUME NEW r \in Reconciler, ReconcileList(r) PROVE TypeOK'
  BY <1>1, <1>15 DEF ReconcileList, table, thread, ghosts
<1>16. ASSUME NEW r \in Reconciler, ListFails(r) PROVE TypeOK'
  BY <1>1, <1>16, SandboxAssumption DEF ListFails, Fault, table, thread, ghosts
<1>17. ASSUME NEW r \in Reconciler, ReconcileCompare(r) PROVE TypeOK'
  BY <1>1, <1>17 DEF ReconcileCompare, Untracked, table, thread, ghosts
<1>18. ASSUME NEW r \in Reconciler, NEW s \in Session, ReconcileRemove(r, s) PROVE TypeOK'
  BY <1>1, <1>18, SandboxAssumption DEF ReconcileRemove, Fault, table, thread, ghosts
<1>19. ASSUME NEW r \in Reconciler, ReconcileDone(r) PROVE TypeOK'
  BY <1>1, <1>19 DEF ReconcileDone, table, thread, ghosts
<1>20. CASE CleanupStart
  BY <1>1, <1>20 DEF CleanupStart, Overdue, table, thread, ghosts
<1>21. ASSUME NEW s \in Session, Reap(s) PROVE TypeOK'
  BY <1>1, <1>21 DEF Reap, Mark, AfterMark, table, thread, ghosts
<1>22. CASE Restart
  BY <1>1, <1>22, SandboxAssumption DEF Restart, Fault, Fresh, table, thread, ghosts
<1>23. CASE UNCHANGED vars
  BY <1>1, <1>23 DEF vars, table, thread, ghosts
<1>24. QED
  BY <1>1, <1>2, <1>3, <1>4, <1>5, <1>6, <1>7, <1>8, <1>9, <1>10, <1>11, <1>12, <1>13,
     <1>14, <1>15, <1>16, <1>17, <1>18, <1>19, <1>20, <1>21, <1>22, <1>23
     DEF Next, Cleanup, Handlers, Reconcile, DestroyStep, Destroyer, Reconciler

\* A session is in the table only after its container was started, and nobody
\* destroys it before.
LEMMA UnregisteredStep == TypeOK /\ Unregistered /\ [Next]_vars => Unregistered'
<1>1. SUFFICES ASSUME TypeOK, Unregistered, [Next]_vars PROVE Unregistered'
  OBVIOUS
<1> USE DEF TypeOK, Destroyer, Reconciler, Early, Unregistered
<1>2. ASSUME NEW s \in Session, Create(s) PROVE Unregistered'
  BY <1>1, <1>2 DEF Create, table, thread, ghosts
<1>3. ASSUME NEW s \in Session, ContainerUp(s) PROVE Unregistered'
  BY <1>1, <1>3 DEF ContainerUp, table, thread, ghosts
<1>4. ASSUME NEW s \in Session, InstallFails(s) PROVE Unregistered'
  BY <1>1, <1>4 DEF InstallFails, table, thread, ghosts
<1>5. ASSUME NEW s \in Session, Register(s) PROVE Unregistered'
  BY <1>1, <1>5 DEF Register, Ensured, table, thread, ghosts
<1>6. ASSUME NEW d \in Destroyer, NEW s \in Session, RemoveContainer(d, s) PROVE Unregistered'
  BY <1>1, <1>6 DEF RemoveContainer, table, thread, ghosts
<1>7. ASSUME NEW d \in Destroyer, NEW s \in Session, RemovalFails(d, s) PROVE Unregistered'
  BY <1>1, <1>7 DEF RemovalFails, AfterRefusal, Fault, table, thread, ghosts
<1>8. ASSUME NEW d \in Destroyer, NEW s \in Session, Forget(d, s) PROVE Unregistered'
  BY <1>1, <1>8 DEF Forget, table, thread, ghosts
<1>9. ASSUME NEW s \in Session, Connected(s) PROVE Unregistered'
  BY <1>1, <1>9 DEF Connected, table, thread, ghosts
<1>10. ASSUME NEW s \in Session, Disconnects(s) PROVE Unregistered'
  BY <1>1, <1>10 DEF Disconnects, Mark, AfterMark, table, thread, ghosts
<1>11. ASSUME NEW s \in Session, ConnectRaises(s) PROVE Unregistered'
  BY <1>1, <1>11 DEF ConnectRaises, table, thread, ghosts
<1>12. ASSUME NEW s \in Session, UserDisconnects(s) PROVE Unregistered'
  BY <1>1, <1>12 DEF UserDisconnects, Mark, AfterMark, table, thread, ghosts
<1>13. ASSUME NEW s \in Session, LookupExpired(s) PROVE Unregistered'
  BY <1>1, <1>13 DEF LookupExpired, table, thread, ghosts
<1>14. ASSUME NEW s \in Session, Expire(s) PROVE Unregistered'
  BY <1>1, <1>14 DEF Expire, table, thread, ghosts
<1>15. ASSUME NEW r \in Reconciler, ReconcileList(r) PROVE Unregistered'
  BY <1>1, <1>15 DEF ReconcileList, table, thread, ghosts
<1>16. ASSUME NEW r \in Reconciler, ListFails(r) PROVE Unregistered'
  BY <1>1, <1>16 DEF ListFails, Fault, table, thread, ghosts
<1>17. ASSUME NEW r \in Reconciler, ReconcileCompare(r) PROVE Unregistered'
  BY <1>1, <1>17 DEF ReconcileCompare, Untracked, table, thread, ghosts
<1>18. ASSUME NEW r \in Reconciler, NEW s \in Session, ReconcileRemove(r, s) PROVE Unregistered'
  BY <1>1, <1>18 DEF ReconcileRemove, Fault, table, thread, ghosts
<1>19. ASSUME NEW r \in Reconciler, ReconcileDone(r) PROVE Unregistered'
  BY <1>1, <1>19 DEF ReconcileDone, table, thread, ghosts
<1>20. CASE CleanupStart
  BY <1>1, <1>20 DEF CleanupStart, Overdue, table, thread, ghosts
<1>21. ASSUME NEW s \in Session, Reap(s) PROVE Unregistered'
  BY <1>1, <1>21 DEF Reap, Mark, AfterMark, table, thread, ghosts
<1>22. CASE Restart
  BY <1>1, <1>22 DEF Restart, Fault, Fresh, table, thread, ghosts
<1>23. CASE UNCHANGED vars
  BY <1>1, <1>23 DEF vars, table, thread, ghosts
<1>24. QED
  BY <1>1, <1>2, <1>3, <1>4, <1>5, <1>6, <1>7, <1>8, <1>9, <1>10, <1>11, <1>12, <1>13,
     <1>14, <1>15, <1>16, <1>17, <1>18, <1>19, <1>20, <1>21, <1>22, <1>23
     DEF Next, Cleanup, Handlers, Reconcile, DestroyStep, Destroyer, Reconciler

\* Whoever stops a session destroys it; a refusal of Docker does not end that.
LEMMA StoppedStep == TypeOK /\ StoppedIsBeingDestroyed /\ [Next]_vars => StoppedIsBeingDestroyed'
<1>1. SUFFICES ASSUME TypeOK, StoppedIsBeingDestroyed, [Next]_vars PROVE StoppedIsBeingDestroyed'
  OBVIOUS
<1> USE DEF TypeOK, Destroyer, Reconciler, StoppedIsBeingDestroyed, Destroyed
<1>2. ASSUME NEW s \in Session, Create(s) PROVE StoppedIsBeingDestroyed'
  BY <1>1, <1>2 DEF Create, table, thread, ghosts
<1>3. ASSUME NEW s \in Session, ContainerUp(s) PROVE StoppedIsBeingDestroyed'
  BY <1>1, <1>3 DEF ContainerUp, table, thread, ghosts
<1>4. ASSUME NEW s \in Session, InstallFails(s) PROVE StoppedIsBeingDestroyed'
  BY <1>1, <1>4 DEF InstallFails, table, thread, ghosts
<1>5. ASSUME NEW s \in Session, Register(s) PROVE StoppedIsBeingDestroyed'
  BY <1>1, <1>5 DEF Register, Ensured, table, thread, ghosts
<1>6. ASSUME NEW d \in Destroyer, NEW s \in Session, RemoveContainer(d, s) PROVE StoppedIsBeingDestroyed'
  BY <1>1, <1>6 DEF RemoveContainer, table, thread, ghosts
<1>7. ASSUME NEW d \in Destroyer, NEW s \in Session, RemovalFails(d, s) PROVE StoppedIsBeingDestroyed'
  BY <1>1, <1>7 DEF RemovalFails, AfterRefusal, Fault, table, thread, ghosts
<1>8. ASSUME NEW d \in Destroyer, NEW s \in Session, Forget(d, s) PROVE StoppedIsBeingDestroyed'
  BY <1>1, <1>8 DEF Forget, table, thread, ghosts
<1>9. ASSUME NEW s \in Session, Connected(s) PROVE StoppedIsBeingDestroyed'
  BY <1>1, <1>9 DEF Connected, table, thread, ghosts
<1>10. ASSUME NEW s \in Session, Disconnects(s) PROVE StoppedIsBeingDestroyed'
  BY <1>1, <1>10 DEF Disconnects, Mark, AfterMark, table, thread, ghosts
<1>11. ASSUME NEW s \in Session, ConnectRaises(s) PROVE StoppedIsBeingDestroyed'
  BY <1>1, <1>11 DEF ConnectRaises, table, thread, ghosts
<1>12. ASSUME NEW s \in Session, UserDisconnects(s) PROVE StoppedIsBeingDestroyed'
  BY <1>1, <1>12 DEF UserDisconnects, Mark, AfterMark, table, thread, ghosts
<1>13. ASSUME NEW s \in Session, LookupExpired(s) PROVE StoppedIsBeingDestroyed'
  BY <1>1, <1>13 DEF LookupExpired, table, thread, ghosts
<1>14. ASSUME NEW s \in Session, Expire(s) PROVE StoppedIsBeingDestroyed'
  BY <1>1, <1>14 DEF Expire, table, thread, ghosts
<1>15. ASSUME NEW r \in Reconciler, ReconcileList(r) PROVE StoppedIsBeingDestroyed'
  BY <1>1, <1>15 DEF ReconcileList, table, thread, ghosts
<1>16. ASSUME NEW r \in Reconciler, ListFails(r) PROVE StoppedIsBeingDestroyed'
  BY <1>1, <1>16 DEF ListFails, Fault, table, thread, ghosts
<1>17. ASSUME NEW r \in Reconciler, ReconcileCompare(r) PROVE StoppedIsBeingDestroyed'
  BY <1>1, <1>17 DEF ReconcileCompare, Untracked, table, thread, ghosts
<1>18. ASSUME NEW r \in Reconciler, NEW s \in Session, ReconcileRemove(r, s) PROVE StoppedIsBeingDestroyed'
  BY <1>1, <1>18 DEF ReconcileRemove, Fault, table, thread, ghosts
<1>19. ASSUME NEW r \in Reconciler, ReconcileDone(r) PROVE StoppedIsBeingDestroyed'
  BY <1>1, <1>19 DEF ReconcileDone, table, thread, ghosts
<1>20. CASE CleanupStart
  BY <1>1, <1>20 DEF CleanupStart, Overdue, table, thread, ghosts
<1>21. ASSUME NEW s \in Session, Reap(s) PROVE StoppedIsBeingDestroyed'
  BY <1>1, <1>21 DEF Reap, Mark, AfterMark, table, thread, ghosts
<1>22. CASE Restart
  BY <1>1, <1>22 DEF Restart, Fault, Fresh, table, thread, ghosts
<1>23. CASE UNCHANGED vars
  BY <1>1, <1>23 DEF vars, table, thread, ghosts
<1>24. QED
  BY <1>1, <1>2, <1>3, <1>4, <1>5, <1>6, <1>7, <1>8, <1>9, <1>10, <1>11, <1>12, <1>13,
     <1>14, <1>15, <1>16, <1>17, <1>18, <1>19, <1>20, <1>21, <1>22, <1>23
     DEF Next, Cleanup, Handlers, Reconcile, DestroyStep, Destroyer, Reconciler

\* A record is forgotten only after its container was removed or refused.
LEMMA AccountedStep == TypeOK /\ Unregistered /\ Memory /\ [Next]_vars => Memory'
<1>1. SUFFICES ASSUME TypeOK, Unregistered, Memory, [Next]_vars PROVE Memory'
  OBVIOUS
<1> USE DEF TypeOK, Destroyer, Reconciler, Early, Unregistered, RemovedFirst,
        RunningIsAccountedFor, Memory
<1>2. ASSUME NEW s \in Session, Create(s) PROVE Memory'
  BY <1>1, <1>2 DEF Create, table, thread, ghosts
<1>3. ASSUME NEW s \in Session, ContainerUp(s) PROVE Memory'
  BY <1>1, <1>3 DEF ContainerUp, table, thread, ghosts
<1>4. ASSUME NEW s \in Session, InstallFails(s) PROVE Memory'
  BY <1>1, <1>4 DEF InstallFails, table, thread, ghosts
<1>5. ASSUME NEW s \in Session, Register(s) PROVE Memory'
  BY <1>1, <1>5 DEF Register, Ensured, table, thread, ghosts
<1>6. ASSUME NEW d \in Destroyer, NEW s \in Session, RemoveContainer(d, s) PROVE Memory'
  BY <1>1, <1>6 DEF RemoveContainer, table, thread, ghosts
<1>7. ASSUME NEW d \in Destroyer, NEW s \in Session, RemovalFails(d, s) PROVE Memory'
  BY <1>1, <1>7 DEF RemovalFails, AfterRefusal, Fault, table, thread, ghosts
<1>8. ASSUME NEW d \in Destroyer, NEW s \in Session, Forget(d, s) PROVE Memory'
  BY <1>1, <1>8 DEF Forget, table, thread, ghosts
<1>9. ASSUME NEW s \in Session, Connected(s) PROVE Memory'
  BY <1>1, <1>9 DEF Connected, table, thread, ghosts
<1>10. ASSUME NEW s \in Session, Disconnects(s) PROVE Memory'
  BY <1>1, <1>10 DEF Disconnects, Mark, AfterMark, table, thread, ghosts
<1>11. ASSUME NEW s \in Session, ConnectRaises(s) PROVE Memory'
  BY <1>1, <1>11 DEF ConnectRaises, table, thread, ghosts
<1>12. ASSUME NEW s \in Session, UserDisconnects(s) PROVE Memory'
  BY <1>1, <1>12 DEF UserDisconnects, Mark, AfterMark, table, thread, ghosts
<1>13. ASSUME NEW s \in Session, LookupExpired(s) PROVE Memory'
  BY <1>1, <1>13 DEF LookupExpired, table, thread, ghosts
<1>14. ASSUME NEW s \in Session, Expire(s) PROVE Memory'
  BY <1>1, <1>14 DEF Expire, table, thread, ghosts
<1>15. ASSUME NEW r \in Reconciler, ReconcileList(r) PROVE Memory'
  BY <1>1, <1>15 DEF ReconcileList, table, thread, ghosts
<1>16. ASSUME NEW r \in Reconciler, ListFails(r) PROVE Memory'
  BY <1>1, <1>16 DEF ListFails, Fault, table, thread, ghosts
<1>17. ASSUME NEW r \in Reconciler, ReconcileCompare(r) PROVE Memory'
  BY <1>1, <1>17 DEF ReconcileCompare, Untracked, table, thread, ghosts
<1>18. ASSUME NEW r \in Reconciler, NEW s \in Session, ReconcileRemove(r, s) PROVE Memory'
  BY <1>1, <1>18 DEF ReconcileRemove, Fault, table, thread, ghosts
<1>19. ASSUME NEW r \in Reconciler, ReconcileDone(r) PROVE Memory'
  BY <1>1, <1>19 DEF ReconcileDone, table, thread, ghosts
<1>20. CASE CleanupStart
  BY <1>1, <1>20 DEF CleanupStart, Overdue, table, thread, ghosts
<1>21. ASSUME NEW s \in Session, Reap(s) PROVE Memory'
  BY <1>1, <1>21 DEF Reap, Mark, AfterMark, table, thread, ghosts
<1>22. CASE Restart
  BY <1>1, <1>22 DEF Restart, Fault, Fresh, table, thread, ghosts
<1>23. CASE UNCHANGED vars
  BY <1>1, <1>23 DEF vars, table, thread, ghosts
<1>24. QED
  BY <1>1, <1>2, <1>3, <1>4, <1>5, <1>6, <1>7, <1>8, <1>9, <1>10, <1>11, <1>12, <1>13,
     <1>14, <1>15, <1>16, <1>17, <1>18, <1>19, <1>20, <1>21, <1>22, <1>23
     DEF Next, Cleanup, Handlers, Reconcile, DestroyStep, Destroyer, Reconciler

\* Only a session that is being destroyed, or was caught between container and
\* table, can lose its container.
LEMMA LiveStep ==
  TypeOK /\ Unregistered /\ StoppedIsBeingDestroyed /\ Offers /\ [Next]_vars => Offers'
<1>1. SUFFICES ASSUME TypeOK, Unregistered, StoppedIsBeingDestroyed, Offers, [Next]_vars
               PROVE Offers'
  OBVIOUS
<1> USE DEF TypeOK, Destroyer, Reconciler, Early, Unregistered, StoppedIsBeingDestroyed,
        Destroyed, NotYetOffered, UpIsUp, TargetsAreOld, LiveUnlessRaced, Offers
<1>2. ASSUME NEW s \in Session, Create(s) PROVE Offers'
  BY <1>1, <1>2 DEF Create, table, thread, ghosts
<1>3. ASSUME NEW s \in Session, ContainerUp(s) PROVE Offers'
  BY <1>1, <1>3 DEF ContainerUp, table, thread, ghosts
<1>4. ASSUME NEW s \in Session, InstallFails(s) PROVE Offers'
  BY <1>1, <1>4 DEF InstallFails, table, thread, ghosts
<1>5. ASSUME NEW s \in Session, Register(s) PROVE Offers'
  BY <1>1, <1>5 DEF Register, Ensured, table, thread, ghosts
<1>6. ASSUME NEW d \in Destroyer, NEW s \in Session, RemoveContainer(d, s) PROVE Offers'
  BY <1>1, <1>6 DEF RemoveContainer, table, thread, ghosts
<1>7. ASSUME NEW d \in Destroyer, NEW s \in Session, RemovalFails(d, s) PROVE Offers'
  BY <1>1, <1>7 DEF RemovalFails, AfterRefusal, Fault, table, thread, ghosts
<1>8. ASSUME NEW d \in Destroyer, NEW s \in Session, Forget(d, s) PROVE Offers'
  BY <1>1, <1>8 DEF Forget, table, thread, ghosts
<1>9. ASSUME NEW s \in Session, Connected(s) PROVE Offers'
  BY <1>1, <1>9 DEF Connected, table, thread, ghosts
<1>10. ASSUME NEW s \in Session, Disconnects(s) PROVE Offers'
  BY <1>1, <1>10 DEF Disconnects, Mark, AfterMark, table, thread, ghosts
<1>11. ASSUME NEW s \in Session, ConnectRaises(s) PROVE Offers'
  BY <1>1, <1>11 DEF ConnectRaises, table, thread, ghosts
<1>12. ASSUME NEW s \in Session, UserDisconnects(s) PROVE Offers'
  BY <1>1, <1>12 DEF UserDisconnects, Mark, AfterMark, table, thread, ghosts
<1>13. ASSUME NEW s \in Session, LookupExpired(s) PROVE Offers'
  BY <1>1, <1>13 DEF LookupExpired, table, thread, ghosts
<1>14. ASSUME NEW s \in Session, Expire(s) PROVE Offers'
  BY <1>1, <1>14 DEF Expire, table, thread, ghosts
<1>15. ASSUME NEW r \in Reconciler, ReconcileList(r) PROVE Offers'
  BY <1>1, <1>15 DEF ReconcileList, table, thread, ghosts
<1>16. ASSUME NEW r \in Reconciler, ListFails(r) PROVE Offers'
  BY <1>1, <1>16 DEF ListFails, Fault, table, thread, ghosts
<1>17. ASSUME NEW r \in Reconciler, ReconcileCompare(r) PROVE Offers'
  BY <1>1, <1>17 DEF ReconcileCompare, Untracked, table, thread, ghosts
<1>18. ASSUME NEW r \in Reconciler, NEW s \in Session, ReconcileRemove(r, s) PROVE Offers'
  BY <1>1, <1>18 DEF ReconcileRemove, Fault, table, thread, ghosts
<1>19. ASSUME NEW r \in Reconciler, ReconcileDone(r) PROVE Offers'
  BY <1>1, <1>19 DEF ReconcileDone, table, thread, ghosts
<1>20. CASE CleanupStart
  BY <1>1, <1>20 DEF CleanupStart, Overdue, table, thread, ghosts
<1>21. ASSUME NEW s \in Session, Reap(s) PROVE Offers'
  BY <1>1, <1>21 DEF Reap, Mark, AfterMark, table, thread, ghosts
<1>22. CASE Restart
  BY <1>1, <1>22 DEF Restart, Fault, Fresh, table, thread, ghosts
<1>23. CASE UNCHANGED vars
  BY <1>1, <1>23 DEF vars, table, thread, ghosts
<1>24. QED
  BY <1>1, <1>2, <1>3, <1>4, <1>5, <1>6, <1>7, <1>8, <1>9, <1>10, <1>11, <1>12, <1>13,
     <1>14, <1>15, <1>16, <1>17, <1>18, <1>19, <1>20, <1>21, <1>22, <1>23
     DEF Next, Cleanup, Handlers, Reconcile, DestroyStep, Destroyer, Reconciler

-----------------------------------------------------------------------------
(* The theorems.                                                            *)

LEMMA Initially == Init => IInv
BY SandboxAssumption
   DEF Init, IInv, Memory, Offers, TypeOK, Unregistered, StoppedIsBeingDestroyed, RemovedFirst,
       RunningIsAccountedFor, NotYetOffered, UpIsUp, TargetsAreOld, LiveUnlessRaced,
       Fresh, Early, Destroyer, Reconciler

\* The inductive invariant.
THEOREM Invariance == Spec => []IInv
<1>1. IInv /\ [Next]_vars => IInv'
  BY TypeStep, UnregisteredStep, StoppedStep, AccountedStep, LiveStep DEF IInv
<1>2. QED
  BY Initially, <1>1, PTL DEF Spec

\* The session table, the containers and everything in flight keep to their
\* types, and the cleanup thread runs whenever the table is not empty
\* (_register_session).
THEOREM TypeCorrect == Spec => []TypeOK
<1>1. IInv => TypeOK
  BY DEF IInv
<1>2. QED
  BY Invariance, <1>1, PTL

\* destroy_container never leaves behind a stopped session that
\* cleanup_expired would skip.
THEOREM StoppedAreDestroyed == Spec => []StoppedIsBeingDestroyed
<1>1. IInv => StoppedIsBeingDestroyed
  BY DEF IInv
<1>2. QED
  BY Invariance, <1>1, PTL

\* The only containers that outlive their sessions are those Docker refused to
\* remove and those whose installation failed.
THEOREM ContainersAreAccountedFor == Spec => []RunningIsAccountedFor
<1>1. IInv => RunningIsAccountedFor
  BY DEF IInv, Memory
<1>2. QED
  BY Invariance, <1>1, PTL

\* A session offered to its user has its container, unless a reconciliation
\* listed the containers before the session was in the table.
THEOREM OfferedSessionsLive == Spec => []LiveUnlessRaced
<1>1. IInv => LiveUnlessRaced
  BY DEF IInv, Offers
<1>2. QED
  BY Invariance, <1>1, PTL

-----------------------------------------------------------------------------
(* What becomes of a session that a look-up marked as expired.              *)

\* A session in the table past its deadline and marked so, its container up,
\* with nobody about to remove it.
Leaked(s) ==
  /\ life[s] = "open" /\ s \in tracked \cap expired /\ status[s] = "expired"
  /\ container[s] = "running" /\ ~Destroyed(s) /\ s \notin batch
  /\ \A r \in Reconciler : recon[r] = "remove" => s \notin targets[r]

\* No step of the process takes a leaked session out of that state: the reaper
\* skips what is marked, a reconciliation what is in the table, and disconnect
\* what is past its deadline.
LEMMA LeakStep ==
  ASSUME TypeOK, [Next]_vars, ~Restart, NEW x \in Session, Leaked(x)
  PROVE  Leaked(x)'
<1> USE DEF TypeOK, Destroyer, Reconciler, Leaked, Destroyed
<1>1. ASSUME NEW s \in Session, Create(s) PROVE Leaked(x)'
  BY <1>1 DEF Create, table, thread, ghosts
<1>2. ASSUME NEW s \in Session, ContainerUp(s) PROVE Leaked(x)'
  BY <1>2 DEF ContainerUp, table, thread, ghosts
<1>3. ASSUME NEW s \in Session, InstallFails(s) PROVE Leaked(x)'
  BY <1>3 DEF InstallFails, table, thread, ghosts
<1>4. ASSUME NEW s \in Session, Register(s) PROVE Leaked(x)'
  BY <1>4 DEF Register, Ensured, table, thread, ghosts
<1>5. ASSUME NEW d \in Destroyer, NEW s \in Session, RemoveContainer(d, s) PROVE Leaked(x)'
  BY <1>5 DEF RemoveContainer, table, thread, ghosts
<1>6. ASSUME NEW d \in Destroyer, NEW s \in Session, RemovalFails(d, s) PROVE Leaked(x)'
  BY <1>6 DEF RemovalFails, AfterRefusal, Fault, table, thread, ghosts
<1>7. ASSUME NEW d \in Destroyer, NEW s \in Session, Forget(d, s) PROVE Leaked(x)'
  BY <1>7 DEF Forget, table, thread, ghosts
<1>8. ASSUME NEW s \in Session, Connected(s) PROVE Leaked(x)'
  BY <1>8 DEF Connected, table, thread, ghosts
<1>9. ASSUME NEW s \in Session, Disconnects(s) PROVE Leaked(x)'
  BY <1>9 DEF Disconnects, Mark, AfterMark, table, thread, ghosts
<1>10. ASSUME NEW s \in Session, ConnectRaises(s) PROVE Leaked(x)'
  BY <1>10 DEF ConnectRaises, table, thread, ghosts
<1>11. ASSUME NEW s \in Session, UserDisconnects(s) PROVE Leaked(x)'
  BY <1>11 DEF UserDisconnects, Mark, AfterMark, table, thread, ghosts
<1>12. ASSUME NEW s \in Session, LookupExpired(s) PROVE Leaked(x)'
  BY <1>12 DEF LookupExpired, table, thread, ghosts
<1>13. ASSUME NEW s \in Session, Expire(s) PROVE Leaked(x)'
  BY <1>13 DEF Expire, table, thread, ghosts
<1>14. ASSUME NEW r \in Reconciler, ReconcileList(r) PROVE Leaked(x)'
  BY <1>14 DEF ReconcileList, table, thread, ghosts
<1>15. ASSUME NEW r \in Reconciler, ListFails(r) PROVE Leaked(x)'
  BY <1>15 DEF ListFails, Fault, table, thread, ghosts
<1>16. ASSUME NEW r \in Reconciler, ReconcileCompare(r) PROVE Leaked(x)'
  BY <1>16 DEF ReconcileCompare, Untracked, table, thread, ghosts
<1>17. ASSUME NEW r \in Reconciler, NEW s \in Session, ReconcileRemove(r, s) PROVE Leaked(x)'
  BY <1>17 DEF ReconcileRemove, Fault, table, thread, ghosts
<1>18. ASSUME NEW r \in Reconciler, ReconcileDone(r) PROVE Leaked(x)'
  BY <1>18 DEF ReconcileDone, table, thread, ghosts
<1>19. CASE CleanupStart
  BY <1>19 DEF CleanupStart, Overdue, table, thread, ghosts
<1>20. ASSUME NEW s \in Session, Reap(s) PROVE Leaked(x)'
  BY <1>20 DEF Reap, Mark, AfterMark, table, thread, ghosts
<1>21. CASE UNCHANGED vars
  BY <1>21 DEF vars, table, thread, ghosts
<1>22. QED
  BY <1>1, <1>2, <1>3, <1>4, <1>5, <1>6, <1>7, <1>8, <1>9, <1>10,
     <1>11, <1>12, <1>13, <1>14, <1>15, <1>16, <1>17, <1>18, <1>19, <1>20, <1>21
     DEF Next, Cleanup, Handlers, Reconcile, DestroyStep, Destroyer, Reconciler

\* get_session marks an expired session and leaves it to a clean-up that skips
\* what is marked: as long as the process lives such a session keeps its place
\* in the table and its container keeps running, whatever its user, the
\* cleanup thread and the reconciliations do.  Only a restart ends it.  This is
\* the refutation of MarkedIsCleanedUp for every instance.
THEOREM LeakedForGood ==
  Spec => [][\A s \in Session : Leaked(s) => Leaked(s)' \/ Restart]_vars
<1>1. TypeOK /\ [Next]_vars => [\A s \in Session : Leaked(s) => Leaked(s)' \/ Restart]_vars
  BY LeakStep
<1>2. QED
  BY <1>1, TypeCorrect, PTL DEF Spec
=============================================================================
