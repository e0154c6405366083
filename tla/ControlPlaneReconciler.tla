------------------------ MODULE ControlPlaneReconciler ------------------------
(***************************************************************************)
(* One ControlPlane and the reconciler of controllers/controlplane_        *)
(* controller.go, together with the parts of the cluster it reads and      *)
(* writes: the ControlPlane object itself, the five families of children   *)
(* it owns, the referenced DataPlane, and the manager's informer caches.   *)
(*                                                                         *)
(* A reconciliation pass reads through the manager client, which serves    *)
(* Get and List from informer caches (internal/manager/run.go hands        *)
(* mgr.GetClient() to the reconciler).  A cache of one kind is a snapshot  *)
(* of the store taken at some earlier moment and only moves forward; the   *)
(* caches of different kinds lag independently.  With StaleReads = FALSE   *)
(* every cache is refreshed in the step that writes the store.             *)
(*                                                                         *)
(* A pass is one atomic step.  Each branch of Reconcile that returns at a  *)
(* different point is an action of its own.  A write that fails (conflict  *)
(* on a stale resourceVersion, NotFound on a removed object) changes       *)
(* nothing and the pass returns: that step is a stutter and is not written *)
(* out.  Passes may run at any time: events are delivered at least once    *)
(* and may be redundant, and the manager resyncs every object periodically.*)
(***************************************************************************)
EXTENDS Naturals, FiniteSets, Conditions, Metadata

CONSTANTS
    StaleReads,   \* TRUE: reads go through caches that may lag the store
    MaxCreates,   \* bound on the objects of one family ever created
    MaxEdits      \* bound on user edits of spec.dataPlane

ASSUME StaleReads \in BOOLEAN
ASSUME MaxCreates \in Nat \ {0}
ASSUME MaxEdits \in Nat

\* Mutant: bindings ensured before the roles they reference.
EnsureOrderBindingsFirst == <<"ServiceAccount", "ClusterRoleBinding",
                              "ClusterRole", "Certificate", "Deployment">>

\* The children a ControlPlane owns, in the order a pass ensures them.
EnsureOrder == <<"ServiceAccount", "ClusterRole", "ClusterRoleBinding",
                 "Certificate", "Deployment">>
Families == {EnsureOrder[i] : i \in 1..5}

\* Cluster-wide children cannot carry an owner reference to a namespaced
\* ControlPlane; each family is guarded by a finalizer token instead.
ClusterScoped == {"ClusterRole", "ClusterRoleBinding"}
FinalizerOf == [ClusterRole        |-> "cleanup-clusterrole",
                ClusterRoleBinding |-> "cleanup-clusterrolebinding"]
CPFinalizers == {FinalizerOf[f] : f \in ClusterScoped}

Ids == 1..MaxCreates

\* Env entries the reconciler manages: "base" stands for POD_NAMESPACE,
\* POD_NAME, CONTROLLER_GATEWAY_API_CONTROLLER_NAME and the TLS file paths;
\* "publish" for CONTROLLER_PUBLISH_SERVICE naming the DataPlane's service.
EnvEntries == {"base", "publish"}

ControlPlaneRec ==
    [exists: BOOLEAN, deletion: {"None", "Grace", "Due"},
     finalizers: SUBSET CPFinalizers, conds: ConditionsType,
     env: SUBSET EnvEntries, dataplane: BOOLEAN]

VARIABLES
    cp,          \* the ControlPlane in the object store
    cpView,      \* the ControlPlane as the cache shows it
    objs,        \* objs[f]: ids of the live children of family f in the store
    view,        \* view[f]: ids of family f the cache lists
    created,     \* created[f]: children of f ever created; ids are 1..created[f]
    dormant,     \* Deployments scaled to zero replicas
    available,   \* Deployments whose replicas are all available
    dpService,   \* the DataPlane spec.dataPlane names exists with its proxy Service
    edits,       \* user edits of spec.dataPlane so far
    queued       \* the ControlPlane's key is in the controller's work queue

pass == <<cp, cpView, objs, view, created, dormant, available, dpService, edits>>
vars == <<pass, queued>>

(***************************************************************************)
(* Store writes and cache refresh                                          *)
(***************************************************************************)

\* Mutant: child lists served from a cache the pass's own writes do not
\* refresh.
CachesStaleChildren ==
    IF StaleReads THEN UNCHANGED <<cpView, view>>
                  ELSE /\ cpView' = cp'
                       /\ UNCHANGED view

\* Without stale reads the caches show the store as soon as it is written.
Caches ==
    IF StaleReads THEN UNCHANGED <<cpView, view>>
                  ELSE /\ cpView' = cp'
                       /\ view' = objs'

\* The objects whose events reach this ControlPlane's key (SetupWithManager,
\* lines 43-85): the ControlPlane itself, the ServiceAccount, Secret and
\* Deployment it owns, and the ClusterRoles and ClusterRoleBindings mapped
\* back by owner.  An event is delivered when the informer sees a change.
\* DataPlane events are mapped through a controller owner reference that
\* the ControlPlane never gets (line 193 sets a plain one, on a copy that
\* is not written), and Services are not watched: dpService is not here.
\* The deletionTimestamp is set once: "Due" records only that the clock has
\* passed it, which no informer reports.
Watched ==
    << [cpView EXCEPT !.deletion = IF @ = "None" THEN "None" ELSE "Grace"],
       view, dormant, available >>

\* After a step the key is queued if it was requeued (an error or an
\* explicit Requeue) or a watched object changed.
Enqueue(requeue) == queued' = (requeue \/ Watched' # Watched)

\* Update and Status().Update carry the resourceVersion of the cached object
\* and succeed only if the store has not moved since.  Every field of the
\* object is modelled, so equal content is what a current version shows.
UpToDate == cp.exists /\ cpView = cp

\* The merge Patch of the finalizers carries no resourceVersion; it replaces
\* the list.  An object being deleted is removed once its list is empty.
PatchFinalizers(fins) ==
    /\ cp.exists
    /\ cp' = IF fins = {} /\ cp.deletion # "None"
                THEN [cp EXCEPT !.exists = FALSE, !.finalizers = {}]
                ELSE [cp EXCEPT !.finalizers = fins]

(***************************************************************************)
(* Deletion: lines 100-159.  A pass during the grace period only requeues  *)
(* at its end (lines 103-113); it writes nothing, so it is a stutter.      *)
(***************************************************************************)

\* The cached object carries the deletionTimestamp; whether it is past is a
\* matter of the clock, which the store's "Due" records.  A removed object
\* had its grace period over.
GraceOver == cp.deletion = "Due" \/ ~cp.exists

CleanupDue == cpView.exists /\ cpView.deletion # "None" /\ GraceOver

\* ensureOwnedClusterRoleBindingsDeleted / ensureOwnedClusterRolesDeleted:
\* delete every listed child; the pass returns after deleting.
DeleteListed(f) ==
    /\ view[f] # {}
    /\ objs' = [objs EXCEPT ![f] = @ \ view[f]]

ReconcileDeleteBindings ==
    /\ CleanupDue
    /\ DeleteListed("ClusterRoleBinding")
    /\ UNCHANGED <<cp, created, dormant, available, dpService, edits>>
    /\ Caches

\* Mutant: the binding token removed without checking the listed bindings.
ReconcileRemoveBindingsFinalizerUnchecked ==
    /\ CleanupDue
    /\ FinalizerRemoved(cpView.finalizers, FinalizerOf.ClusterRoleBinding)
    /\ PatchFinalizers(RemoveFinalizerInMetadata(cpView.finalizers,
                                                 FinalizerOf.ClusterRoleBinding))
    /\ UNCHANGED <<objs, created, dormant, available, dpService, edits>>
    /\ Caches

ReconcileRemoveBindingsFinalizer ==
    /\ CleanupDue
    /\ view["ClusterRoleBinding"] = {}
    /\ FinalizerRemoved(cpView.finalizers, FinalizerOf.ClusterRoleBinding)
    /\ PatchFinalizers(RemoveFinalizerInMetadata(cpView.finalizers,
                                                 FinalizerOf.ClusterRoleBinding))
    /\ UNCHANGED <<objs, created, dormant, available, dpService, edits>>
    /\ Caches

ReconcileDeleteRoles ==
    /\ CleanupDue
    /\ view["ClusterRoleBinding"] = {}
    /\ ~FinalizerRemoved(cpView.finalizers, FinalizerOf.ClusterRoleBinding)
    /\ DeleteListed("ClusterRole")
    /\ UNCHANGED <<cp, created, dormant, available, dpService, edits>>
    /\ Caches

\* Mutant: the roles step patches out the binding token a second time.
ReconcileRemoveRolesFinalizerWrongToken ==
    /\ CleanupDue
    /\ view["ClusterRoleBinding"] = {}
    /\ ~FinalizerRemoved(cpView.finalizers, FinalizerOf.ClusterRoleBinding)
    /\ view["ClusterRole"] = {}
    /\ FinalizerRemoved(cpView.finalizers, FinalizerOf.ClusterRole)
    /\ PatchFinalizers(RemoveFinalizerInMetadata(cpView.finalizers,
                                                 FinalizerOf.ClusterRoleBinding))
    /\ UNCHANGED <<objs, created, dormant, available, dpService, edits>>
    /\ Caches

ReconcileRemoveRolesFinalizer ==
    /\ CleanupDue
    /\ view["ClusterRoleBinding"] = {}
    /\ ~FinalizerRemoved(cpView.finalizers, FinalizerOf.ClusterRoleBinding)
    /\ view["ClusterRole"] = {}
    /\ FinalizerRemoved(cpView.finalizers, FinalizerOf.ClusterRole)
    /\ PatchFinalizers(RemoveFinalizerInMetadata(cpView.finalizers,
                                                 FinalizerOf.ClusterRole))
    /\ UNCHANGED <<objs, created, dormant, available, dpService, edits>>
    /\ Caches

(***************************************************************************)
(* Provisioning: lines 161-322                                             *)
(***************************************************************************)

Provisioning == cpView.exists /\ cpView.deletion = "None"

\* Lines 161-168: add the finalizer tokens and Update the object.
ReconcileAddFinalizers ==
    /\ Provisioning
    /\ FinalizersAdded(cpView.finalizers, CPFinalizers)
    /\ UpToDate
    /\ cp' = [cp EXCEPT !.finalizers =
                EnsureFinalizersInMetadata(cpView.finalizers, CPFinalizers)]
    /\ UNCHANGED <<objs, created, dormant, available, dpService, edits>>
    /\ Caches

Finalized == Provisioning /\ CPFinalizers \subseteq cpView.finalizers

\* updateStatus (lines 325-337): compare the conditions with the cached
\* object and write them with Status().Update only if NeedsUpdate.
\* `base' is the store as the pass left it so far, `fresh' whether the
\* pass's copy of the object carries the current resourceVersion.
WriteStatus(base, fresh, conds) ==
    IF fresh /\ NeedsUpdate(cpView.conds, conds)
        THEN [base EXCEPT !.conds = conds]
        ELSE base

\* Lines 170-182: InitReady resets Ready on the pass's copy, then
\* ensureIsMarkedScheduled sets Scheduled and the status is written.
ReconcileMarkScheduled ==
    /\ Finalized
    /\ ~IsValidCondition(cpView.conds, "Scheduled")
    /\ cp' = WriteStatus(cp, UpToDate,
                SetCondition(InitReady(cpView.conds), "Scheduled",
                             Cond("True", "Scheduled")))
    /\ cp' # cp
    /\ UNCHANGED <<objs, created, dormant, available, dpService, edits>>
    /\ Caches

\* Lines 184-201: an unset spec.dataPlane yields ErrDataPlaneNotSet and an
\* empty service name; a set one whose DataPlane or Service is missing
\* fails the pass.
DataPlaneResolved == ~cpView.dataplane \/ dpService
ServiceName == cpView.dataplane /\ dpService

\* setControlPlaneDefaults: the fixed entries, and CONTROLLER_PUBLISH_SERVICE
\* when the DataPlane's service name is known; nothing is removed.
\* Mutant: the publish-service entry added whether or not it is known.
DefaultsAlwaysPublish(env, serviceKnown) == env \cup {"base", "publish"}

Defaults(env, serviceKnown) ==
    env \cup {"base"} \cup (IF serviceKnown THEN {"publish"} ELSE {})

Scheduled == Finalized /\ IsValidCondition(cpView.conds, "Scheduled")

\* Lines 206-218: a changed spec is written with Update and the pass returns.
ReconcileSetDefaults ==
    /\ Scheduled
    /\ DataPlaneResolved
    /\ Defaults(cpView.env, ServiceName) # cpView.env
    /\ UpToDate
    /\ cp' = [cp EXCEPT !.env = Defaults(cpView.env, ServiceName)]
    /\ UNCHANGED <<objs, created, dormant, available, dpService, edits>>
    /\ Caches

\* setControlPlaneEnvOnDataPlaneChange: CONTROLLER_PUBLISH_SERVICE follows
\* whether spec.dataPlane is set.
EnvOnDataPlaneChange(env, dataplaneIsSet) ==
    IF dataplaneIsSet THEN env \cup {"publish"} ELSE env \ {"publish"}

\* Lines 220-231: ensureDataPlaneConfiguration Updates a changed env and the
\* pass goes on with the object the Update returned; a conflict returns.
EnvChanged == EnvOnDataPlaneChange(cpView.env, cpView.dataplane) # cpView.env
AfterEnv ==
    IF EnvChanged
        THEN [cp EXCEPT !.env = EnvOnDataPlaneChange(cpView.env, cpView.dataplane)]
        ELSE cp
FreshAfterEnv == EnvChanged \/ UpToDate

\* ensureDataPlaneStatus (lines 233-239): Provisioned records whether a
\* DataPlane is set, on the pass's copy only.
DataPlaneStatus(conds, dataplaneIsSet) ==
    SetCondition(conds, "Provisioned",
        IF dataplaneIsSet THEN Cond("False", "PodsNotReady")
                          ELSE Cond("False", "NoDataplane"))

PassConds == DataPlaneStatus(InitReady(cpView.conds), cpView.dataplane)

\* The ensure helpers (lines 241-297): a family with no listed child gets
\* one created; more than one listed is an error; the single Deployment
\* is updated when its scale disagrees with spec.dataPlane.
OutdatedDeployment(f) ==
    /\ f = "Deployment"
    /\ \E d \in view[f] : (d \in dormant) = cpView.dataplane

Pending(f) ==
    view[f] = {} \/ Cardinality(view[f]) > 1 \/ OutdatedDeployment(f)

FirstPending ==
    CHOOSE i \in 1..5 : /\ Pending(EnsureOrder[i])
                        /\ \A j \in 1..(i - 1) : ~Pending(EnsureOrder[j])

Converging ==
    /\ Scheduled
    /\ DataPlaneResolved
    /\ Defaults(cpView.env, ServiceName) = cpView.env
    /\ EnvChanged => UpToDate

\* Lines 241-297.  The first pending family is synchronized and the pass
\* returns: no listed child creates one, a single outdated Deployment is
\* updated, and several listed children fail the pass.  A Deployment
\* created or updated while no DataPlane is set also has the status of the
\* pass's copy written (lines 286-294).
\* The synchronizer's create: the new child gets the next id; a Deployment
\* created while no DataPlane is set has zero replicas.
CreateChild(f) ==
    /\ view[f] = {}
    /\ created[f] < MaxCreates
    /\ objs' = [objs EXCEPT ![f] = @ \cup {created[f] + 1}]
    /\ created' = [created EXCEPT ![f] = @ + 1]
    /\ dormant' = IF f = "Deployment" /\ ~cpView.dataplane
                      THEN dormant \cup {created[f] + 1} ELSE dormant
    /\ UNCHANGED available

\* The synchronizer's update of the single listed Deployment: its replica
\* count follows spec.dataPlane, and a rescaled Deployment is not available.
UpdateDeployment(f) ==
    /\ OutdatedDeployment(f)
    /\ Cardinality(view[f]) = 1
    /\ \E d \in view[f] :
          /\ d \in objs[f]
          /\ dormant' = IF cpView.dataplane THEN dormant \ {d}
                                           ELSE dormant \cup {d}
          /\ available' = available \ {d}
    /\ UNCHANGED <<objs, created>>

ReconcileEnsureChild ==
    /\ Converging
    /\ \E i \in 1..5 : Pending(EnsureOrder[i])
    /\ LET f == EnsureOrder[FirstPending]
       IN /\ CreateChild(f) \/ UpdateDeployment(f)
          /\ cp' = IF f = "Deployment" /\ ~cpView.dataplane
                      THEN WriteStatus(AfterEnv, FreshAfterEnv, PassConds)
                      ELSE AfterEnv
    /\ UNCHANGED <<dpService, edits>>
    /\ Caches

\* Lines 302-306: Replicas = 0 or AvailableReplicas < Replicas.
DeploymentReady ==
    \E d \in view["Deployment"] : d \notin dormant /\ d \in available

Synchronized == \A i \in 1..5 : ~Pending(EnsureOrder[i])

\* A pass that gets past ensureDataPlaneConfiguration and then returns
\* without another write still leaves that Update behind: the first pending
\* family has several children or may not create another, or the Deployment
\* is not ready yet.
ReconcileStopAfterEnv ==
    /\ Converging
    /\ EnvChanged
    /\ \/ /\ ~Synchronized
          /\ LET f == EnsureOrder[FirstPending]
             IN \/ Cardinality(view[f]) > 1
                \/ view[f] = {} /\ created[f] = MaxCreates
       \/ Synchronized /\ ~DeploymentReady
    /\ cp' = AfterEnv
    /\ UNCHANGED <<objs, created, dormant, available, dpService, edits>>
    /\ Caches

\* Lines 308-319: ensureIsMarkedProvisioned sets Provisioned, the aggregate
\* Ready follows the other conditions, and the status is written.
ProvisionedConds ==
    SetReady(SetCondition(PassConds, "Provisioned", Cond("True", "PodsReady")))

ReconcileMarkProvisioned ==
    /\ Converging
    /\ Synchronized
    /\ DeploymentReady
    /\ cp' = WriteStatus(AfterEnv, FreshAfterEnv, ProvisionedConds)
    /\ cp' # cp
    /\ UNCHANGED <<objs, created, dormant, available, dpService, edits>>
    /\ Caches

(***************************************************************************)
(* What a pass returns.  An error or a Requeue puts the key back in the    *)
(* work queue (rate-limited); nil drops it until the next event.           *)
(***************************************************************************)

\* Status().Update from a copy whose conditions differ from the cached ones
\* but whose resourceVersion is behind fails with a conflict.
StatusConflict(fresh, conds) == ~fresh /\ NeedsUpdate(cpView.conds, conds)

\* Lines 286-295: the status write after a Deployment change while no
\* DataPlane is set returns its error.
EnsureChildFails ==
    /\ EnsureOrder[FirstPending] = "Deployment"
    /\ ~cpView.dataplane
    /\ StatusConflict(FreshAfterEnv, PassConds)

\* A teardown pass that writes nothing (lines 101-158): Requeue under the
\* grace period (lines 103-113); after it, the error of a Patch of an
\* object already gone, and nil when nothing was left to do.
TeardownPassFails == ~GraceOver \/ ~cp.exists

\* Mutant: a DataPlane or Service that cannot be found ends the pass with
\* nil, as ErrDataPlaneNotSet does.
ProvisionPassFailsLookupSwallowed ==
    CASE ~Finalized                 -> TRUE
      [] ~Scheduled                 -> StatusConflict(UpToDate,
                                         SetCondition(InitReady(cpView.conds),
                                           "Scheduled", Cond("True", "Scheduled")))
      [] ~DataPlaneResolved         -> FALSE
      [] Defaults(cpView.env, ServiceName) # cpView.env -> TRUE
      [] EnvChanged                 -> TRUE
      [] ~Synchronized              -> TRUE
      [] ~DeploymentReady           -> FALSE
      [] OTHER                      -> StatusConflict(UpToDate, ProvisionedConds)

\* A provisioning pass that writes nothing (lines 161-323):
\*  - a finalizer Update from a stale copy: the conflict (line 167);
\*  - the Scheduled status write: its conflict, if it writes (174-178);
\*  - a DataPlane or its Service not found: the error (lines 187-200);
\*  - a defaults or env Update from a stale copy: Requeue (212-214, 222-228);
\*  - several children listed, a create or an update that fails: the error;
\*  - a Deployment not ready yet: nil (lines 303-306);
\*  - the Provisioned status write: Requeue on a conflict (lines 309-316).
ProvisionPassFails ==
    CASE ~Finalized                 -> TRUE
      [] ~Scheduled                 -> StatusConflict(UpToDate,
                                         SetCondition(InitReady(cpView.conds),
                                           "Scheduled", Cond("True", "Scheduled")))
      [] ~DataPlaneResolved         -> TRUE
      [] Defaults(cpView.env, ServiceName) # cpView.env -> TRUE
      [] EnvChanged                 -> TRUE
      [] ~Synchronized              -> TRUE
      [] ~DeploymentReady           -> FALSE
      [] OTHER                      -> StatusConflict(UpToDate, ProvisionedConds)

\* What a pass that writes nothing returns; a ControlPlane not found in the
\* cache ends it with nil (lines 93-96).
PassFails ==
    CASE ~cpView.exists           -> FALSE
      [] cpView.deletion # "None" -> TeardownPassFails
      [] OTHER                    -> ProvisionPassFails

\* The passes that write, each with what it returns.
ReconcileWrites ==
    \/ ReconcileDeleteBindings /\ Enqueue(FALSE)
    \/ ReconcileRemoveBindingsFinalizer /\ Enqueue(FALSE)
    \/ ReconcileDeleteRoles /\ Enqueue(FALSE)
    \/ ReconcileRemoveRolesFinalizer /\ Enqueue(FALSE)
    \/ ReconcileAddFinalizers /\ Enqueue(FALSE)
    \/ ReconcileMarkScheduled /\ Enqueue(FALSE)
    \/ ReconcileSetDefaults /\ Enqueue(FALSE)
    \/ ReconcileEnsureChild /\ Enqueue(EnsureChildFails)
    \/ ReconcileStopAfterEnv /\ Enqueue(~Synchronized)
    \/ ReconcileMarkProvisioned /\ Enqueue(FALSE)

\* A pass that changes nothing: no write it could make would change the
\* store (a write from a stale copy conflicts, a status equal to the cached
\* one is skipped); the key stays queued only if the pass fails.
ReconcileIdle ==
    /\ ~ENABLED <<ReconcileWrites>>_pass
    /\ queued' = PassFails
    /\ UNCHANGED pass

\* A worker takes the key from the queue and runs one pass.
Reconcile ==
    /\ queued
    /\ ReconcileWrites \/ ReconcileIdle

(***************************************************************************)
(* The environment: users, the API server, the DataPlane controller, the   *)
(* Deployment controller, the garbage collector and the informers.         *)
(***************************************************************************)

\* kubectl delete: an object without finalizers is removed at once; one
\* with finalizers gets a deletionTimestamp, possibly in the future.
UserDelete ==
    /\ cp.exists /\ cp.deletion = "None"
    /\ cp' = IF cp.finalizers = {} THEN [cp EXCEPT !.exists = FALSE]
                                   ELSE [cp EXCEPT !.deletion = "Grace"]
    /\ UNCHANGED <<objs, created, dormant, available, dpService, edits>>
    /\ Caches
    /\ Enqueue(queued)

\* The clock passing is no event (see Watched); the grace-period pass
\* requeued the key for when it ends (line 111).
GraceExpires ==
    /\ cp.exists /\ cp.deletion = "Grace"
    /\ cp' = [cp EXCEPT !.deletion = "Due"]
    /\ UNCHANGED <<objs, created, dormant, available, dpService, edits>>
    /\ Caches
    /\ Enqueue(queued)

\* A user (or the Gateway reconciler) sets or clears spec.dataPlane.
UserEditDataPlane ==
    /\ cp.exists /\ cp.deletion = "None"
    /\ edits < MaxEdits
    /\ cp' = [cp EXCEPT !.dataplane = ~@]
    /\ edits' = edits + 1
    /\ UNCHANGED <<objs, created, dormant, available, dpService>>
    /\ Caches
    /\ Enqueue(queued)

\* The DataPlane controller brings up the DataPlane and its proxy Service.
\* No event of either reaches the ControlPlane's key (see Watched).
DataPlaneServiceReady ==
    /\ ~dpService
    /\ dpService' = TRUE
    /\ UNCHANGED <<cp, objs, created, dormant, available, edits>>
    /\ Caches
    /\ UNCHANGED queued

\* The Deployment controller reports all replicas of a scaled-up
\* Deployment available.
DeploymentAvailable ==
    /\ \E d \in objs["Deployment"] \ (dormant \cup available) :
          available' = available \cup {d}
    /\ UNCHANGED <<cp, objs, created, dormant, dpService, edits>>
    /\ Caches
    /\ Enqueue(queued)

\* Owner references let the garbage collector remove the namespaced
\* children of a removed ControlPlane; the cluster-wide ones stay.
CollectGarbage ==
    /\ ~cp.exists
    /\ \E f \in Families \ ClusterScoped : objs[f] # {}
    /\ objs' = [f \in Families |-> IF f \in ClusterScoped THEN objs[f] ELSE {}]
    /\ available' = {}
    /\ UNCHANGED <<cp, created, dormant, dpService, edits>>
    /\ Caches
    /\ Enqueue(queued)

\* An informer catches up with the store.
SyncControlPlane ==
    /\ StaleReads /\ cpView # cp
    /\ cpView' = cp
    /\ UNCHANGED <<cp, view, objs, created, dormant, available, dpService, edits>>
    /\ Enqueue(queued)

SyncChildren(f) ==
    /\ StaleReads /\ view[f] # objs[f]
    /\ view' = [view EXCEPT ![f] = objs[f]]
    /\ UNCHANGED <<cp, cpView, objs, created, dormant, available, dpService, edits>>
    /\ Enqueue(queued)

\* Once the ControlPlane is gone the system has nothing left to do.
Finished == ~cp.exists /\ UNCHANGED vars

Environment ==
    \/ UserDelete \/ GraceExpires \/ UserEditDataPlane
    \/ DataPlaneServiceReady \/ DeploymentAvailable \/ CollectGarbage
    \/ SyncControlPlane \/ \E f \in Families : SyncChildren(f)

Init ==
    /\ cp \in [exists: {TRUE}, deletion: {"None"}, finalizers: {{}},
               conds: {NoConditions}, env: {{}}, dataplane: BOOLEAN]
    /\ cpView = cp
    /\ objs = [f \in Families |-> {}]
    /\ view = objs
    /\ created = [f \in Families |-> 0]
    /\ dormant = {}
    /\ available = {}
    /\ dpService \in BOOLEAN
    /\ edits = 0
    /\ queued = TRUE

Next == Reconcile \/ Environment \/ Finished

\* A pass runs whenever one can change something: events are delivered
\* at least once and every object is resynced periodically.  The informers,
\* the grace period, the DataPlane and Deployment controllers and the
\* garbage collector all make progress on their own.  Users need not act.
Fairness ==
    /\ WF_vars(Reconcile)
    /\ WF_vars(GraceExpires)
    /\ WF_vars(DataPlaneServiceReady)
    /\ WF_vars(DeploymentAvailable)
    /\ WF_vars(CollectGarbage)
    /\ WF_vars(SyncControlPlane)
    /\ \A f \in Families : WF_vars(SyncChildren(f))

Spec == Init /\ [][Next]_vars /\ Fairness

(***************************************************************************)
(* Properties                                                              *)
(***************************************************************************)

\* The ControlPlane seen as an owner of its two token-guarded families,
\* torn down bindings first (lines 118-158).
Teardown == INSTANCE FinalizerTeardown
    WITH Order    <- <<"ClusterRoleBinding", "ClusterRole">>,
         alive    <- cp.exists,
         deleting <- cp.deletion # "None" \/ ~cp.exists,
         tokens   <- {f \in ClusterScoped : FinalizerOf[f] \in cp.finalizers},
         kids     <- [f \in ClusterScoped |-> objs[f]]

\* The ControlPlane reconciler implements the finalizer lifecycle of spec
\* 4.3 for its cluster-wide children: created only under both tokens and
\* never once deleted, a token removed only when its family, and the
\* bindings before the roles, are gone.
TeardownRefined == Teardown!Spec

TypeOK ==
    /\ cp \in ControlPlaneRec /\ cpView \in ControlPlaneRec
    /\ objs \in [Families -> SUBSET Ids] /\ view \in [Families -> SUBSET Ids]
    /\ created \in [Families -> 0..MaxCreates]
    /\ dormant \subseteq Ids /\ available \subseteq Ids
    /\ dpService \in BOOLEAN /\ edits \in 0..MaxEdits
    /\ queued \in BOOLEAN

\* Finalizer safety (lines 119-154): a cluster-wide child of either family
\* exists only while the ControlPlane exists and still holds that family's
\* finalizer, so no ClusterRole or ClusterRoleBinding is ever orphaned.
FinalizerSafety ==
    \A f \in ClusterScoped :
        objs[f] # {} => cp.exists /\ FinalizerOf[f] \in cp.finalizers

\* Bindings are created after roles (lines 252-270) and deleted before them
\* (lines 119-145): no ClusterRoleBinding is left pointing at a removed
\* ClusterRole.
RolesOutliveBindings ==
    objs["ClusterRoleBinding"] # {} => objs["ClusterRole"] # {}

\* The ensure helpers never leave two live children of one family.
AtMostOneChild == \A f \in Families : Cardinality(objs[f]) <= 1

\* The state a ControlPlane that is left alone settles in: its finalizers
\* set, one child per family, the Deployment scaled to zero exactly when no
\* DataPlane is set, the publish-service entry following spec.dataPlane,
\* and Ready True exactly when a DataPlane is set.
Converged ==
    \/ ~cp.exists
    \/ cp.deletion # "None"
    \/ /\ CPFinalizers \subseteq cp.finalizers
       /\ \A f \in Families : Cardinality(objs[f]) = 1
       /\ \A d \in objs["Deployment"] : (d \in dormant) = ~cp.dataplane
       /\ cp.env = {"base"} \cup (IF cp.dataplane THEN {"publish"} ELSE {})
       /\ IsReady(cp.conds) = cp.dataplane

\* Once users stop editing, the passes reach that state and stay there:
\* defaulting and the DataPlane env update do not undo each other, and no
\* pass stops short for good.
Converges == <>[]Converged

\* With lagging caches, every behaviour in which no duplicate child
\* appears still converges: a pass that skipped its status write because
\* the cached conditions already matched (updateStatus, lines 325-337), or
\* that lost an Update to a conflict, is followed by another once the
\* informer delivers the store's state.
StaleConverges == []AtMostOneChild => Converges

\* Teardown (lines 100-159) finishes: a ControlPlane marked for deletion
\* is eventually removed, whatever the caches show in between.
DeletionCompletes == cp.deletion # "None" ~> ~cp.exists
=============================================================================
