# TLA+ models of the gateway operator

These modules model the reconcilers of `src/controllers` together with the
part of Kubernetes they read and write. TLC checks them. Every definition
follows the Go source. `PROJECT.json` maps each definition to the lines it
models, and lists the runs, mutants, findings and hazards.

## The system

The operator runs three reconcilers in one controller-runtime manager
(`src/internal/manager/run.go`): DataPlane, ControlPlane and Gateway. All
three get `mgr.GetClient()`. That client serves Get and List from informer
caches and sends writes to the API server. Each cache lags the store on its
own, and only moves forward.

- **ControlPlane reconciler** (`controlplane_controller.go`, `_utils.go`).
  A pass does the following:
  - Reads the ControlPlane.
  - If it is being deleted, runs the finalizer teardown. A cluster-wide child
    of a namespaced owner cannot have an owner reference, so ClusterRoleBindings
    and then ClusterRoles are deleted by label. Each family's finalizer token is
    removed with a merge patch once its cached list is empty.
  - Otherwise it takes these steps:
    1. Adds the two tokens.
    2. Marks Scheduled.
    3. Resolves the DataPlane.
    4. Applies env defaults (`setControlPlaneDefaults`).
    5. Keeps `CONTROLLER_PUBLISH_SERVICE` in line with `spec.dataPlane`.
    6. Ensures the ServiceAccount, ClusterRole, ClusterRoleBinding,
       certificate Secret and Deployment in that order. The Deployment is
       scaled to zero when no DataPlane is set.
    7. Once the Deployment is available, marks Provisioned and Ready.

  Every step that writes returns. The write's watch event, or the periodic
  resync, starts the next pass. `SetupWithManager` watches every child kind
  and maps the cluster-wide ones back by UID.
- **Gateway reconciler** (`gateway_controller.go`, `_reconciler_utils.go`).
  It handles the following:
  - Three finalizers, with teardown in the order DataPlanes, ControlPlanes,
    then NetworkPolicies.
  - The GatewayClass check and the GatewayConfiguration lookup.
  - Provisioning a DataPlane and waiting for DataPlaneReady.
  - Finding its Service.
  - Provisioning a ControlPlane whose spec names the DataPlane and its
    Service, and waiting for ControlPlaneReady.
  - A NetworkPolicy.
  - Addresses, and Programmed/Ready.

  It writes ControlPlane specs that the ControlPlane reconciler then
  defaults, so the two interact through the ControlPlane object.
- **Condition model** (`internal/utils/kubernetes/status.go`): condition
  set/get, the Ready/Programmed aggregate, and `NeedsUpdate`, which
  suppresses redundant status writes.
- **Metadata helpers** (`metadata.go`): finalizer add/remove, and
  `EnsureObjectMetaIsUpdated`.
- The admission webhook, DataPlane validation, version tables, generated
  RBAC, API types and clientset fakes are listed in `PROJECT.json` as not
  modelled, with the reason for each.

### What is hard

- **Stale reads.** Every pass decides from caches: whether a child exists,
  whether a finalizer may go, and whether a status differs. A cache that has
  not yet seen the pass's own previous write, or a deletion, leads to the
  wrong decision.
- **One write per pass.** State is spread over many passes, any of which may
  be interleaved with user edits, deletion, the grace period and other
  controllers.
- **Two writers.** Two writers touch one env list:
  - Within the ControlPlane reconciler, defaulting and the DataPlane env
    update must not undo each other.
  - Between the two reconcilers, the Gateway's spec diff ignores the admin
    URL for the same reason.
- **Liveness.** Passes must eventually stop writing, reach Ready, and finish
  teardown.

### Properties each part needs

| Part | Properties |
|---|---|
| ControlPlane teardown | A cluster-wide child exists only while its finalizer does. Bindings never outlive roles. Deletion completes. |
| ControlPlane provisioning | At most one child per family. It converges to one child per family, the Deployment's scale following `spec.dataPlane`, and Ready exactly when a DataPlane is set. Defaulting and the env update do not oscillate. |
| Gateway | Tokens go only with their families, teardown deletions are ordered, at most one child per family, Programmed only with the ClusterIP address, convergence to one consistent set of children, and deletion completes. |
| Gateway and ControlPlane together | The two writers of the ControlPlane spec stop rewriting it, and the configuration's variables survive both reconcilers' defaulting. |
| Conditions | One entry per type, and `NeedsUpdate` false exactly when nothing differs (planned reference check). |

## Modules

| Module | Models |
|---|---|
| `Conditions` | `status.go`. Conditions are a function from every condition type to a record `[status, reason]` or `NoCondition`. The message is determined by the reason, so it is folded into it. Slice order is not represented, because `SetCondition` keeps one entry per type and nothing here depends on order. |
| `Metadata` | `EnsureFinalizersInMetadata` and `RemoveFinalizerInMetadata`, over finalizer sets. |
| `ControlPlaneReconciler` | One ControlPlane, its five child families, the DataPlane's Service, and the caches. |
| `MCControlPlaneReconciler` | The bounds used by the runs. |
| `GatewayReconciler` | One Gateway, its DataPlanes, ControlPlanes and NetworkPolicies, each DataPlane's proxy Service, the readiness the other controllers report, and the caches. |
| `MCGatewayReconciler` | The bounds used by the Gateway runs. |
| `DataPlaneValidation` | `ValidateDeployOptions` (`internal/validation/dataplane`) and the DataPlane branch of the admission handler (`internal/admission/server.go`). |
| `MCDataPlaneValidation` | The env length bound. |
| `ControlPlaneSpecWriters` | The composition where the Gateway and ControlPlane reconcilers both write one ControlPlane's env: the Gateway's options diff and patch, and the ControlPlane's `setControlPlaneDefaults`. |
| `MCControlPlaneSpecWriters` | The configurations and edit bound used by its runs. |
| `FinalizerTeardown` | The abstract finalizer lifecycle of spec 4.3, which both reconcilers refine. It describes no code of its own. |

### ControlPlaneReconciler

**State**

- `cp` is the ControlPlane in the store: whether it exists, its deletion
  state, finalizers, conditions, managed env entries, and whether
  `spec.dataPlane` is set.
- `cpView` and `view[f]` are what the caches show.
- `objs[f]` holds the live children, as ids.
- `created` counts creations per family, bounded by `MaxCreates`.
- `dormant` and `available` give the Deployments' scale and status.
- `dpService` says whether the referenced DataPlane has its proxy Service.
- `queued` says whether the ControlPlane's key is in the controller's work
  queue.

**Actions**

A pass is one atomic action, and each return point of `Reconcile` that
writes is an action of its own:

- `ReconcileDeleteBindings`
- `ReconcileRemoveBindingsFinalizer`
- `ReconcileDeleteRoles`
- `ReconcileRemoveRolesFinalizer`
- `ReconcileAddFinalizers`
- `ReconcileMarkScheduled`
- `ReconcileSetDefaults`
- `ReconcileEnsureChild`
- `ReconcileStopAfterEnv`
- `ReconcileMarkProvisioned`

A pass runs only when the key is queued. `ReconcileWrites` pairs each
writing action with what the pass returns. `ReconcileIdle` is a pass that
writes nothing; `PassFails` says whether it returns an error or a
`Requeue`, following the code's return statements. After any step the key
is queued if the pass failed or requeued, or if a watched object changed
(`Enqueue`). The watched objects (`Watched`) are the ones
`SetupWithManager` maps to the key: the ControlPlane, its ServiceAccount,
Secret and Deployment, and its ClusterRoles and ClusterRoleBindings. The
DataPlane and its Service are not among them. The DataPlane watch maps by a
controller owner reference that line 193 never writes.

**How writes are modelled**

- Guards read the caches. Writes go to the store.
- `Update` and `Status().Update` succeed only if the copy the pass read is
  current (`UpToDate`). A failed write changes nothing; that pass is a
  `ReconcileIdle` that leaves the key queued.
- The merge patch of finalizers has no version check (`PatchFinalizers`).
- `ensureDataPlaneConfiguration` writes and then lets the pass continue, so
  its write is part of every later action of the pass (`AfterEnv`). A pass
  that stops afterwards still leaves that write behind
  (`ReconcileStopAfterEnv`).

**Environment actions**

The environment acts too:

- The user deletes the ControlPlane or edits `spec.dataPlane` (at most
  `MaxEdits` times).
- The grace period ends.
- The DataPlane controller creates the Service.
- The Deployment controller makes a scaled-up Deployment available.
- The garbage collector removes namespaced children of a removed
  ControlPlane.
- In stale mode, an informer catches up.

**Spec-modelled helpers**

The ensure helpers, `ensureDataPlaneConfiguration`, `ensureDataPlaneStatus`
and `ensureIsMarkedProvisioned` are not in this snapshot of the source. They
are modelled from spec sections 4.2 and 4.4 and marked `spec_modelled`:

- No listed child: create one.
- One listed child: update it when outdated. For the Deployment, that means
  when its scale disagrees with `spec.dataPlane`.
- More than one: fail.

**Not modelled**

- The admin-URL default: Reconcile passes no pod IP.
- Image selection.
- Service renames.

The call to `setControlPlaneDefaults` at `controlplane_controller.go:207`
does not match the function's signature at `_utils.go:43` in this snapshot.
The model follows what the function body does with a namespace and a
service name.

### GatewayReconciler

**State**

- `gw` is the Gateway: whether it exists, its deletion state, finalizer
  tokens, conditions, addresses (`"cluster"` for the ClusterIP, `"lb"` for a
  load-balancer IP).
- `gwc` is the GatewayClass the Gateway names (`ClassRec`): whether it
  exists, whether its controllerName is this operator's, whether it is
  accepted, and its parametersRef (`"none"`, `"valid"` or `"invalid"`).
  `gwConfig` says whether the GatewayConfiguration a valid reference names
  exists. Both are read as the store has them.
- `gwView` and `view[f]` are what the caches show; `objs[f]` the live
  children of each family, as ids, and `created` the creations per family.
- `dpReady` and `dpOutdated`: DataPlanes whose Ready condition is True, and
  those whose options differ from the GatewayConfiguration.
- `svc[d]`: DataPlane `d`'s proxy Service: none, without a ClusterIP, with
  one, or with a load-balancer IP as well.
- `cpRef[c]` is the DataPlane ControlPlane `c`'s spec names; `cpReadyFor[c]`
  the DataPlane it was Ready for; `cpDeleting` the ControlPlanes with a
  deletionTimestamp, which stay until their own teardown ends.
- `npSel[n]` is the DataPlane and ControlPlane NetworkPolicy `n` selects.
- `disturb` counts outside disturbances, bounded by `MaxDisturb`.
- `queued`: the Gateway's key is in the controller's work queue.

**Actions**

Each return point of `Reconcile` that writes is an action, and each
conjoins the writes the pass made before it. `ReconcileWrites` pairs each
with what it returns:

- `GatewayDeleteOwned(i)`, `GatewayRemoveFinalizer(i)`: the teardown of the
  `i`-th family of `TeardownOrder` once the earlier ones are listed empty
  and their tokens gone.
- `GatewayAddFinalizers`. The tokens are added before the class check,
  so a Gateway of another controller's class carries them too.
- Past the finalizers, `Supported` lets the pass go on only for a class
  that `ClassServed` (lines 196-209, `verifyGatewayClassSupport`) and a
  configuration that `ConfigResolves` (`getOrCreateGatewayConfiguration`).
  A missing class, a malformed parametersRef or a missing
  GatewayConfiguration fails the pass (`PassFails`); another controller's
  class, or one not accepted, ends it with nil. No parametersRef gives the
  defaults.
- `GatewayStopAtDataPlane`: `provisionDataPlane` (create, update when
  outdated, or fail on two) and the DataPlaneReady gate, which writes a
  False condition only if the copy read had none or had it True.
- `GatewayNoService`: the DataPlane's Service is missing; only the DataPlane
  update is left behind.
- `GatewayStopAtControlPlane`: `provisionControlPlane` (create, or
  merge-patch the DataPlane reference) and the ControlPlaneReady gate.
- `GatewayCreateNetworkPolicy`, `GatewayTooManyPolicies`.
- `GatewayProgram`: addresses, GatewayService, then Ready and Programmed,
  patched when the Gateway was not Programmed or its addresses changed.

`patchStatus` is a merge patch against the copy the pass read, with no
version check: `PatchStatus` writes the conditions and the addresses each
only if they differ from that copy.

**Work queue**

The work queue follows `ControlPlaneReconciler`:

- A pass runs only while `queued` is set.
- A pass that writes nothing is `ReconcileIdle`. It keeps the key queued
  only if `PassFails`. That covers the grace-period Requeue, a conflicting
  finalizer Update, a missing proxy Service and more than one
  NetworkPolicy. Every other return is nil.
- Writes and environment steps queue the key through `Enqueue` when a
  watched object changes. `WatchedOwned` holds the DataPlanes,
  ControlPlanes and NetworkPolicies and the GatewayConfiguration (whose
  edits change `dpOutdated`). `WatchedGateway` is the Gateway itself, whose
  events pass the `For()` predicate of line 51 (`GatewayEventPasses`): the
  Gateway's class, as it is when the event arrives, exists and names this
  controller. `gatewayHasMatchingGatewayClass` is not in this source; the
  model follows its name and the comment at lines 48-49.
- `EditGatewayClass` queues the key only if `ClassEventDelivered`: the
  watch's predicate matches the controller name on the new class, or on the
  deleted one.
- The proxy Services are not watched (lines 46-71), so `ServiceProgress`
  and `LoadBalancerAssigned` queue nothing.
- With the constant `Resync`, `ResyncGateway` stands for the informers'
  periodic resync. `run.go` sets no `SyncPeriod`, so controller-runtime's
  default applies. The action queues the key whenever it is not queued and
  the Gateway passes the same predicate. The initial create event does too,
  so `queued` starts as `GatewayEventPasses`.

**Environment actions**

The user deletes the Gateway; the grace period ends; the DataPlane
controller makes a DataPlane Ready; a DataPlane has an outage; the
GatewayConfiguration is edited; the GatewayClass is created, deleted,
handed over, accepted or re-parameterised (`EditGatewayClass`), and the
GatewayConfiguration it names is created or deleted
(`ToggleGatewayConfiguration`); a change of the resolved configuration
leaves the DataPlane outdated (`OptionsFollow`); Kubernetes gives the Service a ClusterIP and
perhaps a load-balancer IP; the ControlPlane controller makes a ControlPlane
Ready for the DataPlane it names (after its Service exists), drops readiness
when the reference changes, and finishes a deleted ControlPlane's teardown;
with `ChildRemovals`, someone deletes a DataPlane or ControlPlane; the
garbage collector removes what a removed Gateway owned; informers catch up.

**Spec-modelled**

`ensureOwned*Deleted` is not in this snapshot; `DeleteOwned` follows spec
section 4.5, step 2: delete every listed child and stop.

**Not modelled**

The content of the GatewayConfiguration (its edits make DataPlanes
outdated), option defaulting and spec diffs other than the ControlPlane's
DataPlane reference, and API errors other than failed writes.

### DataPlaneValidation

The admission webhook's DataPlane check is a pure function of the env list
and of the ConfigMaps and Secrets it names, so it is modelled as operators:

- `Resolve(e)` is what one entry contributes (lines 39-75): its literal
  value, else the ConfigMap key, else the Secret key if it base64-decodes,
  or a failed Get.
- `Step` is one loop iteration and `DBMode` the loop, as a `FoldLeft`.
- `ValidateDataPlane` accepts an unset mode or `"off"`.

The state is the stored DataPlane, the last request and the verdict.
`CreateDataPlane` and `UpdateDataPlane` go through `Admit`
(`handleValidation`); deletion is allowed unvalidated. `HandleValidation`
keeps the handler's switch on the request's resource: the validator runs
only when the resource equals `DataPlaneGVResource` (`"dataplane"`), and a
request carries `DataPlaneRequestResource`, the plural `"dataplanes"`.
`ValidatorAcceptsOnlyDBLess` is stated of the validator, and
`AdmittedDataPlaneIsDBLess` of what the webhook lets into the store. Entries range over
a literal (`""`, `"off"`, `"postgres"`), three ConfigMap keys, four Secret
values and two missing objects. Base64 decoding is the table of what the
standard decoder does to those four values.

`LastKongDatabase` is the reference: what the proxy container sees, the
last entry of the name with a Secret key giving its bytes.

Not modelled: `ServeHTTP` (server.go 53-92). It decodes the
AdmissionReview and encodes the answer. Its error paths (an empty body, a
read, unmarshal or marshal failure) answer with an HTTP error rather than
an allow or deny. They are reached only by a malformed request, which the
API server does not send, and what the API server then does is set by the
webhook's failure policy, which is not in this source. The ControlPlane
branch of `handleValidation` calls a validator that is not defined in this
source either.

### FinalizerTeardown (refinement)

The abstract owner has four variables:

- `alive` and `deleting`;
- `tokens`, the families whose finalizer token it holds;
- `kids[f]`, the live children of family `f`.

Its actions say what spec 4.3 promises:

- tokens are added while the owner lives;
- children are created only while it is not being deleted and holds every
  token;
- children may vanish at any time;
- once it is being deleted, the `i`-th token goes only when families `1..i`
  are empty and the earlier tokens are gone;
- the owner goes with its last token.

Each reconciler instantiates it with a refinement mapping:

| | Order | tokens | kids |
|---|---|---|---|
| ControlPlane | ClusterRoleBinding, ClusterRole | cluster-scoped families whose finalizer is on the ControlPlane | `objs` of those families |
| Gateway | `TeardownOrder` (DataPlanes, ControlPlanes, NetworkPolicies) | `GwFamilies` whose token is in `gw.finalizers` | `objs` |

In both mappings, `deleting` is a set deletion timestamp or a vanished
owner.

`TeardownRefined` (the abstract `Spec`) is a PROPERTY of `cp_fresh`,
`gw_fresh` and `gw_removals`. Every reconciler step on conditions,
Services, readiness or the grace period is a stutter of the abstract
spec. The stale runs break it, through the leak findings below.

### ControlPlaneSpecWriters (composition)

The Gateway reconciler and the ControlPlane reconciler both write the
ControlPlane's env. This module keeps only that shared object; the rest of
both passes is the subject of the two modules above.

State:

- `cp`: the ControlPlane in the store. Its env is a sequence of
  `[name, val]` entries, in order, because `updateEnv` moves the entry it
  sets to the end and the options comparison is a deep equality of lists.
  `image` says whether the image and replica count hold their defaults.
- `gwView` and `cpView`: each reconciler's cached copy.
- `config`: the env of the GatewayConfiguration's ControlPlane options.
- `edits`: user edits so far.

A name stands for the variables set together:

| Name | Variables |
|---|---|
| `pod` | `POD_NAMESPACE`, `POD_NAME` |
| `ctrl` | `CONTROLLER_GATEWAY_API_CONTROLLER_NAME` |
| `publish` | `CONTROLLER_PUBLISH_SERVICE` |
| `adminURL` | `CONTROLLER_KONG_ADMIN_URL` |
| `tls` | the three TLS file paths |
| `other` | a variable the operator never sets |

A value is either the default or a user's own.

`SetControlPlaneDefaults` (`controlplane_controller_utils.go` 43-123)
follows the code's branches:

- `pod` and `ctrl` are set whatever `dontOverride` says.
- `publish` is set when the Service is known and overriding is not
  disabled.
- `tls` is rewritten without counting as a change.
- The admin URL branch never applies: no caller passes a pod IP.

Successive `updateEnv` calls on distinct names are one filter and one
append.

The two reconcilers are two actions:

- `GatewayPatchControlPlane` (lines 494-519) compares its copy with
  `Expected`, ignoring the admin URL, and patches the whole container.
  `Expected` is the configuration defaulted by
  `setControlplaneGatewayConfigDefaults` and `setControlPlaneOptionsDefaults`.
- `ControlPlaneSetDefaults` (`controlplane_controller.go` 202-218) applies
  the defaults with no `dontOverride`. It Updates with its resourceVersion;
  a conflict requeues.

`setControlplaneGatewayConfigDefaults` and the deep equality it relies on
are not under `src/`. They are modelled from spec 4.5 step 10 and 4.4
step 7: the DataPlane's Service is injected, and no variable the
configuration sets is overridden. The call at `controlplane_controller.go`
207 passes four arguments to a three-parameter function. It is read as
namespace and Service name given, a nil `dontOverride`, and no pod IP.

Users edit the configuration or set a variable on the ControlPlane.
Both reconcilers, and both informers, are weakly fair: the Gateway owns
the ControlPlane and the ControlPlane reconciler watches it.

## Runs

| Run | Reads | Expect | Checks |
|---|---|---|---|
| `cp_fresh` | see the store | pass | `TypeOK`, `FinalizerSafety`, `RolesOutliveBindings`, `AtMostOneChild`, `Converges`, `TeardownRefined`, `DeletionCompletes` |
| `cp_stale` | lagging caches | pass | `DeletionCompletes`, `StaleConverges` |
| `cp_stale_leak` | lagging caches | violation | `FinalizerSafety` |
| `gw_fresh` | see the store, resync, every outcome for a class of this controller | pass | `TypeOK`, `TokensGuardChildren`, `AtMostOneChild`, `ProgrammedHasAddress`, `TeardownOrdered`, `TeardownRefined`, `GatewayConverges`, `DeletionCompletes` |
| `gw_removals` | see the store, children deleted by others, resync | pass | `TokensGuardChildren`, `AtMostOneChild`, `ProgrammedHasAddress`, `TeardownOrdered`, `TeardownRefined`, `DeletionCompletes` |
| `gw_stale` | lagging caches, no resync | pass | `ProgrammedHasAddress`, `TeardownOrdered`, `DeletionCompletes` |
| `gw_policy_stale` | see the store, children deleted by others, resync | violation | `GatewayConverges` |
| `gw_class_handover` | see the store, resync, a served class that may be deleted or handed away | violation | `DeletionCompletes` |
| `dp_validation_dbless` | every env of up to two entries | violation | `ValidatorAcceptsOnlyDBLess` |
| `dp_webhook_unrouted` | every env of up to two entries, requests named `dataplanes` | violation | `AdmittedDataPlaneIsDBLess` |
| `cpsw_stale` | lagging caches; configurations that leave the publish service alone | pass | `TypeOK`, `SpecConverges` |
| `cpsw_publish_livelock` | the configuration sets `CONTROLLER_PUBLISH_SERVICE` | violation | `SpecConverges` |

The initial states are fresh ControlPlanes with and without `spec.dataPlane`,
and with and without the DataPlane's Service.

**Bounds**

- `MaxCreates = 2` lets a duplicate child exist.
- `MaxEdits = 2` takes the Deployment from dormant to scaled up and back
  again, and covers a user edit during provisioning, while Ready, and
  during teardown.

- Gateway: `MaxCreates = 2` lets a child be replaced or duplicated;
  `MaxDisturb = 2` allows an outage followed by a configuration edit, or the
  removal of a DataPlane and then a ControlPlane, or two edits of the
  GatewayClass or its GatewayConfiguration. In `gw_fresh` the class starts
  as, and may be edited to, any of four classes of this controller
  (`MCOurClasses`): served with no parametersRef, with a valid one, or
  with a malformed one; not accepted. The GatewayConfiguration starts
  missing. A missing class and another controller's are in
  `gw_class_handover` (`MCHandoverClasses`), where they strand the
  Gateway. The other Gateway runs keep a served class with no
  parametersRef (`MCServedClass`), which keeps their state spaces in reach.
  Someone else removes a child only while its replacement still fits under
  `MaxCreates`, so the bound never stops a re-creation: in
  `gw_policy_stale` the ControlPlane is removed and re-created.

- Validation: `MaxEnv = 2` lets a later `KONG_DATABASE` entry override an
  earlier one, and gives every pair of entry kinds.

- Spec writers: `MaxEdits = 2` allows a configuration change and a direct
  ControlPlane edit in either order. The configurations are:
  - nothing;
  - a variable of the user's own;
  - the TLS paths;
  - the admin URL with a variable of the user's own;
  - the pod identity and the controller name.

  That reaches every branch of the defaulting and the ignored-variable
  comparison.

These bounds cover every branch of both `Reconcile`s and of the validator. The coverage output of TLC
shows every action taken.

**Findings**

With stale caches:

- **Leak.** A provisioning pass that has not seen the deletion creates a
  ClusterRole, and the teardown, seeing an empty cached list, removes both
  finalizers. The ClusterRole is orphaned.
- **Duplicate.** A second child is created when the cache has not yet shown
  the first. After that every pass fails on the more-than-one check. This
  has the same cause as the leak, so it is listed as a hazard of
  `AtMostOneChild` rather than kept as a run.

- **Gateway leak.** The same happens to the Gateway: a DataPlane created
  just before deletion is missing from the cached list, its token goes, and
  the Gateway disappears while it still owns children. This has the same
  cause as the leak, so it is listed as a hazard of `TokensGuardChildren`
  rather than kept as a run.
- **Stale NetworkPolicy.** `ensureDataPlaneHasNetworkPolicy` updates an
  existing policy only when `EnsureObjectMetaIsUpdated` finds labels or
  owner references changed. The policy's selector names the ControlPlane,
  so after a ControlPlane is replaced the policy keeps admitting only the
  old ControlPlane's pods to the admin API while the Gateway is Programmed
  (`gw_policy_stale`). Spec 4.2 says spec fields are diffed too.
- **Deletion lost with the class.** The three finalizers are added
  (`gateway_controller.go` 182-193) before the class check. The Gateway
  watch passes the Gateway's events and resyncs through
  `gatewayHasMatchingGatewayClass` (line 51). When the class is then handed
  to another controller or deleted, the user's delete and every later
  resync are dropped. Nothing else queues the Gateway, so it keeps its
  finalizers and is never removed (`gw_class_handover`). Spec 4.5 says a
  Gateway marked for deletion releases its finalizers once its dependents
  are gone.
- **Load-balancer IP waits for the resync** (a hazard, not a run). The
  Gateway watches no Services, and the pass that Programmed it returned nil.
  A load-balancer IP assigned afterwards changes no watched object. With
  `Resync = FALSE` in `GWFresh.cfg`, TLC finds `GatewayConverges` violated:
  the Gateway stays Programmed with only its ClusterIP. In the running
  operator the default resync, hours apart, or an unrelated DataPlane
  change repairs it. Spec 4.5 step 13 says addresses are recomputed from
  the Service, but names no trigger for a Service change.

- **Secret values decoded twice.** `ValidateDeployOptions` base64-decodes
  Secret data that a client already receives decoded. A Secret holding
  `cassandra` fails to decode and is skipped, so the DataPlane is admitted
  while its proxy would run with `KONG_DATABASE=cassandra`
  (`dp_validation_dbless`, checked on the validator itself).
- **DataPlane requests never validated.** `handleValidation` matches
  DataPlane requests against the resource `"dataplane"`
  (`server.go` 100-104). An AdmissionRequest carries the plural
  `"dataplanes"`, the form the ControlPlane case uses (`"controlplanes"`).
  No case matches, so every DataPlane is allowed unvalidated, even one that
  sets `KONG_DATABASE=postgres` directly (`dp_webhook_unrouted`).

- **Publish-service livelock.** The ControlPlane reconciler defaults with
  no `dontOverride` (`controlplane_controller.go` 207). A
  `CONTROLLER_PUBLISH_SERVICE` that the GatewayConfiguration sets is
  replaced. The Gateway's comparison then sees a difference and patches it
  back, and the two reconcilers rewrite the ControlPlane forever
  (`cpsw_publish_livelock`). Spec 4.5 step 10 says the comparison exists so
  that they do not oscillate.
- **Pod identity overridden** (a hazard, not a run). `POD_NAMESPACE`,
  `POD_NAME` and the controller name are defaulted whatever `dontOverride`
  says (lines 70-90). A configuration's value for them is lost, against the
  no-override rule of spec 4.4 and 8. The code's comments say this is
  deliberate. Both reconcilers override these variables, so they agree on
  the default and settle (`SpecConverges` in `cpsw_stale`, whose
  configurations include one that sets them). This differs from the
  publish service, which only one of them overrides.
- **TLS paths replaced** (a hazard, not a run). The ControlPlane's
  defaulting rewrites the TLS path variables on every call (lines 112-121)
  without setting `changed`. When it Updates for another reason, such as a
  user's edit of the pod identity, a path the configuration sets is
  replaced until the Gateway patches it back. `SpecConverges` shows that
  the two settle, and breaks if the rewrite set `changed`.

The leak and duplicate findings are the code's behaviour with `mgr.GetClient()`. The fresh
run shows the same code is correct when reads see the store.

`StaleConverges` (`cp_stale`) checks provisioning under lagging caches in
every behaviour without a duplicate child. A pass may skip its status
write because `updateStatus` compares with a cached copy whose conditions
already match (lines 325-337), or lose an Update to a conflict. The
informer's catching up enables another pass, and the ControlPlane still
settles.

**Mutants**

Each property of a passing run is shown to catch a plausible bug:

- the binding finalizer removed without checking the list (this also breaks
  `TeardownRefined`);
- ensure order with bindings before roles;
- child lists read from a cache the pass's own writes do not refresh;
- the publish-service default added unconditionally, which makes defaulting
  and the env update oscillate;
- a DataPlane or Service lookup that fails ending the pass with nil instead
  of an error, so nothing requeues it (`StaleConverges`);
- the roles step patching out the wrong token;
- Ready seeded with status Unknown.

and for the Gateway:

- a token patched out without looking at the list (this also breaks
  `TeardownRefined`);
- every teardown step patching out the DataPlane token;
- NetworkPolicies torn down before ControlPlanes;
- the ClusterIP not appended to the addresses;
- status rewritten only when not Programmed, ignoring changed addresses;
- child lists that miss the pass's own creations;
- the grace-period pass returning without a Requeue, so the teardown never
  starts (`DeletionCompletes` in `gw_stale`, without the resync);
- a missing parametersRef treated as an error instead of the defaults
  (`GatewayConverges`);
- the teardown run only for a Gateway of a served class, which strands
  the finalizers that the pass added before its class check
  (`DeletionCompletes`);

and for the spec writers:

- `rejectEnvByName` not filtering, so entries are duplicated;
- the TLS rewrite counted as a change.

## Fairness

The run assumes weak fairness of:

- the reconciler: a queued key is eventually taken by a worker;
- the grace period;
- the DataPlane and Deployment controllers;
- the garbage collector;
- the informers.

The ControlPlane model does not assume the periodic resync. A pass runs
only when an event or a failed pass has queued the key, so `Converges`,
`StaleConverges` and `DeletionCompletes` show that the code's watches and
return values alone keep it moving. Nothing wakes a ControlPlane when its
DataPlane's Service appears. It progresses only because the pass that
missed the Service returned an error and is retried. The mutant that ends
that pass with nil, as for an unset DataPlane, breaks `StaleConverges`.
User actions are not fair.

The Gateway model has the same work queue. Whether the periodic resync is
assumed depends on the run:

- `gw_stale` runs without the resync and still shows `DeletionCompletes`.
  Watch events and the grace-period Requeue alone finish a teardown. The
  mutant whose grace pass forgets the Requeue breaks it. The run says
  `CHECK_DEADLOCK FALSE`, because a system whose only controller waits for
  events may fall quiet. The liveness property decides whether that
  quiet is a wait that never ends.
- `gw_fresh` and `gw_removals` assume the resync (`Resync = TRUE`, weakly
  fair). `run.go` leaves controller-runtime's default sync period in
  place, and `GatewayConverges` needs it for a late load-balancer IP.
  Without it that case fails (see the findings).

The DataPlane and ControlPlane controllers, Service ClusterIP allocation
and a deleted ControlPlane's own teardown are fair. Outages, configuration
edits, removals by others and load-balancer IPs are not. The model assumes
that the DataPlane controller, which is not under `src/`, does not change
the DataPlane when its Service changes.

## Plan

The most important behaviour comes first.

1. Done: `Conditions`, `Metadata`, `ControlPlaneReconciler` with fresh and
   stale runs.
2. Done: `GatewayReconciler` with fresh, removal and stale runs, its work
   queue with and without the periodic resync, and two findings.
3. Done: `ControlPlaneSpecWriters`, the composition of the two reconcilers
   on the ControlPlane spec, with a passing run under lagging caches and the livelock finding.
4. Done: `FinalizerTeardown`, an abstract spec of ordered, finalizer-guarded
   teardown of a list of families. The ControlPlane (two families) and
   Gateway (three) teardowns are shown to implement it with `INSTANCE ...
   WITH` and a refinement mapping, checked as a PROPERTY in the fresh runs.
5. Done: the DataPlane DB-mode validation against what the proxy
   container sees. `NeedsUpdate` is not checked against "the condition
   sets differ": with one entry per type, which `SetCondition` keeps, the
   two agree by construction. They would differ only on a slice holding
   two entries of one type, which no code here writes. ControlPlane
   version support and cluster-role selection are dropped. No controller
   under `src/` calls `GenerateNewClusterRoleForControlPlane` or
   `validateControlPlane`, and the version check they rely on,
   `IsControlPlaneImageVersionSupported`, is not defined in this source.
   What is left is a lookup in a three-entry image table.
6. Done: stale-mode liveness restricted to behaviours without duplicates
   (`StaleConverges`), for the `updateStatus` comparison with a cached
   copy.
7. Done: the Gateway's GatewayClass check and GatewayConfiguration lookup,
   with every outcome and edits of both in `gw_fresh`.

## Not modelled (system-wide)

- **Manager bootstrap** (`run.go`). Two consequences are modelled: the
  cached client (`Caches`, `StaleReads`) and the default periodic resync
  (`Resync`). Flag defaults, logging, health probes and the webhook
  server's start on the presence of its certificate files are I/O.
- **Leader election and restarts.** A restarted or newly elected
  manager lists every object afresh and queues every key. For one key
  that is what `SyncGateway`, `SyncChildren` and `ResyncGateway` already
  do. Two leaders overlapping after a lost lease would break spec 5's
  assumption of at most one in-flight pass per key, which every model
  here relies on.
- **`ServeHTTP`**, the webhook's JSON and HTTP plumbing: see
  DataPlaneValidation.
- **API types, error values and the generated clientset fakes**: data
  declarations and test doubles.
