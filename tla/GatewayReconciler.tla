--------------------------- MODULE GatewayReconciler ---------------------------
(***************************************************************************)
(* One Gateway and the reconciler of controllers/gateway_controller.go,    *)
(* with the objects it owns: DataPlanes, ControlPlanes and NetworkPolicies *)
(* (ids per family), the proxy Service of each DataPlane, and the          *)
(* readiness the DataPlane and ControlPlane controllers report.            *)
(*                                                                         *)
(* As in ControlPlaneReconciler, a pass is one atomic step, each return    *)
(* point that writes is an action, and the Gateway and the lists of its    *)
(* children are read through caches that lag the store when StaleReads.    *)
(* The status and spec of one listed child are read as the store has them. *)
(* API errors other than write conflicts are not modelled.                 *)
(***************************************************************************)
EXTENDS Naturals, FiniteSets, Conditions, Metadata

CONSTANTS
    StaleReads,     \* TRUE: reads go through caches that may lag the store
    MaxCreates,     \* bound on the objects of one family ever created
    MaxDisturb,     \* bound on outside disturbances (edits, outages, removals)
    ChildRemovals,  \* TRUE: a ControlPlane may be removed by someone else
    Resync,         \* TRUE: the informers periodically re-deliver the Gateway
    Classes         \* the GatewayClasses the Gateway may name, as ClassRec

ASSUME StaleReads \in BOOLEAN /\ ChildRemovals \in BOOLEAN /\ Resync \in BOOLEAN
ASSUME MaxCreates \in Nat \ {0} /\ MaxDisturb \in Nat

\* Mutant: NetworkPolicies torn down before ControlPlanes.
TeardownOrderSwapped == <<"DataPlane", "NetworkPolicy", "ControlPlane">>

\* Lines 96-175 tear the families down in this order.
TeardownOrder == <<"DataPlane", "ControlPlane", "NetworkPolicy">>
GwFamilies == {"DataPlane", "ControlPlane", "NetworkPolicy"}

\* Lines 183-187 and 113, 141, 167: one finalizer token per family.
TokenOf == [DataPlane     |-> "gateway-cleanup-dataplanes",
            ControlPlane  |-> "gateway-cleanup-controlplanes",
            NetworkPolicy |-> "gateway-cleanup-networkpolicies"]
GwFinalizers == {TokenOf[f] : f \in GwFamilies}

Ids == 1..MaxCreates
NoId == 0

\* The proxy Service of a DataPlane: not there yet, without a ClusterIP,
\* with a ClusterIP, or with a ClusterIP and a load-balancer IP.
SvcStates == {"none", "pending", "cluster", "lb"}
IPs == {"cluster", "lb"}

GatewayRec ==
    [exists: BOOLEAN, deletion: {"None", "Grace", "Due"},
     finalizers: SUBSET GwFinalizers, conds: ConditionsType,
     addresses: SUBSET IPs]

\* The GatewayClass the Gateway names: whether it is in the store, whether
\* its controllerName is this operator's (an empty className counts as
\* not), whether it is accepted, and its parametersRef: absent, naming a
\* GatewayConfiguration, or malformed (another group or kind, or no
\* namespace or name: both are errors).
ClassRec ==
    [exists: BOOLEAN, ours: BOOLEAN, accepted: BOOLEAN,
     params: {"none", "valid", "invalid"}]

ASSUME Classes \subseteq ClassRec /\ Classes # {}

VARIABLES
    gw,          \* the Gateway in the store
    gwView,      \* the Gateway as the cache shows it
    objs,        \* objs[f]: live children of family f in the store
    view,        \* view[f]: children of family f the cache lists
    created,     \* created[f]: children of f ever created
    dpReady,     \* DataPlanes whose Ready condition is True
    dpOutdated,  \* DataPlanes whose options differ from the GatewayConfiguration
    svc,         \* svc[d]: the proxy Service of DataPlane d
    cpRef,       \* cpRef[c]: the DataPlane named in ControlPlane c's spec
    cpReadyFor,  \* cpReadyFor[c]: the DataPlane c was Ready for, or NoId
    cpDeleting,  \* ControlPlanes with a deletionTimestamp (they hold finalizers)
    npSel,       \* npSel[n]: the DataPlane and ControlPlane policy n selects
    disturb,     \* outside disturbances so far
    gwc,         \* the GatewayClass the Gateway names
    gwConfig,    \* the GatewayConfiguration its parametersRef names exists
    queued       \* the Gateway's key is in the controller's work queue

classRefs == <<gwc, gwConfig>>

pass == <<gw, gwView, objs, view, created, dpReady, dpOutdated, svc, cpRef,
          cpReadyFor, cpDeleting, npSel, disturb, classRefs>>
vars == <<pass, queued>>

children == <<objs, created, dpReady, dpOutdated, svc, cpRef, cpReadyFor,
              cpDeleting, npSel>>

\* Mutant: the child lists miss the pass's own creations.
CachesStaleChildren ==
    IF StaleReads THEN UNCHANGED <<gwView, view>>
                  ELSE /\ gwView' = gw'
                       /\ view' = [f \in GwFamilies |->
                                      IF created'[f] # created[f]
                                          THEN view[f] ELSE objs'[f]]

Caches ==
    IF StaleReads THEN UNCHANGED <<gwView, view>>
                  ELSE /\ gwView' = gw'
                       /\ view' = objs'

\* The For() predicate of line 51, gatewayHasMatchingGatewayClass: the
\* Gateway's class is read when the event is filtered, and the event passes
\* only when the class exists and names this controller.  Applied to the
\* Gateway's own events and to its resyncs, not to the owned objects'.
GatewayEventPasses == gwc.exists /\ gwc.ours

\* What the controller watches (SetupWithManager, lines 46-71): the Gateway
\* through that predicate, and the DataPlanes, ControlPlanes and
\* NetworkPolicies it owns and the GatewayConfiguration (whose edits make
\* dpOutdated change) without it.  The proxy Services are not watched: svc
\* is not here.  As in ControlPlaneReconciler, "Due" records only that the
\* clock passed the deletionTimestamp.
WatchedGateway ==
    [gwView EXCEPT !.deletion = IF @ = "None" THEN "None" ELSE "Grace"]

WatchedOwned == << view, dpReady, dpOutdated, cpRef, cpReadyFor, cpDeleting, npSel >>

\* After a step the key is queued if it was requeued (an error or an
\* explicit Requeue), an owned object changed, or the Gateway changed and
\* its event passed the predicate.
Enqueue(requeue) ==
    queued' = \/ requeue
              \/ WatchedOwned' # WatchedOwned
              \/ WatchedGateway' # WatchedGateway /\ GatewayEventPasses'

\* Update carries the cached resourceVersion (see ControlPlaneReconciler).
UpToDate == gw.exists /\ gwView = gw

\* Merge patch of the finalizers, without a resourceVersion.
PatchFinalizers(fins) ==
    /\ gw.exists
    /\ gw' = IF fins = {} /\ gw.deletion # "None"
                THEN [gw EXCEPT !.exists = FALSE, !.finalizers = {}]
                ELSE [gw EXCEPT !.finalizers = fins]

(***************************************************************************)
(* The class and its configuration, read as the store has them.            *)
(***************************************************************************)

\* verifyGatewayClassSupport (utils 124-139): a missing GatewayClass fails
\* the Get, an error; a class of another controller is unsupported.
\* Lines 204-207 then ignore a class that is not accepted.
ClassGetFails == ~gwc.exists
ClassServed == gwc.exists /\ gwc.ours /\ gwc.accepted

\* Mutant: a missing parametersRef is an error, not the defaults.
ConfigRequiresRef == gwc.params = "valid" /\ gwConfig

\* getOrCreateGatewayConfiguration (utils 141-151): no parametersRef gives
\* an empty configuration (ErrObjectMissingParametersRef); otherwise
\* getGatewayConfigForGatewayClass (153-187) fails on a malformed
\* reference and on a GatewayConfiguration that is not there.
ConfigResolves == gwc.params = "none" \/ (gwc.params = "valid" /\ gwConfig)

\* The options a resolved configuration gives the DataPlane.
DesiredOptions ==
    CASE ~ConfigResolves         -> "unresolved"
      [] gwc.params = "none"     -> "defaults"
      [] OTHER                   -> "configured"

(***************************************************************************)
(* Teardown: lines 86-180.  The grace-period pass only requeues.           *)
(***************************************************************************)

GraceOver == gw.deletion = "Due" \/ ~gw.exists

\* Mutant: teardown only for a Gateway of a served class.
CleanupDueIfServed ==
    gwView.exists /\ gwView.deletion # "None" /\ GraceOver /\ ClassServed

CleanupDue == gwView.exists /\ gwView.deletion # "None" /\ GraceOver

\* Family i is reached when every earlier family is listed empty and its
\* token is gone.
Reached(i) ==
    \A j \in 1..(i - 1) :
        /\ view[TeardownOrder[j]] = {}
        /\ ~FinalizerRemoved(gwView.finalizers, TokenOf[TeardownOrder[j]])

\* ensureOwned*Deleted: delete every listed child.  DataPlanes and
\* NetworkPolicies go at once; a ControlPlane holds finalizers and gets a
\* deletionTimestamp.
DeleteOwned(f) ==
    /\ view[f] # {}
    /\ IF f = "ControlPlane"
          THEN /\ cpDeleting' = cpDeleting \cup (view[f] \cap objs[f])
               /\ UNCHANGED objs
          ELSE /\ objs' = [objs EXCEPT ![f] = @ \ view[f]]
               /\ UNCHANGED cpDeleting
    /\ UNCHANGED <<created, dpReady, dpOutdated, svc, cpRef, cpReadyFor, npSel>>

\* Lines 102-110, 130-138, 156-164: listed children are deleted and the
\* pass returns.
GatewayDeleteOwned(i) ==
    /\ CleanupDue
    /\ Reached(i)
    /\ DeleteOwned(TeardownOrder[i])
    /\ UNCHANGED <<gw, disturb, classRefs>>
    /\ Caches

\* Mutant: the token is patched out without looking at the list.
GatewayRemoveFinalizerUnlisted(i) ==
    /\ CleanupDue
    /\ Reached(i)
    /\ FinalizerRemoved(gwView.finalizers, TokenOf[TeardownOrder[i]])
    /\ PatchFinalizers(RemoveFinalizerInMetadata(gwView.finalizers,
                                                 TokenOf[TeardownOrder[i]]))
    /\ UNCHANGED <<children, disturb, classRefs>>
    /\ Caches

\* Mutant: every step patches out the DataPlane token.
GatewayRemoveFinalizerWrongToken(i) ==
    /\ CleanupDue
    /\ Reached(i)
    /\ LET f == TeardownOrder[i] IN
          /\ view[f] = {}
          /\ FinalizerRemoved(gwView.finalizers, TokenOf[f])
          /\ PatchFinalizers(RemoveFinalizerInMetadata(gwView.finalizers,
                                                       TokenOf["DataPlane"]))
    /\ UNCHANGED <<children, disturb, classRefs>>
    /\ Caches

\* Lines 111-120, 139-148, 165-174: with none listed the family's token is
\* patched out and the pass returns.
GatewayRemoveFinalizer(i) ==
    /\ CleanupDue
    /\ Reached(i)
    /\ LET f == TeardownOrder[i] IN
          /\ view[f] = {}
          /\ FinalizerRemoved(gwView.finalizers, TokenOf[f])
          /\ PatchFinalizers(RemoveFinalizerInMetadata(gwView.finalizers, TokenOf[f]))
    /\ UNCHANGED <<children, disturb, classRefs>>
    /\ Caches

(***************************************************************************)
(* Provisioning: lines 182-335                                             *)
(***************************************************************************)

Provisioning == gwView.exists /\ gwView.deletion = "None"

\* Lines 182-194: the three tokens are added with Update and the pass
\* returns.
GatewayAddFinalizers ==
    /\ Provisioning
    /\ FinalizersAdded(gwView.finalizers, GwFinalizers)
    /\ UpToDate
    /\ gw' = [gw EXCEPT !.finalizers =
                EnsureFinalizersInMetadata(gwView.finalizers, GwFinalizers)]
    /\ UNCHANGED <<children, disturb, classRefs>>
    /\ Caches

\* Lines 196-229: past the finalizers, the pass goes on only for a served
\* class and a configuration that resolves.
Supported ==
    /\ Provisioning
    /\ ~FinalizersAdded(gwView.finalizers, GwFinalizers)
    /\ ClassServed
    /\ ConfigResolves

\* Lines 211-225: Accepted is set unless Scheduled is valid (it never is on
\* a Gateway), then Ready and Programmed are reset, on the pass's copy.
AcceptedConds ==
    LET accepted == IF IsValidCondition(gwView.conds, "Scheduled")
                        THEN gwView.conds
                        ELSE SetCondition(gwView.conds, "Accepted",
                                          Cond("True", "Accepted"))
    IN  InitProgrammed(InitReady(accepted))

\* patchStatus (lines 606-608): a merge patch from the copy the pass read
\* carries only the fields that differ from it, and no resourceVersion.
PatchStatus(conds, addresses) ==
    IF gw.exists
        THEN [gw EXCEPT !.conds = IF conds # gwView.conds THEN conds ELSE @,
                        !.addresses = IF addresses # gwView.addresses
                                          THEN addresses ELSE @]
        ELSE gw

\* Lines 238-250 and 286-298: a False readiness condition is written only
\* if the Gateway read had none of that type or had it True.
GateWrite(type, conds) ==
    IF gwView.conds[type] = NoCondition \/ gwView.conds[type].status = "True"
        THEN PatchStatus(conds, gwView.addresses)
        ELSE gw

Only(ids) == CHOOSE i \in ids : TRUE

(* provisionDataPlane, lines 338-433 *)
DPs == view["DataPlane"]
TheDP == Only(DPs)

DataPlaneCond ==
    CASE Cardinality(DPs) > 1 -> Cond("False", "UnableToProvision")
      [] DPs = {}             -> Cond("False", "ResourceCreatedOrUpdated")
      [] TheDP \in dpReady    -> Cond("True", "Ready")
      [] OTHER                -> Cond("False", "WaitingToBecomeReady")

DPConds == SetCondition(AcceptedConds, "DataPlaneReady", DataPlaneCond)

\* Lines 388-417: the single DataPlane is updated when its options differ
\* from the configuration's.
UpdateDataPlane ==
    dpOutdated' = IF Cardinality(DPs) = 1 THEN dpOutdated \ {TheDP}
                                         ELSE dpOutdated

\* Lines 362-387: none listed creates one (createDataPlane, utils 29-45).
CreateDataPlane ==
    /\ DPs = {}
    /\ created["DataPlane"] < MaxCreates
    /\ objs' = [objs EXCEPT !["DataPlane"] = @ \cup {created["DataPlane"] + 1}]
    /\ created' = [created EXCEPT !["DataPlane"] = @ + 1]
    /\ UNCHANGED dpOutdated

DataPlanePasses == Supported /\ IsValidCondition(DPConds, "DataPlaneReady")

\* The pass stops at the DataPlaneReady gate.
GatewayStopAtDataPlane ==
    /\ Supported
    /\ ~IsValidCondition(DPConds, "DataPlaneReady")
    /\ \/ CreateDataPlane
       \/ Cardinality(DPs) # 0 /\ UpdateDataPlane /\ UNCHANGED <<objs, created>>
    /\ gw' = GateWrite("DataPlaneReady", DPConds)
    /\ UNCHANGED <<dpReady, svc, cpRef, cpReadyFor, cpDeleting, npSel, disturb, classRefs>>
    /\ Caches

\* Lines 256-280: the DataPlane's proxy Service is listed; none fails the
\* pass, leaving only the DataPlane update behind.
ServiceFound == svc[TheDP] # "none"

GatewayNoService ==
    /\ DataPlanePasses
    /\ ~ServiceFound
    /\ TheDP \in dpOutdated
    /\ UpdateDataPlane
    /\ UNCHANGED <<gw, objs, created, dpReady, svc, cpRef, cpReadyFor,
                   cpDeleting, npSel, disturb, classRefs>>
    /\ Caches

(* provisionControlPlane, lines 435-535 *)
CPs == view["ControlPlane"]
TheCP == Only(CPs)

ControlPlaneCond ==
    CASE Cardinality(CPs) > 1           -> Cond("False", "UnableToProvision")
      [] CPs = {}                       -> Cond("False", "ResourceCreatedOrUpdated")
      [] cpReadyFor[TheCP] # NoId       -> Cond("True", "Ready")
      [] OTHER                          -> Cond("False", "WaitingToBecomeReady")

CPConds == SetCondition(DPConds, "ControlPlaneReady", ControlPlaneCond)

\* Lines 492-519: the expected options name the DataPlane and its Service
\* (setControlplaneGatewayConfigDefaults); controlplaneSpecDeepEqual
\* ignores the admin URL, so only that reference can differ, and a
\* differing spec is merge-patched.
PatchControlPlane ==
    cpRef' = IF Cardinality(CPs) = 1 /\ TheCP \in objs["ControlPlane"]
                THEN [cpRef EXCEPT ![TheCP] = TheDP]
                ELSE cpRef

\* Lines 475-491: none listed creates one naming the DataPlane
\* (createControlPlane, utils 47-72).
CreateControlPlane ==
    LET id == created["ControlPlane"] + 1 IN
    /\ CPs = {}
    /\ created["ControlPlane"] < MaxCreates
    /\ objs' = [objs EXCEPT !["ControlPlane"] = @ \cup {id}]
    /\ created' = [created EXCEPT !["ControlPlane"] = id]
    /\ cpRef' = [cpRef EXCEPT ![id] = TheDP]

ControlPlanePasses ==
    /\ DataPlanePasses
    /\ ServiceFound
    /\ IsValidCondition(CPConds, "ControlPlaneReady")

\* The pass stops at the ControlPlaneReady gate.
GatewayStopAtControlPlane ==
    /\ DataPlanePasses
    /\ ServiceFound
    /\ ~IsValidCondition(CPConds, "ControlPlaneReady")
    /\ UpdateDataPlane
    /\ \/ CreateControlPlane
       \/ Cardinality(CPs) # 0 /\ PatchControlPlane /\ UNCHANGED <<objs, created>>
    /\ gw' = GateWrite("ControlPlaneReady", CPConds)
    /\ UNCHANGED <<dpReady, svc, cpReadyFor, cpDeleting, npSel, disturb, classRefs>>
    /\ Caches

(* ensureDataPlaneHasNetworkPolicy, utils 189-220 *)
NPs == view["NetworkPolicy"]

\* generateDataPlaneNetworkPolicy (utils 222-288) selects the DataPlane's
\* pods and admits the ControlPlane's by its name.
PolicySelection == <<TheDP, TheCP>>

\* Utils 212-217: EnsureObjectMetaIsUpdated (metadata.go 69-109) compares
\* labels and owner references only, which the Gateway alone sets and never
\* changes, so a listed policy is never updated.
PolicyUpdated == FALSE

\* The writes every pass past the ControlPlane gate has made.
PastControlPlane ==
    /\ ControlPlanePasses
    /\ UpdateDataPlane
    /\ PatchControlPlane

\* Utils 219: none listed creates one and the pass returns (lines 310-313).
GatewayCreateNetworkPolicy ==
    LET id == created["NetworkPolicy"] + 1 IN
    /\ PastControlPlane
    /\ NPs = {}
    /\ created["NetworkPolicy"] < MaxCreates
    /\ objs' = [objs EXCEPT !["NetworkPolicy"] = @ \cup {id}]
    /\ created' = [created EXCEPT !["NetworkPolicy"] = id]
    /\ npSel' = [npSel EXCEPT ![id] = PolicySelection]
    /\ UNCHANGED <<gw, dpReady, svc, cpReadyFor, cpDeleting, disturb, classRefs>>
    /\ Caches

\* Utils 202-205: more than one listed fails the pass.
GatewayTooManyPolicies ==
    /\ PastControlPlane
    /\ Cardinality(NPs) > 1
    /\ UNCHANGED <<gw, objs, created, dpReady, svc, cpReadyFor, cpDeleting,
                   npSel, disturb, classRefs>>
    /\ Caches

\* Mutant: the ClusterIP is not appended.
AddressesOfLbOnly(s) == IF s = "lb" THEN {"lb"} ELSE {}

\* Addresses of a Service with a ClusterIP, as spec 4.5 step 13 states
\* them: the load-balancer IP, if any, and the ClusterIP.  Line 316 calls
\* getGatewayAddresses, which is not in this source; the unused
\* ensureGatewayConnectivityStatus (utils 74-122) computes the same list.
AddressesOf(s) == IF s = "lb" THEN {"lb", "cluster"} ELSE {"cluster"}

\* Without a ClusterIP the lookup fails and leaves no addresses.
AddressesFound == svc[TheDP] \in {"cluster", "lb"}

NewAddresses == IF AddressesFound THEN AddressesOf(svc[TheDP]) ELSE {}

ServiceConds ==
    SetCondition(CPConds, "GatewayService",
        IF AddressesFound THEN Cond("True", "Ready")
                          ELSE Cond("False", "GatewayServiceError"))

\* Mutant: status is written only when the Gateway was not Programmed.
ProgramStatusIgnoringAddresses ==
    IF ~IsProgrammed(gwView.conds)
        THEN PatchStatus(SetProgrammed(SetReady(ServiceConds)), NewAddresses)
        ELSE gw

\* Lines 326-332: status is written when the Gateway was not Programmed
\* or its addresses changed, after SetReadyAndProgrammed.
ProgramStatus ==
    IF ~IsProgrammed(gwView.conds) \/ NewAddresses # gwView.addresses
        THEN PatchStatus(SetProgrammed(SetReady(ServiceConds)), NewAddresses)
        ELSE gw

\* Lines 315-335: the last step of a pass with one NetworkPolicy listed.
GatewayProgram ==
    /\ PastControlPlane
    /\ Cardinality(NPs) = 1
    /\ ~PolicyUpdated
    /\ gw' = ProgramStatus
    /\ UNCHANGED <<objs, created, dpReady, svc, cpReadyFor, cpDeleting,
                   npSel, disturb, classRefs>>
    /\ Caches

(***************************************************************************)
(* The work queue                                                          *)
(***************************************************************************)

\* Mutant: the grace-period pass returns without asking to be requeued.
TeardownPassFailsNoRequeue ==
    ~gw.exists /\ gwView.finalizers \cap GwFinalizers # {}

\* A pass that writes nothing: the grace-period pass requeues for its end
\* (lines 87-92); with the Gateway gone from the store a finalizer patch
\* fails (lines 114-117).  Every other teardown return is nil.
TeardownPassFails ==
    ~GraceOver \/ (~gw.exists /\ gwView.finalizers \cap GwFinalizers # {})

\* The finalizer Update conflicts (line 189), no proxy Service is listed
\* (lines 278-280) or more than one NetworkPolicy (utils 202-205): an
\* error, as are a missing GatewayClass (lines 198-203) and a configuration
\* that does not resolve (lines 228-231).  The unsupported or unaccepted
\* class (lines 198-209) and the two gates (lines 249 and 297) return nil,
\* as does a pass with nothing left to write.
ProvisionPassFails ==
    CASE FinalizersAdded(gwView.finalizers, GwFinalizers) -> TRUE
      [] ClassGetFails                                   -> TRUE
      [] ~ClassServed                                    -> FALSE
      [] ~ConfigResolves                                 -> TRUE
      [] ~DataPlanePasses                                -> FALSE
      [] ~ServiceFound                                   -> TRUE
      [] ~ControlPlanePasses                             -> FALSE
      [] OTHER                                           -> Cardinality(NPs) > 1

\* Lines 78-84: a Gateway the cache does not hold is not found, and nil.
PassFails ==
    CASE ~gwView.exists             -> FALSE
      [] gwView.deletion # "None"   -> TeardownPassFails
      [] OTHER                      -> ProvisionPassFails

\* Each return point that writes, with what it returns: the missing
\* Service (after the DataPlane update) and the extra NetworkPolicy are
\* errors, every other writing return is nil.
ReconcileWrites ==
    \/ \E i \in 1..3 : GatewayDeleteOwned(i) /\ Enqueue(FALSE)
    \/ \E i \in 1..3 : GatewayRemoveFinalizer(i) /\ Enqueue(FALSE)
    \/ GatewayAddFinalizers /\ Enqueue(FALSE)
    \/ GatewayStopAtDataPlane /\ Enqueue(FALSE)
    \/ GatewayNoService /\ Enqueue(TRUE)
    \/ GatewayStopAtControlPlane /\ Enqueue(FALSE)
    \/ GatewayCreateNetworkPolicy /\ Enqueue(FALSE)
    \/ GatewayTooManyPolicies /\ Enqueue(TRUE)
    \/ GatewayProgram /\ Enqueue(FALSE)

\* A pass that changes nothing; the key stays queued only if it fails.
ReconcileIdle ==
    /\ ~ENABLED <<ReconcileWrites>>_pass
    /\ queued' = PassFails
    /\ UNCHANGED pass

\* A worker takes the key from the queue and runs one pass.
Reconcile ==
    /\ queued
    /\ ReconcileWrites \/ ReconcileIdle

(***************************************************************************)
(* Environment                                                             *)
(***************************************************************************)

UserDelete ==
    /\ gw.exists /\ gw.deletion = "None"
    /\ gw' = IF gw.finalizers = {} THEN [gw EXCEPT !.exists = FALSE]
                                   ELSE [gw EXCEPT !.deletion = "Grace"]
    /\ UNCHANGED <<children, disturb, classRefs>>
    /\ Caches
    /\ Enqueue(queued)

GraceExpires ==
    /\ gw.exists /\ gw.deletion = "Grace"
    /\ gw' = [gw EXCEPT !.deletion = "Due"]
    /\ UNCHANGED <<children, disturb, classRefs>>
    /\ Caches
    /\ Enqueue(queued)

\* The DataPlane controller marks a DataPlane Ready.
DataPlaneBecomesReady ==
    \E d \in objs["DataPlane"] \ dpReady :
        /\ dpReady' = dpReady \cup {d}
        /\ UNCHANGED <<gw, objs, created, dpOutdated, svc, cpRef,
                       cpReadyFor, cpDeleting, npSel, disturb, classRefs>>
        /\ Caches
        /\ Enqueue(queued)

\* A DataPlane's pods stop being ready.
DataPlaneOutage ==
    \E d \in dpReady :
        /\ disturb < MaxDisturb
        /\ dpReady' = dpReady \ {d}
        /\ disturb' = disturb + 1
        /\ UNCHANGED <<gw, objs, created, dpOutdated, svc, cpRef,
                       cpReadyFor, cpDeleting, npSel, classRefs>>
        /\ Caches
        /\ Enqueue(queued)

\* The GatewayConfiguration is edited, so the DataPlanes' options are outdated.
EditConfiguration ==
    /\ disturb < MaxDisturb
    /\ objs["DataPlane"] # {}
    /\ dpOutdated' = objs["DataPlane"]
    /\ disturb' = disturb + 1
    /\ UNCHANGED <<gw, objs, created, dpReady, svc, cpRef,
                   cpReadyFor, cpDeleting, npSel, classRefs>>
    /\ Caches
    /\ Enqueue(queued)

\* The DataPlane controller creates the proxy Service and Kubernetes gives
\* it a ClusterIP.
ServiceProgress ==
    \E d \in objs["DataPlane"] :
        /\ svc[d] \in {"none", "pending"}
        /\ svc' = [svc EXCEPT ![d] = IF @ = "none" THEN "pending" ELSE "cluster"]
        /\ UNCHANGED <<gw, objs, created, dpReady, dpOutdated,
                       cpRef, cpReadyFor, cpDeleting, npSel, disturb, classRefs>>
        /\ Caches
        /\ Enqueue(queued)

\* A load balancer may or may not assign an IP.
LoadBalancerAssigned ==
    \E d \in objs["DataPlane"] :
        /\ svc[d] = "cluster"
        /\ svc' = [svc EXCEPT ![d] = "lb"]
        /\ UNCHANGED <<gw, objs, created, dpReady, dpOutdated,
                       cpRef, cpReadyFor, cpDeleting, npSel, disturb, classRefs>>
        /\ Caches
        /\ Enqueue(queued)

\* The ControlPlane reconciler makes c Ready once its DataPlane has a
\* Service (ControlPlaneReconciler), and a changed reference rolls its
\* Deployment, so readiness drops first.
ControlPlaneBecomesReady ==
    \E c \in objs["ControlPlane"] \ cpDeleting :
        /\ cpRef[c] \in objs["DataPlane"]
        /\ svc[cpRef[c]] # "none"
        /\ cpReadyFor[c] = NoId
        /\ cpReadyFor' = [cpReadyFor EXCEPT ![c] = cpRef[c]]
        /\ UNCHANGED <<gw, objs, created, dpReady, dpOutdated,
                       svc, cpRef, cpDeleting, npSel, disturb, classRefs>>
        /\ Caches
        /\ Enqueue(queued)

ControlPlaneRollout ==
    \E c \in objs["ControlPlane"] :
        /\ cpReadyFor[c] \notin {NoId, cpRef[c]}
        /\ cpReadyFor' = [cpReadyFor EXCEPT ![c] = NoId]
        /\ UNCHANGED <<gw, objs, created, dpReady, dpOutdated,
                       svc, cpRef, cpDeleting, npSel, disturb, classRefs>>
        /\ Caches
        /\ Enqueue(queued)

\* A deleted ControlPlane's own teardown ends and it goes.
ControlPlaneFinalized ==
    \E c \in cpDeleting :
        /\ objs' = [objs EXCEPT !["ControlPlane"] = @ \ {c}]
        /\ cpDeleting' = cpDeleting \ {c}
        /\ UNCHANGED <<gw, created, dpReady, dpOutdated, svc,
                       cpRef, cpReadyFor, npSel, disturb, classRefs>>
        /\ Caches
        /\ Enqueue(queued)

\* Someone else deletes one of the Gateway's DataPlanes or ControlPlanes
\* while the Gateway lives.  A removal happens only while the family's replacement still fits under
\* MaxCreates, so the bound never stops the reconciler from re-creating.
ExternalDeleteDataPlane ==
    \E d \in objs["DataPlane"] :
        /\ ChildRemovals
        /\ disturb < MaxDisturb
        /\ created["DataPlane"] < MaxCreates
        /\ gw.exists /\ gw.deletion = "None"
        /\ objs' = [objs EXCEPT !["DataPlane"] = @ \ {d}]
        /\ dpReady' = dpReady \ {d}
        /\ dpOutdated' = dpOutdated \ {d}
        /\ disturb' = disturb + 1
        /\ UNCHANGED <<gw, created, svc, cpRef, cpReadyFor, cpDeleting, npSel,
                       classRefs>>
        /\ Caches
        /\ Enqueue(queued)

ExternalDeleteControlPlane ==
    \E c \in objs["ControlPlane"] \ cpDeleting :
        /\ ChildRemovals
        /\ disturb < MaxDisturb
        /\ created["ControlPlane"] < MaxCreates
        /\ gw.exists /\ gw.deletion = "None"
        /\ cpDeleting' = cpDeleting \cup {c}
        /\ disturb' = disturb + 1
        /\ UNCHANGED <<gw, objs, created, dpReady, dpOutdated, svc, cpRef,
                       cpReadyFor, npSel, classRefs>>
        /\ Caches
        /\ Enqueue(queued)

\* The garbage collector deletes what a removed Gateway owned.
CollectGarbage ==
    /\ ~gw.exists
    /\ objs["DataPlane"] \cup objs["NetworkPolicy"] \cup
         (objs["ControlPlane"] \ cpDeleting) # {}
    /\ objs' = [objs EXCEPT !["DataPlane"] = {}, !["NetworkPolicy"] = {}]
    /\ cpDeleting' = objs["ControlPlane"]
    /\ UNCHANGED <<gw, created, dpReady, dpOutdated, svc, cpRef,
                   cpReadyFor, npSel, disturb, classRefs>>
    /\ Caches
    /\ Enqueue(queued)

SyncGateway ==
    /\ StaleReads /\ gwView # gw
    /\ gwView' = gw
    /\ UNCHANGED <<gw, objs, view, children, disturb, classRefs>>
    /\ Enqueue(queued)

SyncChildren(f) ==
    /\ StaleReads /\ view[f] # objs[f]
    /\ view' = [view EXCEPT ![f] = objs[f]]
    /\ UNCHANGED <<gw, gwView, children, disturb, classRefs>>
    /\ Enqueue(queued)

\* run.go (lines 86-94) sets no SyncPeriod, so the informers' default
\* periodic resync re-delivers every cached Gateway.
ResyncGateway ==
    /\ Resync /\ ~queued /\ gwView.exists /\ GatewayEventPasses
    /\ queued' = TRUE
    /\ UNCHANGED pass

\* The GatewayClass watch (lines 66-69) passes an event through
\* gatewayClassMatchesController, which controller-runtime applies to the
\* new object of an update and to the deleted object of a delete: a
\* class handed to another controller is not delivered.
ClassEventDelivered == IF gwc'.exists THEN gwc'.ours ELSE gwc.ours

\* A resolved configuration whose options differ from before leaves the
\* DataPlane outdated.  (From an unresolved one this is conservative: the
\* DataPlane may already have these options.)
OptionsFollow ==
    dpOutdated' = IF DesiredOptions' \notin {"unresolved", DesiredOptions}
                      THEN objs["DataPlane"] ELSE dpOutdated

\* Someone creates, deletes, hands over, accepts or re-parameterises the
\* GatewayClass.
EditGatewayClass ==
    /\ disturb < MaxDisturb
    /\ \E c \in Classes \ {gwc} : gwc' = c
    /\ disturb' = disturb + 1
    /\ UNCHANGED <<gw, objs, created, dpReady, svc, cpRef, cpReadyFor,
                   cpDeleting, npSel, gwConfig>>
    /\ OptionsFollow
    /\ Caches
    /\ Enqueue(queued \/ ClassEventDelivered)

\* Someone creates or deletes the GatewayConfiguration a class names; the
\* watch of lines 60-63 maps it to the Gateways of the classes that name
\* it.
ToggleGatewayConfiguration ==
    /\ disturb < MaxDisturb
    /\ \E c \in Classes : c.params = "valid"
    /\ gwConfig' = ~gwConfig
    /\ disturb' = disturb + 1
    /\ UNCHANGED <<gw, objs, created, dpReady, svc, cpRef, cpReadyFor,
                   cpDeleting, npSel, gwc>>
    /\ OptionsFollow
    /\ Caches
    /\ Enqueue(queued \/ (gwc.ours /\ gwc.params = "valid"))

Finished ==
    /\ ~gw.exists
    /\ \A f \in GwFamilies : objs[f] = {}
    /\ UNCHANGED vars

Environment ==
    \/ UserDelete \/ GraceExpires
    \/ DataPlaneBecomesReady \/ DataPlaneOutage \/ EditConfiguration
    \/ ServiceProgress \/ LoadBalancerAssigned
    \/ ControlPlaneBecomesReady \/ ControlPlaneRollout \/ ControlPlaneFinalized
    \/ ExternalDeleteDataPlane \/ ExternalDeleteControlPlane
    \/ CollectGarbage
    \/ EditGatewayClass \/ ToggleGatewayConfiguration
    \/ SyncGateway \/ \E f \in GwFamilies : SyncChildren(f)
    \/ ResyncGateway
    \/ Finished

(***************************************************************************)
(* Specification                                                           *)
(***************************************************************************)

Init ==
    /\ gw \in [exists: {TRUE}, deletion: {"None"}, finalizers: {{}},
               conds: {NoConditions}, addresses: {{}}]
    /\ gwc \in Classes
    /\ gwConfig = FALSE
    /\ gwView = gw
    /\ objs = [f \in GwFamilies |-> {}]
    /\ view = objs
    /\ created = [f \in GwFamilies |-> 0]
    /\ dpReady = {} /\ dpOutdated = {}
    /\ svc = [d \in Ids |-> "none"]
    /\ cpRef = [c \in Ids |-> NoId]
    /\ cpReadyFor = [c \in Ids |-> NoId]
    /\ cpDeleting = {}
    /\ npSel = [n \in Ids |-> <<NoId, NoId>>]
    /\ disturb = 0
    /\ queued = GatewayEventPasses

Next == Reconcile \/ Environment

\* The Gateway and every owned kind are watched (lines 46-71), events are
\* delivered at least once and resyncs are periodic, so a pass that can
\* change something runs.  The grace period, the DataPlane and ControlPlane
\* controllers, Kubernetes' Service allocation, the garbage collector and
\* the informers progress on their own; users and load balancers need not.
Fairness ==
    /\ WF_vars(Reconcile)
    /\ WF_vars(GraceExpires)
    /\ WF_vars(DataPlaneBecomesReady)
    /\ WF_vars(ServiceProgress)
    /\ WF_vars(ControlPlaneBecomesReady)
    /\ WF_vars(ControlPlaneRollout)
    /\ WF_vars(ControlPlaneFinalized)
    /\ WF_vars(CollectGarbage)
    /\ WF_vars(SyncGateway)
    /\ \A f \in GwFamilies : WF_vars(SyncChildren(f))
    /\ WF_vars(ResyncGateway)

Spec == Init /\ [][Next]_vars /\ Fairness

(***************************************************************************)
(* Properties                                                              *)
(***************************************************************************)

\* The Gateway seen as an owner of three token-guarded families.
Teardown == INSTANCE FinalizerTeardown
    WITH Order    <- TeardownOrder,
         alive    <- gw.exists,
         deleting <- gw.deletion # "None" \/ ~gw.exists,
         tokens   <- {f \in GwFamilies : TokenOf[f] \in gw.finalizers},
         kids     <- objs

\* The Gateway reconciler implements the finalizer lifecycle: it creates
\* children only under all three tokens and never once deleted, and
\* patches a family's token out (lines 111-120, 139-148, 165-174) only
\* when that family and the earlier ones are gone and earlier tokens are
\* out; the Gateway goes with its last token.
TeardownRefined == Teardown!Spec

TypeOK ==
    /\ gw \in GatewayRec /\ gwView \in GatewayRec
    /\ objs \in [GwFamilies -> SUBSET Ids] /\ view \in [GwFamilies -> SUBSET Ids]
    /\ created \in [GwFamilies -> 0..MaxCreates]
    /\ dpReady \subseteq Ids /\ dpOutdated \subseteq Ids
    /\ svc \in [Ids -> SvcStates]
    /\ cpRef \in [Ids -> Ids \cup {NoId}]
    /\ cpReadyFor \in [Ids -> Ids \cup {NoId}]
    /\ cpDeleting \subseteq objs["ControlPlane"]
    /\ npSel \in [Ids -> (Ids \cup {NoId}) \X (Ids \cup {NoId})]
    /\ disturb \in 0..MaxDisturb
    /\ queued \in BOOLEAN
    /\ gwc \in Classes /\ gwConfig \in BOOLEAN

\* The teardown (lines 96-175) removes a family's finalizer token only when
\* that family and every earlier one are gone from the store, so the
\* Gateway cannot disappear while it still owns children.
TokensGuardChildren ==
    gw.exists /\ gw.deletion # "None" =>
        \A i \in 1..3 :
            TokenOf[TeardownOrder[i]] \notin gw.finalizers =>
                \A j \in 1..i : objs[TeardownOrder[j]] = {}

\* While the Gateway is being torn down (lines 96-175), a ControlPlane is
\* deleted only once no DataPlane is left, and a NetworkPolicy only once
\* no DataPlane or ControlPlane is left.
TeardownOrdered ==
    [][gw.exists /\ gw.deletion # "None" =>
          /\ cpDeleting' \ cpDeleting # {} => objs["DataPlane"] = {}
          /\ objs["NetworkPolicy"] \ objs'["NetworkPolicy"] # {} =>
                 objs["DataPlane"] \cup objs["ControlPlane"] = {}]_vars

\* The create-when-none-listed steps (lines 362-387, 475-491, utils 219)
\* never give a Gateway two objects of one family.
AtMostOneChild == \A f \in GwFamilies : Cardinality(objs[f]) <= 1

\* A Programmed Gateway (lines 326-332) carries its Service's ClusterIP
\* among its addresses.
ProgrammedHasAddress == IsProgrammed(gw.conds) => "cluster" \in gw.addresses

\* One DataPlane, one live ControlPlane naming it, one NetworkPolicy
\* selecting both, and a Programmed Gateway showing the Service's addresses.
Settled ==
    \E d \in objs["DataPlane"], c \in objs["ControlPlane"],
       n \in objs["NetworkPolicy"] :
        /\ objs["DataPlane"] = {d} /\ objs["ControlPlane"] = {c}
        /\ objs["NetworkPolicy"] = {n}
        /\ c \notin cpDeleting /\ cpRef[c] = d
        /\ npSel[n] = <<d, c>>
        /\ IsProgrammed(gw.conds)
        /\ gw.addresses = AddressesOf(svc[d])

\* A Gateway that is not being deleted, whose class this operator serves
\* and whose class names a GatewayConfiguration that exists or none at all
\* (spec 4.5 step 6: then the defaults apply),
\* ends up provisioned and Programmed, and stays so, however the passes of
\* Reconcile interleave with its children's controllers and with edits of
\* the class and its GatewayConfiguration.
GatewayConverges ==
    <>[](/\ gw.exists /\ gw.deletion = "None" /\ ClassServed
         /\ gwc.params # "invalid" /\ (gwc.params = "valid" => gwConfig)
         => Settled)

\* A deleted Gateway's teardown (lines 86-180) finishes and it goes.
DeletionCompletes == gw.deletion # "None" ~> ~gw.exists
=============================================================================
