----------------------- MODULE ControlPlaneSpecWriters -----------------------
(***************************************************************************)
(* The two reconcilers that write a Gateway's ControlPlane spec:           *)
(*                                                                         *)
(*  - the Gateway reconciler (provisionControlPlane, gateway_controller.go *)
(*    435-535) merge-patches the container to the GatewayConfiguration's   *)
(*    ControlPlane options, defaulted, whenever the ControlPlane differs   *)
(*    from them other than in CONTROLLER_KONG_ADMIN_URL;                   *)
(*  - the ControlPlane reconciler (controlplane_controller.go 202-218)     *)
(*    applies setControlPlaneDefaults to the ControlPlane and Updates it   *)
(*    when a default changed, stopping the pass.                          *)
(*                                                                         *)
(* The env is a sequence of entries, kept in order because updateEnv      *)
(* moves the entry it sets to the end and the options comparison is a     *)
(* deep equality of lists.  A name stands for the variables set together: *)
(* "pod" for POD_NAMESPACE and POD_NAME (from the pod's metadata), "ctrl" *)
(* for CONTROLLER_GATEWAY_API_CONTROLLER_NAME, "publish" for              *)
(* CONTROLLER_PUBLISH_SERVICE, "adminURL" for CONTROLLER_KONG_ADMIN_URL,  *)
(* "tls" for the three TLS file paths, "other" for a variable the operator *)
(* never sets.  A value is the one defaulting computes or a user's own.   *)
(*                                                                         *)
(* The ControlPlane exists, was created by the Gateway from the           *)
(* configuration in force, and names the Gateway's DataPlane, whose proxy *)
(* Service exists: creation, teardown and the rest of both passes are     *)
(* the subject of GatewayReconciler and ControlPlaneReconciler.           *)
(***************************************************************************)
EXTENDS Naturals, Sequences, SequencesExt

CONSTANTS
    ConfigEnvs,   \* env lists a GatewayConfiguration's ControlPlane options may hold
    StaleReads,   \* TRUE: each reconciler reads the ControlPlane from its cache
    MaxEdits      \* bound on user edits of the configuration and the ControlPlane

Names == {"pod", "ctrl", "publish", "adminURL", "tls", "other"}
Values == {"default", "custom"}
Entry(n, v) == [name |-> n, val |-> v]
NoValue == "none"

\* The env variable the Gateway's comparison ignores (gateway_controller.go 504).
Ignored == {"adminURL"}

VARIABLES
    cp,       \* the ControlPlane in the store: env, and whether the image
              \* and replica count hold their defaults ("image")
    gwView,   \* the ControlPlane as the Gateway reconciler's cache shows it
    cpView,   \* the ControlPlane as the ControlPlane reconciler's cache shows it
    config,   \* the env of the GatewayConfiguration's ControlPlane options
    edits     \* user edits so far

vars == <<cp, gwView, cpView, config, edits>>

(***************************************************************************)
(* Env helpers, controlplane_controller_utils.go 161-224                  *)
(***************************************************************************)

\* envValueByName: the value of the first entry of the name.
EnvValueByName(env, n) ==
    LET i == SelectInSeq(env, LAMBDA e : e.name = n) IN
    IF i = 0 THEN NoValue ELSE env[i].val

\* Mutant: entries kept whatever their name.
RejectNothing(env, ns) == env

\* rejectEnvByName, and the filtering loop of updateEnv and
\* updateEnvSource: the entries whose name is not among ns.
RejectEnvByName(env, ns) == SelectSeq(env, LAMBDA e : e.name \notin ns)

(***************************************************************************)
(* setControlPlaneDefaults, controlplane_controller_utils.go 43-123        *)
(***************************************************************************)

\* Lines 50-90: the pod identity and the controller name "should be always"
\* taken from the pod's metadata and the operator, so no dontOverride
\* entry protects them.
AlwaysDefaulted == {"pod", "ctrl"}

\* The branches that find a value other than the default, in the order
\* the code tries them: POD_NAMESPACE, POD_NAME and the controller name
\* whatever dontOverride says, the publish service only when the
\* DataPlane's Service is known and overriding is not disabled.  No
\* DataPlane pod IP is ever passed, so the admin URL branch (lines
\* 102-110) never applies.
Defaulted(env, dontOverride, serviceKnown) ==
    SelectSeq(<<"pod", "ctrl", "publish">>, LAMBDA n :
        /\ n = "publish" => serviceKnown /\ "publish" \notin dontOverride
        /\ EnvValueByName(env, n) # "default")

\* The names updateEnv rewrites: those, then the TLS paths unless
\* overriding is disabled (lines 112-121).
Rewritten(env, dontOverride, serviceKnown) ==
    Defaulted(env, dontOverride, serviceKnown)
    \o (IF "tls" \in dontOverride THEN <<>> ELSE <<"tls">>)

\* Mutant: rewriting the TLS paths counted as a change.
ChangedByTLS(defaulted, rewritten) == rewritten # <<>>

\* Only the defaulted branches set changed; the TLS rewrite does not.
Changed(defaulted, rewritten) == defaulted # <<>>

\* Successive updateEnv calls on distinct names drop every entry of those
\* names and append them, in the order of the calls, with their defaults.
SetControlPlaneDefaults(env, dontOverride, serviceKnown) ==
    LET ns == Rewritten(env, dontOverride, serviceKnown) IN
    [env     |-> RejectEnvByName(env, Range(ns))
                 \o [i \in DOMAIN ns |-> Entry(ns[i], "default")],
     changed |-> Changed(Defaulted(env, dontOverride, serviceKnown), ns)]

(***************************************************************************)
(* The Gateway's side                                                      *)
(***************************************************************************)

NamesIn(env) == {env[i].name : i \in DOMAIN env}

\* setControlplaneGatewayConfigDefaults: the configuration's options with
\* the DataPlane's Service injected and defaults applied, never over a
\* variable the configuration sets (spec 4.5 step 10, 4.4 step 7).
GatewayDefaults(cfg) == SetControlPlaneDefaults(cfg, NamesIn(cfg), TRUE).env

\* setControlPlaneOptionsDefaults (gateway_controller.go 537-565): the
\* container image and the replica count are defaulted when unset.
SetControlPlaneOptionsDefaults(opts) == [opts EXCEPT !.image = "default"]

\* Lines 494-502: the configuration's options, which set no image or
\* replica count, with those defaulted.
Expected ==
    SetControlPlaneOptionsDefaults([env |-> GatewayDefaults(config),
                                    image |-> "unset"])

\* controlplaneSpecDeepEqual (controlplane_controller_utils.go 267-275):
\* deployment options equal once the ignored variables are filtered out.
SpecDeepEqual(s1, s2) ==
    /\ RejectEnvByName(s1.env, Ignored) = RejectEnvByName(s2.env, Ignored)
    /\ s1.image = s2.image

\* Every write refreshes a cache that reads the store.
Caches ==
    IF StaleReads THEN UNCHANGED <<gwView, cpView>>
                  ELSE gwView' = cp' /\ cpView' = cp'

\* Lines 492-521: a ControlPlane that differs is merge-patched.  The patch
\* carries the whole container list, so the env and the image in the store
\* become the expected ones, an admin URL set since included.
GatewayPatchControlPlane ==
    /\ ~SpecDeepEqual(gwView, Expected)
    /\ cp' = Expected
    /\ Caches
    /\ UNCHANGED <<config, edits>>

(***************************************************************************)
(* The ControlPlane's side, controlplane_controller.go 202-218            *)
(***************************************************************************)

\* The call passes no dontOverride, and the DataPlane's Service is known.
ControlPlaneDefaults(env) == SetControlPlaneDefaults(env, {}, TRUE)

\* Update carries the cached resourceVersion.
UpToDate == cpView = cp

ControlPlaneSetDefaults ==
    /\ ControlPlaneDefaults(cpView.env).changed
    /\ \/ /\ UpToDate
          /\ cp' = [cpView EXCEPT !.env = ControlPlaneDefaults(cpView.env).env]
          /\ Caches
       \* A conflict requeues the pass without writing.
       \/ /\ ~UpToDate
          /\ UNCHANGED <<cp, gwView, cpView>>
    /\ UNCHANGED <<config, edits>>

(***************************************************************************)
(* Users and informers                                                     *)
(***************************************************************************)

EditConfiguration ==
    /\ edits < MaxEdits
    /\ \E c \in ConfigEnvs \ {config} : config' = c
    /\ edits' = edits + 1
    /\ UNCHANGED <<cp, gwView, cpView>>

\* A user sets a variable on the ControlPlane itself.
EditControlPlane ==
    /\ edits < MaxEdits
    /\ \E n \in Names :
          /\ EnvValueByName(cp.env, n) # "custom"
          /\ cp' = [cp EXCEPT !.env = Append(RejectEnvByName(@, {n}),
                                               Entry(n, "custom"))]
    /\ edits' = edits + 1
    /\ Caches
    /\ UNCHANGED config

SyncGateway ==
    /\ gwView # cp
    /\ gwView' = cp
    /\ UNCHANGED <<cp, cpView, config, edits>>

SyncControlPlane ==
    /\ cpView # cp
    /\ cpView' = cp
    /\ UNCHANGED <<cp, gwView, config, edits>>

\* Both reconcilers find nothing to write.
Quiescent ==
    /\ SpecDeepEqual(gwView, Expected)
    /\ ~ControlPlaneDefaults(cpView.env).changed
    /\ gwView = cp /\ cpView = cp

Finished == Quiescent /\ UNCHANGED vars

Next ==
    \/ GatewayPatchControlPlane
    \/ ControlPlaneSetDefaults
    \/ EditConfiguration
    \/ EditControlPlane
    \/ SyncGateway
    \/ SyncControlPlane
    \/ Finished

(***************************************************************************)
(* Specification                                                           *)
(***************************************************************************)

\* createControlPlane (utils 47-72) copies the defaulted configuration's
\* options; the image default is applied only to the copy compared later.
Init ==
    /\ config \in ConfigEnvs
    /\ cp = [env |-> GatewayDefaults(config), image |-> "unset"]
    /\ gwView = cp
    /\ cpView = cp
    /\ edits = 0

\* Both reconcilers watch the ControlPlane (the Gateway owns it) and the
\* informers keep delivering; users are not fair.
Fairness ==
    /\ WF_vars(GatewayPatchControlPlane)
    /\ WF_vars(ControlPlaneSetDefaults)
    /\ WF_vars(SyncGateway)
    /\ WF_vars(SyncControlPlane)

Spec == Init /\ [][Next]_vars /\ Fairness

(***************************************************************************)
(* Properties                                                              *)
(***************************************************************************)

EnvType == {e \in Seq([name : Names, val : Values]) :
              \A i, j \in DOMAIN e : e[i].name = e[j].name => i = j}

\* Every env the two reconcilers and the users write holds each variable at
\* most once, as updateEnv and rejectEnvByName keep it.
TypeOK ==
    /\ \A s \in {cp, gwView, cpView} :
          s \in [env : EnvType, image : {"unset", "default"}]
    /\ config \in ConfigEnvs
    /\ edits \in 0..MaxEdits

\* The two reconcilers stop rewriting the ControlPlane: the Gateway's
\* patch and the ControlPlane's defaulting do not undo each other forever
\* (spec 4.5 step 10).
SpecConverges == <>[]Quiescent
=============================================================================
