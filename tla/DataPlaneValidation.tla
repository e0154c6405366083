------------------------- MODULE DataPlaneValidation -------------------------
(***************************************************************************)
(* The DataPlane DB-mode check of internal/validation/dataplane and the    *)
(* admission handler of internal/admission/server.go that answers for it.  *)
(*                                                                         *)
(* A DataPlane's env is a sequence of entries.  An entry sets              *)
(* KONG_DATABASE or another variable, by a literal value or from a key of  *)
(* a ConfigMap or a Secret; the ConfigMaps and Secrets are fixed tables,   *)
(* and a reference to one that is not there makes the Get fail.            *)
(*                                                                         *)
(* The DataPlane is created, updated and deleted through the API server,   *)
(* which asks the webhook first.  The validator's own fold is compared     *)
(* with a declarative reading of it, and what is admitted with what the    *)
(* proxy container would see under Kubernetes' rule that the last entry of *)
(* a name wins and a Secret key yields its bytes.                          *)
(***************************************************************************)
EXTENDS Naturals, Sequences, SequencesExt

CONSTANT MaxEnv     \* bound on the length of a DataPlane's env

ASSUME MaxEnv \in Nat

\* consts.EnvVarKongDatabase
KongDatabase == "KONG_DATABASE"

ConfigMapData == [cmOff |-> "off", cmPostgres |-> "postgres", cmEmpty |-> ""]

\* The bytes of each Secret's key, as a client reads them.
SecretData == [secOff |-> "off", secEncodedOff |-> "b2Zm",
               secPostgres |-> "postgres", secCassandra |-> "cassandra"]

\* Standard base64 decoding of the Secret values above: "b2Zm" encodes
\* "off"; "postgres" is eight base64 characters and decodes to six bytes
\* that name no mode ("junk"); "off" and "cassandra" have lengths not
\* divisible by four and fail to decode.
Base64Decoded == [s \in {"b2Zm", "postgres"} |->
                     IF s = "b2Zm" THEN "off" ELSE "junk"]

EnvVar(name, value, from, ref) ==
    [name |-> name, value |-> value, from |-> from, ref |-> ref]

EnvVars ==
    {EnvVar("OTHER", "", "none", "none")}
    \cup {EnvVar(KongDatabase, v, "none", "none") : v \in {"", "off", "postgres"}}
    \cup {EnvVar(KongDatabase, "", "configMap", r) :
            r \in DOMAIN ConfigMapData \cup {"cmGone"}}
    \cup {EnvVar(KongDatabase, "", "secret", r) :
            r \in DOMAIN SecretData \cup {"secGone"}}

Envs == BoundedSeq(EnvVars, MaxEnv)

\* What one entry contributes: a mode, nothing (""), or a failed Get.
Found(mode) == [mode |-> mode, err |-> FALSE]
NoChange == Found("")
GetFailed == [mode |-> "", err |-> TRUE]

\* validation.go 39-75: the value if non-empty, else the ConfigMap key if
\* non-empty, else the Secret key if non-empty and it decodes; a missing
\* ConfigMap or Secret fails the Get.
Resolve(e) ==
    CASE e.name # KongDatabase -> NoChange
      [] e.value # ""          -> Found(e.value)
      [] e.from = "configMap"  ->
            IF e.ref \notin DOMAIN ConfigMapData THEN GetFailed
            ELSE Found(ConfigMapData[e.ref])
      [] e.from = "secret"     ->
            IF e.ref \notin DOMAIN SecretData THEN GetFailed
            ELSE IF SecretData[e.ref] # ""
                    /\ SecretData[e.ref] \in DOMAIN Base64Decoded
                 THEN Found(Base64Decoded[SecretData[e.ref]])
                 ELSE NoChange
      [] OTHER                 -> NoChange

\* Mutant: the first entry that sets a mode wins.
StepFirstWins(acc, e) ==
    LET r == Resolve(e) IN
    CASE acc.err           -> acc
      [] r.err             -> GetFailed
      [] acc.mode # ""     -> acc
      [] r.mode # ""       -> [acc EXCEPT !.mode = r.mode]
      [] OTHER             -> acc

\* One iteration of the loop of validation.go 38-77: a failed Get returns
\* at once; an entry that yields a mode replaces the mode so far.
Step(acc, e) ==
    LET r == Resolve(e) IN
    CASE acc.err           -> acc
      [] r.err             -> GetFailed
      [] r.mode # ""       -> [acc EXCEPT !.mode = r.mode]
      [] OTHER             -> acc

DBMode(env) == FoldLeft(Step, NoChange, env)

\* ValidateDeployOptions (validation.go 31-86) through Validate (24-30):
\* only an unset mode or "off" is accepted.
ValidateDataPlane(env) ==
    LET r == DBMode(env) IN ~r.err /\ r.mode \in {"", "off"}

VARIABLES
    dataplane,  \* the stored DataPlane: whether it exists, and its env
    request,    \* the env of the last request the webhook answered
    verdict     \* the webhook's last answer

vars == <<dataplane, request, verdict>>

\* The resource the webhook's switch matches DataPlane requests against
\* (dataPlaneGVResource, server.go 100-104), and the one the API server
\* puts in an AdmissionRequest for a DataPlane: the resource's plural
\* name, the form the ControlPlane case of the same switch uses
\* ("controlplanes", lines 95-99).
DataPlaneGVResource == "dataplane"
DataPlaneRequestResource == "dataplanes"

\* handleValidation (server.go 107-154) for a Create or an Update: a
\* request whose resource matches no case is allowed as it is; one that
\* matches the DataPlane case is validated.  The API server stores the
\* object only if allowed.
HandleValidation(resource, env) ==
    resource = DataPlaneGVResource => ValidateDataPlane(env)

Admit(env) ==
    LET ok == HandleValidation(DataPlaneRequestResource, env) IN
    /\ request' = env
    /\ verdict' = IF ok THEN "allowed" ELSE "denied"
    /\ dataplane' = IF ok THEN [exists |-> TRUE, env |-> env] ELSE dataplane

CreateDataPlane ==
    /\ ~dataplane.exists
    /\ \E env \in Envs : Admit(env)

UpdateDataPlane ==
    /\ dataplane.exists
    /\ \E env \in Envs : Admit(env)

\* Other operations are allowed without validation.
DeleteDataPlane ==
    /\ dataplane.exists
    /\ dataplane' = [exists |-> FALSE, env |-> <<>>]
    /\ verdict' = "allowed"
    /\ UNCHANGED request

Init ==
    /\ dataplane = [exists |-> FALSE, env |-> <<>>]
    /\ request = <<>>
    /\ verdict = "none"

Next == CreateDataPlane \/ UpdateDataPlane \/ DeleteDataPlane

Spec == Init /\ [][Next]_vars

(***************************************************************************)
(* Properties                                                              *)
(***************************************************************************)

\* The value the proxy container sees for KONG_DATABASE: that of the last
\* entry of the name; a Secret key yields its bytes; a missing ConfigMap or
\* Secret keeps the pod from starting.
LastKongDatabase(env) ==
    LET is == {i \in DOMAIN env : env[i].name = KongDatabase} IN
    IF is = {} THEN "" ELSE
    LET e == env[Max(is)] IN
    CASE e.value # ""         -> e.value
      [] e.from = "configMap" -> IF e.ref \in DOMAIN ConfigMapData
                                    THEN ConfigMapData[e.ref] ELSE "podFails"
      [] e.from = "secret"    -> IF e.ref \in DOMAIN SecretData
                                    THEN SecretData[e.ref] ELSE "podFails"
      [] OTHER                -> ""

\* Database backends a Kong proxy can be pointed at.
DatabaseModes == {"postgres", "cassandra"}

\* The validator accepts no env with which the proxy would run against a
\* database backend, as its check "only support dbless mode"
\* (validation.go 82-85) intends: checked on every request the API
\* server sends.
ValidatorAcceptsOnlyDBLess ==
    ValidateDataPlane(request) => LastKongDatabase(request) \notin DatabaseModes

\* A DataPlane the webhook admitted (server.go 107-154) never runs its
\* proxy with a database backend.
AdmittedDataPlaneIsDBLess ==
    dataplane.exists => LastKongDatabase(dataplane.env) \notin DatabaseModes
=============================================================================
