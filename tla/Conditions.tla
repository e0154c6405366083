----------------------------- MODULE Conditions -----------------------------
(***************************************************************************)
(* The condition model of internal/utils/kubernetes/status.go, shared by   *)
(* the ControlPlane and the Gateway reconcilers.                           *)
(*                                                                         *)
(* The conditions of a resource are a function from every condition type  *)
(* to either NoCondition or a record [status, reason].  The message of a   *)
(* condition is fixed by its reason in this code, so it is folded into the *)
(* reason; lastTransitionTime and observedGeneration are left out because  *)
(* no function here compares them.  The order of the Go slice is not      *)
(* represented: SetCondition keeps at most one entry per type, and none of *)
(* the functions below depends on the order.                              *)
(***************************************************************************)
EXTENDS FiniteSets

\* The condition types the reconcilers set (status.go, gateway_controller.go).
CondTypes == {"Scheduled", "Accepted", "Provisioned", "Ready", "Programmed",
              "DataPlaneReady", "ControlPlaneReady", "GatewayService"}

\* An absent condition, as a record so that it compares with present ones.
NoCondition == [status |-> "Absent", reason |-> "None"]

Cond(status, reason) == [status |-> status, reason |-> reason]

Reasons == {"Scheduled", "NoDataplane", "PodsNotReady", "PodsReady",
            "DependenciesNotReady", "Ready", "Pending", "Programmed",
            "ResourceCreatedOrUpdated", "UnableToProvision",
            "WaitingToBecomeReady", "GatewayServiceError", "Accepted"}

ConditionsType == [CondTypes -> [status: {"True", "False"}, reason: Reasons]
                                \cup {NoCondition}]

\* SetCondition: drop any entry of the same type, then append the new one.
SetCondition(conds, type, c) == [conds EXCEPT ![type] = c]

\* IsValidCondition: the condition is present and its status is True.
IsValidCondition(conds, type) ==
    conds[type] # NoCondition /\ conds[type].status = "True"

IsReady(conds) == IsValidCondition(conds, "Ready")

IsProgrammed(conds) == IsValidCondition(conds, "Programmed")

\* Mutant: Ready seeded with status Unknown.
InitReadyUnknown(conds) ==
    SetCondition(conds, "Ready", Cond("Unknown", "DependenciesNotReady"))

\* InitReady and InitProgrammed overwrite the condition with False.
InitReady(conds) ==
    SetCondition(conds, "Ready", Cond("False", "DependenciesNotReady"))

InitProgrammed(conds) ==
    SetCondition(conds, "Programmed", Cond("False", "Pending"))

\* areAllConditionsHaveTrueStatus: every present condition other than
\* Programmed and Ready is True.
AllConditionsTrue(conds) ==
    \A t \in CondTypes \ {"Programmed", "Ready"} :
        conds[t] # NoCondition => conds[t].status = "True"

\* SetReady and SetProgrammed aggregate the other conditions.
SetReady(conds) ==
    SetCondition(conds, "Ready",
        IF AllConditionsTrue(conds) THEN Cond("True", "Ready")
                                    ELSE Cond("False", "DependenciesNotReady"))

SetProgrammed(conds) ==
    SetCondition(conds, "Programmed",
        IF AllConditionsTrue(conds) THEN Cond("True", "Programmed")
                                    ELSE Cond("False", "DependenciesNotReady"))

PresentCount(conds) == Cardinality({t \in CondTypes : conds[t] # NoCondition})

\* NeedsUpdate: the counts differ, or a current condition is missing from
\* the updated set or differs from it in status, reason or message.
NeedsUpdateAlways(current, updated) == TRUE

NeedsUpdate(current, updated) ==
    \/ PresentCount(current) # PresentCount(updated)
    \/ \E t \in CondTypes :
          /\ current[t] # NoCondition
          /\ updated[t] # current[t]

NoConditions == [t \in CondTypes |-> NoCondition]
=============================================================================
