------------------------ MODULE MCGatewayReconciler ------------------------
(***************************************************************************)
(* Model-checking instances of GatewayReconciler.                          *)
(***************************************************************************)
EXTENDS GatewayReconciler

\* Two creations per family let a child be replaced or duplicated; two
\* disturbances allow an outage and a configuration edit, or a removal.
MCMaxCreates == 2
MCMaxDisturb == 2

\* A class of this operator, accepted, with the given parametersRef.
Served(p) == [exists |-> TRUE, ours |-> TRUE, accepted |-> TRUE, params |-> p]

MCServedClass == {Served("none")}

\* Every outcome of the class check and of the configuration lookup for a
\* class of this controller: no parametersRef, a GatewayConfiguration
\* (there or not), a malformed reference; a class not accepted.
MCOurClasses ==
    {Served("none"), Served("valid"), Served("invalid"),
     [exists |-> TRUE, ours |-> TRUE, accepted |-> FALSE, params |-> "none"]}

\* A served class that may be deleted or handed to another controller.
MCHandoverClasses ==
    {Served("none"),
     [exists |-> FALSE, ours |-> FALSE, accepted |-> FALSE, params |-> "none"],
     [exists |-> TRUE, ours |-> FALSE, accepted |-> TRUE, params |-> "none"]}
=============================================================================
