-------------------------- MODULE FinalizerTeardown --------------------------
(***************************************************************************)
(* What the finalizer lifecycle promises (spec 4.3), for an owner whose    *)
(* children come in families torn down in a fixed order, each family      *)
(* guarded by a finalizer token on the owner.                             *)
(*                                                                         *)
(* Children are created only while the owner lives, is not being deleted  *)
(* and holds every token.  Once it is being deleted, the token of the      *)
(* i-th family goes only when that family and every earlier one have no   *)
(* children and the earlier tokens are gone; the owner goes with its last *)
(* token.  Children may disappear at any time, by whoever deletes them.   *)
(*                                                                         *)
(* The grace period, conditions and everything else about the owner are   *)
(* invisible here: the reconcilers' steps on them are stutters.           *)
(***************************************************************************)
EXTENDS Naturals

CONSTANTS
    Order,  \* the families, in teardown order
    Ids     \* child identities

Fams == {Order[i] : i \in DOMAIN Order}

VARIABLES
    alive,      \* the owner exists
    deleting,   \* the owner has been deleted (it may still exist)
    tokens,     \* families whose finalizer token the owner holds
    kids        \* kids[f]: the live children of family f

vars == <<alive, deleting, tokens, kids>>

Init ==
    /\ alive = TRUE
    /\ deleting = FALSE
    /\ tokens = {}
    /\ kids = [f \in Fams |-> {}]

AddTokens ==
    /\ alive /\ ~deleting
    /\ tokens # Fams
    /\ tokens' = Fams
    /\ UNCHANGED <<alive, deleting, kids>>

Create(f, i) ==
    /\ alive /\ ~deleting
    /\ tokens = Fams
    /\ i \notin kids[f]
    /\ kids' = [kids EXCEPT ![f] = @ \cup {i}]
    /\ UNCHANGED <<alive, deleting, tokens>>

\* Some children of some families are deleted.
Shrink ==
    /\ kids' # kids
    /\ \A f \in Fams : kids'[f] \subseteq kids[f]
    /\ UNCHANGED <<alive, deleting, tokens>>

\* An owner without tokens goes at once.
StartDelete ==
    /\ alive /\ ~deleting
    /\ deleting' = TRUE
    /\ alive' = (tokens # {})
    /\ UNCHANGED <<tokens, kids>>

RemoveToken(i) ==
    /\ alive /\ deleting
    /\ Order[i] \in tokens
    /\ \A j \in 1..i : kids[Order[j]] = {}
    /\ \A j \in 1..(i - 1) : Order[j] \notin tokens
    /\ tokens' = tokens \ {Order[i]}
    /\ alive' = (tokens' # {})
    /\ UNCHANGED <<deleting, kids>>

Next ==
    \/ AddTokens
    \/ \E f \in Fams, i \in Ids : Create(f, i)
    \/ Shrink
    \/ StartDelete
    \/ \E i \in DOMAIN Order : RemoveToken(i)

Spec == Init /\ [][Next]_vars
=============================================================================
