--------------------------- MODULE MCApprovalsPage ---------------------------
(***************************************************************************)
(* Two requests of one member, his manager's page and the administrator's,  *)
(* who works on the routes before the first request is filed.               *)
(***************************************************************************)
EXTENDS ApprovalsPage, MCRequestWorkflow

CONSTANTS p1, p2

(* Nobody but the manager may approve anything.                             *)
ManagerOnly ==
  {TwoLevels(taro :> {} @@ mana :> {"self", "department"} @@ hana :> {})}

(* Routes are edited before the first request is filed, and saved with a     *)
(* member chosen for every step.                                            *)
RoutesFirst ==
  /\ form' # EmptyForm \/ routes' # routes => \A r \in Requests : status'[r] = "none"
  /\ \A o \in routes' \ routes : \A i \in DOMAIN o.steps : o.steps[i].ref # NoUser

MCSpec == PageInit /\ [][PageNext /\ RoutesFirst]_pageVars

Symmetry == Permutations(Presses) \cup Permutations(Requests)
=============================================================================
