-------------------------- MODULE MCRequestWorkflow --------------------------
(***************************************************************************)
(* Small organizations for RequestWorkflow: a tree of two departments, an   *)
(* applicant (taro), his department's manager (mana) and a head (hana) of   *)
(* the department above.                                                    *)
(***************************************************************************)
EXTENDS RequestWorkflow, TLC

CONSTANTS taro, mana, hana, head, dev, r1, r2

MCUsers == {taro, mana, hana}
MCDepts == {head, dev}

TwoLevels(grants) ==
  [active  |-> MCUsers,
   dept    |-> (taro :> dev @@ mana :> dev @@ hana :> head),
   parent  |-> (head :> NoDept @@ dev :> head),
   manager |-> (head :> hana @@ dev :> mana),
   grants  |-> grants]

(* Everybody may approve something, the applicant his own data only.        *)
Busy ==
  {TwoLevels(taro :> {"self"} @@ mana :> {"self", "department"} @@ hana :> {"location"})}

(* From an organization where only the applicant may approve anything to    *)
(* one where both superiors may approve his requests.                       *)
SomeGrants ==
  {TwoLevels(taro :> t @@ mana :> m @@ hana :> h) :
     t \in {{}, {"org"}}, m \in {{}, {"self", "department"}}, h \in {{"self"}, {"location"}}}

Route(type, steps, policy, self) ==
  [appliesTo |-> type, steps |-> steps, onNoApprover |-> policy, allowSelf |-> self]

Step(n, type, ref) == [step |-> n, approverType |-> type, ref |-> ref]

ManagerScopeHead == <<Step(1, "department_manager", NoUser), Step(2, "scope", NoUser),
                      Step(3, "user", hana)>>
ScopeThenScope == <<Step(1, "scope", NoUser), Step(2, "scope", NoUser)>>
ScopeThenHead == <<Step(1, "scope", NoUser), Step(2, "user", hana)>>

ThreeSteps == {Route("all", ManagerScopeHead, "auto_approve", FALSE)}
TwoScopes == {Route("all", ScopeThenScope, "auto_approve", FALSE)}
TwoSteps == {Route("all", ScopeThenHead, "auto_approve", FALSE)}

(* A route of the request's own type that may replace the general one.      *)
OwnRoute == {Route("punch_fix", ScopeThenHead, "block", FALSE)}

HeadRetires ==
  {[user |-> hana, active |-> FALSE, dept |-> head, grants |-> {"location"}]}

TaroFiles == [r \in Requests |-> taro]
AllPunchFix == [r \in Requests |-> "punch_fix"]

CallSymmetry == Permutations(Calls)
=============================================================================
