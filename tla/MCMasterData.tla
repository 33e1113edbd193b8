---------------------------- MODULE MCMasterData ----------------------------
(***************************************************************************)
(* The demo organization of seed.ts or an empty one, and requests that move, *)
(* assign and remove what others refer to.                                  *)
(***************************************************************************)
EXTENDS MasterData, TLC

CONSTANTS ops, alt, extra, mina, csv

MCUsers == {taro, jiro, hana, mina}
MCDepts == {hq, dev, ops}
MCScope == (taro :> "location" @@ jiro :> "department" @@ hana :> "org" @@ mina :> "department")

In(op, id, ref) == [op |-> op, id |-> id, ref |-> ref, span |-> <<0, 0>>]
Assign(u, p, from, to) == [op |-> "user.assignWorkPattern", id |-> u, ref |-> p, span |-> <<from, to>>]

MCInputs ==
  { In("setup", NoUser, NoDept),
    In("department.create", ops, dev), In("department.update", hq, dev),
    In("department.delete", ops, NoDept), In("department.delete", dev, NoDept),
    In("member.create", mina, ops), In("member.create", mina, hq),
    In("member.update", hana, ops),
    In("workPattern.create", alt, NoDept), In("workRule.set", alt, NoDept),
    In("workPattern.update", alt, NoDept),
    In("workPattern.delete", alt, NoDept), In("workPattern.delete", std, NoDept),
    Assign(hana, std, 0, 1), Assign(mina, std, 1, 5), Assign(mina, std, 5, 9),
    In("leaveType.create", extra, NoDept), In("leaveType.delete", comp, NoDept),
    In("leaveBalance.grant", hana, comp), In("leaveType.update", comp, NoDept),
    In("request.create", hana, comp), In("organization.update", NoUser, NoDept),
    In("csvMapping.create", csv, NoDept), In("csvMapping.update", csv, NoDept),
    In("csvMapping.delete", csv, NoDept),
    In("shift", hana, jiro), In("shift", jiro, taro), In("shift", taro, hana) }
=============================================================================
