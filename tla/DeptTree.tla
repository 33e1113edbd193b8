------------------------------ MODULE DeptTree ------------------------------
(***************************************************************************)
(* accessibleDeptIds of rbac/rbac.service.ts: from the department of a user *)
(* whose scope is department or location, walk the tree downwards with a    *)
(* stack and a set of the departments seen. departments.update refuses only *)
(* a department as its own parent, so `parent` may hold longer cycles.      *)
(*                                                                          *)
(* The stack is kept as a set: the order in which departments come off it   *)
(* is the order of an unordered query, and a second copy of a department    *)
(* is skipped by the test of `seen`.                                        *)
(***************************************************************************)
EXTENDS Directory

VARIABLES parent,   \* department.parent_id, as read by the walk's one query
          root,     \* the actor's department
          stack,    \* departments still to be looked at
          seen      \* the result so far

vars == <<parent, root, stack, seen>>

Children(d) == {c \in Depts : parent[c] = d}

Init ==
  /\ parent \in [Depts -> Depts \cup {NoDept}]
  /\ root \in Depts
  /\ stack = {root}
  /\ seen = {}

(* mutants: departments seen are expanded again; only the direct children   *)
(* of the root are reached                                                  *)
VisitAgain(d) ==
  /\ seen' = seen \cup {d}
  /\ stack' = (stack \ {d}) \cup Children(d)
  /\ UNCHANGED <<parent, root>>

VisitOneLevel(d) ==
  /\ seen' = seen \cup {d}
  /\ stack' = (stack \ {d}) \cup (IF d = root /\ d \notin seen THEN Children(d) ELSE {})
  /\ UNCHANGED <<parent, root>>

Visit(d) ==
  /\ seen' = seen \cup {d}
  /\ stack' = (stack \ {d}) \cup (IF d \in seen THEN {} ELSE Children(d))
  /\ UNCHANGED <<parent, root>>

Next == \E d \in stack : Visit(d)

Spec == Init /\ [][Next]_vars /\ WF_vars(Next)

-----------------------------------------------------------------------------

TypeOK ==
  /\ parent \in [Depts -> Depts \cup {NoDept}]
  /\ root \in Depts
  /\ stack \subseteq Depts
  /\ seen \subseteq Depts

(* When the walk ends it has the department and all its descendants, and    *)
(* nothing else, whatever cycles the table holds: what Directory, and every *)
(* permission check with it, takes it to compute.                           *)
WalkFindsSubtree == stack = {} => seen = Subtree(parent, root)

(* The walk ends, on a cyclic table too (the request would hang otherwise). *)
WalkEnds == stack # {} ~> stack = {}
=============================================================================
