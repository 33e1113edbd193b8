--------------------------- MODULE MCDecisionMail ---------------------------
(***************************************************************************)
(* The balances and requests of MCLeaveLedger with their notifications. Only *)
(* the first request is tried a second time.                                *)
(***************************************************************************)
EXTENDS DecisionMail, MCLeaveLedger

OthersOnce == \A r \in Requests \ {r1} : started[r] <= 1

MCSpec == MailInit /\ [][MailNext /\ OthersOnce']_mailVars /\ MailFairness
=============================================================================
