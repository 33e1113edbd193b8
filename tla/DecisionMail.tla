---------------------------- MODULE DecisionMail ----------------------------
(***************************************************************************)
(* What the applicant hears of a final approval: the notification written   *)
(* at the end of recordDecision's transaction (approvals.service.ts,        *)
(* notifications.service.ts), the job that asks for a mail                  *)
(* (jobs.service.ts) and the worker process that sends it (worker.ts,       *)
(* mail.service.ts).                                                        *)
(*                                                                          *)
(* LeaveLedger's Commit is split here: the row belongs to the transaction,  *)
(* the job does not. pg-boss has its own connections to the database, so    *)
(* the job is there for every worker before the decision is committed, and  *)
(* stays when the decision is rolled back.                                  *)
(***************************************************************************)
EXTENDS LeaveLedger, Sequences, SequencesExt

CONSTANT Followed  \* bound: requests whose jobs a worker gets to

ASSUME MailAssumption == Followed \subseteq Requests

VARIABLES notices, \* notifications by request: the row, its job; oldest first
          decided  \* history: committed final approvals by request

mailVars == <<vars, notices, decided>>

MailInit ==
  /\ Init
  /\ notices = [r \in Requests |-> <<>>]
  /\ decided = [r \in Requests |-> 0]

(* A transaction holds the lock of its request, so that the row not yet     *)
(* committed is its own.                                                    *)
HasRow(r) == notices[r] # <<>> /\ Last(notices[r]).row = "uncommitted"

SetLast(r, field, value) == [notices EXCEPT ![r][Len(notices[r])][field] = value]

-----------------------------------------------------------------------------
(* The end of the transaction                                               *)

(* notification.create                                                      *)
CreateNotice(c) ==
  LET r == tx[c].req IN
  /\ Done(c) /\ ~HasRow(r)
  /\ notices' = [notices EXCEPT ![r] = Append(@, [row |-> "uncommitted", job |-> "none"])]
  /\ UNCHANGED <<vars, decided>>

(* mutant: nothing is put in the queue                                      *)
EnqueueNothing(c) ==
  LET r == tx[c].req IN
  /\ Done(c) /\ HasRow(r) /\ Last(notices[r]).job = "none"
  /\ notices' = SetLast(r, "job", "dropped")
  /\ UNCHANGED <<vars, decided>>

(* boss.send, committed on a connection of its own. A failure of it fails   *)
(* the transaction (RollbackDecision).                                      *)
Enqueue(c) ==
  LET r == tx[c].req IN
  /\ Done(c) /\ HasRow(r) /\ Last(notices[r]).job = "none"
  /\ notices' = SetLast(r, "job", "queued")
  /\ UNCHANGED <<vars, decided>>

(* mutant: the row is committed with the decision but stays when it is not  *)
RollbackKeepingRow(c) ==
  LET r == tx[c].req IN
  /\ Rollback(c)
  /\ notices' = IF Done(c) /\ HasRow(r) THEN SetLast(r, "row", "stored") ELSE notices
  /\ UNCHANGED decided

CommitDecision(c) ==
  LET r == tx[c].req IN
  /\ Commit(c)
  /\ HasRow(r) /\ Last(notices[r]).job # "none"
  /\ notices' = SetLast(r, "row", "stored")
  /\ decided' = [decided EXCEPT ![r] = @ + 1]

(* The row goes with the transaction, the job stays.                        *)
RollbackDecision(c) ==
  LET r == tx[c].req IN
  /\ Rollback(c)
  /\ notices' = IF Done(c) /\ HasRow(r) THEN SetLast(r, "row", "undone") ELSE notices
  /\ UNCHANGED decided

-----------------------------------------------------------------------------
(* The worker                                                               *)

Finish(r, i, how) ==
  /\ r \in Followed
  /\ notices[r][i].job = "queued"
  /\ notices' = [notices EXCEPT ![r][i].job = how]
  /\ UNCHANGED <<vars, decided>>

Deliver(r, i) == Finish(r, i, "mailed")

(* The mail server refuses or the worker is lost: a job is not tried again. *)
GiveUp(r, i) == MayFail /\ Finish(r, i, "failed")

-----------------------------------------------------------------------------
Decide(c) ==
  \/ /\ WriteDecision(c) \/ ReadBalances(c) \/ SkipRow(c) \/ TakeFromRow(c)
     /\ UNCHANGED <<notices, decided>>
  \/ CreateNotice(c) \/ Enqueue(c) \/ CommitDecision(c)

Work(r) == \E i \in DOMAIN notices[r] : Deliver(r, i) \/ GiveUp(r, i)

MailNext ==
  \/ /\ \/ \E c \in Calls, r \in Requests : StartApproval(c, r)
        \/ \E b \in Rows, n \in GrantOptions : Grant(b, n)
     /\ UNCHANGED <<notices, decided>>
  \/ \E c \in Calls : Decide(c) \/ RollbackDecision(c)
  \/ \E r \in Requests : Work(r)

(* With the worker service of compose.yaml running.                         *)
MailFairness ==
  /\ \A c \in Calls : WF_mailVars(Decide(c))
  /\ \A r \in Followed : WF_mailVars(Work(r))

MailSpec == MailInit /\ [][MailNext]_mailVars /\ MailFairness

-----------------------------------------------------------------------------
(* Properties                                                               *)

Stored(r) == {i \in DOMAIN notices[r] : notices[r][i].row = "stored"}

(* The applicant finds one notification for each final approval that was    *)
(* committed, none for one that was rolled back, although the service that  *)
(* writes it does not know of the transaction it is called in.              *)
OneNoticeEach == \A r \in Requests : Cardinality(Stored(r)) = decided[r]

HasNotice(r, i) == i \in DOMAIN notices[r] /\ notices[r][i].row = "stored"
HasMail(r, i) == i \in DOMAIN notices[r] /\ notices[r][i].job \in {"mailed", "failed"}

(* The mail of a committed approval is sent or given up by the worker, also *)
(* when a rolled back approval of the same request left its job behind.     *)
MailFollows ==
  \A r \in Followed, i \in 1..MaxDecisions : HasNotice(r, i) ~> HasMail(r, i)
=============================================================================
