----------------------------- MODULE CsvExport ------------------------------
(***************************************************************************)
(* The CSV of a month for the payroll (csv.service.ts) and the setting of   *)
(* the organization that allows it for a month not closed                   *)
(* (organization.module.ts), on top of AttendanceClose.                     *)
(*                                                                          *)
(* export is a chain of queries without a transaction: the mapping, the     *)
(* month's status, the setting, the members, then the summaries of one      *)
(* member after another. Punches, corrections, closing and reopening run    *)
(* between any two of them. Columns, encoding and formatting are left out:  *)
(* the file is what the summaries said when they were read.                 *)
(***************************************************************************)
EXTENDS AttendanceClose, Sequences, Functions

CONSTANTS Exports,  \* exports that may be under way at the same time
          Members,  \* the organization's members in order of their codes
          DaysOf    \* DaysOf[m]: the member's days

(* The export lists the users of the organization, and the days the close   *)
(* locks are theirs: both query every user, active or not.                  *)
ASSUME ExportAssumption ==
  /\ Members # <<>> /\ Members \in Seq(Range(Members))
  /\ DaysOf \in [Range(Members) -> SUBSET Days]
  /\ \A d \in Days : \E i \in 1..Len(Members) : d \in DaysOf[Members[i]]

VARIABLE export  \* the exports

csvVars == <<vars, export>>

NoExport == [pc |-> "idle", status |-> "none", next |-> 1,
             file |-> [d \in Days |-> NoSummary],
             basis |-> [d \in Days |-> NoSummary]]

CsvInit ==
  /\ Init
  /\ export = [e \in Exports |-> NoExport]

-----------------------------------------------------------------------------
(* With the default columns or those of a mapping found.                    *)
StartExport(e) ==
  /\ export[e].pc = "idle"
  /\ export' = [export EXCEPT ![e] = [NoExport EXCEPT !.pc = "status"]]
  /\ UNCHANGED vars

Recompute(c) == call[c].pc \in {"sum_records", "sum_upsert"}

(* `basis` is a history: what the close locked, when nothing that overlapped *)
(* it is left.                                                              *)
ReadStatus(e) ==
  LET x == export[e] IN
  /\ x.pc = "status"
  /\ export' = [export EXCEPT ![e] =
       [x EXCEPT !.pc = "setting", !.status = month,
                 !.basis = IF \E c \in Calls : Recompute(c) THEN x.basis
                           ELSE [d \in Days |-> IF summary[d].status = "closed"
                                                  THEN summary[d] ELSE NoSummary]]]
  /\ UNCHANGED vars

(* 409 period_not_closed, unless the organization allows it: a PATCH may    *)
(* have changed the setting at any time.                                    *)
ReadSetting(e) ==
  /\ export[e].pc = "setting"
  /\ \E allowUnclosed \in BOOLEAN :
       export' = [export EXCEPT ![e] =
         IF @.status # "closed" /\ ~allowUnclosed THEN NoExport
         ELSE [@ EXCEPT !.pc = "member", !.status = "none"]]
  /\ UNCHANGED vars

(* monthly: the month's rows of the next member.                            *)
ReadMember(e) ==
  LET x == export[e] IN
  /\ x.pc = "member"
  /\ export' = [export EXCEPT ![e] =
       [x EXCEPT !.pc = IF x.next = Len(Members) THEN "audit" ELSE @,
                 !.next = @ + 1,
                 !.file = [d \in Days |-> IF d \in DaysOf[Members[x.next]]
                                            THEN summary[d] ELSE @[d]]]]
  /\ UNCHANGED vars

(* The file is built, the audit record written and the file sent.           *)
Send(e) ==
  /\ export[e].pc = "audit"
  /\ export' = [export EXCEPT ![e] = NoExport]
  /\ UNCHANGED vars

-----------------------------------------------------------------------------
(* The history of an export ends when its month is reopened.                *)
Track ==
  export' = IF \E d \in Days : summary[d].status = "closed" /\ summary'[d].status = "open"
              THEN [e \in Exports |-> [export[e] EXCEPT !.basis = NoExport.basis]]
              ELSE export

Books ==
  /\ Next
  /\ Track

ExportStep(e) == ReadStatus(e) \/ ReadSetting(e) \/ ReadMember(e) \/ Send(e)

CsvNext ==
  \/ Books
  \/ \E e \in Exports : StartExport(e) \/ ExportStep(e)

CsvSpec == CsvInit /\ [][CsvNext]_csvVars /\ \A c \in Calls : WF_csvVars(Continue(c) /\ Track)

-----------------------------------------------------------------------------
(* Properties                                                               *)

(* The file has every locked day of every member as the close locked it,    *)
(* although the summaries are read one member at a time while punches and   *)
(* corrections of the month go on; only a reopening undoes that.            *)
FileAsLocked ==
  \A e \in Exports : export[e].pc = "audit" =>
    \A d \in Days :
      export[e].basis[d].status = "closed" => export[e].file[d] = export[e].basis[d]
=============================================================================
