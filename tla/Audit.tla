------------------------------- MODULE Audit -------------------------------
(***************************************************************************)
(* withAudit, through which every call of a model goes: the call, then one  *)
(* record of it, in a database that may fail before or after it has stored  *)
(* the record.                                                              *)
(***************************************************************************)
EXTENDS Integers

CONSTANTS AiCall,      \* calls, each made once
          MaxOutages   \* bound: failures of the sink

ASSUME AuditAssumption == MaxOutages \in Nat

VARIABLES
  ai,       \* where each call is
  records,  \* the AiAuditLog rows of each call, by status
  outages   \* how often the sink has failed

auditVars == <<ai, records, outages>>

\* Where a call is, and what fn made of it. missed: history, the records at
\* which the sink failed.
AiState == [pc : {"calling", "recordSuccess", "recordError", "answered", "thrown"},
            fn : {"none", "ok", "error"}, missed : SUBSET {"success", "error"}]

AuditTypeOK ==
  /\ ai \in [AiCall -> AiState]
  /\ records \in [AiCall -> [success : Nat, error : Nat]]
  /\ outages \in 0 .. MaxOutages

AuditInit ==
  /\ ai = [x \in AiCall |-> [pc |-> "calling", fn |-> "none", missed |-> {}]]
  /\ records = [x \in AiCall |-> [success |-> 0, error |-> 0]]
  /\ outages = 0

\* await fn(): the model answers, or it throws and the catch block records that.
RunFn(x) ==
  /\ ai[x].pc = "calling"
  /\ \/ ai' = [ai EXCEPT ![x].pc = "recordSuccess", ![x].fn = "ok"]
     \/ ai' = [ai EXCEPT ![x].pc = "recordError", ![x].fn = "error"]
  /\ UNCHANGED <<records, outages>>

\* Mutant: the record is not awaited.
RecordSuccessLater(x) ==
  /\ ai[x].pc = "recordSuccess"
  /\ ai' = [ai EXCEPT ![x].pc = "answered"]
  /\ records' \in {records, [records EXCEPT ![x].success = @ + 1]}
  /\ UNCHANGED outages

RecordSuccess(x) ==
  /\ ai[x].pc = "recordSuccess"
  /\ records' = [records EXCEPT ![x].success = @ + 1]
  /\ ai' = [ai EXCEPT ![x].pc = "answered"]
  /\ UNCHANGED outages

\* The catch block, and the call throws on.
RecordError(x) ==
  /\ ai[x].pc = "recordError"
  /\ records' = [records EXCEPT ![x].error = @ + 1]
  /\ ai' = [ai EXCEPT ![x].pc = "thrown"]
  /\ UNCHANGED outages

RecordDue(x) == IF ai[x].pc = "recordSuccess" THEN "success" ELSE "error"

\* Mutant: a sink that fails in the catch block is asked again.
SinkFailsAndIsAskedAgain(x, stored) ==
  /\ ai[x].pc \in {"recordSuccess", "recordError"}
  /\ outages < MaxOutages
  /\ outages' = outages + 1
  /\ records' = IF ~stored THEN records
                ELSE IF ai[x].pc = "recordSuccess" THEN [records EXCEPT ![x].success = @ + 1]
                ELSE [records EXCEPT ![x].error = @ + 1]
  /\ ai' = [ai EXCEPT ![x].pc = "recordError", ![x].missed = @ \cup {RecordDue(x)}]

\* sink.record throws, its row stored or not. After a success that lands in the
\* catch block; there, the failure of the sink is what is thrown.
SinkFails(x, stored) ==
  /\ ai[x].pc \in {"recordSuccess", "recordError"}
  /\ outages < MaxOutages
  /\ outages' = outages + 1
  /\ records' = IF ~stored THEN records
                ELSE IF ai[x].pc = "recordSuccess" THEN [records EXCEPT ![x].success = @ + 1]
                ELSE [records EXCEPT ![x].error = @ + 1]
  /\ ai' = [ai EXCEPT ![x].pc = IF @ = "recordSuccess" THEN "recordError" ELSE "thrown",
                      ![x].missed = @ \cup {RecordDue(x)}]

AuditNext ==
  \E x \in AiCall :
    \/ RunFn(x)
    \/ RecordSuccess(x)
    \/ RecordError(x)
    \/ \E stored \in BOOLEAN : SinkFails(x, stored)

AuditSpec == AuditInit /\ [][AuditNext]_auditVars

----------------------------------------------------------------------------
(* Properties.                                                              *)

\* However often the sink fails: a call leaves one success and one error at most;
\* what a caller gets is on record as a success and as nothing else; a call that
\* throws is on record as an error, unless the sink failed at that record; and a
\* success on record of a call that did not answer, but threw or still will, is of
\* one whose fn did, with the sink failing at that record. So a call for which
\* the sink worked leaves exactly one. (audit/index.ts:44-81)
AnswersAreOnRecord ==
  \A x \in AiCall :
    /\ records[x].success <= 1 /\ records[x].error <= 1
    /\ ai[x].pc = "answered" =>
         ai[x].fn = "ok" /\ records[x].success = 1 /\ records[x].error = 0
    /\ ai[x].pc = "thrown" /\ "error" \notin ai[x].missed => records[x].error = 1
    /\ records[x].success = 1 => ai[x].fn = "ok"
    /\ records[x].success = 1 /\ ai[x].pc # "answered" => "success" \in ai[x].missed

----------------------------------------------------------------------------
(* The inductive invariant behind AnswersAreOnRecord: nothing is recorded    *)
(* before its time, and an error never before it is thrown.                 *)

RecordsAreDue ==
  \A x \in AiCall :
    /\ ai[x].pc \in {"calling", "recordSuccess"} => records[x].success = 0
    /\ ai[x].pc \in {"calling", "recordSuccess", "recordError"} => records[x].error = 0
    /\ ai[x].pc = "recordSuccess" => ai[x].fn = "ok"

AuditInv == AuditTypeOK /\ RecordsAreDue /\ AnswersAreOnRecord
============================================================================
