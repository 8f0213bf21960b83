---------------------------- MODULE ResultIntake ----------------------------
(***************************************************************************)
(* The files of result-evidence/ in one run, and the steps of              *)
(* ResultEvidenceIntakeService.intake and .curate that write them.         *)
(*                                                                         *)
(* A submission is an external declaration about one plan.  Its record,    *)
(* its assessment and its receipt lie at one fixed path each and are       *)
(* written once; every curation decision adds a record that supersedes the *)
(* current one.  Every step runs under the run lock.  Whether the plan of  *)
(* a submission is (still) approved is a fact of the rest of the run, and  *)
(* a parameter here; SuccessorPlanning supplies it.                        *)
(***************************************************************************)
EXTENDS Naturals, FiniteSets

CONSTANTS
  Submissions,   \* names of result submissions
  CurationLimit  \* bound on the curation records of all submissions together

VARIABLES
  submission,  \* submission.yaml: the plan the declaration is about
  assessment,  \* assessment.yaml
  curations,   \* the knowledge-curation records
  evidence,    \* the submissions whose evidence and facts are stored
  receipt,     \* receipt.yaml: the curation record it was written for, or 0
  task         \* the intake or curate call that holds the run lock

intakeVars == <<submission, assessment, curations, evidence, receipt, task>>

\* A plan is the k-th candidate of a successor cycle; the run's own approved
\* plan is the first one of cycle 0.
BasePlan == <<0, 1>>
NoPlan == <<0, 0>>

Assessments == {"none", "BLOCKED", "RESULT_REQUIRES_CURATION"}
Curation == [id : 1 .. CurationLimit, status : {"ACCEPTED", "REJECTED"},
             supersedes : 0 .. CurationLimit]

TaskSteps == {"off", "submitted", "accepted", "stored"}
NoTask == [step |-> "off", sub |-> "none"]

IntakeInit ==
  /\ submission = [s \in Submissions |-> NoPlan]
  /\ assessment = [s \in Submissions |-> "none"]
  /\ curations = [s \in Submissions |-> {}]
  /\ evidence = {}
  /\ receipt = [s \in Submissions |-> 0]
  /\ task = NoTask

-----------------------------------------------------------------------------
(* What the stored files say. *)

Superseded(s) == {r.supersedes : r \in curations[s]}
CurrentRecords(s) == {r \in curations[s] : r.id \notin Superseded(s)}
\* _current_curation: a history with another number of current records is
\* refused (AMBIGUOUS_RESULT_CURATION).
HasCurrent(s, r) == CurrentRecords(s) = {r}

\* The receipt is that of the acceptance in force.
Usable(s) ==
  \E r \in curations[s] :
    HasCurrent(s, r) /\ r.status = "ACCEPTED" /\ receipt[s] = r.id

-----------------------------------------------------------------------------
(* intake *)

\* The same submission may come in again; its content names its plan.
Submit(s, plan) ==
  /\ task.step = "off"
  /\ submission[s] \in {NoPlan, plan}
  /\ submission' = [submission EXCEPT ![s] = plan]
  /\ task' = [step |-> "submitted", sub |-> s]
  /\ UNCHANGED <<assessment, curations, evidence, receipt>>

\* Artifacts, bindings, fingerprints and declared outputs are checked in this
\* order, and the first that fails blocks the result.  An assessment of an
\* earlier intake stays: a different one is refused (FileExistsError).
Assess(approved) ==
  /\ task.step = "submitted"
  /\ \E result \in Assessments \ {"none"} :
       /\ result = "RESULT_REQUIRES_CURATION" => approved
       /\ assessment' =
            [assessment EXCEPT ![task.sub] = IF @ = "none" THEN result ELSE @]
  /\ task' = NoTask
  /\ UNCHANGED <<submission, curations, evidence, receipt>>

-----------------------------------------------------------------------------
(* curate *)

NewRecord(s, status, supersedes) ==
  [id |-> Cardinality(curations[s]) + 1, status |-> status, supersedes |-> supersedes]

\* The record of a new decision; none if the current one says the same or
\* the history is ambiguous.
Decision(s, status) ==
  IF curations[s] = {} THEN {NewRecord(s, status, 0)}
  ELSE {NewRecord(s, status, r.id) :
          r \in {q \in curations[s] : HasCurrent(s, q) /\ q.status # status}}

\* Faulty: a blocked result can be accepted.
CurateBlocked(s, status) ==
  /\ task.step = "off"
  /\ assessment[s] # "none"
  /\ Cardinality(UNION {{t} \X curations[t] : t \in Submissions}) < CurationLimit
  /\ \E r \in Decision(s, status) :
       curations' = [curations EXCEPT ![s] = @ \cup {r}]
  /\ task' = IF status = "ACCEPTED" THEN [step |-> "accepted", sub |-> s] ELSE NoTask
  /\ UNCHANGED <<submission, assessment, evidence, receipt>>

\* A decision that repeats the current one returns the stored receipt, or
\* fails if there is none; it writes nothing and is not a step.
Curate(s, status) ==
  /\ task.step = "off"
  /\ assessment[s] # "none"
  /\ status = "ACCEPTED" => assessment[s] = "RESULT_REQUIRES_CURATION"
  /\ Cardinality(UNION {{t} \X curations[t] : t \in Submissions}) < CurationLimit
  /\ \E r \in Decision(s, status) :
       curations' = [curations EXCEPT ![s] = @ \cup {r}]
  /\ task' = IF status = "ACCEPTED" THEN [step |-> "accepted", sub |-> s] ELSE NoTask
  /\ UNCHANGED <<submission, assessment, evidence, receipt>>

\* _materialize loads the approved parent again before it writes anything.
Store(approved) ==
  /\ task.step = "accepted" /\ approved
  /\ evidence' = evidence \cup {task.sub}
  /\ task' = [task EXCEPT !.step = "stored"]
  /\ UNCHANGED <<submission, assessment, curations, receipt>>

\* The receipt names its curation record, so after accept, reject and accept
\* the second receipt meets the first one and is refused (FileExistsError).
WriteReceipt ==
  /\ task.step = "stored"
  /\ \E r \in curations[task.sub] :
       /\ HasCurrent(task.sub, r)
       /\ receipt' = [receipt EXCEPT ![task.sub] = IF @ = 0 THEN r.id ELSE @]
  /\ task' = NoTask
  /\ UNCHANGED <<submission, assessment, curations, evidence>>

\* An exception or an interruption ends the call between two writes.
Abandon ==
  /\ task.step # "off"
  /\ task' = NoTask
  /\ UNCHANGED <<submission, assessment, curations, evidence, receipt>>
=============================================================================
