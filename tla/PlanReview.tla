----------------------------- MODULE PlanReview -----------------------------
(***************************************************************************)
(* A plan on its way from the planner to the downstream agent: compiled    *)
(* from a grounded proposal, validated, reviewed by an independent         *)
(* reviewer under the deterministic policy, revised under the reviewer's   *)
(* open issues, and exported.  The planner and the reviewer are models of  *)
(* language and may answer anything; the evidence files and the domain     *)
(* pack on disk may change at any time.                                    *)
(*                                                                         *)
(* ScientificRun has the same loop at the grain of its files, calls and    *)
(* interruptions; here it is at the grain of what the plan, the review and *)
(* the tracked issues contain.                                             *)
(***************************************************************************)
EXTENDS PlanContract

CONSTANTS
  Drafts,           \* the drafts a planner may write
  MaxCandidates,    \* bound on the candidates of a proposal
  RevisionBudgets,  \* values of max_plan_revisions; 0 turns revision off
  FlagSets,         \* the sets of red flags a reviewer may raise
  FixSets,          \* the sets of fixes a reviewer may require
  ExportIds,        \* destinations of an export
  Exporters,        \* calls of export_downstream; the command takes no lock
  MaxChanges,       \* bound on the changes of the files outside the run
  NoReview, NoPlan  \* model values: not reviewed, nothing exported or on its way

ASSUME ReviewAssumption ==
  /\ MaxCandidates \in 1 .. 4
  /\ RevisionBudgets \subseteq Nat
  /\ MaxChanges \in Nat
  /\ \A d \in Drafts : IsFiniteSet(DOMAIN d.tasks) /\ "DAG_CYCLE" \notin d.flaws

VARIABLES
  world,    \* damaged evidence files, the domain pack's version, changes so far
  run,      \* the run's record: status, candidates, records, selection, round
  review,   \* the review of the selected plan, or NoReview
  tracked,  \* the feedback the newest revision was asked to work on
  open,     \* history: blocking issues raised and never assessed as settled
  exports,  \* what lies at each destination
  leaving   \* the export each call is at, or NoPlan

vars == <<world, run, review, tracked, open, exports, leaving>>

ContextPack == 0    \* the version of the domain pack the context was built with

Verdicts == Approvable \cup {"REQUEST_REVISION", "REJECT", "NEEDS_HUMAN_CHOICE",
                             "INSUFFICIENT_EVIDENCE"}

IssueStates == {"RESOLVED", "NOT_APPLICABLE"} \cup Open

Statuses == {"INTERPRETED", "AWAITING_APPROVAL", "APPROVED", "EXPORTED", "REJECTED",
             "REQUIRES_REPLANNING", "REVISION_BLOCKED", "FAILED"}

\* Why a revision loop was stopped.
Causes == {"none", "INVALID_TRIGGER_APPROVAL_CHAIN", "REVISION_BUDGET_EXHAUSTED",
           "REVISION_REQUIRES_EXTERNAL_ACTION", "REVISION_OUTPUT_REJECTED"}

\* A plan as the run keeps it, and what a report on it may say.
PlanFile == [draft : Drafts, index : Nat]
Codes == (UNION {d.flaws : d \in Drafts}) \cup
         {"SOURCE_INTEGRITY_FAILURE", "UNGROUNDED_SYSTEM_FINGERPRINT", "DAG_CYCLE",
          "UNKNOWN_CAPABILITY"}

RunFile ==
  [status : Statuses, resumeAt : {"INTERPRETED", "AWAITING_APPROVAL"},
   budget : RevisionBudgets, round : Nat, plans : Seq(PlanFile), records : Seq(SUBSET Codes),
   selected : Nat, settled : BOOLEAN, cause : Causes]

\* Everything a report or a reviewer can ask a planner to work on, and what
\* the run keeps of a review.
Items ==
  {Item("deterministic_validation", code, TRUE, NoTask) : code \in Codes}
  \cup {Item("approval_red_flag", flag.code, flag.blocking, flag.task) : flag \in UNION FlagSets}
  \cup {Item("required_fix", fix.id, fix.blocking, NoTask) : fix \in UNION FixSets}
  \cup {PlanLevel}

ReviewFile ==
  [of : Nat, flags : FlagSets, fixes : FixSets, unresolved : SUBSET Gaps,
   carried : SUBSET Items, verdict : Verdicts]

ASSUME NoReviewAssumption == NoReview \notin ReviewFile

Init ==
  /\ world = [damaged |-> {}, pack |-> ContextPack, changes |-> 0]
  /\ \E budget \in RevisionBudgets :
       run = [status |-> "INTERPRETED", resumeAt |-> "INTERPRETED", budget |-> budget,
              round |-> 0, plans |-> <<>>, records |-> <<>>, selected |-> 0,
              settled |-> FALSE, cause |-> "none"]
  /\ review = NoReview
  /\ tracked = {}
  /\ open = {}
  /\ exports = [id \in ExportIds |-> NoPlan]
  /\ leaving = [x \in Exporters |-> NoPlan]

-----------------------------------------------------------------------------
(* The files outside the run *)

Damage(e) ==
  /\ world.changes < MaxChanges
  /\ world' = [world EXCEPT !.damaged = IF e \in @ THEN @ \ {e} ELSE @ \cup {e},
                            !.changes = @ + 1]
  /\ UNCHANGED <<run, review, tracked, open, exports, leaving>>

ReleasePack ==
  /\ world.changes < MaxChanges
  /\ world' = [world EXCEPT !.pack = @ + 1, !.changes = @ + 1]
  /\ UNCHANGED <<run, review, tracked, open, exports, leaving>>

\* The planning input is rebuilt from the disk before planning and before a
\* review: the packet's evidence is verified and the pack's version compared.
InputHolds == world.damaged = {} /\ world.pack = ContextPack

-----------------------------------------------------------------------------
(* Planning *)

Plan == run.plans[run.selected]
Record == run.records[run.selected]
Chosen == run.selected # 0

\* The saved record of the plan is the one today's checks produce.
RecordHolds == Record = PlanIssues(Plan, world.damaged)

\* The plan gate of the review.
GatePassed == review.verdict = "APPROVE"

Proposals == UNION {[1 .. n -> Drafts] : n \in 1 .. MaxCandidates}

Fail(status) == run' = [run EXCEPT !.status = "FAILED", !.resumeAt = status]

\* Candidates are validated one by one, with the records kept beside them.
\* With revisions on, a choice between several has to be made at once; one
\* candidate needs none.
Compile(proposal) ==
  /\ run.status = "INTERPRETED"
  /\ WellFormed(proposal)
  /\ IF InputHolds /\ ProposalIssues(proposal) = {} /\ Materializable(proposal)
       THEN \E choice \in {i \in 0 .. Len(proposal) :
                             run.budget > 0 \/ Len(proposal) = 1 => i # 0} :
              run' = [run EXCEPT
                        !.status = "AWAITING_APPROVAL",
                        !.plans = [i \in DOMAIN proposal |-> PlanOf(proposal[i], 0)],
                        !.records = [i \in DOMAIN proposal |->
                                       PlanIssues(PlanOf(proposal[i], 0), world.damaged)],
                        !.selected = choice]
       ELSE Fail("INTERPRETED")
  /\ UNCHANGED <<world, review, tracked, open, exports, leaving>>

Select(choice) ==
  /\ run.status = "AWAITING_APPROVAL" /\ ~Chosen
  /\ choice \in DOMAIN run.plans
  /\ run' = [run EXCEPT !.selected = choice]
  /\ UNCHANGED <<world, review, tracked, open, exports, leaving>>

Resume ==
  /\ run.status = "FAILED"
  /\ run' = [run EXCEPT !.status = run.resumeAt]
  /\ UNCHANGED <<world, review, tracked, open, exports, leaving>>

-----------------------------------------------------------------------------
(* Review *)

\* The review is refused, and the call raises, unless the record is the one
\* today's checks produce.
ReviewInputHolds == InputHolds /\ RecordHolds

StatusAfter(response, verdict) ==
  CASE \E flag \in response.flags : flag.code = "REQUIRES_REPLANNING" -> "REQUIRES_REPLANNING"
    [] (\A flag \in response.flags : flag.code # "REQUIRES_REPLANNING")
         /\ verdict = "APPROVE" -> "APPROVED"
    [] (\A flag \in response.flags : flag.code # "REQUIRES_REPLANNING")
         /\ verdict \in {"REJECT", "REQUEST_REVISION", "INSUFFICIENT_EVIDENCE"} -> "REJECTED"
    [] OTHER -> "AWAITING_APPROVAL"

\* The blocking issues still open after a review: those it left open, those
\* it raised, and those of the plan's record.  With revisions off nothing is
\* tracked from one review to the next.
OpenAfter(record, response) ==
  {item \in open : /\ run.budget > 0
                   /\ item \notin DOMAIN response.assessed
                        \/ response.assessed[item] \in Open}
  \cup {item \in Raised(record, response) : item.blocking}

\* An answer inside its contract names only decisions the plan asks for and
\* tasks it has, and assesses every tracked item.  What it rests on is not
\* kept; an answer that cites what the input does not hold is outside.
Responses(plan) ==
  [decision : Verdicts,
   flags : {flags \in FlagSets :
              \A flag \in flags : flag.task \in DOMAIN plan.draft.tasks \cup {NoTask}},
   fixes : FixSets, unresolved : SUBSET (Gaps \cap plan.draft.decisions),
   assessed : [tracked -> IssueStates]]

\* What is kept of an answer, with the plan it is about.
ReviewOf(choice, response, verdict) ==
  [of |-> choice, flags |-> response.flags, fixes |-> response.fixes,
   unresolved |-> response.unresolved, carried |-> Carried(response), verdict |-> verdict]

\* An answer on one candidate with its record; one outside its contract
\* fails the run.
Answer(choice, record) ==
  LET plan == run.plans[choice]
  IN \/ \E response \in Responses(plan) :
          LET verdict == Policy(response, plan, record)
          IN /\ review' = ReviewOf(choice, response, verdict)
             /\ run' = [run EXCEPT !.status = StatusAfter(response, verdict),
                                   !.selected = choice, !.records[choice] = record]
             /\ open' = OpenAfter(record, response)
     \/ Fail("AWAITING_APPROVAL") /\ UNCHANGED <<review, open>>

Review ==
  /\ run.status = "AWAITING_APPROVAL" /\ Chosen /\ review = NoReview
  /\ ReviewInputHolds
  /\ Answer(run.selected, Record)
  /\ UNCHANGED <<world, tracked, exports, leaving>>

\* With revisions off, a later call may name any candidate: its record is
\* written anew and it is reviewed again, whatever the last review said.
ReviewAgain ==
  /\ run.budget = 0 /\ review # NoReview
  /\ run.status \notin {"INTERPRETED", "FAILED"}
  /\ InputHolds
  /\ \E choice \in DOMAIN run.plans :
       Answer(choice, PlanIssues(run.plans[choice], world.damaged))
  /\ UNCHANGED <<world, tracked, exports, leaving>>

-----------------------------------------------------------------------------
(* Revision *)

Block(cause) ==
  /\ run' = [run EXCEPT !.status = "REVISION_BLOCKED", !.settled = TRUE, !.cause = cause]
  /\ UNCHANGED <<review, tracked, open>>

\* The chain that triggers a revision is checked like the authority of an
\* approved plan, a passed gate excepted.
TriggerValid ==
  /\ RecordHolds /\ Record = {}
  /\ ApprovalStateValid(review, Plan)

Reviewed ==
  /\ run.budget > 0 /\ review # NoReview /\ ~run.settled
  /\ run.status # "REQUIRES_REPLANNING"

\* The loop ends unless the review asks for a revision that may be made.
Settle ==
  /\ Reviewed
  /\ CASE ~TriggerValid -> Block("INVALID_TRIGGER_APPROVAL_CHAIN")
       [] TriggerValid /\ review.verdict # "REQUEST_REVISION" ->
            run' = [run EXCEPT !.settled = TRUE] /\ UNCHANGED <<review, tracked, open>>
       [] TriggerValid /\ review.verdict = "REQUEST_REVISION" /\ run.round >= run.budget ->
            Block("REVISION_BUDGET_EXHAUSTED")
       [] TriggerValid /\ review.verdict = "REQUEST_REVISION" /\ run.round < run.budget ->
            /\ NeedsExternalAction(Plan, Record, review)
            /\ Block("REVISION_REQUIRES_EXTERNAL_ACTION")
  /\ UNCHANGED <<world, exports, leaving>>

Revisable ==
  /\ Reviewed /\ TriggerValid
  /\ review.verdict = "REQUEST_REVISION"
  /\ run.round < run.budget
  /\ ~NeedsExternalAction(Plan, Record, review)

\* The planner answers the feedback with a revised draft.  What it declares
\* is checked, the draft meets the rules of a proposal on its own, and the
\* new plan is validated against the files as they are now.  An item about a
\* task the plan no longer has cannot be put to the planner.
Revise(revised, answered, declared) ==
  /\ Revisable
  /\ LET feedback == Feedback(Record, review)
         plan == PlanOf(revised, run.round + 1)
     IN IF /\ \A item \in feedback : item.task \in DOMAIN Plan.draft.tasks \cup {NoTask}
           /\ RevisionAccepted(Plan.draft, revised, feedback, answered, declared)
           /\ ProposalIssues(<<revised>>) = {}
           /\ Materializable(<<revised>>)
        THEN /\ run' = [run EXCEPT !.status = "AWAITING_APPROVAL", !.round = @ + 1,
                                   !.plans = <<plan>>,
                                   !.records = <<PlanIssues(plan, world.damaged)>>,
                                   !.selected = 1, !.settled = FALSE]
             /\ review' = NoReview
             /\ tracked' = feedback
             /\ open' = open \cup {item \in feedback : item.blocking}
        ELSE Block("REVISION_OUTPUT_REJECTED")
  /\ UNCHANGED <<world, exports, leaving>>

\* What the planner may claim: to have answered all of the feedback or all
\* but one item, and to have changed what it changed, nothing, or more.
Revision ==
  /\ Revisable
  /\ \E revised \in Drafts :
       LET feedback == Feedback(Record, review)
           changed == ChangedRoots(Plan.draft, revised)
       IN \E answered \in {feedback} \cup {feedback \ {item} : item \in feedback},
             declared \in {changed, {}, changed \cup {"atomic_questions"}} :
            Revise(revised, answered, declared)

-----------------------------------------------------------------------------
(* Export *)

\* export_downstream takes no lock: between any two of its steps the files on
\* disk, the run and other exports may change.
ExportSteps == {"named", "loaded", "staged", "moved"}

\* What is written for a plan: the plan, the records that let it pass, and
\* the files derived from it.
PackageFile ==
  [plan : PlanFile, verdict : ReviewFile, record : SUBSET Codes, gate : BOOLEAN,
   graph : {d.tasks : d \in Drafts}, evidence : {d.evidence : d \in Drafts},
   bindings : {d.capabilities : d \in Drafts}]

PackageOf(choice) ==
  LET plan == run.plans[choice]
  IN [plan |-> plan, verdict |-> review, record |-> run.records[choice], gate |-> GatePassed,
      graph |-> plan.draft.tasks, evidence |-> plan.draft.evidence,
      bindings |-> plan.draft.capabilities]

\* The verdict is about this plan and, like the gate, lets it pass on.
HandoffValid(choice, p) ==
  /\ p.gate /\ p.verdict.of = choice
  /\ ApprovalStateValid(p.verdict, p.plan)

\* The files of a package agree with one another.
PackageVerified(p) ==
  /\ p.record = {} /\ p.gate
  /\ ApprovalStateValid(p.verdict, p.plan)
  /\ p.graph = p.plan.draft.tasks
  /\ p.evidence = p.plan.draft.evidence
  /\ UsedCapabilities(p.plan.draft) \subseteq p.bindings

\* What the loaded files alone decide: the verdict lets the plan pass on, the
\* record is the empty report that today's checks produce when no evidence
\* is damaged, and the package will be verified.
Exportable(choice, p) ==
  /\ HandoffValid(choice, p)
  /\ p.record = {} /\ PlanIssues(p.plan, {}) = {}
  /\ PackageVerified(p)

\* A call that read the run's record knows the candidate; the package and
\* the evidence it found undamaged come later.
ExportCall ==
  [id : ExportIds, pc : ExportSteps, selected : Nat, package : PackageFile \cup {NoPlan},
   seen : SUBSET Evidence]

ASSUME NoPlanAssumption == NoPlan \notin PackageFile

At(x, pc) == leaving[x] # NoPlan /\ leaving[x].pc = pc

\* The run's record is read.  A destination that is taken is refused and so
\* is another version of the pack; neither is ever undone, so that a call
\* which passes these tests later passes them here too.
BeginExport(x, id) ==
  /\ leaving[x] = NoPlan
  /\ run.status \in {"APPROVED", "EXPORTED"} /\ Chosen
  /\ exports[id] = NoPlan
  /\ world.pack = ContextPack
  /\ leaving' = [leaving EXCEPT ![x] = [id |-> id, pc |-> "named", selected |-> run.selected,
                                        package |-> NoPlan, seen |-> {}]]
  /\ UNCHANGED <<world, run, review, tracked, open, exports>>

\* The files are read; what they alone decide is the same whenever it is
\* looked at.
LoadExport(x) ==
  /\ At(x, "named")
  /\ LET p == PackageOf(leaving[x].selected)
     IN /\ Exportable(leaving[x].selected, p)
        /\ leaving' = [leaving EXCEPT ![x] = [@ EXCEPT !.pc = "loaded", !.package = p]]
  /\ UNCHANGED <<world, run, review, tracked, open, exports>>

\* The evidence is verified on disk, one piece after the other.
VerifyEvidence(x, e) ==
  /\ At(x, "loaded")
  /\ e \in leaving[x].package.evidence /\ e \notin world.damaged
  /\ leaving' = [leaving EXCEPT ![x] = [@ EXCEPT !.seen = leaving[x].seen \cup {e}]]
  /\ UNCHANGED <<world, run, review, tracked, open, exports>>

\* Faulty: the saved record is trusted.
EvidenceVerifiedOnRecord(call) == call.package.record = {}

EvidenceVerified(call) == call.package.evidence \subseteq call.seen

\* The package is staged beside its destination and read back; the evidence
\* is not looked at again.
StageExport(x) ==
  /\ At(x, "loaded")
  /\ EvidenceVerified(leaving[x])
  /\ leaving' = [leaving EXCEPT ![x] = [@ EXCEPT !.pc = "staged"]]
  /\ UNCHANGED <<world, run, review, tracked, open, exports>>

\* The staged directory is moved into place, unless another call came first:
\* a directory that is not empty cannot be replaced.
MoveExport(x) ==
  /\ At(x, "staged")
  /\ exports[leaving[x].id] = NoPlan
  /\ exports' = [exports EXCEPT ![leaving[x].id] = leaving[x].package]
  /\ leaving' = [leaving EXCEPT ![x] = [@ EXCEPT !.pc = "moved"]]
  /\ UNCHANGED <<world, run, review, tracked, open>>

\* The run is saved as it was read, whatever became of it since; the chain
\* of revisions has a file of its own.
SaveExported(x) ==
  /\ At(x, "moved")
  /\ run' = [run EXCEPT !.status = "EXPORTED", !.selected = leaving[x].selected]
  /\ leaving' = [leaving EXCEPT ![x] = NoPlan]
  /\ UNCHANGED <<world, review, tracked, open, exports>>

\* The call is refused, fails or is interrupted, at any step of it; after the
\* move it leaves the package and the run as it is.
DropExport(x) ==
  /\ leaving[x] # NoPlan
  /\ leaving' = [leaving EXCEPT ![x] = NoPlan]
  /\ UNCHANGED <<world, run, review, tracked, open, exports>>

Export(x) ==
  \/ \E id \in ExportIds : BeginExport(x, id)
  \/ LoadExport(x)
  \/ \E e \in Evidence : VerifyEvidence(x, e)
  \/ StageExport(x)
  \/ MoveExport(x)
  \/ SaveExported(x)
  \/ DropExport(x)

Next ==
  \/ \E e \in Evidence : Damage(e)
  \/ ReleasePack
  \/ \E proposal \in Proposals : Compile(proposal)
  \/ \E choice \in 1 .. MaxCandidates : Select(choice)
  \/ Resume
  \/ Review
  \/ ReviewAgain
  \/ Settle
  \/ Revision
  \/ \E x \in Exporters : Export(x)

Spec == Init /\ [][Next]_vars

-----------------------------------------------------------------------------
(* Properties *)

\* What lies at a destination is a package, and what is on its way a call.
ExportsOK ==
  /\ exports \in [ExportIds -> PackageFile \cup {NoPlan}]
  /\ leaving \in [Exporters -> ExportCall \cup {NoPlan}]
  /\ \A x \in Exporters : leaving[x] # NoPlan =>
       (leaving[x].package = NoPlan <=> leaving[x].pc = "named")

\* Every variable has its type.
TypeOK ==
  /\ world \in [damaged : SUBSET Evidence, pack : Nat, changes : 0 .. MaxChanges]
  /\ run \in RunFile
  /\ run.round <= run.budget
  /\ run.selected <= Len(run.plans) /\ Len(run.records) = Len(run.plans)
  /\ tracked \in SUBSET Items /\ open \in SUBSET Items
  /\ review = NoReview \/ (review \in ReviewFile /\ Chosen)
  /\ ExportsOK

\* With revisions on, no blocking issue is lost on the way to approval: of
\* everything a report or a reviewer ever raised as blocking, in any round,
\* nothing is open when the plan gate has passed, although each round sees
\* only what the round before passed on (service.py:3050-3066, policy.py:60-85,
\* README.md:931-933).
EveryBlockerAnswered ==
  run.budget > 0 /\ run.status \in {"APPROVED", "EXPORTED"} => open = {}

SoundPackage(p) ==
  /\ Acyclic(p.plan.draft.tasks)
  /\ Covers(p.plan.draft, p.plan.draft.claims)
  /\ p.verdict.flags = {} /\ p.plan.draft.decisions = {}

Seen(x, e) == leaving[x] # NoPlan /\ e \in leaving[x].seen

\* What leaves the system is sound: its task graph has an order, every claim
\* comes with its evidence, nothing is flagged or left to a human, and with
\* revisions on no blocker is open; the call that wrote it found every piece
\* of its evidence undamaged on disk, and no earlier package is overwritten,
\* although other exports, reviews and changes of the files run in between
\* (export.py:62-157).
ExportsAreSound ==
  [][/\ \A id \in ExportIds : exports'[id] # exports[id] =>
          /\ exports[id] = NoPlan
          /\ SoundPackage(exports'[id])
          /\ run.budget > 0 => open = {}
          /\ \E x \in Exporters :
               /\ At(x, "staged") /\ exports'[id] = leaving[x].package
               /\ exports'[id].plan.draft.evidence \subseteq leaving[x].seen
     /\ \A x \in Exporters, e \in Evidence : Seen(x, e)' => Seen(x, e) \/ e \notin world.damaged]_vars

\* A claim the code does not keep: nothing verifies the evidence again once
\* the package is staged (export.py:134-156).
EvidenceHoldsAtMove ==
  [][\A id \in ExportIds : exports'[id] # exports[id] =>
       exports'[id].evidence \cap world.damaged = {}]_vars

\* The check of the task graph reports a cycle exactly when there is one
\* (validators.py:173-201).
CycleCheckIsExact ==
  \A i \in DOMAIN run.plans :
    "DAG_CYCLE" \in run.records[i] <=> ~Acyclic(run.plans[i].draft.tasks)

\* What README.md:945 says: a conditional approval retains its handling when
\* revisions are on; it waits for the conditions and does not end the chain.
ConditionsKeepHandling ==
  review # NoReview /\ review.verdict = "APPROVE_WITH_CONDITIONS" =>
    run.status # "REVISION_BLOCKED"

\* An approved plan can be exported as far as the verdict is concerned.
ApprovedCanLeave ==
  run.status = "APPROVED" => ApprovalStateValid(review, Plan)

\* README.md:918-920: deterministic validation issues are among what a
\* revision is asked to work on.
IssuesAreRevisable ==
  Reviewed /\ review.verdict = "REQUEST_REVISION" /\ Record # {}
    /\ RecordHolds => TriggerValid
=============================================================================
