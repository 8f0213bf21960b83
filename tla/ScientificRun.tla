--------------------------- MODULE ScientificRun ----------------------------
(***************************************************************************)
(* One scientific run under ScientificProblemWorkflow: start / resume, the *)
(* whole of _advance with the direct planning strategy, bounded plan       *)
(* revision, independent approval and the review-driven evidence cycles    *)
(* (EvidenceCycles, composed below).                                       *)
(*                                                                         *)
(* A step of the running call ends where the code writes a file, so a      *)
(* Crash between two steps is an interruption between two writes: what is  *)
(* durable stays, the call's locals are lost, the run lock is released.    *)
(* A proposal set has one candidate, which --candidate-id may name.        *)
(***************************************************************************)
EXTENDS Naturals, Sequences, FiniteSets

CONSTANTS
  MaxRevisions,     \* largest --max-plan-revisions accepted (10 in the code)
  RevisionOptions,  \* the --max-plan-revisions values callers pass
  CycleLimit,       \* as in EvidenceCycles (3 in the code)
  CycleOptions,     \* the --max-evidence-resolution-cycles values they pass
  Requests,         \* the evidence request sets a provider may return
  Outputs,          \* what can tell two planner answers to one input apart
  Verdicts,         \* the verdicts an approver reaches
  GappedSnapshots,  \* the snapshots whose base context, and the cycles whose
  GappedChildren,   \* child context, has a blocking evidence gap
  ReportsChange,    \* whether a stored plan may come to be reported otherwise
  MaxSnapshot       \* bound on knowledge changes

AllVerdicts == {"APPROVE", "REVISE", "REPLAN", "INSUFFICIENT", "REJECT", "AWAIT"}

ASSUME RunAssumption ==
  /\ MaxRevisions \in Nat /\ CycleLimit \in Nat /\ MaxSnapshot \in Nat \ {0}
  /\ RevisionOptions \subseteq 0 .. MaxRevisions
  /\ CycleOptions \subseteq 0 .. CycleLimit
  /\ Verdicts \subseteq AllVerdicts
  /\ "nothing" \notin Requests
  /\ ReportsChange \in BOOLEAN

VARIABLES
  run,         \* run.json
  chain,       \* plan-revisions/revision-chain.yaml
  attempts,    \* the revision attempts of every namespace, by index
  planFile,    \* immutable proposals and plans, by round prefix
  reviewFile,  \* immutable approval artifacts, by round prefix
  plain,       \* the mutable planning-proposal.yaml and approval/
  snap,        \* the current knowledge snapshot
  call,        \* the call that holds the run lock, with its locals
  policy, cycles, archive, work   \* of EvidenceCycles

store == <<planFile, reviewFile, plain>>
evidence == <<policy, cycles, archive, work>>
vars == <<run, chain, attempts, planFile, reviewFile, plain, snap, call,
          policy, cycles, archive, work>>

-----------------------------------------------------------------------------
(* Data.  A context is named by the snapshot it was built on and the       *)
(* evidence cycle it is the child of (0: the base context).                *)

NoContext == [snap |-> 0, cyc |-> 0]
NoPlan == [ctx |-> NoContext, round |-> 0, out |-> "none"]
NoReview == [plan |-> NoPlan, verdict |-> "none"]
NoChain == [ctx |-> NoContext, max |-> 0, rounds |-> <<>>, term |-> "none"]
NoRun == [status |-> "CREATED", ctx |-> NoContext, plan |-> NoPlan,
          sel |-> FALSE, appr |-> NoReview, exported |-> FALSE]

Contexts == [snap : 0 .. MaxSnapshot, cyc : 0 .. CycleLimit]
Plans == [ctx : Contexts, round : 0 .. MaxRevisions, out : Outputs \cup {"none"}]
Reviews == [plan : Plans, verdict : Verdicts \cup {"none"}]
Rounds == [plan : Plans, input : Reviews, review : Reviews]
Prefixes == (0 .. CycleLimit) \X (0 .. MaxRevisions)

BlockReasons == {"TRUSTED_CONTEXT_CHANGED", "PLANNING_INPUT_CHANGED",
  "STALE_APPROVAL_CHAIN", "INVALID_TRIGGER_APPROVAL_CHAIN", "REVISION_ATTEMPT_UNCERTAIN",
  "REVISION_BUDGET_EXHAUSTED", "REVISION_REQUIRES_EXTERNAL_ACTION", "REVISION_OUTPUT_REJECTED"}
Terminations == BlockReasons \cup {"none", "approved", "non_revisable_decision"}

Statuses == {"CREATED", "READY", "CONTEXT_BUILT", "INTERPRETED", "PLANNED",
  "AWAITING_APPROVAL", "APPROVED", "REJECTED", "REQUIRES_REPLANNING", "EXPORTED",
  "REVISION_BLOCKED", "BLOCKED_SOURCE_CURATION", "EVIDENCE_RESOLUTION_BLOCKED",
  "FAILED"}

\* What the caller passes; a dry run ends before the others matter.
Options ==
  {opt \in [rev : RevisionOptions, cycles : CycleOptions, approve : BOOLEAN,
            sel : BOOLEAN, dry : BOOLEAN] : opt.dry => ~opt.approve /\ ~opt.sel}
NoOption == [rev |-> 0, cycles |-> 0, approve |-> FALSE, sel |-> FALSE, dry |-> FALSE]

Idle == [pc |-> "idle", opt |-> NoOption, prev |-> NoRun, chained |-> FALSE,
         plan |-> NoPlan, review |-> NoReview]

E == INSTANCE EvidenceCycles WITH Nothing <- "nothing"

Init ==
  /\ run = NoRun
  /\ chain = NoChain
  /\ attempts = <<>>
  /\ planFile = [p \in Prefixes |-> NoPlan]
  /\ reviewFile = [p \in Prefixes |-> NoReview]
  /\ plain = [plan |-> NoPlan, review |-> NoReview]
  /\ snap = 1
  /\ call = Idle
  /\ E!CyclesInit

-----------------------------------------------------------------------------
(* What the stored files say. *)

HasChain == chain.rounds # <<>>
LastRound == chain.rounds[Len(chain.rounds)]
LastIndex == Len(chain.rounds) - 1
LastAttempt == attempts[Len(attempts)]

\* The chain counts only for the context it was created for.
ChainInEffect(r) == HasChain /\ r.ctx \in {NoContext, chain.ctx}

\* A chain that ended without approval stays on disk.
LeftChain ==
  HasChain /\ chain.term # "none" /\ LastRound.review.verdict # "APPROVE"

\* _round_prefix and _approval_prefix; the latter goes by the chain file,
\* whether or not the chain is in effect.
Prefix(round) == <<E!Namespace, round>>
StoredReview == IF HasChain THEN reviewFile[Prefix(LastIndex)] ELSE plain.review

StatusOf(verdict) ==
  CASE verdict = "APPROVE" -> "APPROVED"
    [] verdict = "REPLAN" -> "REQUIRES_REPLANNING"
    [] verdict \in {"REVISE", "REJECT", "INSUFFICIENT"} -> "REJECTED"
    [] OTHER -> "AWAITING_APPROVAL"

\* REPLAN is a REQUEST_REVISION that carries the REQUIRES_REPLANNING flag.
RequestsRevision(verdict) == verdict \in {"REVISE", "REPLAN"}

TerminationOf(verdict) ==
  IF verdict = "APPROVE" THEN "approved"
  ELSE IF RequestsRevision(verdict) THEN "none" ELSE "non_revisable_decision"

Cleared(r) == [r EXCEPT !.plan = NoPlan, !.sel = FALSE, !.appr = NoReview,
                        !.exported = FALSE]

-----------------------------------------------------------------------------
(* Control. *)

At(pc) == call.pc = pc
Goto(pc) == call' = [call EXCEPT !.pc = pc]
Return == call' = Idle
Save(status) == run' = [run EXCEPT !.status = status]
Quiet == work.step = "off"

\* _revision_block: the chain is terminated first, then the run is saved.
Block(reason) ==
  /\ chain' = [chain EXCEPT !.term = reason]
  /\ Goto("blocking")

\* A call blocked before its revision cycle returns; one blocked in it goes
\* on to the evidence that the review may ask for.
SaveBlocked ==
  /\ At("blocking")
  /\ Save("REVISION_BLOCKED")
  /\ IF chain.term \in {"TRUSTED_CONTEXT_CHANGED", "PLANNING_INPUT_CHANGED",
                        "STALE_APPROVAL_CHAIN"}
     THEN Return ELSE Goto("evidence")
  /\ UNCHANGED <<chain, attempts, store, snap, evidence>>

\* start and resume take the lock; a terminated chain is returned as it is.
Enter(opt) ==
  /\ At("idle")
  /\ E!EnsurePolicy(opt.cycles)
  /\ call' = IF ChainInEffect(run) /\ chain.term # "none" THEN call
             ELSE [Idle EXCEPT !.pc = "entered", !.opt = opt, !.prev = run,
                               !.chained = ChainInEffect(run)]
  /\ UNCHANGED <<run, chain, attempts, store, snap>>

CurationPending ==
  /\ At("entered")
  /\ Save("BLOCKED_SOURCE_CURATION") /\ Return
  /\ UNCHANGED <<chain, attempts, store, snap, evidence>>

Ready ==
  /\ At("entered")
  /\ Save("READY") /\ Goto("ready")
  /\ UNCHANGED <<chain, attempts, store, snap, evidence>>

\* Retrieval, interpretation, planning or an option check raises.
FailStage ==
  /\ call.pc \in {"entered", "ready", "context", "interpreted"} /\ Quiet
  /\ Save("FAILED") /\ Return
  /\ UNCHANGED <<chain, attempts, store, snap, evidence>>

BuildContext ==
  /\ At("ready")
  /\ LET c == [snap |-> snap, cyc |-> E!ChildFor(snap)] IN
     \/ /\ call.chained /\ chain.ctx # c
        /\ Block("TRUSTED_CONTEXT_CHANGED")
        /\ UNCHANGED run
     \/ /\ call.chained => chain.ctx = c
        /\ run' = [IF run.ctx \in {NoContext, c} THEN run ELSE Cleared(run)
                   EXCEPT !.status = "CONTEXT_BUILT", !.ctx = c]
        /\ Goto("context")
        /\ UNCHANGED chain
  /\ UNCHANGED <<attempts, store, snap, evidence>>

DryReturn ==
  /\ At("context") /\ call.opt.dry
  /\ Return
  /\ UNCHANGED <<run, chain, attempts, store, snap, evidence>>

Interpret ==
  /\ At("context") /\ ~call.opt.dry
  /\ Save("INTERPRETED") /\ Goto("interpreted")
  /\ UNCHANGED <<chain, attempts, store, snap, evidence>>

-----------------------------------------------------------------------------
(* Evidence resolution, for a blocking gap of the planning input (at       *)
(* "interpreted") or for an INSUFFICIENT_EVIDENCE review (at "triggered"). *)

InGap == At("interpreted") /\ ~call.chained
HasGap == IF run.ctx.cyc = 0 THEN run.ctx.snap \in GappedSnapshots
          ELSE run.ctx.cyc \in GappedChildren

\* A terminated resolution stops the run even when no gap is left.
MustResolve ==
  /\ policy # 0
  /\ E!Terminated(run.ctx.snap) \/ HasGap

ResolveGap ==
  /\ InGap /\ Quiet /\ MustResolve
  /\ \/ E!Refuse(run.ctx.snap)
     \/ E!Claim(run.ctx.snap, "gap")
  /\ UNCHANGED <<run, chain, attempts, store, snap, call>>

\* Faulty: the cycle is bound to the current snapshot, not the context's.
ResolveReviewAnew ==
  /\ At("triggered") /\ Quiet
  /\ \/ E!Refuse(snap)
     \/ E!Claim(snap, "review")
  /\ UNCHANGED <<run, chain, attempts, store, snap, call>>

ResolveReview ==
  /\ At("triggered") /\ Quiet
  /\ \/ E!Refuse(run.ctx.snap)
     \/ E!Claim(run.ctx.snap, "review")
  /\ UNCHANGED <<run, chain, attempts, store, snap, call>>

EvidenceStep ==
  /\ ~At("idle")
  /\ E!Resolving
  /\ UNCHANGED <<run, chain, attempts, store, snap, call>>

EvidenceBlocked ==
  /\ work.step = "blocked" /\ E!Finish
  /\ Save(IF work.why = "curation" THEN "BLOCKED_SOURCE_CURATION"
          ELSE "EVIDENCE_RESOLUTION_BLOCKED")
  /\ Return
  /\ UNCHANGED <<chain, attempts, store, snap>>

\* Outside a review the caller turns the exception into FAILED; inside one
\* it escapes and the stored run keeps its status.
EvidenceFailed ==
  /\ work.step = "failed" /\ E!Finish
  /\ \/ At("interpreted") /\ Save("FAILED")
     \/ At("triggered") /\ UNCHANGED run
  /\ Return
  /\ UNCHANGED <<chain, attempts, store, snap>>

\* The child context replaces the run's; the call goes on with the planning
\* loop, or starts _advance again without a selected candidate.
EvidenceChild ==
  /\ work.step = "child" /\ E!Finish
  /\ run' = [Cleared(run) EXCEPT !.status = "INTERPRETED",
                                 !.ctx.cyc = E!LatestCompleted]
  /\ \/ At("interpreted") /\ UNCHANGED call
     \/ /\ At("triggered")
        /\ call' = [Idle EXCEPT !.pc = "entered", !.prev = run',
                                !.opt = [call.opt EXCEPT !.sel = FALSE],
                                !.chained = ChainInEffect(run')]
  /\ UNCHANGED <<chain, attempts, store, snap>>

-----------------------------------------------------------------------------
(* Planning. *)

PlanFromChain ==
  /\ At("interpreted") /\ call.chained
  /\ call.opt.rev \in {0, chain.max}
  /\ \/ Block("PLANNING_INPUT_CHANGED") /\ UNCHANGED run
     \/ /\ run' = [run EXCEPT !.status = "PLANNED", !.plan = LastRound.plan,
                              !.sel = call.opt.sel]
        /\ Goto("planned")
        /\ UNCHANGED chain
  /\ UNCHANGED <<attempts, store, snap, evidence>>

\* _reuse_compilation pairs the mutable proposal with the candidates of the
\* run when both are valid for the current planning input.
Reusable == /\ run.plan.ctx = run.ctx
            /\ plain.plan.ctx = run.ctx

\* Write the proposal: an immutable one that differs raises FileExistsError
\* and leaves the run INTERPRETED.
WriteProposal(proposal, plan) ==
  LET p == Prefix(0) IN
  IF call.opt.rev > 0 /\ planFile[p] \notin {NoPlan, proposal}
  THEN Return /\ UNCHANGED <<planFile, plain>>
  ELSE /\ call' = [call EXCEPT !.pc = "proposed", !.plan = plan]
       /\ \/ /\ call.opt.rev > 0
             /\ planFile' = [planFile EXCEPT ![p] = proposal]
             /\ UNCHANGED plain
          \/ /\ call.opt.rev = 0
             /\ plain' = [plain EXCEPT !.plan = proposal]
             /\ UNCHANGED planFile

\* Compile, or reuse what was compiled when it still passes validation.
Propose(out) ==
  /\ InGap /\ Quiet /\ ~MustResolve
  /\ LET plan == [ctx |-> run.ctx, round |-> 0, out |-> out] IN
     \/ WriteProposal(plan, plan)
     \/ Reusable /\ WriteProposal(plain.plan, run.plan)
  /\ UNCHANGED <<run, chain, attempts, reviewFile, snap, evidence>>

SavePlanned ==
  /\ At("proposed")
  /\ run' = [run EXCEPT !.status = "PLANNED", !.plan = call.plan,
                        !.sel = call.opt.sel]
  /\ Goto("planned")
  /\ UNCHANGED <<chain, attempts, store, snap, evidence>>

CreatesChain == ~call.chained /\ call.opt.rev > 0

CreateChain ==
  /\ At("planned") /\ CreatesChain
  /\ chain' = [ctx |-> run.ctx, max |-> call.opt.rev, term |-> "none",
               rounds |-> <<[plan |-> run.plan, input |-> NoReview,
                             review |-> NoReview]>>]
  /\ call' = [call EXCEPT !.pc = "chained", !.chained = TRUE]
  /\ UNCHANGED <<run, attempts, store, snap, evidence>>

SelectRound ==
  /\ At("chained")
  /\ run' = [run EXCEPT !.sel = TRUE]
  /\ Goto("selected")
  /\ UNCHANGED <<chain, attempts, store, snap, evidence>>

AwaitApproval ==
  /\ At("selected") \/ (At("planned") /\ ~CreatesChain)
  /\ Save("AWAITING_APPROVAL") /\ Goto("awaiting")
  /\ UNCHANGED <<chain, attempts, store, snap, evidence>>

-----------------------------------------------------------------------------
(* Approval. *)

RoundReviewed == call.chained /\ LastRound.review # NoReview

\* Faulty: the stored review is not compared with the selected plan.
ApprovalReusableUnread ==
  /\ call.prev.appr # NoReview /\ call.prev.sel
  /\ StoredReview # NoReview
  /\ run.plan.round = 0

\* _reuse_approval compares the stored review input with the one of an
\* initial review, so only an initial review is ever found valid; today's
\* report on the plan may speak against that one, too.
ApprovalReusable ==
  /\ call.prev.appr # NoReview /\ call.prev.sel
  /\ call.prev.plan = run.plan
  /\ StoredReview # NoReview
  /\ StoredReview.plan = run.plan
  /\ run.plan.round = 0

Reused ==
  [run EXCEPT !.status = IF /\ StoredReview.verdict = "APPROVE"
                            /\ call.prev.exported
                         THEN "EXPORTED" ELSE StatusOf(StoredReview.verdict),
              !.sel = TRUE, !.appr = StoredReview,
              !.exported = call.prev.exported]

ReturnUnapproved ==
  /\ At("awaiting") /\ ~call.opt.approve
  /\ \/ ApprovalReusable /\ run' = Reused
     \/ (ApprovalReusable => ReportsChange) /\ UNCHANGED run
  /\ Return
  /\ UNCHANGED <<chain, attempts, store, snap, evidence>>

ReuseRoundApproval ==
  /\ At("awaiting") /\ call.opt.approve /\ RoundReviewed
  /\ \/ /\ ApprovalReusable
        /\ run' = Reused /\ Goto("cycle")
        /\ UNCHANGED chain
     \/ /\ ApprovalReusable => ReportsChange
        /\ Block("STALE_APPROVAL_CHAIN")
        /\ UNCHANGED run
  /\ UNCHANGED <<attempts, store, snap, evidence>>

Approving ==
  \/ At("awaiting") /\ call.opt.approve /\ ~RoundReviewed
  \/ At("revised")

\* Faulty: a review that is already stored stays, and the new one counts.
ApproveBesideStored(verdict) ==
  /\ Approving
  /\ LET review == [plan |-> run.plan, verdict |-> verdict]
         p == Prefix(LastIndex) IN
     /\ IF call.chained
        THEN /\ reviewFile' = [reviewFile EXCEPT ![p] = IF @ = NoReview THEN review ELSE @]
             /\ UNCHANGED plain
        ELSE plain' = [plain EXCEPT !.review = review] /\ UNCHANGED reviewFile
     /\ call' = [call EXCEPT !.pc = "reviewed", !.review = review]
  /\ UNCHANGED <<run, chain, attempts, planFile, snap, evidence>>

\* The approver answers and the artifacts are written: immutable under a
\* round prefix (a different review there raises), mutable in approval/.
Approve(verdict) ==
  /\ Approving
  /\ LET review == [plan |-> run.plan, verdict |-> verdict]
         p == Prefix(LastIndex)
         reviewed == [call EXCEPT !.pc = "reviewed", !.review = review] IN
     IF ~call.chained
     THEN /\ plain' = [plain EXCEPT !.review = review]
          /\ call' = reviewed
          /\ UNCHANGED reviewFile
     ELSE IF reviewFile[p] \notin {NoReview, review}
     THEN Return /\ UNCHANGED <<reviewFile, plain>>
     ELSE /\ reviewFile' = [reviewFile EXCEPT ![p] = review]
          /\ call' = reviewed
          /\ UNCHANGED plain
  /\ UNCHANGED <<run, chain, attempts, planFile, snap, evidence>>

\* The approver fails.  A run that still carries an older review goes on:
\* without a chain to the evidence that review may ask for, with one to
\* record the round from the files, which are usually not there.
ApproverFails ==
  /\ Approving
  /\ Save("FAILED")
  /\ LET stored == reviewFile[Prefix(LastIndex)] # NoReview IN
     \/ run.appr # NoReview /\ ~call.chained /\ Goto("evidence")
     \/ run.appr # NoReview /\ call.chained /\ stored /\ Goto("approved")
     \/ (run.appr = NoReview \/ (call.chained /\ ~stored)) /\ Return
  /\ UNCHANGED <<chain, attempts, store, snap, evidence>>

SaveApproved ==
  /\ At("reviewed")
  /\ run' = [run EXCEPT !.status = StatusOf(call.review.verdict),
                        !.sel = TRUE, !.appr = call.review]
  /\ Goto(IF call.chained THEN "approved" ELSE "evidence")
  /\ UNCHANGED <<chain, attempts, store, snap, evidence>>

\* _record_round_approval reads the round's approval files back.
RecordRound ==
  /\ At("approved")
  /\ LET review == reviewFile[Prefix(LastIndex)] IN
     chain' = [chain EXCEPT !.rounds[Len(chain.rounds)].review = review,
                            !.term = TerminationOf(review.verdict)]
  /\ Goto("cycle")
  /\ UNCHANGED <<run, attempts, store, snap, evidence>>

-----------------------------------------------------------------------------
(* The revision cycle. *)

Revisable ==
  /\ run.status # "REQUIRES_REPLANNING"
  /\ RequestsRevision(LastRound.review.verdict)
\* Faulty: an attempt without an outcome does not stop the next one.
OpenIgnored == FALSE

Open == attempts # <<>> /\ LastAttempt.outcome = "open"

\* Faulty: only the attempts of the current namespace are counted.
ExhaustedHere ==
  Cardinality({i \in DOMAIN attempts : attempts[i].ns = E!Namespace}) >= chain.max

Exhausted == Len(attempts) >= chain.max

\* Every turn of the cycle begins with a check of the authority that the
\* stored review has over the plan, by today's report and evidence; it ends
\* the chain, whatever was decided, and whether or not that had ended it.
RejectTrigger ==
  /\ At("cycle") /\ run.status # "REQUIRES_REPLANNING"
  /\ Block("INVALID_TRIGGER_APPROVAL_CHAIN")
  /\ UNCHANGED <<run, attempts, store, snap, evidence>>

LeaveCycle ==
  /\ At("cycle") /\ ~Revisable
  /\ Goto("evidence")
  /\ UNCHANGED <<run, chain, attempts, store, snap, evidence>>

\* The claimed attempt has no outcome, but a round of the chain binds its
\* input: only the outcome file was lost.
Bound == \E i \in 2 .. Len(chain.rounds) : chain.rounds[i].input = LastAttempt.input

\* Faulty: the outcome of a reconciled attempt is not written.
ReconcileUnwritten ==
  /\ At("cycle") /\ Revisable /\ Open /\ Bound
  /\ UNCHANGED vars

\* Faulty: the reconciled attempt is recorded as refused.
ReconcileRefused ==
  /\ At("cycle") /\ Revisable /\ Open /\ Bound
  /\ attempts' = [attempts EXCEPT ![Len(attempts)].outcome = "TERMINATED"]
  /\ UNCHANGED <<run, chain, store, snap, call, evidence>>

Reconcile ==
  /\ At("cycle") /\ Revisable /\ Open /\ Bound
  /\ attempts' = [attempts EXCEPT ![Len(attempts)].outcome = "COMPLETED"]
  /\ UNCHANGED <<run, chain, store, snap, call, evidence>>

StopRevising ==
  /\ At("cycle") /\ Revisable
  /\ \/ Open /\ ~Bound /\ Block("REVISION_ATTEMPT_UNCERTAIN")
     \/ ~Open /\ Exhausted /\ Block("REVISION_BUDGET_EXHAUSTED")
     \/ /\ ~Open /\ ~Exhausted
        /\ \/ Block("REVISION_REQUIRES_EXTERNAL_ACTION")
           \/ Block("REVISION_OUTPUT_REJECTED")  \* the claim was not written
  /\ UNCHANGED <<run, attempts, store, snap, evidence>>

\* The revision input is the parent plan with its review; it is written
\* under the round's prefix just before the exclusive claim.
ClaimAttempt ==
  /\ At("cycle") /\ Revisable /\ ~Open /\ ~Exhausted
  /\ attempts' = Append(attempts, [ns |-> E!Namespace, input |-> LastRound.review,
                                   calls |-> 0, outcome |-> "open"])
  /\ Goto("claimed")
  /\ UNCHANGED <<run, chain, store, snap, evidence>>

\* The planner is called; its answer is a revised plan or is rejected.
Revise ==
  /\ At("claimed")
  /\ attempts' = [attempts EXCEPT ![Len(attempts)].calls = @ + 1]
  /\ \/ Goto("rejected")
     \/ \E out \in Outputs :
          call' = [call EXCEPT !.pc = "answered",
                               !.plan = [ctx |-> run.ctx, out |-> out,
                                         round |-> LastIndex + 1]]
  /\ UNCHANGED <<run, chain, store, snap, evidence>>

TerminateAttempt ==
  /\ At("rejected")
  /\ attempts' = [attempts EXCEPT ![Len(attempts)].outcome = "TERMINATED"]
  /\ Goto("refused")
  /\ UNCHANGED <<run, chain, store, snap, evidence>>

BlockRejected ==
  /\ At("refused")
  /\ Block("REVISION_OUTPUT_REJECTED")
  /\ UNCHANGED <<run, attempts, store, snap, evidence>>

Materialize ==
  /\ At("answered")
  /\ LET p == Prefix(LastIndex + 1) IN
     IF planFile[p] \notin {NoPlan, call.plan}
     THEN Return /\ UNCHANGED planFile
     ELSE planFile' = [planFile EXCEPT ![p] = call.plan] /\ Goto("materialized")
  /\ UNCHANGED <<run, chain, attempts, reviewFile, plain, snap, evidence>>

ExtendChain ==
  /\ At("materialized")
  /\ chain' = [chain EXCEPT !.term = "none", !.rounds =
                 Append(@, [plan |-> call.plan, input |-> LastAttempt.input,
                            review |-> NoReview])]
  /\ Goto("extended")
  /\ UNCHANGED <<run, attempts, store, snap, evidence>>

CompleteAttempt ==
  /\ At("extended")
  /\ attempts' = [attempts EXCEPT ![Len(attempts)].outcome = "COMPLETED"]
  /\ Goto("completed")
  /\ UNCHANGED <<run, chain, store, snap, evidence>>

SaveRevised ==
  /\ At("completed")
  /\ run' = [run EXCEPT !.status = "AWAITING_APPROVAL", !.plan = LastRound.plan,
                        !.sel = TRUE, !.appr = NoReview, !.exported = FALSE]
  /\ Goto("revised")
  /\ UNCHANGED <<chain, attempts, store, snap, evidence>>

-----------------------------------------------------------------------------
(* After approval: an INSUFFICIENT_EVIDENCE verdict may open an evidence   *)
(* cycle; its trigger is archived first.                                   *)

Settle ==
  /\ At("evidence") /\ Quiet
  /\ IF /\ run.appr # NoReview /\ policy # 0
        /\ StoredReview.verdict = "INSUFFICIENT"
        /\ ~E!ArchiveConflict(StoredReview)
     THEN E!Archive(StoredReview) /\ Goto("triggered")
     ELSE Return /\ UNCHANGED evidence
  /\ UNCHANGED <<run, chain, attempts, store, snap>>

\* export_downstream of the approved plan.
Export ==
  /\ At("idle")
  /\ run.status \in {"APPROVED", "EXPORTED"} /\ run.sel
  /\ StoredReview.plan = run.plan /\ StoredReview.verdict = "APPROVE"
  /\ run' = [run EXCEPT !.status = "EXPORTED", !.exported = TRUE]
  /\ UNCHANGED <<chain, attempts, store, snap, call, evidence>>

-----------------------------------------------------------------------------
(* The environment. *)

KnowledgeChanges ==
  /\ snap < MaxSnapshot
  /\ snap' = snap + 1
  /\ UNCHANGED <<run, chain, attempts, store, call, evidence>>

Crash ==
  /\ ~At("idle")
  /\ Return /\ work' = E!Off
  /\ UNCHANGED <<run, chain, attempts, store, snap, policy, cycles, archive>>

EvidenceResolution ==
  \/ ResolveGap \/ ResolveReview \/ EvidenceStep
  \/ EvidenceBlocked \/ EvidenceFailed \/ EvidenceChild

Planning ==
  \/ PlanFromChain \/ (\E out \in Outputs : Propose(out)) \/ SavePlanned
  \/ CreateChain \/ SelectRound \/ AwaitApproval

Approval ==
  \/ ReturnUnapproved \/ ReuseRoundApproval
  \/ \E verdict \in Verdicts : Approve(verdict)
  \/ ApproverFails \/ SaveApproved \/ RecordRound

Revision ==
  \/ RejectTrigger \/ LeaveCycle \/ Reconcile \/ StopRevising \/ ClaimAttempt \/ Revise
  \/ TerminateAttempt \/ BlockRejected \/ Materialize \/ ExtendChain
  \/ CompleteAttempt \/ SaveRevised

Advance ==
  \/ CurationPending \/ Ready \/ FailStage \/ BuildContext \/ DryReturn \/ Interpret
  \/ EvidenceResolution \/ Planning \/ Approval \/ Revision
  \/ SaveBlocked \/ Settle

Next ==
  \/ \E opt \in Options : Enter(opt)
  \/ Advance
  \/ Export
  \/ KnowledgeChanges
  \/ Crash

Spec == Init /\ [][Next]_vars

\* A call that holds the lock keeps running unless it is interrupted.  That
\* its review loses its authority some day is nothing a loop may count on to
\* end.
FairSpec == Spec /\ WF_vars(Advance /\ ~RejectTrigger)

-----------------------------------------------------------------------------
(* Properties. *)

LedgerState(a) ==
  IF a.outcome # "open" THEN "settled"
  ELSE IF a.calls = 1 THEN "called" ELSE "claimed"
Ledger == [i \in DOMAIN attempts |-> LedgerState(attempts[i])]
Calls == INSTANCE ClaimedCalls WITH ledger <- Ledger, Limit <- MaxRevisions

Resolver == INSTANCE EvidenceResolution WITH
  Nothing <- "nothing", at <- run.ctx.snap,
  open <- IF At("triggered") THEN "review" ELSE IF InGap THEN "gap" ELSE "no"

PCs == {"idle", "entered", "ready", "context", "interpreted", "triggered",
  "proposed", "planned", "chained", "selected", "awaiting", "reviewed", "approved",
  "cycle", "claimed", "answered", "rejected", "refused", "materialized",
  "extended", "completed", "revised", "blocking", "evidence"}

Runs == [status : Statuses, ctx : Contexts, plan : Plans, sel : BOOLEAN,
         appr : Reviews, exported : BOOLEAN]
Chains == [ctx : Contexts, max : 0 .. MaxRevisions, rounds : Seq(Rounds),
           term : Terminations]
Call == [pc : PCs, opt : Options \cup {NoOption}, prev : Runs, chained : BOOLEAN,
         plan : Plans, review : Reviews]
Attempts == [ns : 0 .. CycleLimit, input : Reviews, calls : 0 .. 1,
             outcome : {"open", "COMPLETED", "TERMINATED"}]

\* Every file and local has the shape its model class declares.
TypeOK ==
  /\ run \in Runs
  /\ chain \in Chains
  /\ attempts \in Seq(Attempts)
  /\ planFile \in [Prefixes -> Plans]
  /\ reviewFile \in [Prefixes -> Reviews]
  /\ plain \in [plan : Plans, review : Reviews]
  /\ snap \in 1 .. MaxSnapshot
  /\ call \in Call
  /\ policy \in 0 .. CycleLimit
  /\ cycles \in Seq(E!Cycle)
  /\ archive \in [1 .. CycleLimit + 1 -> Reviews]
  /\ work \in [step : E!Steps, request : Requests \cup {"nothing"}, why : E!Reasons]

\* An APPROVED or EXPORTED run carries an APPROVE review of exactly its
\* current plan, made for its current context, whatever was replanned,
\* revised, reused or interrupted before.
ApprovalBindsPlan ==
  run.status \in {"APPROVED", "EXPORTED"} =>
    /\ run.appr.verdict = "APPROVE"
    /\ run.appr.plan = run.plan
    /\ run.plan.ctx = run.ctx

\* The approval files that export_downstream opens are those of the plan it
\* is about to export, unless the run left a terminated chain behind.
ApprovedIsExportable ==
  run.status \in {"APPROVED", "EXPORTED"} /\ ~LeftChain =>
    StoredReview.plan = run.plan /\ StoredReview.verdict = "APPROVE"

\* An APPROVED run can be exported.  Not when an evidence cycle replanned it
\* after a review ended its chain and a resume without --max-plan-revisions
\* approved the new plan: export still opens the chain's approval.
EveryApprovedIsExportable ==
  run.status \in {"APPROVED", "EXPORTED"} =>
    StoredReview.plan = run.plan /\ StoredReview.verdict = "APPROVE"

\* The revision attempts implement the rule of claimed calls: the planner is
\* called at most once for an attempt, and no attempt is claimed on top of
\* one whose outcome is unknown (planning.revision.attempt, service.py).
AtMostOnce == Calls!Spec

\* The evidence cycles of the run are served as EvidenceResolution promises,
\* with the run as the caller.
EvidenceContract == Resolver!Spec

\* Every revised round was paid for: the review it was made from is the input
\* of an attempt that did not end in a refusal.
RoundsPaid ==
  \A i \in 2 .. Len(chain.rounds) :
    \E k \in DOMAIN attempts : /\ attempts[k].input = chain.rounds[i].input
                              /\ attempts[k].outcome # "TERMINATED"

\* Attempts are counted over the base and every evidence-replan namespace.
GlobalBudget == attempts # <<>> => \E b \in RevisionOptions : Len(attempts) <= b

\* Evidence resolution, replanning and resume do not grant more attempts.
BudgetNeverGrows == [][HasChain => chain'.max <= chain.max]_vars

\* The order in which a run plans contexts: by snapshot, then by the evidence
\* cycle the context is the child of.
Before(c, d) == c.snap < d.snap \/ (c.snap = d.snap /\ c.cyc < d.cyc)

\* The chain is recorded further: a round gets its review or is added, or
\* the chain ends.  Of a chain that has ended only the reason changes, when
\* its last review is found to have lost its authority.
ChainGrows ==
  /\ chain.term # "none" => /\ chain'.rounds = chain.rounds
                            /\ chain'.term = "INVALID_TRIGGER_APPROVAL_CHAIN"
  /\ chain'.ctx = chain.ctx /\ chain'.max = chain.max
  /\ Len(chain.rounds) <= Len(chain'.rounds)
  /\ \A i \in DOMAIN chain.rounds :
       LET old == chain.rounds[i]  new == chain'.rounds[i] IN
       /\ new.plan = old.plan /\ new.input = old.input
       /\ old.review \in {NoReview, new.review}

\* A chain in effect only grows, and once it has ended it keeps all but the
\* reason: what was planned, passed on and reviewed in it stays.  A chain
\* that is left is replaced only by one for a later context, so no context
\* is planned under two chains, although an evidence cycle that ends without
\* new evidence lets later calls rebuild the context the run was replanned
\* from.
ChainsAdvance ==
  [][chain' # chain =>
       IF ChainInEffect(run) THEN ChainGrows
       ELSE /\ chain'.ctx = run.ctx
            /\ HasChain => Before(chain.ctx, chain'.ctx)]_vars

\* A saved round is reused on resume: nothing here tampers with its files.
SavedRoundIsReused == chain.term # "STALE_APPROVAL_CHAIN"

\* A run blocked on source curation can be resumed once that is done.
CurationIsResumable ==
  run.status = "BLOCKED_SOURCE_CURATION" /\ At("idle")
    => ~(ChainInEffect(run) /\ chain.term # "none")

\* Every call ends: the revision and evidence loops are bounded.
CallReturns == ~At("idle") ~> At("idle")
=============================================================================
