-------------------------- MODULE SuccessorPlanning --------------------------
(***************************************************************************)
(* SuccessorPlanningService.compile together with the intake it extends:   *)
(* accepted results of one run are planned, selected and approved in       *)
(* successor-planning/cycle-N, and an approved successor plan can be the   *)
(* parent of further results.                                              *)
(*                                                                         *)
(* A compile call reserves its invocation, then each step ends where the   *)
(* code writes a file.  Abort ends a call between two steps: an exception, *)
(* or an interruption after which the lock was released.  A later call     *)
(* with the same invocation resumes from the files.  Calls that are        *)
(* refused before their first write, or find a finished cycle, change      *)
(* nothing and are no steps.                                               *)
(***************************************************************************)
EXTENDS ResultIntake, Sequences, TLC

CONSTANTS
  CycleLimit,     \* bound on the successor cycles
  FollowUps,      \* the follow-up requests callers pass
  MaxCandidates   \* largest proposal set (4 in the code)

Interchangeable == Permutations(Submissions)

ASSUME SuccessorAssumption ==
  /\ CycleLimit \in Nat /\ MaxCandidates \in Nat \ {0} /\ CurationLimit \in Nat
  /\ IsFiniteSet(Submissions) /\ "none" \notin Submissions

VARIABLES
  base,    \* the run still holds the base plan with its approval
  cycles,  \* the cycle directories, by index
  call     \* the compile call that holds the run lock

vars == <<intakeVars, base, cycles, call>>

Candidates == 1 .. MaxCandidates
Decisions == {"APPROVED", "REJECTED"}

\* provider-calls/*.yaml, and (not in the file) how often it was called.
Claimable == [claimed : BOOLEAN, calls : Nat]
Unclaimed == [claimed |-> FALSE, calls |-> 0]

\* What a directory holds.  update is set with parent-binding.yaml and
\* research-update.yaml, core with the last of context, evidence packet and
\* planning input: nothing tells an interruption among them from none of them
\* written.  proposal is the size of the stored proposal set, plans how many
\* of its candidates have plan, receipt and validation; approval counts the
\* review files up to the receipt (1), the gate (2) and the trust policy (3).
Cycle == [results : SUBSET Submissions, followUp : FollowUps,
          update : {"none", "FOLLOW_UP_PLAN_REQUIRED", "NO_PLAN"}, core : BOOLEAN,
          planning : Claimable, proposal : 0 .. MaxCandidates,
          plans : 0 .. MaxCandidates, outcome : BOOLEAN,
          selection : 0 .. MaxCandidates, approving : Claimable, approval : 0 .. 3,
          reviewed : 0 .. MaxCandidates, gate : Decisions \cup {"none"},
          status : Decisions \cup {"none", "NO_PLAN"}]

Reservation(results, followUp) ==
  [results |-> results, followUp |-> followUp, update |-> "none",
   core |-> FALSE, planning |-> Unclaimed, proposal |-> 0, plans |-> 0,
   outcome |-> FALSE, selection |-> 0, approving |-> Unclaimed, approval |-> 0,
   reviewed |-> 0, gate |-> "none", status |-> "none"]

PCs == {"idle", "reserved", "updated", "core", "planning", "proposed",
        "storing", "planned", "selected", "approving", "reviewed", "closing",
        "refused", "uncertain"}

\* The call in progress: its cycle, whether it found it, the candidate it was
\* given and then settled on (0: none), the proposal size and the decision.
Call == [pc : PCs, c : 0 .. CycleLimit, found : BOOLEAN,
         choice : 0 .. MaxCandidates, n : 0 .. MaxCandidates,
         decision : Decisions \cup {"none"}]
Idle == [pc |-> "idle", c |-> 0, found |-> FALSE, choice |-> 0, n |-> 0,
         decision |-> "none"]

Init ==
  /\ IntakeInit
  /\ base = TRUE
  /\ cycles = <<>>
  /\ call = Idle

-----------------------------------------------------------------------------
(* What the stored files say. *)

Unlocked == task.step = "off" /\ call.pc = "idle"

\* Faulty: a reviewed successor is a parent, whatever the review said.
ApprovedCyclesReviewed ==
  LET approved[c \in 0 .. Len(cycles)] ==
        IF c = 0 THEN base
        ELSE /\ cycles[c].status \in Decisions
             /\ \A s \in cycles[c].results : approved[submission[s][1]]
  IN {c \in 0 .. Len(cycles) : approved[c]}

\* _load_parent: a successor plan is approved if its cycle is and the parents
\* of the results it was planned from are, down to the base plan.
ApprovedCycles ==
  LET approved[c \in 0 .. Len(cycles)] ==
        IF c = 0 THEN base
        ELSE /\ cycles[c].status = "APPROVED"
             /\ \A s \in cycles[c].results : approved[submission[s][1]]
  IN {c \in 0 .. Len(cycles) : approved[c]}

ApprovedPlan(plan) ==
  /\ plan[1] \in ApprovedCycles
  /\ plan[1] # 0 => cycles[plan[1]].selection = plan[2]

\* The plans a submission can be about: all candidates ever stored.
StoredPlans ==
  {BasePlan} \cup {plan \in (DOMAIN cycles) \X Candidates : plan[2] <= cycles[plan[1]].plans}

\* The results of one call are of one approved plan, and each is accepted
\* with the receipt of that acceptance.
Compilable(results) ==
  /\ results # {}
  /\ \A s, t \in results : submission[s] = submission[t]
  /\ \A s \in results : ApprovedPlan(submission[s]) /\ Usable(s)

\* The invocation is its result set, follow-up request and planner; the
\* parent plan and the receipts follow from the results.
Reserved(results, followUp) ==
  {c \in DOMAIN cycles : cycles[c].results = results /\ cycles[c].followUp = followUp}

This == cycles[call.c]
PlansComplete(c) == cycles[c].proposal # 0 /\ cycles[c].plans = cycles[c].proposal
ApprovalComplete(c) == cycles[c].approval = 3

\* What successor-plan-status reports for a cycle without cycle.yaml.
Report(c) ==
  IF cycles[c].outcome THEN "HUMAN_SCIENTIFIC_DECISION_REQUIRED"
  ELSE IF cycles[c].approving.claimed THEN "SUCCESSOR_APPROVAL_OUTCOME_UNCERTAIN"
  ELSE IF cycles[c].planning.claimed /\ cycles[c].proposal # 0
    THEN "PLANNING_COMPLETE_AWAITING_SELECTION_OR_APPROVAL"
  ELSE IF cycles[c].planning.claimed THEN "SUCCESSOR_PLANNING_OUTCOME_UNCERTAIN"
  ELSE "SUCCESSOR_INVOCATION_RESERVED"

-----------------------------------------------------------------------------
(* Control. *)

At(pc) == call.pc = pc
Goto(pc) == call' = [call EXCEPT !.pc = pc]
Return == call' = Idle
KeepCycles == UNCHANGED cycles
Others == UNCHANGED <<intakeVars, base>>

-----------------------------------------------------------------------------
(* compile *)

Begin(c, found, choice) ==
  call' = [Idle EXCEPT !.pc = "reserved", !.c = c, !.found = found, !.choice = choice]

\* Faulty: another candidate makes another invocation.
ReserveChoice(results, followUp, choice) ==
  /\ Unlocked /\ Compilable(results)
  /\ \A c \in Reserved(results, followUp) : choice # 0 /\ cycles[c].selection # choice
  /\ Len(cycles) < CycleLimit
  /\ cycles' = Append(cycles, Reservation(results, followUp))
  /\ Begin(Len(cycles) + 1, FALSE, choice)
  /\ Others

Reserve(results, followUp, choice) ==
  /\ Unlocked /\ Compilable(results)
  /\ Reserved(results, followUp) = {}
  /\ Len(cycles) < CycleLimit
  /\ cycles' = Append(cycles, Reservation(results, followUp))
  /\ Begin(Len(cycles) + 1, FALSE, choice)
  /\ Others

\* Faulty: a reserved invocation is resumed whatever became of its results.
ResumeUnchecked(results, followUp, choice) ==
  /\ Unlocked
  /\ \E c \in DOMAIN cycles :
       /\ Reserved(results, followUp) = {c}
       /\ cycles[c].status = "none"
       /\ Begin(c, TRUE, choice)
  /\ KeepCycles /\ Others

\* A finished cycle is returned as it is.
Resume(results, followUp, choice) ==
  /\ Unlocked /\ Compilable(results)
  /\ \E c \in DOMAIN cycles :
       /\ Reserved(results, followUp) = {c}
       /\ cycles[c].status = "none"
       /\ Begin(c, TRUE, choice)
  /\ KeepCycles /\ Others

\* A failed execution, or results that cover every criterion, need no plan;
\* the same results always lead to the same update.
WriteUpdate ==
  /\ At("reserved")
  /\ \E status \in {"FOLLOW_UP_PLAN_REQUIRED", "NO_PLAN"} :
       cycles' = [cycles EXCEPT ![call.c].update = IF @ = "none" THEN status ELSE @]
  /\ Goto("updated") /\ Others

\* A resumed call does not build what is missing.
LoadCore ==
  /\ At("updated") /\ call.found
  /\ Goto(IF This.core THEN "core" ELSE "refused")
  /\ KeepCycles /\ Others

WriteCore ==
  /\ At("updated") /\ ~call.found
  /\ cycles' = [cycles EXCEPT ![call.c].core = TRUE]
  /\ Goto("core") /\ Others

CloseWithoutPlan ==
  /\ At("core") /\ This.update = "NO_PLAN"
  /\ cycles' = [cycles EXCEPT ![call.c].status = "NO_PLAN"]
  /\ Return /\ Others

\* A claimed planning call counts only with its complete verified output.
LoadPlanning ==
  /\ At("core") /\ This.update # "NO_PLAN" /\ This.planning.claimed
  /\ IF PlansComplete(call.c)
     THEN call' = [call EXCEPT !.pc = "planned", !.n = This.proposal]
     ELSE Goto("uncertain")
  /\ KeepCycles /\ Others

ClaimPlanning ==
  /\ At("core") /\ This.update # "NO_PLAN" /\ ~This.planning.claimed
  /\ cycles' = [cycles EXCEPT ![call.c].planning.claimed = TRUE]
  /\ Goto("planning") /\ Others

\* planner.propose, the binding of its answer, and the compilation; what they
\* refuse ends in Abort.
Propose ==
  /\ At("planning")
  /\ cycles' = [cycles EXCEPT ![call.c].planning.calls = @ + 1]
  /\ \E n \in Candidates : call' = [call EXCEPT !.pc = "proposed", !.n = n]
  /\ Others

WriteProposal ==
  /\ At("proposed")
  /\ cycles' = [cycles EXCEPT ![call.c].proposal = call.n]
  /\ Goto("storing") /\ Others

\* Plan, compilation receipt and validation record of the next candidate; an
\* interruption among the three leaves that candidate incomplete.
WritePlan ==
  /\ At("storing")
  /\ cycles' = [cycles EXCEPT ![call.c].plans = @ + 1]
  /\ IF This.plans + 1 = call.n THEN Goto("planned") ELSE UNCHANGED call
  /\ Others

-----------------------------------------------------------------------------
(* Selection. *)

\* A stored selection is taken unless the caller names another candidate
\* (SUCCESSOR_SELECTION_CONFLICT, an Abort).
LoadSelection ==
  /\ At("planned") /\ This.selection # 0
  /\ call.choice \in {0, This.selection}
  /\ call' = [call EXCEPT !.pc = "selected", !.choice = This.selection]
  /\ KeepCycles /\ Others

\* planning-outcome.yaml: several candidates wait for a human decision.
AwaitSelection ==
  /\ At("planned") /\ This.selection = 0 /\ call.choice = 0 /\ call.n # 1
  /\ cycles' = [cycles EXCEPT ![call.c].outcome = TRUE]
  /\ Return /\ Others

\* An unknown candidate is refused (UNKNOWN_SUCCESSOR_CANDIDATE, an Abort).
Select ==
  /\ At("planned") /\ This.selection = 0
  /\ \E k \in 1 .. call.n :
       /\ call.choice = k \/ (call.choice = 0 /\ call.n = 1)
       /\ cycles' = [cycles EXCEPT ![call.c].selection = k]
       /\ call' = [call EXCEPT !.pc = "selected", !.choice = k]
  /\ Others

-----------------------------------------------------------------------------
(* Approval. *)

\* A claimed approval counts only with its complete authority chain; with the
\* gate but no policy file the refusal has another code
\* (SUCCESSOR_CYCLE_INTEGRITY_INVALID).
LoadApproval ==
  /\ At("selected") /\ This.approving.claimed
  /\ IF ApprovalComplete(call.c) THEN Goto("closing") ELSE Goto("uncertain")
  /\ KeepCycles /\ Others

\* Faulty: an approval without all its files is asked for again.
ClaimApprovalAgain ==
  /\ At("selected") /\ ~ApprovalComplete(call.c)
  /\ cycles' = [cycles EXCEPT ![call.c].approving.claimed = TRUE]
  /\ Goto("approving") /\ Others

ClaimApproval ==
  /\ At("selected") /\ ~This.approving.claimed
  /\ cycles' = [cycles EXCEPT ![call.c].approving.claimed = TRUE]
  /\ Goto("approving") /\ Others

Review ==
  /\ At("approving")
  /\ cycles' = [cycles EXCEPT ![call.c].approving.calls = @ + 1]
  /\ \E decision \in Decisions :
       call' = [call EXCEPT !.pc = "reviewed", !.decision = decision]
  /\ Others

WriteApproval ==
  /\ At("reviewed")
  /\ cycles' = [cycles EXCEPT ![call.c].approval = @ + 1,
                              ![call.c].reviewed = call.choice,
                              ![call.c].gate = IF This.approval = 0 THEN @
                                               ELSE call.decision]
  /\ IF This.approval = 2 THEN Goto("closing") ELSE UNCHANGED call
  /\ Others

\* Faulty: the record is rebuilt as soon as there is a review.
CloseReviewed ==
  /\ At("closing")
  /\ cycles' = [cycles EXCEPT ![call.c].status = "APPROVED"]
  /\ Return /\ Others

\* cycle.yaml is always rebuilt from the files.
Close ==
  /\ At("closing")
  /\ cycles' = [cycles EXCEPT ![call.c].status = This.gate]
  /\ Return /\ Others

\* The refusal reaches the caller.
Refused ==
  /\ At("refused") \/ At("uncertain")
  /\ Return /\ KeepCycles /\ Others

Abort ==
  /\ ~At("idle")
  /\ Return /\ KeepCycles /\ Others

-----------------------------------------------------------------------------
(* The system. *)

Intake ==
  \/ /\ Unlocked
     /\ \/ \E s \in Submissions, plan \in StoredPlans : Submit(s, plan)
        \/ \E s \in Submissions, status \in {"ACCEPTED", "REJECTED"} : Curate(s, status)
     /\ UNCHANGED <<base, cycles, call>>
  \/ /\ task.step # "off"
     /\ \/ Assess(ApprovedPlan(submission[task.sub]))
        \/ Store(ApprovedPlan(submission[task.sub]))
        \/ WriteReceipt
        \/ Abandon
     /\ UNCHANGED <<base, cycles, call>>

Compile ==
  \/ WriteUpdate \/ LoadCore \/ WriteCore \/ CloseWithoutPlan
  \/ LoadPlanning \/ ClaimPlanning \/ Propose \/ WriteProposal \/ WritePlan
  \/ LoadSelection \/ AwaitSelection \/ Select
  \/ LoadApproval \/ ClaimApproval \/ Review \/ WriteApproval \/ Close
  \/ Refused

\* Resuming the run may replace its plan, or bring the old one back, as long
\* as the run keeps no revision chain (ScientificRun).
RunChanges ==
  /\ Unlocked
  /\ base' = ~base
  /\ UNCHANGED <<intakeVars, cycles, call>>

Next ==
  \/ Intake
  \/ \E results \in SUBSET Submissions, followUp \in FollowUps,
        choice \in {0} \cup Candidates :
       Reserve(results, followUp, choice) \/ Resume(results, followUp, choice)
  \/ Compile
  \/ Abort
  \/ RunChanges

Spec == Init /\ [][Next]_vars

-----------------------------------------------------------------------------
(* Properties. *)

TypeOK ==
  /\ submission \in [Submissions -> (0 .. CycleLimit) \X (0 .. MaxCandidates)]
  /\ assessment \in [Submissions -> Assessments]
  /\ curations \in [Submissions -> SUBSET Curation]
  /\ evidence \subseteq Submissions
  /\ receipt \in [Submissions -> 0 .. CurationLimit]
  /\ task \in [step : TaskSteps, sub : Submissions \cup {"none"}]
  /\ base \in BOOLEAN
  /\ cycles \in Seq(Cycle) /\ Len(cycles) <= CycleLimit
  /\ call \in Call

\* A receipt was written for an acceptance of an admissible result whose
\* evidence is stored, whatever was interrupted or reversed.
ReceiptIsEarned ==
  \A s \in Submissions : receipt[s] # 0 =>
    /\ assessment[s] = "RESULT_REQUIRES_CURATION" /\ s \in evidence
    /\ \E r \in curations[s] : r.id = receipt[s] /\ r.status = "ACCEPTED"

\* The same exact invocation never occupies two cycles, whatever candidate
\* its callers select and however often it is interrupted.
OneCyclePerInvocation ==
  \A c, d \in DOMAIN cycles :
    cycles[c].results = cycles[d].results /\ cycles[c].followUp = cycles[d].followUp
      => c = d

\* Every approved successor descends from the base plan: its results are
\* about the base plan or the selected plan of an earlier approved cycle.
Descends(c) ==
  \A s \in cycles[c].results :
    \/ submission[s] = BasePlan
    \/ /\ submission[s][1] \in 1 .. c - 1
       /\ cycles[submission[s][1]].status = "APPROVED"
       /\ cycles[submission[s][1]].selection = submission[s][2]
ApprovedLineage == \A c \in DOMAIN cycles : Descends(c)

\* A finished cycle has the decision of the gate of its own selected plan.
ApprovalBindsSelection ==
  \A c \in DOMAIN cycles : cycles[c].status \in Decisions =>
    /\ cycles[c].reviewed = cycles[c].selection /\ cycles[c].selection # 0
    /\ cycles[c].gate = cycles[c].status

\* No provider is claimed and no cycle finished for a result that is not
\* accepted at that time, under the receipt of that very acceptance.
InForce(s) ==
  \E r \in curations[s] : /\ r.status = "ACCEPTED" /\ receipt[s] = r.id
                          /\ \A q \in curations[s] : q.supersedes # r.id
Paid(c) == <<cycles[c].planning, cycles[c].approving, cycles[c].status>>
ClaimsFollowAcceptance ==
  [][\A c \in DOMAIN cycles : Paid(c)' # Paid(c) => \A s \in cycles[c].results : InForce(s)]_vars

\* The planning and the approval call of every cycle implement the rule of
\* claimed calls: each is made at most once, and approval is not claimed
\* while the outcome of planning is unknown.
Stage(claim, complete) ==
  IF complete THEN "settled" ELSE IF claim.calls = 1 THEN "called" ELSE "claimed"
Ledger(c) ==
  IF c \notin DOMAIN cycles \/ ~cycles[c].planning.claimed THEN <<>>
  ELSE <<Stage(cycles[c].planning, PlansComplete(c))>>
         \o (IF cycles[c].approving.claimed
             THEN <<Stage(cycles[c].approving, ApprovalComplete(c))>> ELSE <<>>)
Calls(c) == INSTANCE ClaimedCalls WITH ledger <- Ledger(c), Limit <- 2
AtMostOnce ==
  /\ \A c \in 1 .. CycleLimit : Calls(c)!Init
  /\ [][\A c \in 1 .. CycleLimit : [Calls(c)!Next]_(Ledger(c))]_vars

\* A provider is not called again only when its claimed outcome is
\* incomplete: without a claim, resuming is not refused.
UnclaimedResumes == At("refused") => This.planning.claimed

\* A claimed call without its complete stage output remains planning- or
\* approval-specific uncertain state, in the status report too.
UncertainIsReported ==
  At("uncertain") => Report(call.c) \in {"SUCCESSOR_PLANNING_OUTCOME_UNCERTAIN",
                                         "SUCCESSOR_APPROVAL_OUTCOME_UNCERTAIN"}
=============================================================================
