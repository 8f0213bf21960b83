------------------------ MODULE HierarchicalPlanning ------------------------
(***************************************************************************)
(* Initial planning of one scientific run: the evidence loop of _advance,  *)
(* the three stages of the hierarchical strategy with their files under    *)
(* hierarchical-planning/ or evidence-hierarchy-k/, and the choice between *)
(* that strategy and direct planning, which every call makes anew from its *)
(* own --planning-strategy and from the files it finds.                    *)
(*                                                                         *)
(* What comes before (curation, context, interpretation) is one step here, *)
(* and what comes after (revision, approval) is left to ScientificRun.     *)
(***************************************************************************)
EXTENDS Naturals, Sequences

CONSTANTS
  CycleLimit,    \* as in EvidenceCycles (3 in the code)
  CycleOptions,  \* the --max-evidence-resolution-cycles values callers pass
  Requests,      \* the evidence request sets a provider may return
  Gapped,        \* the contexts (by cycle) with a blocking evidence gap
  Triages,       \* what a triage can come to
  MaxSnapshot    \* bound on knowledge changes

\* "need" retains a direction that first needs evidence a retrieval can give.
AllTriages == {"retain", "need", "human", "nothing_retained"}

ASSUME PlanningAssumption ==
  /\ CycleLimit \in Nat /\ MaxSnapshot \in Nat \ {0}
  /\ CycleOptions \subseteq 0 .. CycleLimit
  /\ Triages \subseteq AllTriages
  /\ "nothing" \notin Requests

VARIABLES
  run,    \* run.json: its status, context and the proposal it carries
  hier,   \* the stages of every hierarchy root, in the order they started
  snap,   \* the current knowledge snapshot
  call,   \* the call that holds the run lock, with its locals
  policy, cycles, archive, work   \* of EvidenceCycles

evidence == <<policy, cycles, archive, work>>
vars == <<run, hier, snap, call, policy, cycles, archive, work>>

-----------------------------------------------------------------------------
(* Data.  A context determines the planning input made from it.            *)

NoContext == [snap |-> 0, cyc |-> 0]
Contexts == [snap : 0 .. MaxSnapshot, cyc : 0 .. CycleLimit]

Strategies == {"direct", "hierarchical"}
NoPlan == [ctx |-> NoContext, root |-> 0, how |-> "none"]
NoRun == [status |-> "CREATED", ctx |-> NoContext, plan |-> NoPlan]
Statuses == {"CREATED", "INTERPRETED", "PLANNED", "FAILED",
  "HIERARCHICAL_PLANNING_BLOCKED", "EVIDENCE_RESOLUTION_BLOCKED",
  "BLOCKED_SOURCE_CURATION"}
Plan == [ctx : Contexts, root : 0 .. CycleLimit, how : Strategies \cup {"none"}]
Run == [status : Statuses, ctx : Contexts, plan : Plan]

\* Stage 1 is the directions, stage 2 the triage, stage 3 the expansion.
Answers(i) == <<{"directions"}, Triages, {"expansion"}>>[i]
Unsaved == "unsaved"
Outputs == AllTriages \cup {"directions", "expansion"}

\* A stage attempt, and the output that was saved for it.
Stage == [ctx : Contexts, calls : 0 .. 1, out : Outputs \cup {Unsaved}]

\* Where a call is, and what it does after its stages are there.
Call == [pc : {"idle", "gap", "needs", "stage", "claimed", "asked", "verdict",
               "strategy", "compile"},
         strategy : Strategies, stage : 0 .. 3,
         then : {"none", "needs", "expand"}, answer : Outputs \cup {Unsaved}]

Idle == [pc |-> "idle", strategy |-> "direct", stage |-> 0, then |-> "none",
         answer |-> Unsaved]

E == INSTANCE EvidenceCycles WITH
  Nothing <- "nothing", Reviews <- {}, NoReview <- "none"

Init ==
  /\ run = NoRun
  /\ hier = [r \in 0 .. CycleLimit |-> <<>>]
  /\ snap = 1
  /\ call = Idle
  /\ E!CyclesInit

-----------------------------------------------------------------------------
(* What the stored files say. *)

\* _hierarchical_root: the last completed cycle, when it has a child.
Root == E!Namespace
Stages == hier[Root]
Started(i) == i \in DOMAIN Stages
Complete(i) == Started(i) /\ Stages[i].out # Unsaved

HasGap == run.ctx.cyc \in Gapped
Triage == Stages[2].out

-----------------------------------------------------------------------------
(* Control. *)

At(pc) == call.pc = pc
Goto(pc) == call' = [call EXCEPT !.pc = pc]
Return == call' = Idle
Save(status) == run' = [run EXCEPT !.status = status]
Quiet == work.step = "off"

\* HierarchicalPlanningBlocked: saved as not retryable.
Blocked == Save("HIERARCHICAL_PLANNING_BLOCKED") /\ Return

\* Up to the planning input: the context of the current snapshot, or the
\* child context of the last cycle; another context than the run's clears
\* what the run had planned.
Begin(strategy, n) ==
  /\ At("idle")
  /\ E!EnsurePolicy(n)
  /\ LET c == [snap |-> snap, cyc |-> E!ChildFor(snap)] IN
     run' = [status |-> "INTERPRETED", ctx |-> c,
             plan |-> IF run.ctx \in {NoContext, c} THEN run.plan ELSE NoPlan]
  /\ call' = [Idle EXCEPT !.pc = "gap", !.strategy = strategy]
  /\ UNCHANGED <<hier, snap>>

FailStage ==
  /\ ~At("idle") /\ Quiet
  /\ Save("FAILED") /\ Return
  /\ UNCHANGED <<hier, snap, evidence>>

-----------------------------------------------------------------------------
(* Evidence, for a blocking gap of the planning input (at "gap") and for   *)
(* an evidence need the triage declared (at "needs").                      *)

Trigger == IF At("gap") THEN "gap" ELSE "directions"

\* A terminated resolution stops the call even when nothing is left to ask.
MustResolve ==
  /\ At("gap") \/ At("needs")
  /\ policy # 0
  /\ E!Terminated(run.ctx.snap) \/ HasGap \/ (At("needs") /\ Triage = "need")

Resolve ==
  /\ Quiet /\ MustResolve
  /\ E!Refuse(run.ctx.snap) \/ E!Claim(run.ctx.snap, Trigger)
  /\ UNCHANGED <<run, hier, snap, call>>

EvidenceStep ==
  /\ ~At("idle") /\ E!Resolving
  /\ UNCHANGED <<run, hier, snap, call>>

\* Faulty: a refused resolution is taken for a finished one.
EvidenceIgnored ==
  /\ work.step = "blocked" /\ E!Finish
  /\ Goto("gap")
  /\ UNCHANGED <<run, hier, snap>>

EvidenceBlocked ==
  /\ work.step = "blocked" /\ E!Finish
  /\ Save(IF work.why = "curation" THEN "BLOCKED_SOURCE_CURATION"
          ELSE "EVIDENCE_RESOLUTION_BLOCKED")
  /\ Return
  /\ UNCHANGED <<hier, snap>>

EvidenceFailed ==
  /\ work.step = "failed" /\ E!Finish
  /\ Save("FAILED") /\ Return
  /\ UNCHANGED <<hier, snap>>

\* The child context replaces the run's and the loop starts again: a fresh
\* hierarchy, in the root of the new cycle.
EvidenceChild ==
  /\ work.step = "child" /\ E!Finish
  /\ run' = [status |-> "INTERPRETED", plan |-> NoPlan,
             ctx |-> [run.ctx EXCEPT !.cyc = E!LatestCompleted]]
  /\ Goto("gap")
  /\ UNCHANGED <<hier, snap>>

\* No gap and no need is left.  A hierarchical call goes on to the directions
\* after the gaps; after the needs, and in a direct call, the loop ends.
Resolved ==
  /\ At("gap") \/ At("needs")
  /\ Quiet /\ ~MustResolve
  /\ call' = IF At("gap") /\ call.strategy = "hierarchical"
             THEN [call EXCEPT !.pc = "stage", !.stage = 1, !.then = "needs"]
             ELSE [call EXCEPT !.pc = "strategy"]
  /\ UNCHANGED <<run, hier, snap, evidence>>

-----------------------------------------------------------------------------
(* One stage: reuse its output, or claim it, ask the provider, save.       *)

\* After the directions comes the triage, after the triage its verdict, after
\* the expansion the compilation.
Done ==
  call' = [call EXCEPT !.pc = <<"stage", "verdict", "compile">>[call.stage],
                       !.stage = IF @ = 1 THEN 2 ELSE @, !.answer = Unsaved]

\* Faulty: a saved output is taken as it is.
ReuseUnchecked ==
  /\ At("stage") /\ Complete(call.stage)
  /\ Done
  /\ UNCHANGED <<run, hier, snap, evidence>>

\* A saved output is validated against the planning input of this call.
Reuse ==
  /\ At("stage") /\ Complete(call.stage)
  /\ IF Stages[call.stage].ctx = run.ctx THEN Done /\ UNCHANGED run ELSE Blocked
  /\ UNCHANGED <<hier, snap, evidence>>

\* Faulty: a stage that was interrupted is asked for again.
UncertainRetried ==
  /\ At("stage") /\ Started(call.stage) /\ ~Complete(call.stage)
  /\ Goto("claimed")
  /\ UNCHANGED <<run, hier, snap, evidence>>

\* The stage was started and no complete output was saved.
Uncertain ==
  /\ At("stage") /\ Started(call.stage) /\ ~Complete(call.stage)
  /\ Blocked
  /\ UNCHANGED <<hier, snap, evidence>>

ClaimStage ==
  /\ At("stage") /\ ~Started(call.stage)
  /\ hier' = [hier EXCEPT ![Root] =
       Append(@, [ctx |-> run.ctx, calls |-> 0, out |-> Unsaved])]
  /\ Goto("claimed")
  /\ UNCHANGED <<run, snap, evidence>>

AskStage(answer) ==
  /\ At("claimed") /\ answer \in Answers(call.stage)
  /\ hier' = [hier EXCEPT ![Root][call.stage].calls = @ + 1]
  /\ call' = [call EXCEPT !.pc = "asked", !.answer = answer]
  /\ UNCHANGED <<run, snap, evidence>>

\* The provider lacks the stage, raises, or its answer does not validate; an
\* expansion is only validated after it was saved.
RejectStage ==
  /\ At("claimed") \/ At("asked") \/ At("compile")
  /\ Save("HIERARCHICAL_PLANNING_BLOCKED") \/ Save("FAILED")
  /\ Return
  /\ UNCHANGED <<hier, snap, evidence>>

SaveStage ==
  /\ At("asked")
  /\ hier' = [hier EXCEPT ![Root][call.stage].out = call.answer]
  /\ Done
  /\ UNCHANGED <<run, snap, evidence>>

\* Faulty: only the call that made the triage looks at it.
VerdictOnce ==
  /\ At("verdict")
  /\ IF call.then = "needs" /\ Triage \in {"human", "nothing_retained"}
     THEN Blocked
     ELSE /\ call' = IF call.then = "needs" THEN [call EXCEPT !.pc = "needs"]
                     ELSE [call EXCEPT !.pc = "stage", !.stage = 3]
          /\ UNCHANGED run
  /\ UNCHANGED <<hier, snap, evidence>>

\* Checked whether the triage was made now or found; it is the end for a
\* direction that needs a human choice and for a triage that retains nothing.
Verdict ==
  /\ At("verdict")
  /\ \/ /\ Triage \in {"human", "nothing_retained"}
        /\ Blocked
     \/ /\ Triage \notin {"human", "nothing_retained"}
        /\ call' = IF call.then = "needs" THEN [call EXCEPT !.pc = "needs"]
                   ELSE [call EXCEPT !.pc = "stage", !.stage = 3]
        /\ UNCHANGED run
  /\ UNCHANGED <<hier, snap, evidence>>

-----------------------------------------------------------------------------
(* The strategy, chosen after the evidence loop.                           *)

PlanMade(how) ==
  /\ run' = [run EXCEPT !.status = "PLANNED",
                        !.plan = [ctx |-> run.ctx, root |-> Root, how |-> how]]
  /\ Return

\* The strategy of the call is overridden by a root that exists.  A
\* hierarchical call has always claimed its directions by now, so it never
\* meets the refusal of a run that already has a direct proposal.
ChooseStrategy ==
  /\ At("strategy")
  /\ IF Stages # <<>> \/ (call.strategy = "hierarchical" /\ run.plan = NoPlan)
     THEN /\ call' = [call EXCEPT !.pc = "stage", !.stage = 1, !.then = "expand"]
          /\ UNCHANGED run
     ELSE IF call.strategy = "hierarchical" THEN Blocked
     ELSE PlanMade("direct")  \* one planner call, or what it answered before
  /\ UNCHANGED <<hier, snap, evidence>>

CompileExpansion ==
  /\ At("compile")
  /\ PlanMade("hierarchical")
  /\ UNCHANGED <<hier, snap, evidence>>

-----------------------------------------------------------------------------
KnowledgeChanges ==
  /\ snap < MaxSnapshot
  /\ snap' = snap + 1
  /\ UNCHANGED <<run, hier, call, evidence>>

\* An interruption between two writes; the lock is released by hand.
Crash ==
  /\ ~At("idle")
  /\ call' = Idle /\ work' = E!Off
  /\ UNCHANGED <<run, hier, snap, policy, cycles, archive>>

Advance ==
  \/ FailStage \/ Resolve \/ EvidenceStep \/ EvidenceBlocked \/ EvidenceFailed
  \/ EvidenceChild \/ Resolved
  \/ Reuse \/ Uncertain \/ ClaimStage \/ RejectStage \/ SaveStage \/ Verdict
  \/ \E answer \in Outputs : AskStage(answer)
  \/ ChooseStrategy \/ CompileExpansion

Next ==
  \/ \E strategy \in Strategies, n \in CycleOptions : Begin(strategy, n)
  \/ Advance
  \/ KnowledgeChanges
  \/ Crash

Spec == Init /\ [][Next]_vars

\* A call that holds the lock keeps running unless it is interrupted.
FairSpec == Spec /\ WF_vars(Advance)

-----------------------------------------------------------------------------
(* Properties. *)

\* The stages of one root as a ledger of claimed provider calls.
LedgerState(stage) ==
  IF stage.out # Unsaved THEN "settled"
  ELSE IF stage.calls = 1 THEN "called" ELSE "claimed"
Ledger(r) == [i \in DOMAIN hier[r] |-> LedgerState(hier[r][i])]
StageCalls(r) == INSTANCE ClaimedCalls WITH ledger <- Ledger(r), Limit <- 3

\* Every file and local has the shape its model class declares.
TypeOK ==
  /\ run \in Run
  /\ hier \in [0 .. CycleLimit -> Seq(Stage)]
  /\ snap \in 1 .. MaxSnapshot
  /\ call \in Call

\* Whatever strategies the resumes ask for, and however they are interrupted,
\* a stage of a root is claimed in order, its provider is called at most once,
\* and nothing is claimed on top of a stage whose output was never saved
\* (docs/architecture-trust-audit.md:112-113, service.py:2532-2619).
StagesCalledOnce ==
  /\ \A r \in 0 .. CycleLimit : StageCalls(r)!Init
  /\ [][\A r \in 0 .. CycleLimit : StageCalls(r)!Next \/ UNCHANGED Ledger(r)]_vars

\* A triage that needs a human choice, or retains nothing, is final for its
\* root: no later call expands it (service.py:2634-2643 runs on every call).
HumanBoundary ==
  \A r \in DOMAIN hier :
    Len(hier[r]) = 3 => hier[r][2].out \notin {"human", "nothing_retained"}

\* All stages of a root were made from one planning input, and a hierarchical
\* proposal of the run comes from a complete root of the run's own context,
\* although roots move with the evidence cycles and contexts with knowledge.
OneInputPerRoot ==
  /\ \A r \in DOMAIN hier : \A i, j \in DOMAIN hier[r] : hier[r][i].ctx = hier[r][j].ctx
  /\ run.plan.how = "hierarchical" =>
       LET stages == hier[run.plan.root] IN
       /\ run.plan.ctx = run.ctx
       /\ Len(stages) = 3 /\ stages[3].out = "expansion" /\ stages[3].ctx = run.ctx

\* Every call ends: the loop over evidence and triage is bounded by the
\* evidence budget, which each round consumes.
CallReturns == ~At("idle") ~> At("idle")

\* What the code refuses (service.py:1044-1053): a hierarchy in a run that
\* already contains direct planning artifacts of the same root.
NeverMixed == run.plan.how = "direct" => hier[run.plan.root] = <<>>

\* Resume refuses uncertain retrieval attempts (README.md:888-889): no stage
\* is claimed while the newest evidence cycle is uncertain.
UncertainEvidenceStops ==
  [][hier' # hier => ~E!RequestUncertain /\ ~E!RetrievalUncertain]_vars

=============================================================================
