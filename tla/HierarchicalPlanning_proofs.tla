--------------------- MODULE HierarchicalPlanning_proofs ---------------------
(***************************************************************************)
(* Proofs about HierarchicalPlanning.                                      *)
(***************************************************************************)
EXTENDS HierarchicalPlanning, SequenceTheorems, WellFoundedInduction, TLAPS

-----------------------------------------------------------------------------
(* The inductive invariant. *)

\* The evidence cycles stay within their budget, so that the root of every
\* child context exists, and the resolver works on a claimed cycle.
EvidenceOK ==
  /\ policy \in 0 .. CycleLimit
  /\ cycles \in Seq(E!Cycle) /\ Len(cycles) <= policy
  /\ work \in [step : E!Steps, request : Requests \cup {"nothing"}, why : E!Reasons]
  /\ work.step \in {"claimed", "asked", "requested", "resolved"} => cycles # <<>>
  /\ work.step = "claimed" => E!Last.calls = 0
  /\ work.step = "resolved" => E!Last.outcome # E!Unasked

\* The stages of a root: each holds an answer to its own question, only the
\* newest can lack it, all were made from one context.
RootOK(s) ==
  /\ Len(s) <= 3
  /\ \A i \in DOMAIN s : s[i].out \in Answers(i) \cup {Unsaved}
  /\ \A i \in DOMAIN s : i < Len(s) => s[i].out # Unsaved
  /\ \A i, j \in DOMAIN s : s[i].ctx = s[j].ctx
  /\ Len(s) = 3 => s[2].out \notin {"human", "nothing_retained"}

\* Stage i of the current root is saved and was made for the run's context.
Saved(i) == Complete(i) /\ Stages[i].ctx = run.ctx

\* Where a call is, while it does not resolve evidence, says which stages of
\* the current root it may rely on.
CallAt(c) ==
  /\ work.step # "off" => c.pc \in {"gap", "needs"}
  /\ c.pc # "idle" => run.ctx.snap # 0
  /\ c.pc \in {"stage", "claimed", "asked"} =>
       /\ c.stage \in 1 .. 3
       /\ \A i \in 1 .. 3 : i < c.stage => Saved(i)
       /\ c.stage = 3 => Triage \notin {"human", "nothing_retained"}
  /\ c.pc \in {"claimed", "asked"} =>
       /\ Len(Stages) = c.stage
       /\ Stages[c.stage].out = Unsaved /\ Stages[c.stage].ctx = run.ctx
       /\ Stages[c.stage].calls = IF c.pc = "claimed" THEN 0 ELSE 1
  /\ c.pc = "asked" => c.answer \in Answers(c.stage)
  /\ c.pc = "verdict" => c.stage = 2 /\ Saved(1) /\ Saved(2)
  /\ c.pc = "compile" => c.stage = 3 /\ Saved(3)

CallOK == CallAt(call)

\* A proposal was made for a context, which another one clears.
PlanOK ==
  /\ run.plan.how # "none" => run.ctx.snap # 0
  /\ run.plan.how = "hierarchical" =>
       LET stages == hier[run.plan.root] IN
       /\ run.plan.ctx = run.ctx
       /\ Len(stages) = 3 /\ stages[3].out = "expansion" /\ stages[3].ctx = run.ctx

IInv ==
  /\ TypeOK
  /\ EvidenceOK
  /\ \A r \in 0 .. CycleLimit : RootOK(hier[r])
  /\ CallOK
  /\ PlanOK

-----------------------------------------------------------------------------
(* The evidence cycles. *)

\* The greatest element of a bounded, non-empty set of naturals exists.
LEMMA MaxOfBounded ==
  ASSUME NEW n \in Nat, NEW S \in SUBSET (0 .. n), S # {}
  PROVE  E!Max(S) \in S
<1> DEFINE R == OpToRel(<, Nat)
           T == {n - x : x \in S}
<1>1. T \subseteq Nat /\ T # {}
  <2>1. \A x \in S : x \in 0 .. n /\ n - x \in Nat
    OBVIOUS
  <2> QED BY <2>1
<1>2. PICK t \in T : \A u \in T : <<u, t>> \notin R
  <2> HIDE DEF R, T
  <2>1. IsWellFoundedOn(R, Nat)
    BY NatLessThanWellFounded DEF R
  <2> QED BY <1>1, <2>1, WFMin
<1>3. PICK m \in S : t = n - m
  OBVIOUS
<1>4. ASSUME NEW x \in S PROVE m >= x
  <2>1. n - x \in T /\ n - x \in Nat /\ t \in Nat
    BY <1>1
  <2>2. ~ (n - x < t)
    BY <2>1, <1>2 DEF OpToRel
  <2> QED BY <2>1, <2>2, <1>3
<1> QED
  BY <1>4 DEF E!Max

\* Roots and child contexts are those of cycles within the budget.
LEMMA RootExists ==
  ASSUME EvidenceOK
  PROVE  /\ E!LatestCompleted \in 0 .. CycleLimit
         /\ Root \in 0 .. CycleLimit
         /\ E!ChildFor(snap) \in 0 .. CycleLimit
<1>1. Len(cycles) \in Nat /\ DOMAIN cycles = 1 .. Len(cycles) /\ Len(cycles) <= CycleLimit
      /\ CycleLimit \in Nat
  BY PlanningAssumption DEF EvidenceOK
<1>2. E!Completed \in SUBSET (0 .. Len(cycles))
  BY <1>1 DEF E!Completed
<1>3. E!LatestCompleted \in 0 .. CycleLimit
  <2>1. CASE E!Completed = {}
    BY <1>1, <2>1 DEF E!LatestCompleted
  <2>2. CASE E!Completed # {}
    <3>1. E!Max(E!Completed) \in E!Completed
      BY <1>1, <1>2, <2>2, MaxOfBounded
    <3>2. E!LatestCompleted = E!Max(E!Completed)
      BY <2>2 DEF E!LatestCompleted
    <3>3. E!LatestCompleted \in 0 .. Len(cycles)
      BY <1>2, <3>1, <3>2
    <3> QED BY <1>1, <3>3
  <2> QED BY <2>1, <2>2
<1>4. Root \in 0 .. CycleLimit
  BY <1>1, <1>3 DEF Root, E!Namespace
<1>5. E!ChildFor(snap) \in 0 .. CycleLimit
  BY <1>1, <1>4 DEF Root, E!ChildFor
<1> QED
  BY <1>3, <1>4, <1>5

\* A step of the resolver writes to the newest cycle or to none.
LEMMA ResolvingStep ==
  ASSUME EvidenceOK, E!Resolving
  PROVE  EvidenceOK' /\ work.step # "off"
<1> USE DEF EvidenceOK
<1> DEFINE n == Len(cycles)
<1>1. /\ work.step \in {"claimed", "asked", "requested", "resolved"} /\ UNCHANGED policy
      /\ n \in DOMAIN cycles /\ E!Last \in E!Cycle /\ E!Last = cycles[n] /\ n \in Nat
  <2>1. work.step \in {"claimed", "asked", "requested", "resolved"} /\ UNCHANGED policy
    BY DEF E!Resolving, E!Ask, E!ProviderUnavailable, E!RepeatRefused, E!SaveRequests, E!Resolve,
       E!CloseTerminal, E!CloseWithChild, E!Fail
  <2> QED BY <2>1 DEF E!Last
<1>2. ASSUME NEW c \in E!Cycle, cycles' = [cycles EXCEPT ![n] = c]
      PROVE  cycles' \in Seq(E!Cycle) /\ Len(cycles') <= policy /\ cycles' # <<>>
  <2>1. cycles' \in Seq(E!Cycle) /\ Len(cycles') = n
    BY <1>1, <1>2, ExceptSeq
  <2> QED BY <1>1, <2>1
<1>3. /\ work' \in [step : E!Steps, request : Requests \cup {"nothing"}, why : E!Reasons]
      /\ work'.step # "claimed"
  <2> USE DEF E!Steps, E!Reasons, E!Outcomes
  <2>1. CASE \E request \in Requests \cup {"nothing"} : E!Ask(request)
    BY <2>1 DEF E!Ask
  <2>2. CASE E!ProviderUnavailable \/ E!RepeatRefused \/ E!CloseWithChild \/ E!Fail
    BY <2>2 DEF E!ProviderUnavailable, E!RepeatRefused, E!CloseWithChild, E!Fail, E!Blocked, E!Off
  <2>3. CASE E!SaveRequests \/ \E outcome \in E!Outcomes : E!Resolve(outcome)
    BY <2>3 DEF E!SaveRequests, E!Resolve
  <2>4. CASE E!CloseTerminal
    <3>1. E!Last.outcome \in E!Reasons
      BY <1>1, <2>4 DEF E!CloseTerminal, E!Cycle
    <3> QED BY <2>4, <3>1 DEF E!CloseTerminal, E!Blocked, E!Off
  <2> QED BY <2>1, <2>2, <2>3, <2>4 DEF E!Resolving
<1>4. cycles' = cycles \/ \E c \in E!Cycle : cycles' = [cycles EXCEPT ![n] = c]
  <2> USE <1>1 DEF E!Cycle
  <2>1. CASE \E request \in Requests \cup {"nothing"} : E!Ask(request)
    <3>1. CASE cycles' = [cycles EXCEPT ![n].calls = @ + 1]
      <4>1. E!Last.calls = 0
        BY <2>1 DEF E!Ask
      <4>2. cycles' = [cycles EXCEPT ![n] = [E!Last EXCEPT !.calls = 1]]
        BY <3>1, <4>1
      <4>3. [E!Last EXCEPT !.calls = 1] \in E!Cycle
        OBVIOUS
      <4> QED BY <4>2, <4>3
    <3> QED BY <2>1, <3>1 DEF E!Ask
  <2>2. CASE E!SaveRequests
    <3>1. cycles' = [cycles EXCEPT ![n] = [E!Last EXCEPT !.saved = TRUE, !.request = work.request]]
      BY <2>2 DEF E!SaveRequests
    <3>2. [E!Last EXCEPT !.saved = TRUE, !.request = work.request] \in E!Cycle
      OBVIOUS
    <3> QED BY <3>1, <3>2
  <2>3. CASE \E outcome \in E!Outcomes : E!Resolve(outcome)
    <3>1. PICK outcome \in E!Outcomes :
            cycles' = [cycles EXCEPT ![n] = [E!Last EXCEPT !.outcome = outcome]]
      BY <2>3 DEF E!Resolve
    <3>2. [E!Last EXCEPT !.outcome = outcome] \in E!Cycle
      OBVIOUS
    <3> QED BY <3>1, <3>2
  <2>4. CASE E!CloseTerminal \/ E!CloseWithChild
    <3>1. PICK r \in {"terminal", "child"} :
            cycles' = [cycles EXCEPT ![n] = [E!Last EXCEPT !.record = r]]
      BY <2>4 DEF E!CloseTerminal, E!CloseWithChild
    <3>2. [E!Last EXCEPT !.record = r] \in E!Cycle
      OBVIOUS
    <3> QED BY <3>1, <3>2
  <2>5. CASE E!ProviderUnavailable \/ E!RepeatRefused \/ E!Fail
    BY <2>5 DEF E!ProviderUnavailable, E!RepeatRefused, E!Fail
  <2> QED BY <2>1, <2>2, <2>3, <2>4, <2>5 DEF E!Resolving
<1>5. cycles' \in Seq(E!Cycle) /\ Len(cycles') <= policy' /\ cycles' # <<>>
  BY <1>1, <1>2, <1>4
<1>6. work'.step = "resolved" => E!Last'.outcome # E!Unasked
  <2> SUFFICES ASSUME work'.step = "resolved" PROVE E!Last'.outcome # E!Unasked
    OBVIOUS
  <2>1. PICK outcome \in E!Outcomes : E!Resolve(outcome)
    BY DEF E!Resolving, E!Ask, E!ProviderUnavailable, E!RepeatRefused, E!SaveRequests,
       E!CloseTerminal, E!CloseWithChild, E!Fail, E!Blocked, E!Off
  <2>2. Len(cycles') = n /\ cycles' = [cycles EXCEPT ![n].outcome = outcome]
    BY <1>1, <2>1 DEF E!Resolve
  <2>3. cycles'[n].outcome = outcome
    BY <1>1, <2>2 DEF E!Cycle
  <2> QED BY <2>2, <2>3 DEF E!Last, E!Outcomes, E!Unasked
<1> QED
  BY <1>1, <1>3, <1>5, <1>6

-----------------------------------------------------------------------------
(* What a step does to the run and to the call. *)

\* The root moves with the evidence cycles only.
LEMMA RootStays ==
  ASSUME UNCHANGED cycles
  PROVE  Root' = Root
BY DEF Root, E!Namespace, E!LatestCompleted, E!Completed

LEMMA RunSaved ==
  ASSUME TypeOK, NEW status \in Statuses, Save(status)
  PROVE  run' \in Run /\ run'.ctx = run.ctx /\ run'.plan = run.plan
<1>1. run \in Run
  BY DEF TypeOK
<1> QED BY <1>1 DEF Run, Save

PCs == {"idle", "gap", "needs", "stage", "claimed", "asked", "verdict", "strategy", "compile"}

LEMMA CallMoved ==
  ASSUME TypeOK, NEW pc \in PCs, Goto(pc)
  PROVE  /\ call' \in Call /\ call'.pc = pc /\ call'.stage = call.stage
         /\ call'.answer = call.answer
BY DEF TypeOK, Call, Goto, PCs

LEMMA CallReturned ==
  ASSUME Return
  PROVE  call' \in Call /\ call'.pc = "idle"
BY DEF Return, Idle, Call, Strategies

LEMMA CallGoesOn ==
  ASSUME TypeOK, NEW stage \in 0 .. 3,
         \/ call' = [call EXCEPT !.pc = "stage", !.stage = stage]
         \/ call' = [call EXCEPT !.pc = "stage", !.stage = stage, !.then = "needs"]
         \/ call' = [call EXCEPT !.pc = "stage", !.stage = stage, !.then = "expand"]
  PROVE  call' \in Call /\ call'.pc = "stage" /\ call'.stage = stage
BY DEF TypeOK, Call

\* A stage is done: the next one, the verdict or the compilation follows.
LEMMA StageDone ==
  ASSUME TypeOK, call.stage \in 1 .. 3, Done
  PROVE  /\ call' \in Call
         /\ call.stage = 1 => call'.pc = "stage" /\ call'.stage = 2
         /\ call.stage = 2 => call'.pc = "verdict" /\ call'.stage = 2
         /\ call.stage = 3 => call'.pc = "compile" /\ call'.stage = 3
<1> DEFINE pc == <<"stage", "verdict", "compile">>[call.stage]
           next == IF call.stage = 1 THEN 2 ELSE call.stage
<1>1. call' = [call EXCEPT !.pc = pc, !.stage = next, !.answer = Unsaved]
  BY DEF Done
<1>2. /\ call.stage = 1 => pc = "stage" /\ next = 2
      /\ call.stage = 2 => pc = "verdict" /\ next = 2
      /\ call.stage = 3 => pc = "compile" /\ next = 3
  OBVIOUS
<1>3. pc \in PCs /\ next \in 0 .. 3
  BY <1>2 DEF PCs
<1> HIDE DEF pc, next
<1>4. call' \in Call /\ call'.pc = pc /\ call'.stage = next
  BY <1>1, <1>3 DEF TypeOK, Call, PCs
<1> QED BY <1>2, <1>4

\* The answers to each stage.
LEMMA AnswersAre ==
  /\ Answers(1) = {"directions"} /\ Answers(2) = Triages /\ Answers(3) = {"expansion"}
  /\ \A i \in 1 .. 3 : Unsaved \notin Answers(i) /\ Answers(i) \subseteq Outputs
<1>1. Answers(1) = {"directions"} /\ Answers(2) = Triages /\ Answers(3) = {"expansion"}
  BY DEF Answers
<1>2. \A x \in Triages : x # Unsaved /\ x \in Outputs
  BY PlanningAssumption DEF Unsaved, Outputs, AllTriages
<1>3. \A i \in 1 .. 3 : i = 1 \/ i = 2 \/ i = 3
  OBVIOUS
<1> QED
  BY <1>1, <1>2, <1>3 DEF Unsaved, Outputs

\* A blocked or failed call changes nothing but the status of the run.
LEMMA CallEnds ==
  ASSUME IInv, NEW status \in Statuses, Save(status), Return, UNCHANGED <<hier, snap>>,
         EvidenceOK', work'.step = "off"
  PROVE  IInv'
<1>1. run' \in Run /\ run'.ctx = run.ctx /\ run'.plan = run.plan
  BY RunSaved DEF IInv
<1>2. call' \in Call /\ call'.pc = "idle"
  BY CallReturned
<1>3. TypeOK'
  BY <1>1, <1>2 DEF IInv, TypeOK
<1>4. CallOK'
  BY <1>2 DEF CallOK, CallAt
<1>5. PlanOK'
  BY <1>1 DEF IInv, PlanOK
<1> QED
  BY <1>3, <1>4, <1>5 DEF IInv

LEMMA EvidenceStays ==
  ASSUME EvidenceOK, UNCHANGED <<policy, cycles>>,
         \/ UNCHANGED work
         \/ work' = E!Off
         \/ \E why \in E!Reasons : E!Blocked(why)
  PROVE  EvidenceOK'
<1> DEFINE Works == [step : E!Steps, request : Requests \cup {"nothing"}, why : E!Reasons]
<1>0. E!Off \in Works /\ E!Off.step = "off"
  BY DEF E!Off, E!Steps, E!Reasons
<1>1. (work' = work \/ work'.step \in {"off", "blocked"}) /\ work' \in Works
  <2>1. CASE \E why \in E!Reasons : E!Blocked(why)
    <3>1. PICK why \in E!Reasons : work' = [E!Off EXCEPT !.step = "blocked", !.why = why]
      BY <2>1 DEF E!Blocked
    <3> QED BY <1>0, <3>1 DEF E!Steps
  <2>2. CASE UNCHANGED work \/ work' = E!Off
    BY <1>0, <2>2 DEF EvidenceOK
  <2> QED BY <2>1, <2>2
<1>2. work' \in [step : E!Steps, request : Requests \cup {"nothing"}, why : E!Reasons]
  BY <1>1
<1>3. E!Last' = E!Last
  BY DEF E!Last
<1> QED
  BY <1>1, <1>2, <1>3 DEF EvidenceOK

\* A call starts with the context of the current knowledge, and keeps the
\* proposal of the run only when that is the context it was made for.
LEMMA BeginStep ==
  ASSUME IInv, NEW strategy \in Strategies, NEW n \in CycleOptions, Begin(strategy, n)
  PROVE  IInv'
<1> DEFINE c == [snap |-> snap, cyc |-> E!ChildFor(snap)]
<1>1. /\ TypeOK /\ EvidenceOK /\ CallOK /\ PlanOK /\ call.pc = "idle" /\ work.step = "off"
      /\ UNCHANGED <<hier, snap, cycles, work>> /\ E!EnsurePolicy(n)
      /\ run' = [status |-> "INTERPRETED", ctx |-> c,
                 plan |-> IF run.ctx \in {NoContext, c} THEN run.plan ELSE NoPlan]
      /\ call' = [Idle EXCEPT !.pc = "gap", !.strategy = strategy]
  BY DEF IInv, Begin, At, CallOK, CallAt, E!EnsurePolicy, EvidenceOK, E!Steps
<1>2. EvidenceOK'
  <2>1. policy' \in 0 .. CycleLimit /\ Len(cycles) <= policy'
    BY <1>1, PlanningAssumption DEF E!EnsurePolicy, EvidenceOK
  <2> QED BY <1>1, <2>1 DEF EvidenceOK, E!Last
<1>3. c \in Contexts /\ c.snap = snap /\ snap # 0
  <2>1. E!ChildFor(snap) \in 0 .. CycleLimit /\ snap \in 1 .. MaxSnapshot
    BY <1>1, RootExists DEF TypeOK
  <2> QED BY <2>1, PlanningAssumption DEF Contexts
<1>4. run.plan \in Plan /\ NoPlan \in Plan /\ NoPlan.how = "none" /\ NoContext.snap = 0
  BY <1>1, PlanningAssumption DEF TypeOK, Run, NoPlan, Plan, NoContext, Contexts
<1> HIDE DEF c
<1>5. /\ run' \in Run /\ run'.ctx = c
      /\ run'.plan = IF run.ctx \in {NoContext, c} THEN run.plan ELSE NoPlan
  <2> DEFINE plan == IF run.ctx \in {NoContext, c} THEN run.plan ELSE NoPlan
  <2>1. plan \in Plan /\ "INTERPRETED" \in Statuses
    BY <1>4 DEF Statuses
  <2> HIDE DEF plan
  <2>2. run' = [status |-> "INTERPRETED", ctx |-> c, plan |-> plan]
    BY <1>1 DEF plan
  <2>3. run' \in Run /\ run'.ctx = c /\ run'.plan = plan
    BY <1>3, <2>1, <2>2 DEF Run
  <2> QED BY <2>3 DEF plan
<1>6. call' \in Call /\ call'.pc = "gap"
  <2>1. Idle \in Call
    BY DEF Idle, Call, Strategies
  <2> QED BY <1>1, <2>1 DEF Call
<1>7. TypeOK'
  BY <1>1, <1>5, <1>6 DEF TypeOK
<1>8. CallOK'
  BY <1>1, <1>3, <1>5, <1>6 DEF CallOK, CallAt
<1>9. PlanOK'
  BY <1>1, <1>3, <1>4, <1>5 DEF PlanOK
<1> QED
  BY <1>1, <1>2, <1>7, <1>8, <1>9 DEF IInv

\* Resolving evidence leaves the run and the stages as they are, and is over
\* before the call goes on to a stage.
LEMMA EvidenceSteps ==
  ASSUME IInv, Resolve \/ EvidenceStep
  PROVE  IInv'
<1>1. UNCHANGED <<run, hier, snap, call>> /\ EvidenceOK /\ CallOK
  BY DEF Resolve, EvidenceStep, IInv
<1>2. EvidenceOK' /\ call.pc \in {"gap", "needs"}
  <2>1. CASE E!Refuse(run.ctx.snap)
    <3>1. UNCHANGED <<policy, cycles>> /\ \E why \in E!Reasons : E!Blocked(why)
      BY <2>1 DEF E!Refuse, E!Reasons
    <3>2. call.pc \in {"gap", "needs"}
      BY <1>1, <2>1 DEF Resolve, MustResolve, At, EvidenceStep, E!Refuse, E!Resolving, E!Ask,
         E!ProviderUnavailable, E!RepeatRefused, E!SaveRequests, E!Resolve, E!CloseTerminal,
         E!CloseWithChild, E!Fail
    <3> QED BY <1>1, <3>1, <3>2, EvidenceStays
  <2>2. CASE Resolve /\ E!Claim(run.ctx.snap, Trigger)
    <3>1. call.pc \in {"gap", "needs"}
      BY <2>2 DEF Resolve, MustResolve, At
    <3> DEFINE d == [snap |-> run.ctx.snap, trigger |-> Trigger, calls |-> 0, saved |-> FALSE,
                     request |-> "nothing", outcome |-> E!Unasked, record |-> "none"]
    <3>2. run.ctx.snap \in Nat /\ Trigger \in E!Triggers
      <4>1. run.ctx \in Contexts
        BY DEF IInv, TypeOK, Run
      <4> QED BY <4>1, PlanningAssumption DEF Contexts, Trigger, E!Triggers
    <3>3. d \in E!Cycle /\ d.calls = 0
      BY <3>2 DEF E!Cycle, E!Outcomes, E!Unasked
    <3>4. cycles' = Append(cycles, d) /\ ~E!Exhausted /\ UNCHANGED policy /\ work' = [E!Off EXCEPT !.step = "claimed"]
      BY <2>2 DEF E!Claim
    <3> HIDE DEF d
    <3>5. /\ cycles' \in Seq(E!Cycle) /\ cycles' # <<>> /\ Len(cycles') = Len(cycles) + 1
          /\ cycles'[Len(cycles')] = d /\ Len(cycles) \in Nat
      BY <1>1, <3>3, <3>4 DEF EvidenceOK
    <3>6. Len(cycles') <= policy'
      BY <1>1, <3>4, <3>5, PlanningAssumption DEF E!Exhausted, EvidenceOK
    <3>7. /\ work' \in [step : E!Steps, request : Requests \cup {"nothing"}, why : E!Reasons]
          /\ work'.step = "claimed"
      BY <3>4 DEF E!Off, E!Steps, E!Reasons
    <3>8. E!Last'.calls = 0
      BY <3>3, <3>5 DEF E!Last
    <3> QED BY <1>1, <3>1, <3>4, <3>5, <3>6, <3>7, <3>8 DEF EvidenceOK
  <2>3. CASE E!Resolving
    BY <1>1, <2>3, ResolvingStep DEF CallOK, CallAt
  <2> QED BY <2>1, <2>2, <2>3 DEF Resolve, EvidenceStep
<1>3. CallOK'
  BY <1>1, <1>2 DEF CallOK, CallAt
<1> QED
  BY <1>1, <1>2, <1>3 DEF IInv, TypeOK, PlanOK

\* A new child context clears the proposal.
LEMMA ChildStep ==
  ASSUME IInv, EvidenceChild
  PROVE  IInv'
<1>1. /\ TypeOK /\ EvidenceOK /\ CallOK /\ work.step = "child" /\ UNCHANGED <<hier, snap, policy, cycles>>
      /\ run' = [status |-> "INTERPRETED", plan |-> NoPlan,
                 ctx |-> [run.ctx EXCEPT !.cyc = E!LatestCompleted]]
      /\ Goto("gap") /\ work' = E!Off
  BY DEF IInv, EvidenceChild, E!Finish
<1>2. EvidenceOK' /\ work'.step = "off"
  BY <1>1, EvidenceStays DEF E!Off
<1>3. run.ctx \in Contexts /\ run.ctx.snap # 0
  BY <1>1 DEF TypeOK, Run, CallOK, CallAt
<1> DEFINE d == [run.ctx EXCEPT !.cyc = E!LatestCompleted]
<1>4. d \in Contexts /\ d.snap = run.ctx.snap
  BY <1>1, <1>3, RootExists DEF Contexts
<1>5. NoPlan \in Plan /\ NoPlan.how = "none" /\ "INTERPRETED" \in Statuses
  BY PlanningAssumption DEF NoPlan, Plan, NoContext, Contexts, Statuses
<1> HIDE DEF d
<1>6. run' \in Run /\ run'.ctx = d /\ run'.plan = NoPlan
  <2>1. run' = [status |-> "INTERPRETED", plan |-> NoPlan, ctx |-> d]
    BY <1>1 DEF d
  <2> QED BY <1>4, <1>5, <2>1 DEF Run
<1>7. call' \in Call /\ call'.pc = "gap"
  BY <1>1, CallMoved DEF PCs
<1>8. TypeOK' /\ CallOK' /\ PlanOK'
  BY <1>1, <1>2, <1>3, <1>4, <1>5, <1>6, <1>7 DEF TypeOK, CallOK, CallAt, PlanOK
<1> QED
  BY <1>1, <1>2, <1>8 DEF IInv

\* A step of a call that writes nothing keeps the invariant when the call may
\* be where it goes.
LEMMA QuietStep ==
  ASSUME IInv, UNCHANGED <<run, hier, snap, evidence>>, call' \in Call, CallAt(call')
  PROVE  IInv'
<1>1. UNCHANGED <<policy, cycles, work>> /\ Root' = Root
  BY RootStays DEF evidence
<1>2. EvidenceOK'
  BY <1>1, EvidenceStays DEF IInv
<1>3. CallOK'
  BY <1>1 DEF CallOK, CallAt, Saved, Complete, Started, Stages, Triage
<1> QED
  BY <1>2, <1>3 DEF IInv, TypeOK, PlanOK

\* After the evidence the call goes on to the first stage, or to the choice of
\* the strategy.
LEMMA ResolvedStep ==
  ASSUME IInv, Resolved
  PROVE  IInv'
<1>1. TypeOK /\ call \in Call /\ CallOK /\ work.step = "off" /\ call.pc \in {"gap", "needs"}
      /\ UNCHANGED <<run, hier, snap, evidence>>
  BY DEF IInv, TypeOK, Resolved, Quiet, At
<1>2. CASE call' = [call EXCEPT !.pc = "stage", !.stage = 1, !.then = "needs"]
  <2>1. call' \in Call /\ call'.pc = "stage" /\ call'.stage = 1
    BY <1>1, <1>2, CallGoesOn
  <2> QED BY <1>1, <2>1, QuietStep DEF CallOK, CallAt
<1>3. CASE call' = [call EXCEPT !.pc = "strategy"]
  <2>1. call' \in Call /\ call'.pc = "strategy"
    BY <1>1, <1>3 DEF Call
  <2> QED BY <1>1, <2>1, QuietStep DEF CallOK, CallAt
<1> QED
  BY <1>2, <1>3 DEF Resolved

\* The stages of the current root, as the invariant has them.
LEMMA StagesTyped ==
  ASSUME IInv
  PROVE  /\ Root \in 0 .. CycleLimit /\ Stages \in Seq(Stage) /\ RootOK(Stages)
         /\ Len(Stages) \in 0 .. 3 /\ DOMAIN Stages = 1 .. Len(Stages)
         /\ \A i \in DOMAIN Stages : Stages[i] \in Stage
<1>1. Root \in 0 .. CycleLimit
  BY RootExists DEF IInv
<1>2. Stages \in Seq(Stage) /\ RootOK(Stages)
  BY <1>1 DEF IInv, TypeOK, Stages
<1>3. Len(Stages) <= 3
  BY <1>2 DEF RootOK
<1>4. Len(Stages) \in Nat /\ DOMAIN Stages = 1 .. Len(Stages)
      /\ \A i \in DOMAIN Stages : Stages[i] \in Stage
  BY <1>2
<1> QED
  BY <1>1, <1>2, <1>3, <1>4

\* A saved stage that was made for the run's context may be relied on.
LEMMA ReuseStep ==
  ASSUME IInv, At("stage"), Complete(call.stage), Stages[call.stage].ctx = run.ctx,
         Done, UNCHANGED <<run, hier, snap, evidence>>
  PROVE  IInv'
<1>1. CallAt(call) /\ TypeOK /\ call.pc = "stage" /\ call.stage \in 1 .. 3 /\ work.step = "off"
  BY DEF IInv, CallOK, CallAt, At
<1>2. Saved(call.stage) /\ \A i \in 1 .. 3 : i < call.stage => Saved(i)
  BY <1>1 DEF CallAt, Saved
<1>3. /\ call' \in Call
      /\ call.stage = 1 => call'.pc = "stage" /\ call'.stage = 2
      /\ call.stage = 2 => call'.pc = "verdict" /\ call'.stage = 2
      /\ call.stage = 3 => call'.pc = "compile" /\ call'.stage = 3
  BY <1>1, StageDone
<1>4. CallAt(call')
  BY <1>1, <1>2, <1>3 DEF CallAt
<1> QED
  BY <1>3, <1>4, QuietStep

\* The verdict lets a call pass to the needs or to the expansion only when the
\* triage retains a direction without a human choice.
LEMMA VerdictStep ==
  ASSUME IInv, At("verdict"), Triage \notin {"human", "nothing_retained"},
         call' = IF call.then = "needs" THEN [call EXCEPT !.pc = "needs"]
                 ELSE [call EXCEPT !.pc = "stage", !.stage = 3],
         UNCHANGED <<run, hier, snap, evidence>>
  PROVE  IInv'
<1>1. TypeOK /\ CallAt(call) /\ call \in Call /\ call.pc = "verdict" /\ work.step = "off"
  BY DEF IInv, TypeOK, CallOK, CallAt, At
<1>2. Saved(1) /\ Saved(2)
  BY <1>1 DEF CallAt
<1>3. CASE call' = [call EXCEPT !.pc = "needs"]
  <2>1. call' \in Call /\ call'.pc = "needs"
    BY <1>1, <1>3 DEF Call
  <2> QED BY <1>1, <2>1, QuietStep DEF CallAt
<1>4. CASE call' = [call EXCEPT !.pc = "stage", !.stage = 3]
  <2>1. call' \in Call /\ call'.pc = "stage" /\ call'.stage = 3
    <3>1. 3 \in 0 .. 3 /\ TypeOK
      BY <1>1
    <3> QED BY <1>4, <3>1, CallGoesOn, Zenon
  <2>2. \A i \in 1 .. 3 : i < 3 => Saved(i)
    <3>1. \A i \in 1 .. 3 : i < 3 => i = 1 \/ i = 2
      OBVIOUS
    <3> QED BY <1>2, <3>1
  <2>3. CallAt(call')
    BY <1>1, <2>1, <2>2 DEF CallAt
  <2> QED BY <2>1, <2>3, QuietStep
<1> QED
  BY <1>3, <1>4

\* A stage is claimed when the ones before it are saved and it was never
\* started, so that it is the next of the root.
LEMMA ClaimStageStep ==
  ASSUME IInv, ClaimStage
  PROVE  IInv'
<1> DEFINE d == [ctx |-> run.ctx, calls |-> 0, out |-> Unsaved]
           n == Len(Stages)
<1>1. /\ CallAt(call) /\ TypeOK /\ PlanOK /\ EvidenceOK /\ call.pc = "stage" /\ ~Started(call.stage)
      /\ hier' = [hier EXCEPT ![Root] = Append(Stages, d)]
      /\ Goto("claimed") /\ UNCHANGED <<run, snap, policy, cycles, work>>
  BY DEF IInv, ClaimStage, At, CallOK, Stages, evidence
<1>2. /\ d \in Stage /\ d.ctx = run.ctx /\ d.calls = 0 /\ d.out = Unsaved
  <2>1. run.ctx \in Contexts
    BY <1>1 DEF TypeOK, Run
  <2> QED BY <2>1 DEF Stage, Outputs
<1>3. /\ call' \in Call /\ call'.pc = "claimed" /\ call'.stage = call.stage
      /\ call'.answer = call.answer
  BY <1>1, CallMoved DEF PCs
<1>4. /\ call.stage \in 1 .. 3 /\ \A i \in 1 .. 3 : i < call.stage => Saved(i)
      /\ call.stage = 3 => Triage \notin {"human", "nothing_retained"}
      /\ work.step = "off" /\ run.ctx.snap # 0
  BY <1>1 DEF CallAt
<1>5. n = call.stage - 1 /\ n \in 0 .. 2
  <2>1. n \in 0 .. 3 /\ DOMAIN Stages = 1 .. n
    BY StagesTyped
  <2>2. call.stage \notin 1 .. n
    BY <1>1, <2>1 DEF Started
  <2>3. \A i \in 1 .. 3 : i < call.stage => i \in 1 .. n
    BY <1>4, <2>1 DEF Saved, Complete, Started
  <2>4. call.stage = 1 \/ call.stage = 2 \/ call.stage = 3
    BY <1>4
  <2> QED BY <2>1, <2>2, <2>3, <2>4
<1> DEFINE new == Append(Stages, d)
<1>6. /\ new \in Seq(Stage) /\ Len(new) = n + 1 /\ DOMAIN new = 1 .. n + 1
      /\ new[n + 1] = d /\ \A i \in 1 .. n : new[i] = Stages[i]
      /\ DOMAIN Stages = 1 .. n
  BY <1>2, <1>5, StagesTyped
<1>7. Root \in 0 .. CycleLimit /\ Root' = Root
  BY <1>1, StagesTyped, RootStays
<1> HIDE DEF d, n, new
<1>8. /\ hier' \in [0 .. CycleLimit -> Seq(Stage)] /\ hier'[Root] = new /\ Stages' = new
      /\ \A r \in 0 .. CycleLimit : r # Root => hier'[r] = hier[r]
  BY <1>1, <1>6, <1>7 DEF TypeOK, new, Stages
<1>9. RootOK(new)
  <2>1. RootOK(Stages)
    BY StagesTyped
  <2>2. \A i \in 1 .. n : new[i].out # Unsaved /\ new[i].ctx = run.ctx
    BY <1>4, <1>5, <1>6 DEF Saved, Complete
  <2>3. \A i \in 1 .. n : new[i].out \in Answers(i) \cup {Unsaved}
    BY <1>6, <2>1 DEF RootOK
  <2>4. n = 2 => new[2].out \notin {"human", "nothing_retained"}
    BY <1>4, <1>5, <1>6 DEF Triage
  <2>5. \A i \in 1 .. n + 1 : i \in 1 .. n \/ i = n + 1
    BY <1>5
  <2>6. Len(new) <= 3 /\ n \in Nat
    BY <1>5, <1>6
  <2>7. \A i \in DOMAIN new : new[i].out \in Answers(i) \cup {Unsaved}
    BY <1>2, <1>6, <2>3, <2>5
  <2>8. \A i \in DOMAIN new : i < Len(new) => new[i].out # Unsaved
    BY <1>6, <2>2, <2>5, <2>6
  <2>9. \A i, j \in DOMAIN new : new[i].ctx = new[j].ctx
    BY <1>2, <1>6, <2>2, <2>5
  <2> QED BY <1>6, <2>4, <2>6, <2>7, <2>8, <2>9 DEF RootOK
<1>10. TypeOK'
  BY <1>1, <1>3, <1>8 DEF TypeOK
<1>11. EvidenceOK'
  BY <1>1, EvidenceStays
<1>12. CallOK'
  <2>1. ASSUME NEW i \in 1 .. 3, i < call.stage PROVE Saved(i)'
    <3>1. i \in 1 .. n /\ Saved(i) /\ n \in Nat
      BY <1>4, <1>5, <2>1
    <3>2. i \in DOMAIN new /\ new[i] = Stages[i]
      BY <1>6, <3>1
    <3> QED BY <1>1, <1>8, <3>1, <3>2 DEF Saved, Complete, Started
  <2>2. Triage' = Triage \/ call.stage # 3
    BY <1>5, <1>6, <1>8 DEF Triage
  <2>3. /\ Len(Stages') = call.stage /\ Stages'[call.stage].out = Unsaved
        /\ Stages'[call.stage].ctx = run'.ctx /\ Stages'[call.stage].calls = 0
    <3>1. n + 1 = call.stage
      BY <1>4, <1>5
    <3> QED BY <1>1, <1>2, <1>6, <1>8, <3>1
  <2> QED BY <1>1, <1>3, <1>4, <2>1, <2>2, <2>3 DEF CallOK, CallAt
<1>13. PlanOK'
  <2>1. run.plan.how = "hierarchical" => run.plan.root \in 0 .. CycleLimit /\ run.plan.root # Root
    <3>1. run.plan \in Plan
      BY <1>1 DEF TypeOK, Run
    <3>2. Len(Stages) # 3
      BY <1>5 DEF n
    <3> QED BY <1>1, <3>1, <3>2 DEF Plan, PlanOK, Stages
  <2> QED BY <1>1, <1>8, <2>1 DEF PlanOK
<1> QED
  BY <1>7, <1>8, <1>9, <1>10, <1>11, <1>12, <1>13 DEF IInv

\* Asking for a stage and saving its answer write to the newest stage of the
\* root, which had no answer.
LEMMA StageWritten ==
  ASSUME IInv, call.pc \in {"claimed", "asked"}, UNCHANGED <<run, snap, policy, cycles>>,
         NEW c \in Stage, c.ctx = run.ctx, c.out \in Answers(call.stage) \cup {Unsaved},
         hier' = [hier EXCEPT ![Root] = [Stages EXCEPT ![call.stage] = c]]
  PROVE  /\ Root' = Root /\ hier' \in [0 .. CycleLimit -> Seq(Stage)]
         /\ \A r \in 0 .. CycleLimit : RootOK(hier'[r])
         /\ \A i \in 1 .. 3 : i < call.stage => Saved(i)' /\ Stages'[i] = Stages[i]
         /\ Len(Stages') = call.stage /\ DOMAIN Stages' = 1 .. call.stage
         /\ Stages'[call.stage] = c
         /\ PlanOK'
<1> DEFINE new == [Stages EXCEPT ![call.stage] = c]
<1>1. /\ CallAt(call) /\ TypeOK /\ PlanOK /\ call.stage \in 1 .. 3
      /\ \A i \in 1 .. 3 : i < call.stage => Saved(i)
      /\ Len(Stages) = call.stage /\ Stages[call.stage].out = Unsaved
      /\ Stages[call.stage].ctx = run.ctx
      /\ call.stage = 3 => Triage \notin {"human", "nothing_retained"}
  BY DEF IInv, CallOK, CallAt
<1>2. /\ Root \in 0 .. CycleLimit /\ Stages \in Seq(Stage) /\ RootOK(Stages)
      /\ DOMAIN Stages = 1 .. call.stage /\ Root' = Root
  BY <1>1, StagesTyped, RootStays
<1>3. /\ new \in Seq(Stage) /\ Len(new) = call.stage /\ DOMAIN new = 1 .. call.stage
      /\ new[call.stage] = c /\ \A i \in 1 .. call.stage : i # call.stage => new[i] = Stages[i]
  <2>1. call.stage \in 1 .. Len(Stages)
    BY <1>1
  <2>2. /\ new \in Seq(Stage) /\ Len(new) = Len(Stages)
        /\ \A j \in 1 .. Len(Stages) : new[j] = IF j = call.stage THEN c ELSE Stages[j]
    BY <1>2, <2>1, ExceptSeq
  <2>3. DOMAIN new = 1 .. Len(new)
    BY <2>2
  <2> QED BY <1>1, <2>1, <2>2, <2>3
<1> HIDE DEF new
<1>4. /\ hier' \in [0 .. CycleLimit -> Seq(Stage)] /\ hier'[Root] = new /\ Stages' = new
      /\ \A r \in 0 .. CycleLimit : r # Root => hier'[r] = hier[r]
  BY <1>1, <1>2, <1>3 DEF TypeOK, new, Stages
<1>5. \A i \in 1 .. 3 : i < call.stage =>
        i \in DOMAIN new /\ new[i] = Stages[i] /\ new[i].out # Unsaved /\ new[i].ctx = run.ctx
  BY <1>1, <1>3 DEF Saved, Complete
<1>6. RootOK(new)
  <2>1. \A i \in 1 .. call.stage : i < call.stage \/ i = call.stage
    BY <1>1
  <2>2. call.stage <= 3 /\ \A i \in 1 .. call.stage : i \in 1 .. 3
    BY <1>1
  <2>3. \A i \in DOMAIN new : new[i].out \in Answers(i) \cup {Unsaved}
    BY <1>2, <1>3, <2>1 DEF RootOK
  <2>4. \A i \in DOMAIN new : i < Len(new) => new[i].out # Unsaved
    BY <1>3, <1>5, <2>2
  <2>5. \A i \in DOMAIN new : new[i].ctx = run.ctx
    BY <1>3, <1>5, <2>1, <2>2
  <2>6. Len(new) = 3 => new[2].out \notin {"human", "nothing_retained"}
    BY <1>1, <1>3 DEF Triage
  <2> QED BY <1>3, <2>2, <2>3, <2>4, <2>5, <2>6 DEF RootOK
<1>7. \A r \in 0 .. CycleLimit : RootOK(hier'[r])
  BY <1>4, <1>6 DEF IInv
<1>8. \A i \in 1 .. 3 : i < call.stage => Saved(i)' /\ Stages'[i] = Stages[i]
  BY <1>4, <1>5 DEF Saved, Complete, Started
<1>9. PlanOK'
  <2>1. run.plan.how = "hierarchical" => run.plan.root \in 0 .. CycleLimit /\ run.plan.root # Root
    <3>1. run.plan \in Plan
      BY <1>1 DEF TypeOK, Run
    <3>2. ~(Len(Stages) = 3 /\ Stages[3].out = "expansion")
      BY <1>1 DEF Unsaved
    <3> QED BY <1>1, <3>1, <3>2 DEF Plan, PlanOK, Stages
  <2> QED BY <1>1, <1>4, <2>1 DEF PlanOK
<1> QED
  BY <1>2, <1>3, <1>4, <1>7, <1>8, <1>9

LEMMA AskStageStep ==
  ASSUME IInv, NEW answer \in Outputs, AskStage(answer)
  PROVE  IInv'
<1> DEFINE c == [Stages[call.stage] EXCEPT !.calls = 1]
<1>1. /\ CallAt(call) /\ TypeOK /\ EvidenceOK /\ call.pc = "claimed" /\ call.stage \in 1 .. 3
      /\ answer \in Answers(call.stage)
      /\ hier' = [hier EXCEPT ![Root][call.stage].calls = @ + 1]
      /\ call' = [call EXCEPT !.pc = "asked", !.answer = answer]
      /\ UNCHANGED <<run, snap, policy, cycles, work>>
      /\ Len(Stages) = call.stage /\ Stages[call.stage].calls = 0
      /\ Stages[call.stage].out = Unsaved /\ Stages[call.stage].ctx = run.ctx
      /\ call.stage = 3 => Triage \notin {"human", "nothing_retained"}
      /\ work.step = "off" /\ run.ctx.snap # 0
  BY DEF IInv, AskStage, At, CallOK, CallAt, evidence
<1>2. call' \in Call /\ call'.pc = "asked" /\ call'.stage = call.stage /\ call'.answer = answer
  BY <1>1 DEF TypeOK, Call
<1>3. Stages[call.stage] \in Stage /\ Stages = hier[Root] /\ Root \in DOMAIN hier
      /\ call.stage \in DOMAIN Stages
  BY <1>1, StagesTyped DEF Stages, TypeOK
<1>4. c \in Stage /\ c.ctx = run.ctx /\ c.out = Unsaved /\ c.calls = 1
  BY <1>1, <1>3 DEF Stage
<1>5. hier' = [hier EXCEPT ![Root] = [Stages EXCEPT ![call.stage] = c]]
  <2> DEFINE k == Stages[call.stage].calls + 1
  <2>1. hier' = [hier EXCEPT ![Root] = [Stages EXCEPT ![call.stage] =
                   [Stages[call.stage] EXCEPT !.calls = k]]]
    BY <1>1, <1>3
  <2>2. k = 1
    BY <1>1
  <2> HIDE DEF k
  <2> QED BY <2>1, <2>2
<1> HIDE DEF c
<1>6. /\ Root' = Root /\ hier' \in [0 .. CycleLimit -> Seq(Stage)]
      /\ \A r \in 0 .. CycleLimit : RootOK(hier'[r])
      /\ \A i \in 1 .. 3 : i < call.stage => Saved(i)' /\ Stages'[i] = Stages[i]
      /\ Len(Stages') = call.stage /\ Stages'[call.stage] = c /\ PlanOK'
  BY <1>1, <1>4, <1>5, StageWritten
<1>7. TypeOK'
  BY <1>1, <1>2, <1>6 DEF TypeOK
<1>8. EvidenceOK'
  BY <1>1, EvidenceStays
<1>9. CallOK'
  <2>1. /\ Len(Stages') = call'.stage
        /\ Stages'[call'.stage].out = Unsaved /\ Stages'[call'.stage].ctx = run'.ctx
        /\ Stages'[call'.stage].calls = 1
    BY <1>1, <1>2, <1>4, <1>6
  <2>2. \A i \in 1 .. 3 : i < call'.stage => Saved(i)'
    BY <1>2, <1>6
  <2>3. call'.stage = 3 => Triage' \notin {"human", "nothing_retained"}
    <3>1. ASSUME call.stage = 3 PROVE Stages'[2] = Stages[2]
      BY <1>6, <3>1
    <3> QED BY <1>1, <1>2, <3>1 DEF Triage
  <2> QED BY <1>1, <1>2, <2>1, <2>2, <2>3 DEF CallOK, CallAt
<1> QED
  BY <1>6, <1>7, <1>8, <1>9 DEF IInv

LEMMA SaveStageStep ==
  ASSUME IInv, SaveStage
  PROVE  IInv'
<1> DEFINE c == [Stages[call.stage] EXCEPT !.out = call.answer]
<1>1. /\ CallAt(call) /\ TypeOK /\ EvidenceOK /\ call.pc = "asked" /\ call.stage \in 1 .. 3
      /\ call.answer \in Answers(call.stage)
      /\ hier' = [hier EXCEPT ![Root][call.stage].out = call.answer]
      /\ Done /\ UNCHANGED <<run, snap, policy, cycles, work>>
      /\ Len(Stages) = call.stage /\ Stages[call.stage].ctx = run.ctx
      /\ work.step = "off" /\ run.ctx.snap # 0
  BY DEF IInv, SaveStage, At, CallOK, CallAt, evidence
<1>2. call.answer \in Outputs /\ call.answer # Unsaved
  BY <1>1, AnswersAre
<1>3. Stages[call.stage] \in Stage /\ Stages = hier[Root] /\ Root \in DOMAIN hier
      /\ call.stage \in DOMAIN Stages
  BY <1>1, StagesTyped DEF Stages, TypeOK
<1>4. c \in Stage /\ c.ctx = run.ctx /\ c.out = call.answer
  BY <1>1, <1>2, <1>3 DEF Stage
<1>5. hier' = [hier EXCEPT ![Root] = [Stages EXCEPT ![call.stage] = c]]
  BY <1>1, <1>3
<1> HIDE DEF c
<1>6. /\ Root' = Root /\ hier' \in [0 .. CycleLimit -> Seq(Stage)]
      /\ \A r \in 0 .. CycleLimit : RootOK(hier'[r])
      /\ \A i \in 1 .. 3 : i < call.stage => Saved(i)' /\ Stages'[i] = Stages[i]
      /\ DOMAIN Stages' = 1 .. call.stage /\ Stages'[call.stage] = c /\ PlanOK'
  BY <1>1, <1>4, <1>5, StageWritten
<1>7. ASSUME NEW i \in 1 .. 3, i <= call.stage PROVE Saved(i)'
  <2>1. CASE i = call.stage
    BY <1>1, <1>2, <1>4, <1>6, <2>1 DEF Saved, Complete, Started
  <2>2. CASE i < call.stage
    BY <1>6, <2>2
  <2> QED BY <1>1, <1>7, <2>1, <2>2
<1>8. /\ call' \in Call
      /\ call.stage = 1 => call'.pc = "stage" /\ call'.stage = 2
      /\ call.stage = 2 => call'.pc = "verdict" /\ call'.stage = 2
      /\ call.stage = 3 => call'.pc = "compile" /\ call'.stage = 3
  BY <1>1, StageDone
<1>9. TypeOK'
  BY <1>1, <1>6, <1>8 DEF TypeOK
<1>10. EvidenceOK'
  BY <1>1, EvidenceStays
<1>11. CallOK'
  <2>1. CASE call.stage = 1
    <3>1. Saved(1)' /\ \A i \in 1 .. 3 : i < 2 => i = 1
      BY <1>7, <2>1
    <3> QED BY <1>1, <1>8, <2>1, <3>1 DEF CallOK, CallAt
  <2>2. CASE call.stage = 2
    <3>1. Saved(1)' /\ Saved(2)'
      BY <1>7, <2>2
    <3> QED BY <1>1, <1>8, <2>2, <3>1 DEF CallOK, CallAt
  <2>3. CASE call.stage = 3
    <3>1. Saved(3)'
      BY <1>7, <2>3
    <3> QED BY <1>1, <1>8, <2>3, <3>1 DEF CallOK, CallAt
  <2> QED BY <1>1, <2>1, <2>2, <2>3
<1> QED
  BY <1>6, <1>9, <1>10, <1>11 DEF IInv

\* A proposal is bound to the context of the run and to the current root.
LEMMA PlanMadeStep ==
  ASSUME IInv, NEW how \in Strategies, PlanMade(how), UNCHANGED <<hier, snap>>,
         call.pc # "idle", EvidenceOK', UNCHANGED cycles, work'.step = "off",
         how = "hierarchical" =>
           Len(Stages) = 3 /\ Stages[3].out = "expansion" /\ Stages[3].ctx = run.ctx
  PROVE  IInv'
<1> DEFINE plan == [ctx |-> run.ctx, root |-> Root, how |-> how]
<1>1. /\ TypeOK /\ run \in Run /\ run.ctx \in Contexts /\ run.ctx.snap # 0
      /\ Root \in 0 .. CycleLimit /\ Return
      /\ run' = [run EXCEPT !.status = "PLANNED", !.plan = plan]
  BY StagesTyped DEF IInv, TypeOK, Run, CallOK, CallAt, PlanMade
<1>2. plan \in Plan /\ plan.ctx = run.ctx /\ plan.root = Root /\ plan.how = how
  BY <1>1 DEF Plan
<1> HIDE DEF plan
<1>3. run' \in Run /\ run'.ctx = run.ctx /\ run'.plan = plan
  BY <1>1, <1>2 DEF Run, Statuses
<1>4. call' \in Call /\ call'.pc = "idle"
  BY <1>1, CallReturned
<1>5. TypeOK' /\ CallOK'
  BY <1>1, <1>3, <1>4 DEF TypeOK, CallOK, CallAt
<1>6. PlanOK'
  BY <1>1, <1>2, <1>3 DEF PlanOK, Stages
<1> QED
  BY <1>5, <1>6 DEF IInv

\* After the evidence loop a call looks at the stages again from the first one,
\* is refused, or makes a direct plan.
LEMMA ChooseStrategyStep ==
  ASSUME IInv, ChooseStrategy
  PROVE  IInv'
<1>1. TypeOK /\ EvidenceOK /\ CallAt(call) /\ call.pc = "strategy" /\ work.step = "off"
      /\ UNCHANGED <<hier, snap, evidence, policy, cycles, work>>
  BY DEF IInv, CallOK, CallAt, ChooseStrategy, At, evidence
<1>2. CASE /\ call' = [call EXCEPT !.pc = "stage", !.stage = 1, !.then = "expand"]
           /\ UNCHANGED run
  <2>1. call' \in Call /\ call'.pc = "stage" /\ call'.stage = 1
    BY <1>1, <1>2, CallGoesOn
  <2>2. CallAt(call')
    BY <1>1, <2>1 DEF CallAt
  <2> QED BY <1>1, <1>2, <2>1, <2>2, QuietStep
<1>3. CASE Blocked
  <2>1. EvidenceOK' /\ work'.step = "off"
    BY <1>1, EvidenceStays
  <2> QED BY <1>1, <1>3, <2>1, CallEnds DEF Blocked, Statuses
<1>4. CASE PlanMade("direct")
  <2>1. EvidenceOK' /\ work'.step = "off"
    BY <1>1, EvidenceStays
  <2>2. "direct" \in Strategies /\ "direct" # "hierarchical" /\ call.pc # "idle"
    BY <1>1 DEF Strategies
  <2> QED BY <1>1, <1>4, <2>1, <2>2, PlanMadeStep
<1> QED
  BY <1>2, <1>3, <1>4 DEF ChooseStrategy

\* The expansion is compiled from the saved third stage, which was made for
\* the context of the run.
LEMMA CompileExpansionStep ==
  ASSUME IInv, CompileExpansion
  PROVE  IInv'
<1>1. /\ EvidenceOK /\ CallAt(call) /\ call.pc = "compile" /\ work.step = "off"
      /\ UNCHANGED <<hier, snap, policy, cycles, work>> /\ PlanMade("hierarchical")
  BY DEF IInv, CallOK, CallAt, CompileExpansion, At, evidence
<1>2. EvidenceOK' /\ work'.step = "off"
  BY <1>1, EvidenceStays
<1>3. Len(Stages) = 3 /\ Stages[3].out = "expansion" /\ Stages[3].ctx = run.ctx
  <2>1. Saved(3)
    BY <1>1 DEF CallAt
  <2>2. 3 \in 1 .. Len(Stages) /\ Len(Stages) \in 0 .. 3 /\ RootOK(Stages)
        /\ Stages[3].out # Unsaved /\ Stages[3].ctx = run.ctx
    BY <2>1, StagesTyped DEF Saved, Complete, Started
  <2>3. Stages[3].out \in Answers(3) \cup {Unsaved}
    BY <2>2, StagesTyped DEF RootOK
  <2> QED BY <2>2, <2>3, AnswersAre
<1>4. "hierarchical" \in Strategies /\ call.pc # "idle"
  BY <1>1 DEF Strategies
<1> QED
  BY <1>1, <1>2, <1>3, <1>4, PlanMadeStep

\* What ends a call: an error, a refusal, the end of a resolution.
LEMMA EndingSteps ==
  ASSUME IInv,
         \/ FailStage \/ EvidenceBlocked \/ EvidenceFailed \/ Uncertain \/ RejectStage
         \/ (At("stage") \/ At("verdict")) /\ Blocked /\ UNCHANGED <<hier, snap, evidence>>
  PROVE  IInv'
<1>1. EvidenceOK /\ CallAt(call)
  BY DEF IInv, CallOK
<1>2. \E status \in Statuses : Save(status)
  BY DEF FailStage, EvidenceBlocked, EvidenceFailed, Uncertain, RejectStage, Blocked, Statuses
<1>3. Return /\ UNCHANGED <<hier, snap, policy, cycles>>
  BY DEF FailStage, EvidenceBlocked, EvidenceFailed, Uncertain, RejectStage, Blocked,
     E!Finish, evidence
<1>4. work' = E!Off \/ (UNCHANGED work /\ work.step = "off")
  BY <1>1 DEF FailStage, EvidenceBlocked, EvidenceFailed, Uncertain, RejectStage, Quiet, At,
     E!Finish, evidence, CallAt
<1>5. EvidenceOK' /\ work'.step = "off"
  BY <1>1, <1>3, <1>4, EvidenceStays DEF E!Off
<1> QED
  BY <1>2, <1>3, <1>5, CallEnds

\* An interruption loses the call; new knowledge concerns the next one.
LEMMA OutsideSteps ==
  ASSUME IInv, Crash \/ KnowledgeChanges \/ UNCHANGED vars
  PROVE  IInv'
<1>1. TypeOK /\ EvidenceOK /\ CallAt(call) /\ UNCHANGED <<run, hier, policy, cycles>>
      /\ (work' = E!Off \/ UNCHANGED work)
  BY DEF IInv, CallOK, Crash, KnowledgeChanges, evidence, vars
<1>2. EvidenceOK' /\ Root' = Root
  BY <1>1, EvidenceStays, RootStays
<1>3. TypeOK'
  <2>1. CASE KnowledgeChanges
    <3>1. snap' \in 1 .. MaxSnapshot
      BY <1>1, <2>1, PlanningAssumption DEF KnowledgeChanges, TypeOK
    <3> QED BY <1>1, <2>1, <3>1 DEF KnowledgeChanges, TypeOK
  <2>2. CASE Crash
    BY <1>1, <2>2, CallReturned DEF Crash, TypeOK, Return
  <2>3. CASE UNCHANGED vars
    BY <1>1, <2>3 DEF vars, TypeOK
  <2> QED BY <2>1, <2>2, <2>3
<1>4. CallOK'
  <2>1. CASE Crash
    <3>1. call'.pc = "idle" /\ work'.step = "off"
      BY <2>1, CallReturned DEF Crash, Return, E!Off
    <3> QED BY <3>1 DEF CallOK, CallAt
  <2>2. CASE UNCHANGED <<call, work>>
    BY <1>1, <1>2, <2>2 DEF CallOK, CallAt, Saved, Complete, Started, Stages, Triage
  <2> QED BY <2>1, <2>2 DEF KnowledgeChanges, evidence, vars
<1> QED
  BY <1>1, <1>2, <1>3, <1>4 DEF IInv, PlanOK

-----------------------------------------------------------------------------
(* The invariant holds. *)

LEMMA InvariantInit ==
  ASSUME Init
  PROVE  IInv
<1>1. /\ run = NoRun /\ hier = [r \in 0 .. CycleLimit |-> <<>>] /\ snap = 1 /\ call = Idle
      /\ policy = 0 /\ cycles = <<>> /\ work = E!Off
  BY DEF Init, E!CyclesInit
<1>2. EvidenceOK
  <2>1. work \in [step : E!Steps, request : Requests \cup {"nothing"}, why : E!Reasons]
        /\ work.step = "off"
    BY <1>1 DEF E!Off, E!Steps, E!Reasons
  <2> QED BY <1>1, <2>1, PlanningAssumption DEF EvidenceOK
<1>3. NoContext \in Contexts /\ NoPlan \in Plan /\ NoPlan.how = "none"
  BY PlanningAssumption DEF NoContext, Contexts, NoPlan, Plan
<1>4. run \in Run /\ run.plan = NoPlan
  <2>1. run = [status |-> "CREATED", ctx |-> NoContext, plan |-> NoPlan]
    BY <1>1 DEF NoRun
  <2> QED BY <1>3, <2>1 DEF Run, Statuses
<1>5. call \in Call /\ call.pc = "idle"
  BY <1>1, CallReturned DEF Idle, Call, Strategies
<1>6. \A r \in 0 .. CycleLimit : hier[r] = <<>> /\ RootOK(hier[r])
  BY <1>1 DEF RootOK
<1>7. TypeOK
  <2>1. hier \in [0 .. CycleLimit -> Seq(Stage)] /\ snap \in 1 .. MaxSnapshot
    BY <1>1, PlanningAssumption
  <2> QED BY <1>4, <1>5, <2>1 DEF TypeOK
<1>8. CallOK /\ PlanOK
  BY <1>1, <1>3, <1>4, <1>5 DEF CallOK, CallAt, PlanOK, E!Off
<1> QED
  BY <1>2, <1>6, <1>7, <1>8 DEF IInv

LEMMA InvariantNext ==
  ASSUME IInv, [Next]_vars
  PROVE  IInv'
<1>1. CASE \E strategy \in Strategies, n \in CycleOptions : Begin(strategy, n)
  BY <1>1, BeginStep
<1>2. CASE Resolve \/ EvidenceStep
  BY <1>2, EvidenceSteps
<1>3. CASE EvidenceChild
  BY <1>3, ChildStep
<1>4. CASE Resolved
  BY <1>4, ResolvedStep
<1>5. CASE Reuse
  <2>1. CASE Stages[call.stage].ctx = run.ctx
    BY <1>5, <2>1, ReuseStep DEF Reuse
  <2>2. CASE Stages[call.stage].ctx # run.ctx
    BY <1>5, <2>2, EndingSteps DEF Reuse
  <2> QED BY <2>1, <2>2
<1>6. CASE ClaimStage
  BY <1>6, ClaimStageStep
<1>7. CASE \E answer \in Outputs : AskStage(answer)
  BY <1>7, AskStageStep
<1>8. CASE SaveStage
  BY <1>8, SaveStageStep
<1>9. CASE Verdict
  <2>1. CASE Triage \in {"human", "nothing_retained"}
    BY <1>9, <2>1, EndingSteps DEF Verdict
  <2>2. CASE Triage \notin {"human", "nothing_retained"}
    BY <1>9, <2>2, VerdictStep DEF Verdict
  <2> QED BY <2>1, <2>2
<1>10. CASE ChooseStrategy
  BY <1>10, ChooseStrategyStep
<1>11. CASE CompileExpansion
  BY <1>11, CompileExpansionStep
<1>12. CASE FailStage \/ EvidenceBlocked \/ EvidenceFailed \/ Uncertain \/ RejectStage
  BY <1>12, EndingSteps
<1>13. CASE Crash \/ KnowledgeChanges \/ UNCHANGED vars
  BY <1>13, OutsideSteps
<1> QED
  BY <1>1, <1>2, <1>3, <1>4, <1>5, <1>6, <1>7, <1>8, <1>9, <1>10, <1>11, <1>12, <1>13
     DEF Next, Advance

\* The inductive invariant holds for every budget, every number of knowledge
\* changes and whatever the triages answer (service.py:2416-2760).
THEOREM Invariant == Spec => []IInv
<1>1. Init => IInv
  BY InvariantInit
<1>2. IInv /\ [Next]_vars => IInv'
  BY InvariantNext
<1> QED BY <1>1, <1>2, PTL DEF Spec

\* Every file and local has the shape its model class declares
\* (models.py, the run and the stage artifacts).
THEOREM TypeCorrect == Spec => []TypeOK
<1>1. IInv => TypeOK
  BY DEF IInv
<1> QED BY <1>1, Invariant, PTL

\* No root is expanded past a triage that asks for a human choice or retains
\* nothing (service.py:2634-2643).
THEOREM HumanBoundaryHolds == Spec => []HumanBoundary
<1>1. IInv => HumanBoundary
  BY DEF IInv, TypeOK, RootOK, HumanBoundary
<1> QED BY <1>1, Invariant, PTL

\* All stages of a root come from one planning input, and a hierarchical
\* proposal comes from a complete root of the run's own context
\* (service.py:2454-2619).
THEOREM OneInputHolds == Spec => []OneInputPerRoot
<1>1. IInv => OneInputPerRoot
  BY DEF IInv, TypeOK, RootOK, PlanOK, OneInputPerRoot
<1> QED BY <1>1, Invariant, PTL

-----------------------------------------------------------------------------
(* The stages are claimed calls. *)

\* The ledger of a root mirrors its stages.
LEMMA LedgerMirrors ==
  ASSUME TypeOK, NEW r \in 0 .. CycleLimit
  PROVE  /\ Ledger(r) \in Seq({"claimed", "called", "settled"})
         /\ Len(Ledger(r)) = Len(hier[r]) /\ DOMAIN Ledger(r) = 1 .. Len(hier[r])
         /\ \A i \in 1 .. Len(hier[r]) : Ledger(r)[i] = LedgerState(hier[r][i])
<1>1. hier[r] \in Seq(Stage)
  BY DEF TypeOK
<1>2. DOMAIN hier[r] = 1 .. Len(hier[r]) /\ Len(hier[r]) \in Nat
  BY <1>1
<1>3. \A i \in 1 .. Len(hier[r]) :
        LedgerState(hier[r][i]) \in {"claimed", "called", "settled"}
  BY DEF LedgerState
<1>4. Ledger(r) = [i \in 1 .. Len(hier[r]) |-> LedgerState(hier[r][i])]
  BY <1>2 DEF Ledger
<1> QED
  BY <1>2, <1>3, <1>4

\* The newest stage of a root changes from one state of its call to another.
LEMMA NewestChanges ==
  ASSUME TypeOK, TypeOK', NEW r \in 0 .. CycleLimit, NEW c, hier[r] # <<>>,
         hier'[r] = [hier[r] EXCEPT ![Len(hier[r])] = c]
  PROVE  /\ Ledger(r) # <<>> /\ StageCalls(r)!Newest = LedgerState(hier[r][Len(hier[r])])
         /\ Ledger(r)' = [Ledger(r) EXCEPT ![Len(Ledger(r))] = LedgerState(c)]
<1> DEFINE n == Len(hier[r])
<1>1. /\ hier[r] \in Seq(Stage) /\ n \in Nat \ {0} /\ DOMAIN hier[r] = 1 .. n
      /\ n \in 1 .. n
  BY DEF TypeOK
<1>2. /\ Len(Ledger(r)) = n /\ DOMAIN Ledger(r) = 1 .. n
      /\ \A i \in 1 .. n : Ledger(r)[i] = LedgerState(hier[r][i])
  BY LedgerMirrors
<1>3. Ledger(r) # <<>> /\ StageCalls(r)!Newest = LedgerState(hier[r][n])
  BY <1>1, <1>2 DEF StageCalls!Newest
<1>4. DOMAIN hier'[r] = 1 .. n /\ hier'[r][n] = c
      /\ \A i \in 1 .. n : i # n => hier'[r][i] = hier[r][i]
  BY <1>1
<1>5. Ledger(r)' = [i \in 1 .. n |-> LedgerState(hier'[r][i])]
  BY <1>4 DEF Ledger
<1>6. Ledger(r) = [i \in 1 .. n |-> LedgerState(hier[r][i])]
  BY <1>1 DEF Ledger
<1>7. Ledger(r)' = [Ledger(r) EXCEPT ![n] = LedgerState(c)]
  BY <1>1, <1>4, <1>5, <1>6
<1> QED BY <1>2, <1>3, <1>7

\* A stage is claimed only on top of saved ones.
LEMMA StageBefore ==
  ASSUME IInv, ClaimStage
  PROVE  Len(Stages) < 3 /\ (Stages # <<>> => Stages[Len(Stages)].out # Unsaved)
<1> DEFINE n == Len(Stages)
<1>1. n \in 0 .. 3 /\ DOMAIN Stages = 1 .. n
  BY StagesTyped
<1>2. /\ call.stage \in 1 .. 3 /\ \A i \in 1 .. 3 : i < call.stage => Saved(i)
      /\ ~Started(call.stage)
  BY DEF IInv, CallOK, CallAt, ClaimStage, At
<1>3. call.stage \notin 1 .. n
  BY <1>1, <1>2 DEF Started
<1>4. n < call.stage
  BY <1>1, <1>2, <1>3
<1>5. Stages # <<>> => n \in 1 .. 3 /\ Saved(n)
  BY <1>1, <1>2, <1>4
<1> QED
  BY <1>1, <1>2, <1>4, <1>5 DEF Saved, Complete

LEMMA StageAppended ==
  ASSUME TypeOK, TypeOK', NEW r \in 0 .. CycleLimit, NEW c, LedgerState(c) = "claimed",
         hier'[r] = Append(hier[r], c), Len(hier[r]) < 3,
         hier[r] # <<>> => hier[r][Len(hier[r])].out # Unsaved
  PROVE  StageCalls(r)!Claim
<1> DEFINE n == Len(hier[r])
<1>1. hier[r] \in Seq(Stage) /\ n \in Nat /\ DOMAIN hier[r] = 1 .. n
  BY DEF TypeOK
<1>2. /\ Ledger(r) \in Seq({"claimed", "called", "settled"})
      /\ Len(Ledger(r)) = n /\ DOMAIN Ledger(r) = 1 .. n
      /\ \A i \in 1 .. n : Ledger(r)[i] = LedgerState(hier[r][i])
  BY LedgerMirrors
<1>3. Ledger(r) # <<>> => StageCalls(r)!Newest = "settled"
  <2> SUFFICES ASSUME Ledger(r) # <<>> PROVE StageCalls(r)!Newest = "settled"
    OBVIOUS
  <2>1. n # 0 /\ n \in 1 .. n /\ hier[r] # <<>>
    BY <1>1, <1>2
  <2> QED BY <1>2, <2>1 DEF StageCalls!Newest, LedgerState
<1>4. /\ DOMAIN hier'[r] = 1 .. n + 1 /\ hier'[r][n + 1] = c
      /\ \A i \in 1 .. n : hier'[r][i] = hier[r][i]
  BY <1>1
<1>5. Ledger(r)' = Append(Ledger(r), "claimed")
  <2>1. Ledger(r)' = [i \in 1 .. n + 1 |-> LedgerState(hier'[r][i])]
    BY <1>4 DEF Ledger
  <2> DEFINE S == {"claimed", "called", "settled"}
             t == Append(Ledger(r), "claimed")
             u == [i \in 1 .. n + 1 |-> LedgerState(hier'[r][i])]
  <2>2. /\ t \in Seq(S) /\ Len(t) = n + 1 /\ t[n + 1] = "claimed"
        /\ \A i \in 1 .. n : t[i] = Ledger(r)[i]
    BY <1>1, <1>2
  <2>3. \A i \in 1 .. n + 1 : LedgerState(hier'[r][i]) \in S
    BY DEF LedgerState
  <2>4. u \in Seq(S) /\ Len(u) = n + 1
    BY <1>1, <2>3
  <2>5. \A i \in 1 .. n + 1 : u[i] = t[i]
    <3>1. \A i \in 1 .. n + 1 : i = n + 1 \/ i \in 1 .. n
      BY <1>1
    <3> QED BY <1>2, <1>4, <2>2, <3>1
  <2> HIDE DEF S, t, u
  <2>6. u = t
    BY <2>2, <2>4, <2>5, SeqEqual
  <2> QED BY <2>1, <2>6 DEF t, u
<1> QED
  BY <1>2, <1>3, <1>5 DEF StageCalls!Claim

\* Every stage of a root is claimed in order, its provider is called at most
\* once under the claim, and nothing is claimed on top of a stage that was
\* never saved (service.py:2532-2619): the stages implement ClaimedCalls.
THEOREM StagesCalledAtMostOnce == Spec => StagesCalledOnce
<1> DEFINE Step == \A r \in 0 .. CycleLimit : StageCalls(r)!Next \/ UNCHANGED Ledger(r)
           Start == \A r \in 0 .. CycleLimit : StageCalls(r)!Init
<1>1. Init => Start
  <2> SUFFICES ASSUME Init, NEW r \in 0 .. CycleLimit PROVE Ledger(r) = <<>>
    BY DEF StageCalls!Init
  <2>1. hier[r] = <<>>
    BY DEF Init
  <2> QED BY <2>1 DEF Ledger
<1>2. IInv /\ IInv' /\ [Next]_vars => Step
  <2> SUFFICES ASSUME IInv, IInv', [Next]_vars, NEW r \in 0 .. CycleLimit
               PROVE  StageCalls(r)!Next \/ UNCHANGED Ledger(r)
    OBVIOUS
  <2>1. TypeOK /\ TypeOK' /\ CallAt(call)
    BY DEF IInv, CallOK
  <2>2. ASSUME UNCHANGED hier PROVE UNCHANGED Ledger(r)
    BY <2>2 DEF Ledger
  <2>3. ASSUME r # Root, \E s : hier' = [hier EXCEPT ![Root] = s] PROVE UNCHANGED Ledger(r)
    <3>1. hier'[r] = hier[r]
      BY <2>1, <2>3 DEF TypeOK
    <3> QED BY <3>1 DEF Ledger
  <2>4. /\ Root \in 0 .. CycleLimit /\ Stages = hier[Root] /\ Stages \in Seq(Stage)
        /\ Len(Stages) \in 0 .. 3 /\ DOMAIN Stages = 1 .. Len(Stages)
        /\ Root \in DOMAIN hier
    BY <2>1, StagesTyped DEF Stages, TypeOK
  <2>5. CASE ClaimStage
    <3> DEFINE c == [ctx |-> run.ctx, calls |-> 0, out |-> Unsaved]
    <3>1. hier' = [hier EXCEPT ![Root] = Append(Stages, c)] /\ LedgerState(c) = "claimed"
      BY <2>4, <2>5 DEF ClaimStage, LedgerState
    <3> HIDE DEF c
    <3>2. Len(Stages) < 3 /\ (Stages # <<>> => Stages[Len(Stages)].out # Unsaved)
      BY <2>1, <2>4, <2>5, StageBefore
    <3>3. CASE r = Root
      <4>1. hier'[r] = Append(hier[r], c)
        BY <2>4, <3>1, <3>3
      <4>2. Len(hier[r]) < 3 /\ (hier[r] # <<>> => hier[r][Len(hier[r])].out # Unsaved)
        BY <2>4, <3>2, <3>3
      <4>3. StageCalls(r)!Claim
        BY <2>1, <3>1, <4>1, <4>2, StageAppended
      <4> QED BY <4>3 DEF StageCalls!Next
    <3> QED BY <2>3, <3>1, <3>3
  <2>6. CASE \E answer \in Outputs : AskStage(answer)
    <3> DEFINE k == Stages[call.stage].calls + 1
               c == [Stages[call.stage] EXCEPT !.calls = k]
    <3>1. /\ hier' = [hier EXCEPT ![Root] = [Stages EXCEPT ![call.stage] = c]]
          /\ call.pc = "claimed"
      BY <2>4, <2>6 DEF AskStage, At
    <3>2. /\ Len(Stages) = call.stage /\ Stages[call.stage].out = Unsaved
          /\ Stages[call.stage].calls = 0 /\ call.stage \in 1 .. 3
      BY <2>1, <3>1 DEF CallAt
    <3>3. c.out = Unsaved /\ c.calls = k /\ k = 1
      BY <2>4, <3>2 DEF Stage
    <3>4. LedgerState(Stages[call.stage]) = "claimed" /\ LedgerState(c) = "called"
      BY <3>2, <3>3 DEF LedgerState
    <3> HIDE DEF c, k
    <3>5. CASE r = Root
      <4>0. Stages = hier[r] /\ call.stage = Len(hier[r])
        BY <2>4, <3>2, <3>5
      <4>1. hier'[r] = [hier[r] EXCEPT ![Len(hier[r])] = c] /\ hier[r] # <<>>
        <5>1. hier'[r] = [Stages EXCEPT ![call.stage] = c]
          BY <2>4, <3>1, <3>5
        <5>2. hier[r] # <<>>
          <6>1. Len(hier[r]) \in 1 .. 3
            BY <3>2, <4>0
          <6> QED BY <6>1
        <5> QED BY <4>0, <5>1, <5>2
      <4>2. LedgerState(hier[r][Len(hier[r])]) = LedgerState(Stages[call.stage])
        BY <4>0
      <4>3. /\ Ledger(r) # <<>> /\ StageCalls(r)!Newest = "claimed"
            /\ Ledger(r)' = [Ledger(r) EXCEPT ![Len(Ledger(r))] = "called"]
        BY <2>1, <3>4, <4>1, <4>2, NewestChanges
      <4> QED BY <4>3 DEF StageCalls!Next, StageCalls!Call
    <3> QED BY <2>3, <3>1, <3>5
  <2>7. CASE SaveStage
    <3> DEFINE c == [Stages[call.stage] EXCEPT !.out = call.answer]
    <3>1. /\ hier' = [hier EXCEPT ![Root] = [Stages EXCEPT ![call.stage] = c]]
          /\ call.pc = "asked"
      BY <2>4, <2>7 DEF SaveStage, At
    <3>2. /\ Len(Stages) = call.stage /\ Stages[call.stage].out = Unsaved
          /\ call.stage \in 1 .. 3 /\ call.answer \in Answers(call.stage)
          /\ Stages[call.stage].calls = 1
      BY <2>1, <3>1 DEF CallAt
    <3>3. c.out = call.answer /\ call.answer # Unsaved
      BY <2>4, <3>2, AnswersAre DEF Stage
    <3>4. LedgerState(Stages[call.stage]) = "called" /\ LedgerState(c) = "settled"
      BY <3>2, <3>3 DEF LedgerState
    <3> HIDE DEF c
    <3>5. CASE r = Root
      <4>0. Stages = hier[r] /\ call.stage = Len(hier[r])
        BY <2>4, <3>2, <3>5
      <4>1. hier'[r] = [hier[r] EXCEPT ![Len(hier[r])] = c] /\ hier[r] # <<>>
        <5>1. hier'[r] = [Stages EXCEPT ![call.stage] = c]
          BY <2>4, <3>1, <3>5
        <5>2. hier[r] # <<>>
          <6>1. Len(hier[r]) \in 1 .. 3
            BY <3>2, <4>0
          <6> QED BY <6>1
        <5> QED BY <4>0, <5>1, <5>2
      <4>2. LedgerState(hier[r][Len(hier[r])]) = LedgerState(Stages[call.stage])
        BY <4>0
      <4>3. /\ Ledger(r) # <<>> /\ StageCalls(r)!Newest = "called"
            /\ Ledger(r)' = [Ledger(r) EXCEPT ![Len(Ledger(r))] = "settled"]
        BY <2>1, <3>4, <4>1, <4>2, NewestChanges
      <4> QED BY <4>3 DEF StageCalls!Next, StageCalls!Settle
    <3> QED BY <2>3, <3>1, <3>5
  <2>8. CASE \/ \E strategy \in Strategies, n \in CycleOptions : Begin(strategy, n)
             \/ FailStage \/ Resolve \/ EvidenceStep \/ EvidenceBlocked \/ EvidenceFailed
             \/ EvidenceChild \/ Resolved \/ Reuse \/ Uncertain \/ RejectStage \/ Verdict
             \/ ChooseStrategy \/ CompileExpansion \/ KnowledgeChanges \/ Crash
             \/ UNCHANGED vars
    <3>1. UNCHANGED hier
      BY <2>8 DEF Begin, FailStage, Resolve, EvidenceStep, EvidenceBlocked, EvidenceFailed,
         EvidenceChild, Resolved, Reuse, Uncertain, RejectStage, Verdict, ChooseStrategy,
         CompileExpansion, KnowledgeChanges, Crash, vars
    <3> QED BY <2>2, <3>1
  <2> QED
    BY <2>5, <2>6, <2>7, <2>8 DEF Next, Advance
<1>3. Step => [Step]_vars
  OBVIOUS
<1> HIDE DEF Step, Start
<1>4. Spec => Start /\ [][Step]_vars
  BY <1>1, <1>2, <1>3, Invariant, PTL DEF Spec
<1> QED BY <1>4 DEF Step, Start, StagesCalledOnce

=============================================================================
