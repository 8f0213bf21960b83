---------------------- MODULE SuccessorPlanning_proofs ----------------------
(***************************************************************************)
(* Proofs about SuccessorPlanning and the intake it extends: receipts are  *)
(* earned, an invocation has one cycle, approvals bind the selected plan   *)
(* and its lineage, and paid calls are claimed once and only for results   *)
(* that are accepted at that time.                                         *)
(***************************************************************************)
EXTENDS SuccessorPlanning, FiniteSetTheorems, SequenceTheorems, WellFoundedInduction, TLAPS

-----------------------------------------------------------------------------
(* The inductive invariant. *)

\* A curation history is finite, and what a record supersedes is older than
\* any record to come.
HistoryOK(s) ==
  /\ IsFiniteSet(curations[s])
  /\ \A r \in curations[s] : r.id <= Cardinality(curations[s]) /\ r.supersedes <= Cardinality(curations[s])

\* A submission is about a plan that was stored, it is assessed after it came
\* in, and decided on after it was assessed.
SubmissionOK(s) ==
  /\ submission[s] \in {NoPlan, BasePlan} \/ submission[s][1] \in DOMAIN cycles
  /\ assessment[s] # "none" => submission[s] # NoPlan
  /\ curations[s] # {} => assessment[s] # "none"

\* The task under the lock: an acceptance is in force until its receipt.
TaskOK ==
  /\ task.step # "off" => task.sub \in Submissions /\ call.pc = "idle"
  /\ task.step = "submitted" => submission[task.sub] # NoPlan
  /\ task.step \in {"accepted", "stored"} =>
       /\ assessment[task.sub] = "RESULT_REQUIRES_CURATION"
       /\ \A r \in CurrentRecords(task.sub) : HasCurrent(task.sub, r) => r.status = "ACCEPTED"
  /\ task.step = "stored" => task.sub \in evidence

\* What the files of one cycle say of each other.
Complete(k) == k.proposal # 0 /\ k.plans = k.proposal
CycleOK(k) ==
  /\ k.results # {}
  /\ k.planning.calls <= 1 /\ k.approving.calls <= 1
  /\ ~k.planning.claimed => k.planning.calls = 0 /\ k.proposal = 0
  /\ k.proposal = 0 => k.plans = 0
  /\ k.selection # 0 => Complete(k)
  /\ k.approving.claimed => k.selection # 0
  /\ ~k.approving.claimed => k.approving.calls = 0 /\ k.approval = 0
  /\ k.approval # 0 => k.reviewed = k.selection
  /\ k.approval = 3 => k.gate \in Decisions
  /\ k.status \in Decisions => k.approval = 3 /\ k.gate = k.status

\* Where the call c stands with the files of its cycle k.
CallOK(c, k) ==
  /\ k.status = "none"
  /\ c.pc = "planning" => k.planning.claimed /\ k.planning.calls = 0
  /\ c.pc \in {"planning", "proposed"} => k.proposal = 0
  /\ c.pc \in {"planning", "proposed", "storing"} =>
       k.planning.claimed /\ k.selection = 0 /\ ~k.approving.claimed
  /\ c.pc \in {"proposed", "storing"} => k.planning.calls = 1 /\ c.n # 0
  /\ c.pc = "storing" => k.proposal = c.n /\ k.plans < c.n
  /\ c.pc = "planned" => Complete(k) /\ k.planning.claimed /\ c.n = k.proposal
  /\ c.pc \in {"selected", "approving", "reviewed", "closing"} =>
       k.planning.claimed /\ k.selection # 0 /\ c.choice = k.selection
  /\ c.pc \in {"approving", "reviewed"} => k.approving.claimed
  /\ c.pc = "approving" => k.approving.calls = 0 /\ k.approval = 0
  /\ c.pc = "reviewed" => k.approving.calls = 1 /\ k.approval < 3 /\ c.decision \in Decisions
  /\ c.pc = "closing" => k.approval = 3

\* While a call runs, the results it plans stay accepted.
CallInProgress ==
  call.pc # "idle" =>
    /\ call.c \in DOMAIN cycles
    /\ CallOK(call, cycles[call.c])
    /\ \A s \in cycles[call.c].results : Usable(s)

IInv ==
  /\ TypeOK
  /\ \A s \in Submissions : HistoryOK(s) /\ SubmissionOK(s)
  /\ TaskOK
  /\ \A c \in DOMAIN cycles : CycleOK(cycles[c])
  /\ CallInProgress
  /\ ReceiptIsEarned /\ OneCyclePerInvocation /\ ApprovedLineage

-----------------------------------------------------------------------------
(* Facts about the state. *)

\* What is known of the cycle of the call in progress.
LEMMA ThisCycle ==
  ASSUME IInv, call.pc # "idle"
  PROVE  /\ This \in Cycle /\ CycleOK(This) /\ CallOK(call, This) /\ This.status = "none"
         /\ call \in Call /\ call.c \in 1 .. Len(cycles) /\ cycles \in Seq(Cycle)
         /\ \A s \in This.results : Usable(s)
         /\ task.step = "off"
<1>1. cycles \in Seq(Cycle) /\ call \in Call /\ call.c \in DOMAIN cycles
      /\ CallOK(call, This) /\ \A s \in This.results : Usable(s)
  BY DEF IInv, TypeOK, CallInProgress, This
<1>2. CycleOK(This)
  BY <1>1 DEF IInv, This
<1>3. call.c \in 1 .. Len(cycles) /\ This \in Cycle
  BY <1>1 DEF This
<1> QED BY <1>1, <1>2, <1>3 DEF CallOK, IInv, TaskOK

\* What the intake holds does not change under a compile call.
LEMMA UsableKept ==
  ASSUME Others, NEW s
  PROVE  Usable(s)' <=> Usable(s)
BY DEF Others, intakeVars, Usable, HasCurrent, CurrentRecords, Superseded

\* A step of the call writes the files of its own cycle only, which is not
\* finished yet.
LEMMA CycleWritten ==
  ASSUME IInv, call.pc # "idle", Others, NEW k \in Cycle, CycleOK(k),
         cycles' = [cycles EXCEPT ![call.c] = k],
         k.results = This.results, k.followUp = This.followUp,
         call' \in Call,
         call'.pc # "idle" => call'.c = call.c /\ CallOK(call', k)
  PROVE  IInv'
<1>1. /\ cycles \in Seq(Cycle) /\ call.c \in 1 .. Len(cycles) /\ This.status = "none"
      /\ \A s \in This.results : Usable(s)
      /\ task.step = "off"
  BY ThisCycle
<1>2. /\ cycles' \in Seq(Cycle) /\ Len(cycles') = Len(cycles)
      /\ DOMAIN cycles = 1 .. Len(cycles) /\ DOMAIN cycles' = 1 .. Len(cycles)
      /\ \A c \in 1 .. Len(cycles) : cycles'[c] = IF c = call.c THEN k ELSE cycles[c]
  BY <1>1, ExceptSeq, LenProperties
<1>3. cycles'[call.c] = k
  BY <1>1, <1>2
<1>4. UNCHANGED <<submission, assessment, curations, evidence, receipt, task, base>>
  BY DEF Others, intakeVars
<1>5. TypeOK'
  BY <1>2, <1>4 DEF IInv, TypeOK
<1>6. \A s \in Submissions : HistoryOK(s)' /\ SubmissionOK(s)'
  BY <1>2, <1>4 DEF IInv, HistoryOK, SubmissionOK
<1>7. TaskOK'
  BY <1>1, <1>4 DEF TaskOK
<1>8. \A c \in DOMAIN cycles' : CycleOK(cycles'[c])
  BY <1>2 DEF IInv
<1>9. CallInProgress'
  <2> SUFFICES ASSUME call'.pc # "idle"
               PROVE  /\ call'.c \in DOMAIN cycles'
                      /\ CallOK(call', cycles'[call'.c])
                      /\ \A s \in cycles'[call'.c].results : Usable(s)'
    BY DEF CallInProgress
  <2>1. call'.c = call.c /\ CallOK(call', k)
    OBVIOUS
  <2>2. \A s \in k.results : Usable(s)'
    BY <1>1, UsableKept
  <2> QED BY <1>1, <1>2, <1>3, <2>1, <2>2
<1>10. ReceiptIsEarned'
  BY <1>4 DEF IInv, ReceiptIsEarned
<1>11. \A c \in 1 .. Len(cycles) :
         cycles'[c].results = cycles[c].results /\ cycles'[c].followUp = cycles[c].followUp
  BY <1>2 DEF This
<1>12. OneCyclePerInvocation'
  BY <1>2, <1>11 DEF IInv, OneCyclePerInvocation
<1>13. ApprovedLineage'
  <2> SUFFICES ASSUME NEW c \in DOMAIN cycles' PROVE Descends(c)'
    BY DEF ApprovedLineage
  <2>1. c \in 1 .. Len(cycles) /\ Descends(c)
    BY <1>2 DEF IInv, ApprovedLineage
  <2>2. ASSUME NEW s \in cycles[c].results, submission[s] # BasePlan
        PROVE  /\ submission[s][1] \in 1 .. c - 1
               /\ cycles'[submission[s][1]].status = "APPROVED"
               /\ cycles'[submission[s][1]].selection = submission[s][2]
    <3>1. /\ submission[s][1] \in 1 .. c - 1
          /\ cycles[submission[s][1]].status = "APPROVED"
          /\ cycles[submission[s][1]].selection = submission[s][2]
      BY <2>1, <2>2 DEF Descends
    <3>2. submission[s][1] \in 1 .. Len(cycles)
      BY <1>1, <2>1, <3>1
    <3>3. submission[s][1] # call.c
      BY <1>1, <3>1 DEF This
    <3> QED BY <1>2, <3>1, <3>2, <3>3
  <2> QED BY <1>4, <1>11, <2>1, <2>2 DEF Descends
<1> QED BY <1>5, <1>6, <1>7, <1>8, <1>9, <1>10, <1>12, <1>13 DEF IInv

\* A step that only reads its cycle.
LEMMA CycleRead ==
  ASSUME IInv, call.pc # "idle", Others, KeepCycles, call' \in Call,
         call'.pc # "idle" => call'.c = call.c /\ CallOK(call', This)
  PROVE  IInv'
<1>1. This \in Cycle /\ CycleOK(This) /\ cycles \in Seq(Cycle) /\ call.c \in 1 .. Len(cycles)
  BY ThisCycle
<1>2. cycles' = [cycles EXCEPT ![call.c] = This]
  BY <1>1 DEF KeepCycles, This
<1> QED BY <1>1, <1>2, CycleWritten

\* A call that returns leaves nothing behind.
LEMMA Returned ==
  ASSUME Return
  PROVE  call' \in Call /\ call'.pc = "idle"
BY SuccessorAssumption DEF Return, Idle, Call, PCs, Decisions

-----------------------------------------------------------------------------
(* The steps of a compile call. *)

\* research-update.yaml, kept as it is by a resumed call.
LEMMA WriteUpdateKeeps == ASSUME IInv, WriteUpdate PROVE IInv'
<1>1. /\ This \in Cycle /\ CycleOK(This) /\ CallOK(call, This) /\ This.status = "none"
      /\ call \in Call /\ call.c \in 1 .. Len(cycles) /\ cycles \in Seq(Cycle)
      /\ call.pc # "idle" /\ Others
  BY ThisCycle DEF WriteUpdate, At
<1>2. PICK status \in {"FOLLOW_UP_PLAN_REQUIRED", "NO_PLAN"} :
       cycles' = [cycles EXCEPT ![call.c].update = IF @ = "none" THEN status ELSE @]
  BY DEF WriteUpdate
<1> DEFINE k == [This EXCEPT !.update = IF This.update = "none" THEN status ELSE This.update]
<1>3. cycles' = [cycles EXCEPT ![call.c] = k]
  BY <1>1, <1>2 DEF WriteUpdate, This
<1>4. k \in Cycle /\ k.results = This.results /\ k.followUp = This.followUp
  BY <1>1 DEF WriteUpdate, At, Cycle, Claimable, CallOK, Call, Candidates
<1>5. CycleOK(k)
  BY <1>1 DEF WriteUpdate, At, CycleOK, CallOK, Complete, Cycle, Claimable, Call
<1>6. call' \in Call /\ call'.c = call.c /\ CallOK(call', k)
  BY <1>1 DEF WriteUpdate, At, Goto, CallOK, CycleOK, Complete, Cycle, Claimable, Call, PCs
<1> HIDE DEF k
<1> QED BY <1>1, <1>3, <1>4, <1>5, <1>6, CycleWritten

\* The core files of the cycle.
LEMMA WriteCoreKeeps == ASSUME IInv, WriteCore PROVE IInv'
<1>1. /\ This \in Cycle /\ CycleOK(This) /\ CallOK(call, This) /\ This.status = "none"
      /\ call \in Call /\ call.c \in 1 .. Len(cycles) /\ cycles \in Seq(Cycle)
      /\ call.pc # "idle" /\ Others
  BY ThisCycle DEF WriteCore, At
<1> DEFINE k == [This EXCEPT !.core = TRUE]
<1>3. cycles' = [cycles EXCEPT ![call.c] = k]
  BY <1>1 DEF WriteCore, This
<1>4. k \in Cycle /\ k.results = This.results /\ k.followUp = This.followUp
  BY <1>1 DEF WriteCore, At, Cycle, Claimable, CallOK, Call, Candidates
<1>5. CycleOK(k)
  BY <1>1 DEF WriteCore, At, CycleOK, CallOK, Complete, Cycle, Claimable, Call
<1>6. call' \in Call /\ call'.c = call.c /\ CallOK(call', k)
  BY <1>1 DEF WriteCore, At, Goto, CallOK, CycleOK, Complete, Cycle, Claimable, Call, PCs
<1> HIDE DEF k
<1> QED BY <1>1, <1>3, <1>4, <1>5, <1>6, CycleWritten

\* A cycle that needs no plan is finished at once.
LEMMA CloseWithoutPlanKeeps == ASSUME IInv, CloseWithoutPlan PROVE IInv'
<1>1. /\ This \in Cycle /\ CycleOK(This) /\ CallOK(call, This) /\ This.status = "none"
      /\ call \in Call /\ call.c \in 1 .. Len(cycles) /\ cycles \in Seq(Cycle)
      /\ call.pc # "idle" /\ Others
  BY ThisCycle DEF CloseWithoutPlan, At
<1> DEFINE k == [This EXCEPT !.status = "NO_PLAN"]
<1>3. cycles' = [cycles EXCEPT ![call.c] = k]
  BY <1>1 DEF CloseWithoutPlan, This
<1>4. k \in Cycle /\ k.results = This.results /\ k.followUp = This.followUp
  BY <1>1 DEF CloseWithoutPlan, At, Cycle, Claimable, CallOK, Call, Candidates
<1>5. CycleOK(k)
  BY <1>1 DEF CloseWithoutPlan, At, CycleOK, CallOK, Complete, Cycle, Claimable, Call, Decisions
<1>6. call' \in Call /\ call'.pc = "idle"
  BY Returned DEF CloseWithoutPlan
<1> HIDE DEF k
<1> QED BY <1>1, <1>3, <1>4, <1>5, <1>6, CycleWritten

\* The planning claim is on disk before the planner is called.
LEMMA ClaimPlanningKeeps == ASSUME IInv, ClaimPlanning PROVE IInv'
<1>1. /\ This \in Cycle /\ CycleOK(This) /\ CallOK(call, This) /\ This.status = "none"
      /\ call \in Call /\ call.c \in 1 .. Len(cycles) /\ cycles \in Seq(Cycle)
      /\ call.pc # "idle" /\ Others
  BY ThisCycle DEF ClaimPlanning, At
<1> DEFINE k == [This EXCEPT !.planning = [This.planning EXCEPT !.claimed = TRUE]]
<1>3. cycles' = [cycles EXCEPT ![call.c] = k]
  BY <1>1 DEF ClaimPlanning, This
<1>4. k \in Cycle /\ k.results = This.results /\ k.followUp = This.followUp
  BY <1>1 DEF ClaimPlanning, At, Cycle, Claimable, CallOK, Call, Candidates
<1>5. CycleOK(k)
  BY <1>1 DEF ClaimPlanning, At, CycleOK, CallOK, Complete, Cycle, Claimable, Call
<1>6. call' \in Call /\ call'.c = call.c /\ CallOK(call', k)
  BY <1>1 DEF ClaimPlanning, At, Goto, CallOK, CycleOK, Complete, Cycle, Claimable, Call, PCs
<1> HIDE DEF k
<1> QED BY <1>1, <1>3, <1>4, <1>5, <1>6, CycleWritten

\* The proposal set is written once, before its plans.
LEMMA WriteProposalKeeps == ASSUME IInv, WriteProposal PROVE IInv'
<1>1. /\ This \in Cycle /\ CycleOK(This) /\ CallOK(call, This) /\ This.status = "none"
      /\ call \in Call /\ call.c \in 1 .. Len(cycles) /\ cycles \in Seq(Cycle)
      /\ call.pc # "idle" /\ Others
  BY ThisCycle DEF WriteProposal, At
<1> DEFINE k == [This EXCEPT !.proposal = call.n]
<1>3. cycles' = [cycles EXCEPT ![call.c] = k]
  BY <1>1 DEF WriteProposal, This
<1>4. k \in Cycle /\ k.results = This.results /\ k.followUp = This.followUp
  BY <1>1 DEF WriteProposal, At, Cycle, Claimable, CallOK, Call, Candidates
<1>5. CycleOK(k)
  BY <1>1 DEF WriteProposal, At, CycleOK, CallOK, Complete, Cycle, Claimable, Call
<1>6. call' \in Call /\ call'.c = call.c /\ CallOK(call', k)
  <2>1. call' = [call EXCEPT !.pc = "storing"] /\ call.pc = "proposed"
    BY DEF WriteProposal, At, Goto
  <2>2. This.plans = 0 /\ This.planning.claimed /\ This.planning.calls = 1
        /\ This.selection = 0 /\ ~This.approving.claimed
    BY <1>1, <2>1 DEF CallOK, CycleOK
  <2>3. call.n \in Nat /\ call.n # 0
    BY <1>1, <2>1, SuccessorAssumption DEF CallOK, Call
  <2>4. k.plans = 0 /\ k.proposal = call.n /\ k.status = "none" /\ k.planning = This.planning
        /\ k.selection = 0 /\ k.approving = This.approving
    BY <1>1, <2>2 DEF Cycle
  <2> QED BY <1>1, <2>1, <2>2, <2>3, <2>4 DEF CallOK, Call, PCs
<1> HIDE DEF k
<1> QED BY <1>1, <1>3, <1>4, <1>5, <1>6, CycleWritten

\* A planning outcome changes nothing that approval reads.
LEMMA AwaitSelectionKeeps == ASSUME IInv, AwaitSelection PROVE IInv'
<1>1. /\ This \in Cycle /\ CycleOK(This) /\ CallOK(call, This) /\ This.status = "none"
      /\ call \in Call /\ call.c \in 1 .. Len(cycles) /\ cycles \in Seq(Cycle)
      /\ call.pc # "idle" /\ Others
  BY ThisCycle DEF AwaitSelection, At
<1> DEFINE k == [This EXCEPT !.outcome = TRUE]
<1>3. cycles' = [cycles EXCEPT ![call.c] = k]
  BY <1>1 DEF AwaitSelection, This
<1>4. k \in Cycle /\ k.results = This.results /\ k.followUp = This.followUp
  BY <1>1 DEF AwaitSelection, At, Cycle, Claimable, CallOK, Call, Candidates
<1>5. CycleOK(k)
  BY <1>1 DEF AwaitSelection, At, CycleOK, CallOK, Complete, Cycle, Claimable, Call
<1>6. call' \in Call /\ call'.pc = "idle"
  BY Returned DEF AwaitSelection
<1> HIDE DEF k
<1> QED BY <1>1, <1>3, <1>4, <1>5, <1>6, CycleWritten

\* The approval claim is on disk before the reviewer is called.
LEMMA ClaimApprovalKeeps == ASSUME IInv, ClaimApproval PROVE IInv'
<1>1. /\ This \in Cycle /\ CycleOK(This) /\ CallOK(call, This) /\ This.status = "none"
      /\ call \in Call /\ call.c \in 1 .. Len(cycles) /\ cycles \in Seq(Cycle)
      /\ call.pc # "idle" /\ Others
  BY ThisCycle DEF ClaimApproval, At
<1> DEFINE k == [This EXCEPT !.approving = [This.approving EXCEPT !.claimed = TRUE]]
<1>3. cycles' = [cycles EXCEPT ![call.c] = k]
  BY <1>1 DEF ClaimApproval, This
<1>4. k \in Cycle /\ k.results = This.results /\ k.followUp = This.followUp
  BY <1>1 DEF ClaimApproval, At, Cycle, Claimable, CallOK, Call, Candidates
<1>5. CycleOK(k)
  BY <1>1 DEF ClaimApproval, At, CycleOK, CallOK, Complete, Cycle, Claimable, Call
<1>6. call' \in Call /\ call'.c = call.c /\ CallOK(call', k)
  BY <1>1 DEF ClaimApproval, At, Goto, CallOK, CycleOK, Complete, Cycle, Claimable, Call, PCs
<1> HIDE DEF k
<1> QED BY <1>1, <1>3, <1>4, <1>5, <1>6, CycleWritten

\* The record repeats the decision of the gate.
LEMMA CloseKeeps == ASSUME IInv, Close PROVE IInv'
<1>1. /\ This \in Cycle /\ CycleOK(This) /\ CallOK(call, This) /\ This.status = "none"
      /\ call \in Call /\ call.c \in 1 .. Len(cycles) /\ cycles \in Seq(Cycle)
      /\ call.pc # "idle" /\ Others
  BY ThisCycle DEF Close, At
<1> DEFINE k == [This EXCEPT !.status = This.gate]
<1>3. cycles' = [cycles EXCEPT ![call.c] = k]
  BY <1>1 DEF Close, This
<1>4. k \in Cycle /\ k.results = This.results /\ k.followUp = This.followUp
  BY <1>1 DEF Close, At, Cycle, Claimable, CallOK, Call, Candidates
<1>5. CycleOK(k)
  BY <1>1 DEF Close, At, CycleOK, CallOK, Complete, Cycle, Claimable, Call
<1>6. call' \in Call /\ call'.pc = "idle"
  BY Returned DEF Close
<1> HIDE DEF k
<1> QED BY <1>1, <1>3, <1>4, <1>5, <1>6, CycleWritten

\* A resumed call goes on only with the core files.
LEMMA LoadCoreKeeps == ASSUME IInv, LoadCore PROVE IInv'
<1>1. /\ This \in Cycle /\ CycleOK(This) /\ CallOK(call, This) /\ This.status = "none"
      /\ call \in Call /\ call.c \in 1 .. Len(cycles)
      /\ call.pc # "idle" /\ Others /\ KeepCycles
  BY ThisCycle DEF LoadCore, At
<1>2. call' \in Call /\ call'.c = call.c /\ CallOK(call', This)
  BY <1>1 DEF LoadCore, At, Goto, CallOK, CycleOK, Complete, PlansComplete, ApprovalComplete,
               This, Cycle, Claimable, Call, PCs
<1> QED BY <1>1, <1>2, CycleRead

\* A claimed planning call counts with its complete output only.
LEMMA LoadPlanningKeeps == ASSUME IInv, LoadPlanning PROVE IInv'
<1>1. /\ This \in Cycle /\ CycleOK(This) /\ CallOK(call, This) /\ This.status = "none"
      /\ call \in Call /\ call.c \in 1 .. Len(cycles)
      /\ call.pc # "idle" /\ Others /\ KeepCycles
  BY ThisCycle DEF LoadPlanning, At
<1>2. call' \in Call /\ call'.c = call.c /\ CallOK(call', This)
  <2>1. IF Complete(This)
        THEN call' = [call EXCEPT !.pc = "planned", !.n = This.proposal]
        ELSE call' = [call EXCEPT !.pc = "uncertain"]
    BY DEF LoadPlanning, PlansComplete, Complete, This, Goto
  <2>2. This.proposal \in 0 .. MaxCandidates /\ This.planning.claimed
    BY <1>1 DEF Cycle, LoadPlanning
  <2>3. /\ call' \in Call /\ call'.c = call.c /\ call'.pc \in {"planned", "uncertain"}
        /\ call'.pc = "planned" => Complete(This) /\ call'.n = This.proposal
    BY <1>1, <2>1, <2>2 DEF Call, PCs
  <2>4. CallOK(call', This)
    BY <1>1, <2>2, <2>3 DEF CallOK
  <2> QED BY <2>3, <2>4
<1> QED BY <1>1, <1>2, CycleRead

\* A stored selection is the choice of the call.
LEMMA LoadSelectionKeeps == ASSUME IInv, LoadSelection PROVE IInv'
<1>1. /\ This \in Cycle /\ CycleOK(This) /\ CallOK(call, This) /\ This.status = "none"
      /\ call \in Call /\ call.c \in 1 .. Len(cycles)
      /\ call.pc # "idle" /\ Others /\ KeepCycles
  BY ThisCycle DEF LoadSelection, At
<1>2. call' \in Call /\ call'.c = call.c /\ CallOK(call', This)
  BY <1>1 DEF LoadSelection, At, Goto, CallOK, CycleOK, Complete, PlansComplete, ApprovalComplete,
               This, Cycle, Claimable, Call, PCs
<1> QED BY <1>1, <1>2, CycleRead

\* A claimed approval counts with all its files only.
LEMMA LoadApprovalKeeps == ASSUME IInv, LoadApproval PROVE IInv'
<1>1. /\ This \in Cycle /\ CycleOK(This) /\ CallOK(call, This) /\ This.status = "none"
      /\ call \in Call /\ call.c \in 1 .. Len(cycles)
      /\ call.pc # "idle" /\ Others /\ KeepCycles
  BY ThisCycle DEF LoadApproval, At
<1>2. call' \in Call /\ call'.c = call.c /\ CallOK(call', This)
  <2>1. IF This.approval = 3 THEN call' = [call EXCEPT !.pc = "closing"]
                             ELSE call' = [call EXCEPT !.pc = "uncertain"]
    BY DEF LoadApproval, ApprovalComplete, This, Goto
  <2> QED BY <1>1, <2>1 DEF LoadApproval, At, CallOK, Call, PCs
<1> QED BY <1>1, <1>2, CycleRead

\* A refused call leaves the files as they are.
LEMMA RefusedKeeps == ASSUME IInv, Refused PROVE IInv'
<1>1. /\ This \in Cycle /\ CycleOK(This) /\ CallOK(call, This) /\ This.status = "none"
      /\ call \in Call /\ call.c \in 1 .. Len(cycles)
      /\ call.pc # "idle" /\ Others /\ KeepCycles
  BY ThisCycle DEF Refused, At
<1>2. call' \in Call /\ call'.pc = "idle"
  BY Returned DEF Refused
<1> QED BY <1>1, <1>2, CycleRead

\* So does an interrupted one.
LEMMA AbortKeeps == ASSUME IInv, Abort PROVE IInv'
<1>1. /\ This \in Cycle /\ CycleOK(This) /\ CallOK(call, This) /\ This.status = "none"
      /\ call \in Call /\ call.c \in 1 .. Len(cycles)
      /\ call.pc # "idle" /\ Others /\ KeepCycles
  BY ThisCycle DEF Abort, At
<1>2. call' \in Call /\ call'.pc = "idle"
  BY Returned DEF Abort
<1> QED BY <1>1, <1>2, CycleRead


\* The call of the planner is the one call its claim stands for.
LEMMA ProposeKeeps == ASSUME IInv, Propose PROVE IInv'
<1>1. /\ This \in Cycle /\ CycleOK(This) /\ CallOK(call, This) /\ This.status = "none"
      /\ call \in Call /\ call.c \in 1 .. Len(cycles) /\ cycles \in Seq(Cycle)
      /\ call.pc # "idle" /\ call.pc = "planning" /\ Others
  BY ThisCycle DEF Propose, At
<1>2. PICK n \in Candidates : call' = [call EXCEPT !.pc = "proposed", !.n = n]
  BY DEF Propose
<1> DEFINE claim == [This.planning EXCEPT !.calls = This.planning.calls + 1]
           k == [This EXCEPT !.planning = claim]
<1>3. cycles' = [cycles EXCEPT ![call.c] = k]
  BY <1>1 DEF Propose, This
<1>4. This.planning \in Claimable /\ This.planning.claimed /\ This.planning.calls = 0
  BY <1>1 DEF Cycle, CallOK
<1>5. claim \in Claimable /\ claim.claimed /\ claim.calls = 1
  BY <1>4 DEF Claimable
<1> HIDE DEF claim
<1>6. k \in Cycle /\ k.results = This.results /\ k.followUp = This.followUp /\ k.planning = claim
  BY <1>1, <1>5 DEF Cycle
<1>7. CycleOK(k)
  <2>1. /\ k.proposal = This.proposal /\ k.plans = This.plans /\ k.selection = This.selection
        /\ k.approving = This.approving /\ k.approval = This.approval /\ k.gate = This.gate
        /\ k.status = This.status /\ k.reviewed = This.reviewed
    BY <1>1 DEF Cycle
  <2> HIDE DEF k
  <2> QED BY <1>1, <1>5, <1>6, <2>1 DEF CycleOK, Complete
<1>8. call' \in Call /\ call'.c = call.c /\ CallOK(call', k)
  <2>1. n \in 0 .. MaxCandidates /\ n # 0
    BY SuccessorAssumption DEF Candidates
  <2>2. call' \in Call /\ call'.pc = "proposed" /\ call'.n = n /\ call'.c = call.c
    BY <1>1, <1>2, <2>1 DEF Call, PCs
  <2>3. k.proposal = 0 /\ k.selection = 0 /\ ~k.approving.claimed /\ k.status = "none"
    BY <1>1 DEF CallOK, Cycle
  <2> QED BY <1>5, <1>6, <2>1, <2>2, <2>3 DEF CallOK
<1> HIDE DEF k
<1> QED BY <1>1, <1>3, <1>6, <1>7, <1>8, CycleWritten

\* The plans of a proposal set are stored one by one, up to its size.
LEMMA WritePlanKeeps == ASSUME IInv, WritePlan PROVE IInv'
<1>1. /\ This \in Cycle /\ CycleOK(This) /\ CallOK(call, This) /\ This.status = "none"
      /\ call \in Call /\ call.c \in 1 .. Len(cycles) /\ cycles \in Seq(Cycle)
      /\ call.pc # "idle" /\ call.pc = "storing" /\ Others
  BY ThisCycle DEF WritePlan, At
<1> DEFINE k == [This EXCEPT !.plans = This.plans + 1]
<1>2. cycles' = [cycles EXCEPT ![call.c] = k]
  BY <1>1 DEF WritePlan, This
<1>3. /\ This.proposal = call.n /\ This.plans < call.n /\ call.n # 0 /\ This.planning.claimed
      /\ This.planning.calls = 1 /\ This.selection = 0 /\ ~This.approving.claimed
      /\ call.n \in 0 .. MaxCandidates /\ This.plans \in 0 .. MaxCandidates
  BY <1>1 DEF CallOK, Call, Cycle
<1>4. This.plans + 1 \in 0 .. MaxCandidates /\ This.plans + 1 <= call.n
  BY <1>3, SuccessorAssumption
<1>5. k \in Cycle /\ k.results = This.results /\ k.followUp = This.followUp /\ k.plans = This.plans + 1
      /\ k.proposal = This.proposal /\ k.planning = This.planning /\ k.selection = This.selection
      /\ k.approving = This.approving /\ k.status = "none" /\ k.approval = This.approval
      /\ k.reviewed = This.reviewed /\ k.gate = This.gate
  BY <1>1, <1>4 DEF Cycle
<1> HIDE DEF k
<1>6. CycleOK(k)
  BY <1>1, <1>3, <1>5 DEF CycleOK, Decisions
<1>7. call' \in Call /\ call'.c = call.c /\ CallOK(call', k)
  <2>1. CASE This.plans + 1 = call.n
    <3>1. call' = [call EXCEPT !.pc = "planned"]
      BY <2>1 DEF WritePlan, Goto
    <3> QED BY <1>1, <1>3, <1>5, <2>1, <3>1 DEF CallOK, Complete, Call, PCs
  <2>2. CASE This.plans + 1 # call.n
    <3>1. call' = call
      BY <2>2 DEF WritePlan
    <3>2. k.plans < call.n
      BY <1>3, <1>4, <1>5, <2>2
    <3> QED BY <1>1, <1>3, <1>5, <3>1, <3>2 DEF CallOK
  <2> QED BY <2>1, <2>2
<1> QED BY <1>1, <1>2, <1>5, <1>6, <1>7, CycleWritten

\* Only a candidate of the complete stored proposal set is selected.
LEMMA SelectKeeps == ASSUME IInv, Select PROVE IInv'
<1>1. /\ This \in Cycle /\ CycleOK(This) /\ CallOK(call, This) /\ This.status = "none"
      /\ call \in Call /\ call.c \in 1 .. Len(cycles) /\ cycles \in Seq(Cycle)
      /\ call.pc # "idle" /\ call.pc = "planned" /\ This.selection = 0 /\ Others
  BY ThisCycle DEF Select, At
<1>2. PICK m \in 1 .. call.n : /\ cycles' = [cycles EXCEPT ![call.c].selection = m]
                               /\ call' = [call EXCEPT !.pc = "selected", !.choice = m]
  BY DEF Select
<1> DEFINE k == [This EXCEPT !.selection = m]
<1>3. cycles' = [cycles EXCEPT ![call.c] = k]
  BY <1>1, <1>2 DEF This
<1>4. m \in 0 .. MaxCandidates /\ m # 0
  BY <1>1, SuccessorAssumption DEF Call
<1>5. /\ k \in Cycle /\ k.results = This.results /\ k.followUp = This.followUp /\ k.selection = m
      /\ k.proposal = This.proposal /\ k.planning = This.planning /\ k.plans = This.plans
      /\ k.approving = This.approving /\ k.status = "none" /\ k.approval = This.approval
      /\ k.reviewed = This.reviewed /\ k.gate = This.gate
  BY <1>1, <1>4 DEF Cycle
<1> HIDE DEF k
<1>6. Complete(This) /\ This.planning.claimed /\ ~This.approving.claimed /\ This.approval = 0
  BY <1>1 DEF CallOK, CycleOK
<1>7. CycleOK(k)
  BY <1>1, <1>5, <1>6 DEF CycleOK, Decisions, Complete
<1>8. call' \in Call /\ call'.c = call.c /\ CallOK(call', k)
  <2>1. call' \in Call /\ call'.c = call.c /\ call'.pc = "selected" /\ call'.choice = m
    BY <1>1, <1>2, <1>4 DEF Call, PCs
  <2> QED BY <1>4, <1>5, <1>6, <2>1 DEF CallOK
<1> QED BY <1>1, <1>3, <1>5, <1>7, <1>8, CycleWritten

\* The call of the reviewer is the one call its claim stands for.
LEMMA ReviewKeeps == ASSUME IInv, Review PROVE IInv'
<1>1. /\ This \in Cycle /\ CycleOK(This) /\ CallOK(call, This) /\ This.status = "none"
      /\ call \in Call /\ call.c \in 1 .. Len(cycles) /\ cycles \in Seq(Cycle)
      /\ call.pc # "idle" /\ call.pc = "approving" /\ Others
  BY ThisCycle DEF Review, At
<1>2. PICK decision \in Decisions : call' = [call EXCEPT !.pc = "reviewed", !.decision = decision]
  BY DEF Review
<1> DEFINE claim == [This.approving EXCEPT !.calls = This.approving.calls + 1]
           k == [This EXCEPT !.approving = claim]
<1>3. cycles' = [cycles EXCEPT ![call.c] = k]
  BY <1>1 DEF Review, This
<1>4. /\ This.approving \in Claimable /\ This.approving.claimed /\ This.approving.calls = 0
      /\ This.approval = 0 /\ This.planning.claimed /\ This.selection # 0
      /\ call.choice = This.selection
  BY <1>1 DEF Cycle, CallOK
<1>5. claim \in Claimable /\ claim.claimed /\ claim.calls = 1
  BY <1>4 DEF Claimable
<1> HIDE DEF claim
<1>6. /\ k \in Cycle /\ k.results = This.results /\ k.followUp = This.followUp /\ k.approving = claim
      /\ k.proposal = This.proposal /\ k.planning = This.planning /\ k.plans = This.plans
      /\ k.selection = This.selection /\ k.status = "none" /\ k.approval = 0
      /\ k.reviewed = This.reviewed /\ k.gate = This.gate
  BY <1>1, <1>4, <1>5 DEF Cycle
<1> HIDE DEF k
<1>7. CycleOK(k)
  BY <1>1, <1>4, <1>5, <1>6 DEF CycleOK, Decisions, Complete
<1>8. call' \in Call /\ call'.c = call.c /\ CallOK(call', k)
  <2>1. call' \in Call /\ call'.c = call.c /\ call'.pc = "reviewed" /\ call'.choice = call.choice
        /\ call'.decision \in Decisions
    BY <1>1, <1>2 DEF Call, PCs
  <2> QED BY <1>4, <1>5, <1>6, <2>1 DEF CallOK
<1> QED BY <1>1, <1>3, <1>6, <1>7, <1>8, CycleWritten

\* The review, its gate and the policy are about the selected candidate.
LEMMA WriteApprovalKeeps == ASSUME IInv, WriteApproval PROVE IInv'
<1>1. /\ This \in Cycle /\ CycleOK(This) /\ CallOK(call, This) /\ This.status = "none"
      /\ call \in Call /\ call.c \in 1 .. Len(cycles) /\ cycles \in Seq(Cycle)
      /\ call.pc # "idle" /\ call.pc = "reviewed" /\ Others
  BY ThisCycle DEF WriteApproval, At
<1>2. /\ This.approving.claimed /\ This.approval < 3 /\ call.decision \in Decisions
      /\ This.selection # 0 /\ call.choice = This.selection /\ This.planning.claimed
      /\ This.approval \in 0 .. 3 /\ This.selection \in 0 .. MaxCandidates
      /\ This.approving.calls = 1 /\ This.gate \in Decisions \cup {"none"}
  BY <1>1 DEF CallOK, Cycle
<1> DEFINE gate == IF This.approval = 0 THEN This.gate ELSE call.decision
           k == [This EXCEPT !.approval = This.approval + 1, !.reviewed = call.choice, !.gate = gate]
<1>3. cycles' = [cycles EXCEPT ![call.c] = k]
  BY <1>1 DEF WriteApproval, This
<1>4. gate \in Decisions \cup {"none"} /\ (This.approval # 0 => gate \in Decisions)
  BY <1>2
<1> HIDE DEF gate
<1>5. /\ k \in Cycle /\ k.results = This.results /\ k.followUp = This.followUp
      /\ k.proposal = This.proposal /\ k.planning = This.planning /\ k.plans = This.plans
      /\ k.selection = This.selection /\ k.status = "none" /\ k.approving = This.approving
      /\ k.approval = This.approval + 1 /\ k.reviewed = This.selection /\ k.gate = gate
  <2>1. This.approval + 1 \in 0 .. 3 /\ call.choice \in 0 .. MaxCandidates
    BY <1>2
  <2> QED BY <1>1, <1>2, <1>4, <2>1 DEF Cycle
<1> HIDE DEF k
<1>6. CycleOK(k)
  BY <1>1, <1>2, <1>4, <1>5 DEF CycleOK, Decisions, Complete
<1>7. call' \in Call /\ call'.c = call.c /\ CallOK(call', k)
  <2>1. CASE This.approval = 2
    <3>1. call' = [call EXCEPT !.pc = "closing"]
      BY <2>1 DEF WriteApproval, Goto
    <3> QED BY <1>1, <1>2, <1>5, <2>1, <3>1 DEF CallOK, Call, PCs
  <2>2. CASE This.approval # 2
    <3>1. call' = call
      BY <2>2 DEF WriteApproval
    <3>2. k.approval < 3
      BY <1>2, <1>5, <2>2
    <3> QED BY <1>1, <1>2, <1>5, <3>1, <3>2 DEF CallOK
  <2> QED BY <2>1, <2>2
<1> QED BY <1>1, <1>3, <1>5, <1>6, <1>7, CycleWritten

-----------------------------------------------------------------------------
(* The intake. *)

\* An intake step leaves the compile side alone: what it must not disturb is
\* what it says of itself, and the results that cycles were planned from.
LEMMA IntakeWritten ==
  ASSUME IInv, call.pc = "idle", UNCHANGED <<base, cycles, call>>, TypeOK',
         \A s \in Submissions : HistoryOK(s)' /\ SubmissionOK(s)', TaskOK', ReceiptIsEarned',
         \A s \in Submissions : submission[s] # NoPlan => submission'[s] = submission[s]
  PROVE  IInv'
<1>1. \A c \in DOMAIN cycles' : CycleOK(cycles'[c])
  BY DEF IInv
<1>2. CallInProgress' /\ OneCyclePerInvocation'
  BY DEF IInv, CallInProgress, OneCyclePerInvocation
<1>3. ApprovedLineage'
  <2> SUFFICES ASSUME NEW c \in DOMAIN cycles, NEW s \in cycles[c].results
               PROVE  submission'[s] = submission[s]
    BY DEF IInv, ApprovedLineage, Descends
  <2>1. submission[s] = BasePlan \/ submission[s][1] \in 1 .. c - 1
    BY DEF IInv, ApprovedLineage, Descends
  <2>2. c \in 1 .. Len(cycles) /\ s \in Submissions
    <3>1. cycles \in Seq(Cycle)
      BY DEF IInv, TypeOK
    <3>2. c \in 1 .. Len(cycles) /\ cycles[c] \in Cycle
      BY <3>1
    <3> QED BY <3>2 DEF Cycle
  <2>3. submission[s] # NoPlan
    BY <2>1, <2>2 DEF BasePlan, NoPlan
  <2> QED BY <2>2, <2>3
<1> QED BY <1>1, <1>2, <1>3 DEF IInv

\* A result that comes in names a plan that is stored.
LEMMA SubmitKeeps ==
  ASSUME IInv, call.pc = "idle", UNCHANGED <<base, cycles, call>>,
         NEW s \in Submissions, NEW plan \in StoredPlans, Submit(s, plan)
  PROVE  IInv'
<1>1. /\ submission[s] \in {NoPlan, plan} /\ submission' = [submission EXCEPT ![s] = plan]
      /\ task' = [step |-> "submitted", sub |-> s]
      /\ UNCHANGED <<assessment, curations, evidence, receipt>>
  BY DEF Submit
<1>2. /\ plan \in (0 .. CycleLimit) \X (0 .. MaxCandidates)
      /\ plan # NoPlan /\ (plan = BasePlan \/ plan[1] \in DOMAIN cycles)
  <2>1. CASE plan = BasePlan
    BY <2>1, SuccessorAssumption DEF BasePlan, NoPlan
  <2>2. CASE plan \in (DOMAIN cycles) \X Candidates
    <3>1. plan[1] \in 1 .. Len(cycles) /\ plan[2] \in 1 .. MaxCandidates /\ plan = <<plan[1], plan[2]>>
      BY <2>2 DEF Candidates, IInv, TypeOK
    <3>2. plan[1] \in 0 .. CycleLimit /\ plan[2] \in 0 .. MaxCandidates
      BY <3>1, SuccessorAssumption DEF IInv, TypeOK
    <3> QED BY <2>2, <3>1, <3>2 DEF NoPlan
  <2> QED BY <2>1, <2>2 DEF StoredPlans
<1>3. submission' \in [Submissions -> (0 .. CycleLimit) \X (0 .. MaxCandidates)]
  BY <1>1, <1>2 DEF IInv, TypeOK
<1>4. TypeOK'
  BY <1>1, <1>3 DEF IInv, TypeOK, TaskSteps
<1>5. \A t \in Submissions : submission'[t] = IF t = s THEN plan ELSE submission[t]
  BY <1>1 DEF IInv, TypeOK
<1>6. \A t \in Submissions : HistoryOK(t)' /\ SubmissionOK(t)'
  BY <1>1, <1>2, <1>5 DEF IInv, HistoryOK, SubmissionOK
<1>7. TaskOK'
  BY <1>1, <1>2, <1>5 DEF TaskOK
<1>8. ReceiptIsEarned'
  BY <1>1 DEF IInv, ReceiptIsEarned
<1>9. \A t \in Submissions : submission[t] # NoPlan => submission'[t] = submission[t]
  BY <1>1, <1>5
<1> QED BY <1>4, <1>6, <1>7, <1>8, <1>9, IntakeWritten

\* A first assessment stays; only a submitted result has one.
LEMMA AssessKeeps ==
  ASSUME IInv, call.pc = "idle", UNCHANGED <<base, cycles, call>>, NEW approved, Assess(approved)
  PROVE  IInv'
<1>1. PICK result \in Assessments \ {"none"} :
        assessment' = [assessment EXCEPT ![task.sub] = IF @ = "none" THEN result ELSE @]
  BY DEF Assess
<1>2. /\ task.step = "submitted" /\ task' = NoTask
      /\ UNCHANGED <<submission, curations, evidence, receipt>>
  BY DEF Assess
<1>3. task.sub \in Submissions /\ submission[task.sub] # NoPlan
  BY <1>2 DEF IInv, TaskOK
<1>4. /\ assessment' \in [Submissions -> Assessments]
      /\ \A s \in Submissions : /\ assessment[s] # "none" => assessment'[s] = assessment[s]
                                /\ assessment'[s] # "none" => assessment[s] # "none" \/ s = task.sub
  BY <1>1, <1>3 DEF IInv, TypeOK
<1>5. TypeOK'
  BY <1>2, <1>4 DEF IInv, TypeOK, NoTask, TaskSteps
<1>6. \A s \in Submissions : HistoryOK(s)' /\ SubmissionOK(s)'
  BY <1>2, <1>3, <1>4 DEF IInv, HistoryOK, SubmissionOK
<1>7. TaskOK'
  BY <1>2 DEF TaskOK, NoTask
<1>8. ReceiptIsEarned'
  BY <1>2, <1>4 DEF IInv, ReceiptIsEarned
<1> QED BY <1>2, <1>5, <1>6, <1>7, <1>8, IntakeWritten

\* The evidence of a result is stored before its receipt.
LEMMA StoreKeeps ==
  ASSUME IInv, call.pc = "idle", UNCHANGED <<base, cycles, call>>, NEW approved, Store(approved)
  PROVE  IInv'
<1>1. /\ task.step = "accepted" /\ evidence' = evidence \cup {task.sub}
      /\ task' = [task EXCEPT !.step = "stored"]
      /\ UNCHANGED <<submission, assessment, curations, receipt>>
  BY DEF Store
<1>2. task \in [step : TaskSteps, sub : Submissions \cup {"none"}] /\ task.sub \in Submissions
  BY <1>1 DEF IInv, TypeOK, TaskOK
<1>3. task'.step = "stored" /\ task'.sub = task.sub
  BY <1>1, <1>2
<1>4. TypeOK'
  BY <1>1, <1>2 DEF IInv, TypeOK, TaskSteps
<1>5. \A s \in Submissions : HistoryOK(s)' /\ SubmissionOK(s)'
  BY <1>1 DEF IInv, HistoryOK, SubmissionOK
<1>6. TaskOK'
  BY <1>1, <1>2, <1>3 DEF IInv, TaskOK, CurrentRecords, HasCurrent, Superseded
<1>7. ReceiptIsEarned'
  BY <1>1 DEF IInv, ReceiptIsEarned
<1> QED BY <1>1, <1>4, <1>5, <1>6, <1>7, IntakeWritten

\* A receipt is written for the acceptance in force, or stays what it is.
LEMMA WriteReceiptKeeps ==
  ASSUME IInv, call.pc = "idle", UNCHANGED <<base, cycles, call>>, WriteReceipt
  PROVE  IInv'
<1>1. PICK r \in curations[task.sub] :
        /\ HasCurrent(task.sub, r)
        /\ receipt' = [receipt EXCEPT ![task.sub] = IF @ = 0 THEN r.id ELSE @]
  BY DEF WriteReceipt
<1>2. task.step = "stored" /\ task' = NoTask
      /\ UNCHANGED <<submission, assessment, curations, evidence>>
  BY DEF WriteReceipt
<1>3. /\ task.sub \in Submissions /\ task.sub \in evidence
      /\ assessment[task.sub] = "RESULT_REQUIRES_CURATION" /\ r.status = "ACCEPTED"
  <2>1. \A q \in CurrentRecords(task.sub) : HasCurrent(task.sub, q) => q.status = "ACCEPTED"
    BY <1>2 DEF IInv, TaskOK
  <2>2. r \in CurrentRecords(task.sub)
    BY <1>1 DEF HasCurrent
  <2> QED BY <1>1, <1>2, <2>1, <2>2 DEF IInv, TaskOK
<1>4. r.id \in 0 .. CurationLimit
  <2>1. r \in Curation
    BY <1>1, <1>3 DEF IInv, TypeOK
  <2> QED BY <2>1, SuccessorAssumption DEF Curation
<1>5. /\ receipt' \in [Submissions -> 0 .. CurationLimit]
      /\ \A s \in Submissions : receipt'[s] # receipt[s] => s = task.sub /\ receipt'[s] = r.id
  BY <1>1, <1>3, <1>4 DEF IInv, TypeOK
<1>6. TypeOK'
  BY <1>2, <1>5 DEF IInv, TypeOK, NoTask, TaskSteps
<1>7. \A s \in Submissions : HistoryOK(s)' /\ SubmissionOK(s)'
  BY <1>2 DEF IInv, HistoryOK, SubmissionOK
<1>8. TaskOK'
  BY <1>2 DEF TaskOK, NoTask
<1>9. ReceiptIsEarned'
  BY <1>1, <1>2, <1>3, <1>5 DEF IInv, ReceiptIsEarned
<1> QED BY <1>2, <1>6, <1>7, <1>8, <1>9, IntakeWritten

\* An interrupted intake call only releases the lock.
LEMMA AbandonKeeps ==
  ASSUME IInv, call.pc = "idle", UNCHANGED <<base, cycles, call>>, Abandon
  PROVE  IInv'
<1>1. task' = NoTask /\ UNCHANGED <<submission, assessment, curations, evidence, receipt>>
  BY DEF Abandon
<1>2. TypeOK'
  BY <1>1 DEF IInv, TypeOK, NoTask, TaskSteps
<1>3. \A s \in Submissions : HistoryOK(s)' /\ SubmissionOK(s)'
  BY <1>1 DEF IInv, HistoryOK, SubmissionOK
<1>4. TaskOK' /\ ReceiptIsEarned'
  BY <1>1 DEF IInv, TaskOK, NoTask, ReceiptIsEarned
<1> QED BY <1>1, <1>2, <1>3, <1>4, IntakeWritten

\* All records of one submission are counted by the bound on the records.
LEMMA HistoryIsBounded ==
  ASSUME \A t \in Submissions : IsFiniteSet(curations[t]), NEW s \in Submissions,
         Cardinality(UNION {{t} \X curations[t] : t \in Submissions}) < CurationLimit
  PROVE  Cardinality(curations[s]) \in Nat /\ Cardinality(curations[s]) < CurationLimit
<1> DEFINE T == {{t} \X curations[t] : t \in Submissions}
           f == [t \in Submissions |-> {t} \X curations[t]]
           g == [r \in curations[s] |-> <<s, r>>]
<1>1. IsFiniteSet(T)
  <2>1. f \in Surjection(Submissions, T)
    BY DEF Surjection
  <2> QED BY <2>1, SuccessorAssumption, FS_Surjection
<1>2. ASSUME NEW t \in Submissions PROVE IsFiniteSet({t} \X curations[t])
  BY FS_Singleton, FS_Product
<1>3. IsFiniteSet(UNION T)
  <2>1. \A U \in T : IsFiniteSet(U)
    BY <1>2
  <2> HIDE DEF T
  <2> QED BY <1>1, <2>1, FS_UNION
<1>4. g \in Injection(curations[s], UNION T)
  <2>1. \A r \in curations[s] : <<s, r>> \in UNION T
    OBVIOUS
  <2> QED BY <2>1 DEF Injection, IsInjective
<1>5. Cardinality(curations[s]) <= Cardinality(UNION T)
  <2> HIDE DEF T, g
  <2> QED BY <1>3, <1>4, FS_Injection
<1>6. Cardinality(UNION T) \in Nat /\ Cardinality(curations[s]) \in Nat
  <2> HIDE DEF T
  <2> QED BY <1>3, FS_CardinalityType
<1>7. Cardinality(UNION T) < CurationLimit
  OBVIOUS
<1> HIDE DEF T
<1> QED BY <1>5, <1>6, <1>7, SuccessorAssumption

\* A decision adds a record that is newer than all others, so it is current,
\* and the only one that can be.
LEMMA CurateKeeps ==
  ASSUME IInv, call.pc = "idle", UNCHANGED <<base, cycles, call>>,
         NEW s \in Submissions, NEW status \in {"ACCEPTED", "REJECTED"}, Curate(s, status)
  PROVE  IInv'
<1> DEFINE N == Cardinality(curations[s])
<1>1. PICK new \in Decision(s, status) : curations' = [curations EXCEPT ![s] = @ \cup {new}]
  BY DEF Curate
<1>2. /\ assessment[s] # "none" /\ (status = "ACCEPTED" => assessment[s] = "RESULT_REQUIRES_CURATION")
      /\ task' = IF status = "ACCEPTED" THEN [step |-> "accepted", sub |-> s] ELSE NoTask
      /\ UNCHANGED <<submission, assessment, evidence, receipt>>
  BY DEF Curate
<1>3. N \in Nat /\ N < CurationLimit
  <2>1. \A t \in Submissions : IsFiniteSet(curations[t])
    BY DEF IInv, HistoryOK
  <2>2. Cardinality(UNION {{t} \X curations[t] : t \in Submissions}) < CurationLimit
    BY DEF Curate
  <2> QED BY <2>1, <2>2, HistoryIsBounded
<1>4. \A r \in curations[s] : r \in Curation /\ r.id <= N /\ r.supersedes <= N
  BY DEF IInv, TypeOK, HistoryOK
<1>5. /\ new \in Curation /\ new.id = N + 1 /\ new.status = status
      /\ new.supersedes <= N
  <2>1. PICK old \in 0 .. N : new = NewRecord(s, status, old)
    <3>1. CASE curations[s] = {}
      BY <1>1, <1>3, <3>1 DEF Decision
    <3>2. CASE curations[s] # {}
      <4>1. PICK r \in curations[s] : new = NewRecord(s, status, r.id)
        BY <1>1, <3>2 DEF Decision
      <4>2. r.id \in 0 .. N
        BY <1>3, <1>4, SuccessorAssumption DEF Curation
      <4> QED BY <4>1, <4>2
    <3> QED BY <3>1, <3>2
  <2>2. N + 1 \in 1 .. CurationLimit /\ old \in 0 .. CurationLimit /\ old <= N
    BY <1>3, SuccessorAssumption
  <2> QED BY <2>1, <2>2 DEF NewRecord, Curation
<1>6. /\ curations' \in [Submissions -> SUBSET Curation]
      /\ \A t \in Submissions : curations'[t] = IF t = s THEN curations[s] \cup {new} ELSE curations[t]
  BY <1>1, <1>5 DEF IInv, TypeOK
<1>7. TypeOK'
  BY <1>2, <1>6 DEF IInv, TypeOK, NoTask, TaskSteps
<1>8. HistoryOK(s)'
  <2>1. new \notin curations[s]
    BY <1>3, <1>4, <1>5
  <2>2. IsFiniteSet(curations[s])
    BY DEF IInv, HistoryOK
  <2>3. IsFiniteSet(curations[s] \cup {new}) /\ Cardinality(curations[s] \cup {new}) = N + 1
    BY <2>1, <2>2, FS_AddElement
  <2>4. \A r \in curations[s] \cup {new} : r.id <= N + 1 /\ r.supersedes <= N + 1
    <3>1. \A r \in curations[s] \cup {new} : r.id \in Int /\ r.supersedes \in Int
      BY <1>4, <1>5, SuccessorAssumption DEF Curation
    <3> QED BY <1>3, <1>4, <1>5, <3>1
  <2> HIDE DEF N
  <2> QED BY <1>6, <2>3, <2>4 DEF HistoryOK
<1>9. \A t \in Submissions : HistoryOK(t)' /\ SubmissionOK(t)'
  BY <1>2, <1>6, <1>8 DEF IInv, HistoryOK, SubmissionOK
<1>10. TaskOK'
  <2>1. CASE status = "ACCEPTED"
    <3>1. task'.step = "accepted" /\ task'.sub = s
      BY <1>2, <2>1
    <3>2. new \in CurrentRecords(s)'
      <4>1. \A r \in curations'[s] : r.supersedes # new.id
        <5>1. \A r \in curations'[s] : r.supersedes <= N /\ r.supersedes \in Int
          BY <1>4, <1>5, <1>6, SuccessorAssumption DEF Curation
        <5> QED BY <1>3, <1>5, <5>1
      <4> QED BY <1>6, <4>1 DEF CurrentRecords, Superseded
    <3>3. ASSUME NEW r, HasCurrent(s, r)' PROVE r.status = "ACCEPTED"
      BY <1>5, <2>1, <3>2, <3>3 DEF HasCurrent
    <3> QED BY <1>2, <2>1, <3>1, <3>3 DEF TaskOK, HasCurrent, CurrentRecords
  <2>2. CASE status # "ACCEPTED"
    BY <1>2, <2>2 DEF TaskOK, NoTask
  <2> QED BY <2>1, <2>2
<1>11. ReceiptIsEarned'
  BY <1>2, <1>6 DEF IInv, ReceiptIsEarned
<1> QED BY <1>2, <1>7, <1>9, <1>10, <1>11, IntakeWritten

\* The run changes its plan only while no call runs.
LEMMA RunChangesKeeps == ASSUME IInv, RunChanges PROVE IInv'
<1>1. base \in BOOLEAN /\ base' \in BOOLEAN
  BY DEF IInv, TypeOK, RunChanges
<1>2. /\ UNCHANGED <<submission, assessment, curations, evidence, receipt, task, cycles, call>>
      /\ call.pc = "idle"
  BY DEF RunChanges, intakeVars, Unlocked
<1>3. TypeOK'
  BY <1>1, <1>2 DEF IInv, TypeOK
<1>4. \A s \in Submissions : HistoryOK(s)' /\ SubmissionOK(s)'
  BY <1>2 DEF IInv, HistoryOK, SubmissionOK
<1>5. TaskOK' /\ ReceiptIsEarned'
  BY <1>2 DEF IInv, TaskOK, ReceiptIsEarned, CurrentRecords, HasCurrent, Superseded
<1>6. CallInProgress' /\ OneCyclePerInvocation'
  BY <1>2 DEF IInv, CallInProgress, OneCyclePerInvocation
<1>7. ApprovedLineage'
  BY <1>2 DEF IInv, ApprovedLineage, Descends
<1>8. \A c \in DOMAIN cycles' : CycleOK(cycles'[c])
  BY <1>2 DEF IInv
<1> QED BY <1>3, <1>4, <1>5, <1>6, <1>7, <1>8 DEF IInv

-----------------------------------------------------------------------------
(* Approved parents. *)

\* The least element of a set of numbers: induction over the cycles.
LEMMA LeastNat ==
  ASSUME NEW S \in SUBSET Nat, S # {}
  PROVE  \E m \in S : \A x \in S : m <= x
<1> DEFINE R == OpToRel(<, Nat)
<1>1. PICK m \in S : \A u \in S : <<u, m>> \notin R
  <2> HIDE DEF R
  <2>1. IsWellFoundedOn(R, Nat)
    BY NatLessThanWellFounded DEF R
  <2> QED BY <2>1, WFMin
<1>2. ASSUME NEW x \in S PROVE m <= x
  <2>1. ~ (x < m) /\ x \in Nat /\ m \in Nat
    BY <1>1 DEF OpToRel
  <2> QED BY <2>1
<1> QED BY <1>2

\* What ApprovedCycles says of cycle c when f says it of the earlier ones, and
\* the function it thereby defines on the first n cycles.
Approves(f, c) ==
  IF c = 0 THEN base
  ELSE /\ cycles[c].status = "APPROVED"
       /\ \A s \in cycles[c].results : f[submission[s][1]]
AreApprovals(f, n) == f = [c \in 0 .. n |-> Approves(f, c)]

\* A cycle is judged by earlier cycles only.
LEMMA ApprovesLooksBack ==
  ASSUME IInv, NEW c \in 0 .. Len(cycles), NEW f, NEW h, \A d \in 0 .. c - 1 : f[d] = h[d]
  PROVE  Approves(f, c) = Approves(h, c)
<1>1. CASE c = 0
  BY <1>1 DEF Approves
<1>2. CASE c # 0
  <2>1. c \in DOMAIN cycles /\ c \in 1 .. Len(cycles)
    BY <1>2 DEF IInv, TypeOK
  <2>2. ASSUME NEW s \in cycles[c].results PROVE f[submission[s][1]] = h[submission[s][1]]
    <3>1. submission[s] = BasePlan \/ submission[s][1] \in 1 .. c - 1
      BY <2>1 DEF IInv, ApprovedLineage, Descends
    <3>2. submission[s][1] \in 0 .. c - 1
      BY <2>1, <3>1 DEF BasePlan
    <3> QED BY <3>2
  <2>3. (\A s \in cycles[c].results : f[submission[s][1]])
          = (\A s \in cycles[c].results : h[submission[s][1]])
    BY <2>2
  <2> QED BY <1>2, <2>3 DEF Approves
<1> QED BY <1>1, <1>2

\* The recursion therefore defines a function for every number of cycles.
LEMMA ApprovalsExist ==
  ASSUME IInv
  PROVE  \E f : AreApprovals(f, Len(cycles))
<1> SUFFICES ASSUME ~ \E f : AreApprovals(f, Len(cycles)) PROVE FALSE
  OBVIOUS
<1> DEFINE S == {n \in 0 .. Len(cycles) : ~ \E f : AreApprovals(f, n)}
<1>0. Len(cycles) \in Nat
  BY DEF IInv, TypeOK
<1>1. PICK m \in S : \A x \in S : m <= x
  <2>1. S \in SUBSET Nat /\ S # {}
    BY <1>0
  <2> HIDE DEF S
  <2> QED BY <2>1, LeastNat
<1>2. m \in 0 .. Len(cycles)
  OBVIOUS
<1>3. PICK f : m # 0 => AreApprovals(f, m - 1)
  <2>1. CASE m = 0
    BY <2>1
  <2>2. CASE m # 0
    <3>1. m - 1 \in 0 .. Len(cycles) /\ ~(m <= m - 1)
      BY <1>0, <1>2, <2>2
    <3>2. m - 1 \notin S
      <4> HIDE DEF S
      <4> QED BY <1>1, <3>1
    <3> QED BY <3>1, <3>2
  <2> QED BY <2>1, <2>2
<1> DEFINE h == [c \in 0 .. m |-> IF c = m THEN Approves(f, m) ELSE f[c]]
<1>4. ASSUME NEW c \in 0 .. m PROVE h[c] = Approves(h, c)
  <2>1. c \in 0 .. Len(cycles) /\ \A d \in 0 .. c - 1 : h[d] = f[d]
    BY <1>0, <1>2
  <2>2. Approves(h, c) = Approves(f, c)
    <3> HIDE DEF h
    <3> QED BY <2>1, ApprovesLooksBack
  <2>3. CASE c = m
    <3>1. h[c] = Approves(f, m)
      BY <2>3
    <3> HIDE DEF h
    <3> QED BY <2>2, <2>3, <3>1
  <2>4. CASE c # m
    <3>1. c \in 0 .. m - 1 /\ m # 0 /\ h[c] = f[c]
      BY <1>0, <1>2, <2>4
    <3>2. f[c] = Approves(f, c)
      BY <1>3, <3>1 DEF AreApprovals
    <3> HIDE DEF h
    <3> QED BY <2>2, <3>1, <3>2
  <2> QED BY <2>3, <2>4
<1>5. AreApprovals(h, m)
  <2>1. h = [c \in 0 .. m |-> h[c]]
    OBVIOUS
  <2> HIDE DEF h
  <2> QED BY <1>4, <2>1 DEF AreApprovals
<1> QED BY <1>5

\* An approved parent is the base plan or a cycle that was approved itself.
LEMMA ApprovedIsApproved ==
  ASSUME IInv, NEW c \in ApprovedCycles
  PROVE  c = 0 \/ (c \in 1 .. Len(cycles) /\ cycles[c].status = "APPROVED")
<1> DEFINE f == CHOOSE f : AreApprovals(f, Len(cycles))
<1>1. AreApprovals(f, Len(cycles))
  BY ApprovalsExist
<1>2. ApprovedCycles = {d \in 0 .. Len(cycles) : f[d]}
  BY Zenon DEF ApprovedCycles, AreApprovals, Approves
<1> HIDE DEF f
<1>3. c \in 0 .. Len(cycles) /\ f[c] = Approves(f, c) /\ f[c]
  BY <1>1, <1>2 DEF AreApprovals
<1>4. Approves(f, c)
  BY Zenon, <1>3
<1>5. c # 0 => cycles[c].status = "APPROVED"
  BY Zenon, <1>4 DEF Approves
<1>6. Len(cycles) \in Nat
  BY DEF IInv, TypeOK
<1> QED BY <1>3, <1>5, <1>6

\* A result that can be planned is about the base plan or about the selected
\* plan of an approved cycle.
LEMMA CompilableDescends ==
  ASSUME IInv, NEW results \in SUBSET Submissions, Compilable(results), NEW s \in results
  PROVE  \/ submission[s] = BasePlan
         \/ /\ submission[s][1] \in 1 .. Len(cycles)
            /\ cycles[submission[s][1]].status = "APPROVED"
            /\ cycles[submission[s][1]].selection = submission[s][2]
<1>1. ApprovedPlan(submission[s]) /\ Usable(s) /\ s \in Submissions
  BY DEF Compilable
<1>2. submission[s] # NoPlan
  BY <1>1 DEF Usable, IInv, SubmissionOK
<1>3. submission[s] # BasePlan => submission[s][1] \in 1 .. Len(cycles)
  BY <1>1, <1>2 DEF IInv, SubmissionOK, TypeOK
<1>4. submission[s] # BasePlan => submission[s][1] # 0
  <2>1. Len(cycles) \in Nat
    BY DEF IInv, TypeOK
  <2> QED BY <1>3, <2>1
<1>5. submission[s] # BasePlan => cycles[submission[s][1]].status = "APPROVED"
  BY <1>1, <1>4, ApprovedIsApproved DEF ApprovedPlan
<1> QED BY <1>1, <1>3, <1>4, <1>5 DEF ApprovedPlan

-----------------------------------------------------------------------------
(* A compile call begins. *)

LEMMA Begun ==
  ASSUME NEW c \in 0 .. CycleLimit, NEW found \in BOOLEAN, NEW choice \in {0} \cup Candidates,
         Begin(c, found, choice)
  PROVE  call' \in Call /\ call'.pc = "reserved" /\ call'.c = c
<1>1. call' = [pc |-> "reserved", c |-> c, found |-> found, choice |-> choice, n |-> 0,
               decision |-> "none"]
  BY DEF Begin, Idle
<1>2. choice \in 0 .. MaxCandidates /\ 0 \in 0 .. MaxCandidates
  BY SuccessorAssumption DEF Candidates
<1> QED BY <1>1, <1>2 DEF Call, PCs

\* A new invocation gets a cycle of its own, planned from accepted results of
\* an approved plan.
LEMMA ReserveKeeps ==
  ASSUME IInv, NEW results \in SUBSET Submissions, NEW followUp \in FollowUps,
         NEW choice \in {0} \cup Candidates, Reserve(results, followUp, choice)
  PROVE  IInv'
<1> DEFINE n == Len(cycles) + 1
           k == Reservation(results, followUp)
<1>1. /\ Compilable(results) /\ Reserved(results, followUp) = {} /\ Len(cycles) < CycleLimit
      /\ cycles' = Append(cycles, k) /\ Others /\ task.step = "off" /\ call.pc = "idle"
      /\ Begin(n, FALSE, choice)
  BY DEF Reserve, Unlocked
<1>2. UNCHANGED <<submission, assessment, curations, evidence, receipt, task, base>>
  BY <1>1 DEF Others, intakeVars
<1>3. cycles \in Seq(Cycle) /\ Len(cycles) \in Nat /\ n \in 0 .. CycleLimit
  BY <1>1, SuccessorAssumption DEF IInv, TypeOK
<1>4. /\ k.results = results /\ k.followUp = followUp /\ k.update = "none" /\ k.planning = Unclaimed
      /\ k.proposal = 0 /\ k.plans = 0 /\ k.selection = 0 /\ k.approving = Unclaimed
      /\ k.approval = 0 /\ k.status = "none"
  BY DEF Reservation
<1>5. k \in Cycle
  BY SuccessorAssumption DEF Reservation, Cycle, Claimable, Unclaimed, Decisions
<1>6. CycleOK(k)
  BY <1>1, <1>4 DEF CycleOK, Compilable, Unclaimed, Decisions
<1> HIDE DEF k
<1>7. /\ cycles' \in Seq(Cycle) /\ Len(cycles') = n /\ cycles'[n] = k
      /\ DOMAIN cycles = 1 .. Len(cycles) /\ DOMAIN cycles' = 1 .. n
      /\ \A c \in 1 .. Len(cycles) : cycles'[c] = cycles[c]
  BY <1>1, <1>3, <1>5, AppendProperties, LenProperties
<1>8. /\ call' \in Call /\ call'.pc = "reserved" /\ call'.c = n
  BY <1>1, <1>3, Begun
<1>9. TypeOK'
  BY <1>1, <1>2, <1>3, <1>7, <1>8 DEF IInv, TypeOK
<1>10. \A s \in Submissions : HistoryOK(s)' /\ SubmissionOK(s)'
  <2>1. DOMAIN cycles \subseteq DOMAIN cycles'
    BY <1>3, <1>7
  <2> QED BY <1>2, <2>1 DEF IInv, HistoryOK, SubmissionOK
<1>11. TaskOK'
  BY <1>1, <1>2 DEF TaskOK
<1>12. \A c \in DOMAIN cycles' : c \in 1 .. Len(cycles) \/ c = n
  BY <1>3, <1>7
<1>13. \A c \in DOMAIN cycles' : CycleOK(cycles'[c])
  BY <1>6, <1>7, <1>12 DEF IInv
<1>14. CallInProgress'
  <2>1. n \in DOMAIN cycles'
    BY <1>3, <1>7
  <2>2. CallOK(call', k)
    BY <1>4, <1>8 DEF CallOK
  <2>3. \A s \in k.results : Usable(s)'
    BY <1>1, <1>4, UsableKept DEF Compilable
  <2> QED BY <1>7, <1>8, <2>1, <2>2, <2>3 DEF CallInProgress
<1>15. ReceiptIsEarned'
  BY <1>2 DEF IInv, ReceiptIsEarned
<1>16. OneCyclePerInvocation'
  <2>1. \A c \in 1 .. Len(cycles) :
          ~(cycles[c].results = k.results /\ cycles[c].followUp = k.followUp)
    BY <1>1, <1>4, <1>7 DEF Reserved
  <2> QED BY <1>7, <1>12, <2>1 DEF IInv, OneCyclePerInvocation
<1>17. ApprovedLineage'
  <2> SUFFICES ASSUME NEW c \in DOMAIN cycles', NEW s \in cycles'[c].results, submission[s] # BasePlan
               PROVE  /\ submission[s][1] \in 1 .. c - 1
                      /\ cycles'[submission[s][1]].status = "APPROVED"
                      /\ cycles'[submission[s][1]].selection = submission[s][2]
    BY <1>2 DEF ApprovedLineage, Descends
  <2>1. /\ submission[s][1] \in 1 .. c - 1 /\ submission[s][1] \in 1 .. Len(cycles)
        /\ cycles[submission[s][1]].status = "APPROVED"
        /\ cycles[submission[s][1]].selection = submission[s][2]
    <3>1. CASE c = n
      <4>1. s \in results
        BY <1>4, <1>7, <3>1
      <4>2. /\ submission[s][1] \in 1 .. Len(cycles)
            /\ cycles[submission[s][1]].status = "APPROVED"
            /\ cycles[submission[s][1]].selection = submission[s][2]
        BY <1>1, <4>1, CompilableDescends
      <4> QED BY <1>3, <3>1, <4>2
    <3>2. CASE c \in 1 .. Len(cycles)
      <4>1. /\ submission[s][1] \in 1 .. c - 1
            /\ cycles[submission[s][1]].status = "APPROVED"
            /\ cycles[submission[s][1]].selection = submission[s][2]
        BY <1>7, <3>2 DEF IInv, ApprovedLineage, Descends
      <4> QED BY <1>3, <3>2, <4>1
    <3> QED BY <1>12, <3>1, <3>2
  <2> QED BY <1>7, <2>1
<1> QED BY <1>9, <1>10, <1>11, <1>13, <1>14, <1>15, <1>16, <1>17 DEF IInv

\* An unfinished cycle is resumed while its results are accepted.
LEMMA ResumeKeeps ==
  ASSUME IInv, NEW results \in SUBSET Submissions, NEW followUp \in FollowUps,
         NEW choice \in {0} \cup Candidates, Resume(results, followUp, choice)
  PROVE  IInv'
<1>1. /\ Compilable(results) /\ task.step = "off"
      /\ UNCHANGED <<submission, assessment, curations, evidence, receipt, task, base, cycles>>
  BY DEF Resume, Unlocked, KeepCycles, Others, intakeVars
<1>2. PICK c \in DOMAIN cycles :
        /\ Reserved(results, followUp) = {c} /\ cycles[c].status = "none"
        /\ Begin(c, TRUE, choice)
  BY DEF Resume
<1>3. cycles[c].results = results
  BY <1>2 DEF Reserved
<1>4. call' \in Call /\ call'.pc = "reserved" /\ call'.c = c
  <2>1. c \in 0 .. CycleLimit
    BY SuccessorAssumption DEF IInv, TypeOK
  <2> QED BY <1>2, <2>1, Begun
<1>5. TypeOK'
  BY <1>1, <1>4 DEF IInv, TypeOK
<1>6. \A s \in Submissions : HistoryOK(s)' /\ SubmissionOK(s)'
  BY <1>1 DEF IInv, HistoryOK, SubmissionOK
<1>7. TaskOK' /\ ReceiptIsEarned' /\ OneCyclePerInvocation'
  BY <1>1 DEF IInv, TaskOK, ReceiptIsEarned, OneCyclePerInvocation
<1>8. \A d \in DOMAIN cycles' : CycleOK(cycles'[d])
  BY <1>1 DEF IInv
<1>9. CallInProgress'
  <2>1. CallOK(call', cycles[c])
    BY <1>2, <1>4 DEF CallOK
  <2>2. \A s \in cycles[c].results : Usable(s)'
    BY <1>1, <1>3 DEF Compilable, Usable, HasCurrent, CurrentRecords, Superseded
  <2> QED BY <1>1, <1>4, <2>1, <2>2 DEF CallInProgress
<1>10. ApprovedLineage'
  BY <1>1 DEF IInv, ApprovedLineage, Descends
<1> QED BY <1>5, <1>6, <1>7, <1>8, <1>9, <1>10 DEF IInv

-----------------------------------------------------------------------------
(* The invariant. *)

LEMMA InitOK == Init => IInv
<1> SUFFICES ASSUME Init PROVE IInv
  OBVIOUS
<1>1. /\ submission = [s \in Submissions |-> NoPlan] /\ assessment = [s \in Submissions |-> "none"]
      /\ curations = [s \in Submissions |-> {}] /\ evidence = {}
      /\ receipt = [s \in Submissions |-> 0] /\ task = NoTask
      /\ base = TRUE /\ cycles = <<>> /\ call = Idle
  BY DEF Init, IntakeInit
<1>2. Idle \in Call
  BY SuccessorAssumption DEF Idle, Call, PCs, Decisions
<1>3. cycles \in Seq(Cycle) /\ Len(cycles) = 0 /\ DOMAIN cycles = {}
  BY <1>1
<1>4. TypeOK
  <2>1. NoPlan \in (0 .. CycleLimit) \X (0 .. MaxCandidates)
    BY SuccessorAssumption DEF NoPlan
  <2> QED BY <1>1, <1>2, <1>3, <2>1, SuccessorAssumption DEF TypeOK, Assessments, NoTask, TaskSteps
<1>5. \A s \in Submissions : HistoryOK(s) /\ SubmissionOK(s)
  BY <1>1, FS_EmptySet DEF HistoryOK, SubmissionOK
<1>6. TaskOK /\ CallInProgress /\ ReceiptIsEarned
  BY <1>1 DEF TaskOK, NoTask, CallInProgress, Idle, ReceiptIsEarned
<1>7. OneCyclePerInvocation /\ ApprovedLineage /\ \A c \in DOMAIN cycles : CycleOK(cycles[c])
  BY <1>3 DEF OneCyclePerInvocation, ApprovedLineage
<1> QED BY <1>4, <1>5, <1>6, <1>7 DEF IInv

LEMMA IntakeKeeps == ASSUME IInv, Intake PROVE IInv'
<1>1. call.pc = "idle" /\ UNCHANGED <<base, cycles, call>>
  BY DEF Intake, Unlocked, IInv, TaskOK
<1>2. CASE \E s \in Submissions, plan \in StoredPlans : Submit(s, plan)
  BY <1>1, <1>2, SubmitKeeps
<1>3. CASE \E s \in Submissions, status \in {"ACCEPTED", "REJECTED"} : Curate(s, status)
  BY <1>1, <1>3, CurateKeeps
<1>4. CASE Assess(ApprovedPlan(submission[task.sub]))
  BY <1>1, <1>4, AssessKeeps
<1>5. CASE Store(ApprovedPlan(submission[task.sub]))
  BY <1>1, <1>5, StoreKeeps
<1>6. CASE WriteReceipt
  BY <1>1, <1>6, WriteReceiptKeeps
<1>7. CASE Abandon
  BY <1>1, <1>7, AbandonKeeps
<1> QED BY <1>2, <1>3, <1>4, <1>5, <1>6, <1>7 DEF Intake

LEMMA CompileKeeps == ASSUME IInv, Compile PROVE IInv'
BY WriteUpdateKeeps, LoadCoreKeeps, WriteCoreKeeps, CloseWithoutPlanKeeps, LoadPlanningKeeps,
   ClaimPlanningKeeps, ProposeKeeps, WriteProposalKeeps, WritePlanKeeps, LoadSelectionKeeps,
   AwaitSelectionKeeps, SelectKeeps, LoadApprovalKeeps, ClaimApprovalKeeps, ReviewKeeps,
   WriteApprovalKeeps, CloseKeeps, RefusedKeeps
   DEF Compile

LEMMA StutterKeeps == ASSUME IInv, UNCHANGED vars PROVE IInv'
<1>1. UNCHANGED <<submission, assessment, curations, evidence, receipt, task, base, cycles, call>>
  BY DEF vars, intakeVars
<1>2. TypeOK' /\ TaskOK' /\ ReceiptIsEarned' /\ OneCyclePerInvocation'
  BY <1>1 DEF IInv, TypeOK, TaskOK, ReceiptIsEarned, OneCyclePerInvocation, CurrentRecords,
              HasCurrent, Superseded
<1>3. \A s \in Submissions : HistoryOK(s)' /\ SubmissionOK(s)'
  BY <1>1 DEF IInv, HistoryOK, SubmissionOK
<1>4. CallInProgress' /\ \A c \in DOMAIN cycles' : CycleOK(cycles'[c])
  BY <1>1 DEF IInv, CallInProgress, Usable, CurrentRecords, HasCurrent, Superseded
<1>5. ApprovedLineage'
  BY <1>1 DEF IInv, ApprovedLineage, Descends
<1> QED BY <1>2, <1>3, <1>4, <1>5 DEF IInv

LEMMA NextKeeps == IInv /\ [Next]_vars => IInv'
<1> SUFFICES ASSUME IInv, [Next]_vars PROVE IInv'
  OBVIOUS
<1>1. CASE Intake
  BY <1>1, IntakeKeeps
<1>2. CASE \E results \in SUBSET Submissions, followUp \in FollowUps, choice \in {0} \cup Candidates :
             Reserve(results, followUp, choice) \/ Resume(results, followUp, choice)
  BY <1>2, ReserveKeeps, ResumeKeeps
<1>3. CASE Compile
  BY <1>3, CompileKeeps
<1>4. CASE Abort
  BY <1>4, AbortKeeps
<1>5. CASE RunChanges
  BY <1>5, RunChangesKeeps
<1>6. CASE UNCHANGED vars
  BY <1>6, StutterKeeps
<1> QED BY <1>1, <1>2, <1>3, <1>4, <1>5, <1>6 DEF Next

-----------------------------------------------------------------------------
(* The theorems. *)

\* The files of every reachable state, their cycles and the call in progress
\* fit together as IInv says.
THEOREM Invariant == Spec => []IInv
BY InitOK, NextKeeps, PTL DEF Spec

\* The intake and successor-planning files only ever hold what the model says.
THEOREM TypeCorrect == Spec => []TypeOK
<1>1. IInv => TypeOK
  BY DEF IInv
<1> QED BY <1>1, Invariant, PTL

\* A receipt is the receipt of an acceptance of an admissible result whose
\* evidence is stored, wherever an intake or curate call was interrupted.
THEOREM ReceiptsEarned == Spec => []ReceiptIsEarned
<1>1. IInv => ReceiptIsEarned
  BY DEF IInv
<1> QED BY <1>1, Invariant, PTL

\* One exact invocation has one cycle, whatever is selected and however often
\* the call is interrupted and resumed.
THEOREM OneCycleHolds == Spec => []OneCyclePerInvocation
<1>1. IInv => OneCyclePerInvocation
  BY DEF IInv
<1> QED BY <1>1, Invariant, PTL

\* Every successor cycle was planned from results of the base plan or of the
\* selected plan of an earlier approved cycle.
THEOREM LineageHolds == Spec => []ApprovedLineage
<1>1. IInv => ApprovedLineage
  BY DEF IInv
<1> QED BY <1>1, Invariant, PTL

\* A finished cycle carries the decision of the gate of its selected plan.
THEOREM ApprovalBound == Spec => []ApprovalBindsSelection
<1>1. ASSUME IInv, NEW c \in DOMAIN cycles, cycles[c].status \in Decisions
      PROVE  /\ cycles[c].reviewed = cycles[c].selection /\ cycles[c].selection # 0
             /\ cycles[c].gate = cycles[c].status
  <2>1. CycleOK(cycles[c])
    BY <1>1 DEF IInv
  <2> QED BY <1>1, <2>1 DEF CycleOK
<1>2. IInv => ApprovalBindsSelection
  BY <1>1 DEF ApprovalBindsSelection
<1> QED BY <1>2, Invariant, PTL

-----------------------------------------------------------------------------
(* Paid calls. *)

\* A step writes the cycle of the call in progress, or adds one.
LEMMA OnlyThisCycle ==
  ASSUME IInv, [Next]_vars, NEW c \in DOMAIN cycles, call.pc = "idle" \/ c # call.c
  PROVE  c \in DOMAIN cycles' /\ cycles'[c] = cycles[c]
<1>1. cycles \in Seq(Cycle) /\ c \in 1 .. Len(cycles) /\ Len(cycles) \in Nat
  BY DEF IInv, TypeOK
<1>2. CASE UNCHANGED cycles
  BY <1>2
<1>3. CASE \E k : cycles' = Append(cycles, k)
  BY <1>1, <1>3
<1>4. CASE Compile \/ Abort
  <2>1. call.pc # "idle"
    BY <1>4 DEF Compile, Abort, At, WriteUpdate, LoadCore, WriteCore, CloseWithoutPlan,
       LoadPlanning, ClaimPlanning, Propose, WriteProposal, WritePlan, LoadSelection,
       AwaitSelection, Select, LoadApproval, ClaimApproval, Review, WriteApproval, Close, Refused
  <2>2. UNCHANGED cycles \/ \E k : cycles' = [cycles EXCEPT ![call.c] = k]
    BY <1>4 DEF Compile, Abort, WriteUpdate, LoadCore, WriteCore, CloseWithoutPlan,
       LoadPlanning, ClaimPlanning, Propose, WriteProposal, WritePlan, LoadSelection,
       AwaitSelection, Select, LoadApproval, ClaimApproval, Review, WriteApproval, Close, Refused,
       KeepCycles
  <2> QED BY <2>1, <2>2
<1>5. CASE Intake \/ RunChanges \/ UNCHANGED vars
  BY <1>2, <1>5 DEF Intake, RunChanges, vars
<1>6. CASE \E results \in SUBSET Submissions, followUp \in FollowUps, choice \in {0} \cup Candidates :
             Reserve(results, followUp, choice) \/ Resume(results, followUp, choice)
  BY <1>2, <1>3, <1>6 DEF Reserve, Resume, KeepCycles
<1> QED BY <1>4, <1>5, <1>6 DEF Next

\* Nothing is claimed, called or finished for a result that is not accepted at
\* that time, in every step of every behaviour.
THEOREM ClaimsAccepted == Spec => ClaimsFollowAcceptance
<1> DEFINE Step == \A c \in DOMAIN cycles : Paid(c)' # Paid(c) => \A s \in cycles[c].results : InForce(s)
<1>1. ASSUME IInv, [Next]_vars, NEW c \in DOMAIN cycles, Paid(c)' # Paid(c),
             NEW s \in cycles[c].results
      PROVE  InForce(s)
  <2>1. call.pc # "idle" /\ c = call.c
    <3>1. cycles'[c] # cycles[c]
      BY <1>1 DEF Paid
    <3> QED BY <1>1, <3>1, OnlyThisCycle
  <2>2. Usable(s)
    BY <1>1, <2>1 DEF IInv, CallInProgress
  <2> QED BY <2>2 DEF Usable, InForce, HasCurrent, CurrentRecords, Superseded
<1>2. IInv /\ [Next]_vars => [Step]_vars
  BY <1>1
<1> HIDE DEF Step
<1>3. Spec => [][Step]_vars
  BY <1>2, Invariant, PTL DEF Spec
<1> QED BY <1>3 DEF Step, ClaimsFollowAcceptance

\* The ledger of the files of a cycle.
LedgerOf(k) ==
  IF ~k.planning.claimed THEN <<>>
  ELSE <<Stage(k.planning, Complete(k))>>
         \o (IF k.approving.claimed THEN <<Stage(k.approving, k.approval = 3)>> ELSE <<>>)

LEMMA LedgerIs ==
  ASSUME NEW c
  PROVE  /\ c \in DOMAIN cycles => Ledger(c) = LedgerOf(cycles[c])
         /\ c \notin DOMAIN cycles => Ledger(c) = <<>>
         /\ c \in DOMAIN cycles' => Ledger(c)' = LedgerOf(cycles'[c])
BY DEF Ledger, LedgerOf, Complete, PlansComplete, ApprovalComplete

LEMMA LedgerForms ==
  ASSUME NEW k
  PROVE  /\ ~k.planning.claimed => LedgerOf(k) = <<>>
         /\ k.planning.claimed /\ ~k.approving.claimed => LedgerOf(k) = <<Stage(k.planning, Complete(k))>>
         /\ k.planning.claimed /\ k.approving.claimed =>
              LedgerOf(k) = <<Stage(k.planning, Complete(k)), Stage(k.approving, k.approval = 3)>>
<1> DEFINE one == Stage(k.planning, Complete(k))
           two == Stage(k.approving, k.approval = 3)
<1>1. /\ one \in {"claimed", "called", "settled"} /\ two \in {"claimed", "called", "settled"}
      /\ LedgerOf(k) = IF ~k.planning.claimed THEN <<>>
                       ELSE <<one>> \o (IF k.approving.claimed THEN <<two>> ELSE <<>>)
  BY DEF LedgerOf, Stage
<1> HIDE DEF one, two
<1>2. <<one>> \o <<>> = <<one>> /\ <<one>> \o <<two>> = <<one, two>>
  <2> DEFINE S == {"claimed", "called", "settled"}
  <2>1. <<one>> \in Seq(S) /\ <<two>> \in Seq(S) /\ <<one, two>> \in Seq(S)
    BY <1>1
  <2>2. <<one>> \o <<>> = <<one>>
    BY <2>1, ConcatEmptySeq
  <2>3. <<one>> \o <<two>> = <<one, two>>
    <3> DEFINE t == <<one>> \o <<two>>
               u == <<one, two>>
    <3>1. t \in Seq(S) /\ Len(t) = 2 /\ t[1] = one /\ t[2] = two
      BY <2>1, ConcatProperties
    <3>2. u \in Seq(S) /\ Len(u) = 2 /\ u[1] = one /\ u[2] = two
      BY <2>1
    <3> HIDE DEF S, t, u
    <3>3. \A i \in 1 .. Len(t) : t[i] = u[i]
      BY <3>1, <3>2
    <3>4. t = u
      BY <3>1, <3>2, <3>3, SeqEqual
    <3> QED BY <3>4 DEF t, u
  <2> QED BY <2>2, <2>3
<1> QED BY <1>1, <1>2 DEF one, two

\* The moves of a ledger with two calls.
Moves(old, new) ==
  \/ old = <<>> /\ new = <<"claimed">>
  \/ old = <<"claimed">> /\ new = <<"called">>
  \/ old = <<"called">> /\ new = <<"settled">>
  \/ old = <<"settled">> /\ new = <<"settled", "claimed">>
  \/ old = <<"settled", "claimed">> /\ new = <<"settled", "called">>
  \/ old = <<"settled", "called">> /\ new = <<"settled", "settled">>

LEMMA MovesImplement ==
  ASSUME NEW c, Moves(Ledger(c), Ledger(c)')
  PROVE  Calls(c)!Next
<1>1. CASE Ledger(c) = <<>> /\ Ledger(c)' = <<"claimed">>
  BY <1>1 DEF Calls!Next, Calls!Claim
<1>2. CASE Ledger(c) = <<"claimed">> /\ Ledger(c)' = <<"called">>
  BY <1>2 DEF Calls!Next, Calls!Call, Calls!Newest
<1>3. CASE Ledger(c) = <<"called">> /\ Ledger(c)' = <<"settled">>
  BY <1>3 DEF Calls!Next, Calls!Settle, Calls!Newest
<1>4. CASE Ledger(c) = <<"settled">> /\ Ledger(c)' = <<"settled", "claimed">>
  BY <1>4 DEF Calls!Next, Calls!Claim, Calls!Newest
<1>5. CASE Ledger(c) = <<"settled", "claimed">> /\ Ledger(c)' = <<"settled", "called">>
  BY <1>5 DEF Calls!Next, Calls!Call, Calls!Newest
<1>6. CASE Ledger(c) = <<"settled", "called">> /\ Ledger(c)' = <<"settled", "settled">>
  BY <1>6 DEF Calls!Next, Calls!Settle, Calls!Newest
<1> QED BY <1>1, <1>2, <1>3, <1>4, <1>5, <1>6 DEF Moves

\* Every step of a call leaves the ledger of its cycle alone or makes a move.
LEMMA LedgerMoves ==
  ASSUME IInv, Compile
  PROVE  \/ UNCHANGED cycles
         \/ LedgerOf(cycles'[call.c]) = LedgerOf(This)
         \/ Moves(LedgerOf(This), LedgerOf(cycles'[call.c]))
<1>1. call.pc # "idle"
  BY DEF Compile, At, WriteUpdate, LoadCore, WriteCore, CloseWithoutPlan,
     LoadPlanning, ClaimPlanning, Propose, WriteProposal, WritePlan, LoadSelection,
     AwaitSelection, Select, LoadApproval, ClaimApproval, Review, WriteApproval, Close, Refused
<1>2. /\ This \in Cycle /\ CycleOK(This) /\ CallOK(call, This) /\ call \in Call
      /\ call.c \in DOMAIN cycles
  BY <1>1, ThisCycle
<1>3. /\ This.planning \in Claimable /\ This.approving \in Claimable
      /\ This.planning.calls \in Nat /\ This.approving.calls \in Nat
      /\ This.approval \in 0 .. 3
  BY <1>2 DEF Cycle, Claimable
<1> DEFINE k == cycles'[call.c]
<1>4. CASE WriteUpdate \/ WriteCore \/ CloseWithoutPlan \/ AwaitSelection \/ Close \/ Select
  <2>1. \/ \E v : k = [This EXCEPT !.update = v]
        \/ \E v : k = [This EXCEPT !.core = v]
        \/ \E v : k = [This EXCEPT !.status = v]
        \/ \E v : k = [This EXCEPT !.outcome = v]
        \/ \E v : k = [This EXCEPT !.selection = v]
    <3>1. CASE WriteUpdate
      BY <1>2, <3>1 DEF WriteUpdate, This
    <3>2. CASE WriteCore \/ CloseWithoutPlan \/ AwaitSelection \/ Close
      BY <1>2, <3>2 DEF WriteCore, CloseWithoutPlan, AwaitSelection, Close, This
    <3>3. CASE Select
      BY <1>2, <3>3 DEF Select, This
    <3> QED BY <1>4, <3>1, <3>2, <3>3
  <2> HIDE DEF k
  <2>2. /\ k.planning = This.planning /\ k.approving = This.approving /\ k.proposal = This.proposal
        /\ k.plans = This.plans /\ k.approval = This.approval
    BY <1>2, <2>1 DEF Cycle
  <2> QED BY <2>2 DEF LedgerOf, Complete, k
<1>5. CASE LoadCore \/ LoadPlanning \/ LoadSelection \/ LoadApproval \/ Refused
  BY <1>5 DEF LoadCore, LoadPlanning, LoadSelection, LoadApproval, Refused, KeepCycles
<1>6. CASE ClaimPlanning
  <2>1. k = [This EXCEPT !.planning = [This.planning EXCEPT !.claimed = TRUE]]
    BY <1>2, <1>6 DEF ClaimPlanning, This
  <2>2. /\ ~This.planning.claimed /\ This.planning.calls = 0 /\ This.proposal = 0
        /\ ~This.approving.claimed
    BY <1>2, <1>6 DEF ClaimPlanning, CycleOK, Complete
  <2>3. /\ k.planning.claimed /\ k.planning.calls = 0 /\ ~Complete(k) /\ ~k.approving.claimed
    BY <1>2, <1>3, <2>1, <2>2 DEF Cycle, Claimable, Complete
  <2> HIDE DEF k
  <2> QED BY <2>2, <2>3, LedgerForms DEF Moves, Stage, k
<1>7. CASE Propose
  <2>1. k = [This EXCEPT !.planning = [This.planning EXCEPT !.calls = This.planning.calls + 1]]
    BY <1>2, <1>7 DEF Propose, This
  <2>2. /\ This.planning.claimed /\ This.planning.calls = 0 /\ This.proposal = 0
        /\ ~This.approving.claimed
    BY <1>2, <1>7 DEF Propose, At, CallOK
  <2>3. /\ k.planning.claimed /\ k.planning.calls = 1 /\ ~Complete(k) /\ ~k.approving.claimed
    BY <1>2, <1>3, <2>1, <2>2 DEF Cycle, Claimable, Complete
  <2> HIDE DEF k
  <2> QED BY <2>2, <2>3, LedgerForms DEF Moves, Stage, Complete, k
<1>8. CASE WriteProposal
  <2>1. k = [This EXCEPT !.proposal = call.n]
    BY <1>2, <1>8 DEF WriteProposal, This
  <2>2. /\ This.planning.claimed /\ This.proposal = 0 /\ ~This.approving.claimed
        /\ This.plans = 0 /\ call.n # 0
    BY <1>2, <1>8 DEF WriteProposal, At, CallOK, CycleOK
  <2>3. /\ k.planning = This.planning /\ ~Complete(k) /\ ~k.approving.claimed
    BY <1>2, <2>1, <2>2 DEF Cycle, Complete
  <2> HIDE DEF k
  <2> QED BY <2>2, <2>3, LedgerForms DEF Stage, Complete, k
<1>9. CASE WritePlan
  <2>1. k = [This EXCEPT !.plans = This.plans + 1]
    BY <1>2, <1>9 DEF WritePlan, This
  <2>2. /\ This.planning.claimed /\ ~This.approving.claimed /\ This.planning.calls = 1
        /\ ~Complete(This)
    <3>1. call.n \in 0 .. MaxCandidates /\ This.plans \in 0 .. MaxCandidates
      BY <1>2 DEF Call, Cycle
    <3>2. This.proposal = call.n /\ This.plans < call.n
      BY <1>2, <1>9 DEF WritePlan, At, CallOK
    <3> QED BY <1>2, <1>9, <3>1, <3>2, SuccessorAssumption DEF WritePlan, At, CallOK, Complete
  <2>3. k.planning = This.planning /\ ~k.approving.claimed
    BY <1>2, <2>1, <2>2 DEF Cycle
  <2>4. /\ LedgerOf(This) = <<"called">>
        /\ LedgerOf(k) = IF Complete(k) THEN <<"settled">> ELSE <<"called">>
    <3> HIDE DEF k
    <3> QED BY <2>2, <2>3, LedgerForms DEF Stage
  <2> HIDE DEF k
  <2> QED BY <2>4 DEF Moves, k
<1>10. CASE ClaimApproval
  <2>1. k = [This EXCEPT !.approving = [This.approving EXCEPT !.claimed = TRUE]]
    BY <1>2, <1>10 DEF ClaimApproval, This
  <2>2. /\ This.planning.claimed /\ Complete(This) /\ ~This.approving.claimed
        /\ This.approving.calls = 0 /\ This.approval = 0
    BY <1>2, <1>10 DEF ClaimApproval, At, CallOK, CycleOK
  <2>3. /\ k.planning = This.planning /\ Complete(k) /\ k.approving.claimed
        /\ k.approving.calls = 0 /\ k.approval = 0
    BY <1>2, <1>3, <2>1, <2>2 DEF Cycle, Claimable, Complete
  <2> HIDE DEF k
  <2> QED BY <2>2, <2>3, LedgerForms DEF Moves, Stage, k
<1>11. CASE Review
  <2>1. k = [This EXCEPT !.approving = [This.approving EXCEPT !.calls = This.approving.calls + 1]]
    BY <1>2, <1>11 DEF Review, This
  <2>2. /\ This.planning.claimed /\ Complete(This) /\ This.approving.claimed
        /\ This.approving.calls = 0 /\ This.approval = 0
    BY <1>2, <1>11 DEF Review, At, CallOK, CycleOK
  <2>3. /\ k.planning = This.planning /\ Complete(k) /\ k.approving.claimed
        /\ k.approving.calls = 1 /\ k.approval = 0
    BY <1>2, <1>3, <2>1, <2>2 DEF Cycle, Claimable, Complete
  <2> HIDE DEF k
  <2> QED BY <2>2, <2>3, LedgerForms DEF Moves, Stage, k
<1>12. CASE WriteApproval
  <2>1. /\ k.planning = This.planning /\ k.proposal = This.proposal /\ k.plans = This.plans
        /\ k.approving = This.approving
    BY <1>2, <1>12 DEF WriteApproval, This, Cycle
  <2>2. /\ This.planning.claimed /\ Complete(This) /\ This.approving.claimed
        /\ This.approving.calls = 1 /\ This.approval # 3
    BY <1>2, <1>3, <1>12 DEF WriteApproval, At, CallOK, CycleOK
  <2>3. Complete(k)
    BY <2>1, <2>2 DEF Complete
  <2>4. /\ LedgerOf(This) = <<"settled", "called">>
        /\ LedgerOf(k) = IF k.approval = 3 THEN <<"settled", "settled">> ELSE <<"settled", "called">>
    <3> HIDE DEF k
    <3> QED BY <2>1, <2>2, <2>3, LedgerForms DEF Stage
  <2> HIDE DEF k
  <2> QED BY <2>4 DEF Moves, k
<1> HIDE DEF k
<1> QED BY <1>4, <1>5, <1>6, <1>7, <1>8, <1>9, <1>10, <1>11, <1>12 DEF Compile, k

\* The planning and the approval call of every cycle are claimed before they
\* are made, made at most once, and approval is not claimed while the outcome
\* of planning is unknown: the files implement ClaimedCalls.
THEOREM PaidAtMostOnce == Spec => AtMostOnce
<1> DEFINE Step == \A c \in 1 .. CycleLimit : [Calls(c)!Next]_(Ledger(c))
           Start == \A c \in 1 .. CycleLimit : Calls(c)!Init
<1>1. Init => Start
  BY DEF Init, Ledger, Calls!Init
<1>2. IInv /\ [Next]_vars => Step
  <2> SUFFICES ASSUME IInv, [Next]_vars, NEW c \in 1 .. CycleLimit, Ledger(c)' # Ledger(c)
               PROVE  Calls(c)!Next
    OBVIOUS
  <2>1. CASE c \in DOMAIN cycles
    <3>1. call.pc # "idle" /\ c = call.c
      <4>1. cycles'[c] # cycles[c] \/ c \notin DOMAIN cycles'
        BY <2>1, LedgerIs
      <4> QED BY <2>1, <4>1, OnlyThisCycle
    <3>2. ~ UNCHANGED cycles
      BY <2>1, LedgerIs
    <3>3. task.step = "off"
      BY <3>1 DEF IInv, TaskOK
    <3>4. Compile
      BY <3>1, <3>2, <3>3 DEF Next, Intake, Unlocked, Reserve, Resume, Abort, RunChanges, KeepCycles, vars
    <3>5. This = cycles[c]
      BY <3>1 DEF This
    <3>6. c \in DOMAIN cycles'
      <4>1. UNCHANGED cycles \/ \E k : cycles' = [cycles EXCEPT ![call.c] = k]
        BY <3>4 DEF Compile, WriteUpdate, LoadCore, WriteCore, CloseWithoutPlan,
           LoadPlanning, ClaimPlanning, Propose, WriteProposal, WritePlan, LoadSelection,
           AwaitSelection, Select, LoadApproval, ClaimApproval, Review, WriteApproval, Close, Refused,
           KeepCycles
      <4> QED BY <2>1, <4>1
    <3>7. Ledger(c) = LedgerOf(This) /\ Ledger(c)' = LedgerOf(cycles'[call.c])
      BY <2>1, <3>1, <3>5, <3>6, LedgerIs
    <3>8. Moves(LedgerOf(This), LedgerOf(cycles'[call.c]))
      BY <3>2, <3>4, <3>7, LedgerMoves
    <3> QED BY <3>7, <3>8, MovesImplement
  <2>2. CASE c \notin DOMAIN cycles
    <3>1. Ledger(c) = <<>>
      BY <2>2, LedgerIs
    <3>2. c \in DOMAIN cycles' => LedgerOf(cycles'[c]) = <<>>
      <4> SUFFICES ASSUME c \in DOMAIN cycles' PROVE LedgerOf(cycles'[c]) = <<>>
        OBVIOUS
      <4>1. cycles \in Seq(Cycle)
        BY DEF IInv, TypeOK
      <4>2. PICK results \in SUBSET Submissions, followUp \in FollowUps, choice \in {0} \cup Candidates :
              Reserve(results, followUp, choice)
        <5>1. ~ UNCHANGED cycles
          BY <2>2
        <5>2. ~ Compile
          <6>1. ASSUME Compile
                PROVE  UNCHANGED cycles \/ \E k : cycles' = [cycles EXCEPT ![call.c] = k]
            BY <6>1 DEF Compile, WriteUpdate, LoadCore, WriteCore, CloseWithoutPlan,
               LoadPlanning, ClaimPlanning, Propose, WriteProposal, WritePlan, LoadSelection,
               AwaitSelection, Select, LoadApproval, ClaimApproval, Review, WriteApproval, Close,
               Refused, KeepCycles
          <6> QED BY <2>2, <6>1
        <5> QED BY <5>1, <5>2 DEF Next, Intake, Resume, Abort, RunChanges, KeepCycles, vars
      <4>3. cycles'[c] = Reservation(results, followUp)
        <5>1. cycles' = Append(cycles, Reservation(results, followUp))
          BY <4>2 DEF Reserve
        <5>2. c = Len(cycles) + 1
          BY <2>2, <4>1, <5>1
        <5> QED BY <4>1, <5>1, <5>2
      <4>4. ~cycles'[c].planning.claimed
        BY <4>3 DEF Reservation, Unclaimed
      <4> QED BY <4>4, LedgerForms
    <3>3. Ledger(c)' = <<>>
      <4>1. c \notin DOMAIN cycles' => Ledger(c)' = <<>>
        BY DEF Ledger
      <4> QED BY <3>2, <4>1, LedgerIs
    <3> QED BY <3>1, <3>3
  <2> QED BY <2>1, <2>2
<1>3. Step => [Step]_vars
  OBVIOUS
<1> HIDE DEF Step, Start
<1>4. Spec => Start /\ [][Step]_vars
  BY <1>1, <1>2, <1>3, Invariant, PTL DEF Spec
<1> QED BY <1>4 DEF Step, Start, AtMostOnce

=============================================================================
