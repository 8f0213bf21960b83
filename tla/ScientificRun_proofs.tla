---------------------- MODULE ScientificRun_proofs ----------------------
(***************************************************************************)
(* Proofs about ScientificRun.                                             *)
(***************************************************************************)
EXTENDS ScientificRun, SequenceTheorems, WellFoundedInduction, TLAPS

-----------------------------------------------------------------------------
(* The inductive invariant. *)

Approved == run.status \in {"APPROVED", "EXPORTED"}
LiveChain == HasChain /\ (chain.term = "none" \/ LastRound.review.verdict = "APPROVE")

InChain == {"chained", "selected", "approved", "cycle", "claimed", "answered",
  "rejected", "refused", "materialized", "extended", "completed", "revised", "blocking"}
BeforeContext == {"idle", "entered", "ready"}
Closing == {"cycle", "evidence", "triggered", "blocking"}
Unreviewed == {"ready", "context", "interpreted", "proposed", "planned", "chained",
  "selected", "awaiting", "reviewed", "claimed", "answered", "rejected", "refused",
  "materialized", "extended", "completed", "revised"}
Revising == {"claimed", "answered", "rejected", "materialized", "extended"}

\* The call: what it was asked, and which chain it works on.
CallOK ==
  /\ IF At("idle") THEN call = Idle ELSE call.opt \in Options
  /\ call.pc \in InChain => call.chained
  /\ call.chained => ChainInEffect(run)
  /\ call.chained /\ call.pc \notin Closing => chain.term = "none"
  /\ LiveChain /\ ~At("idle") => call.chained
  /\ At("blocking") => chain.term \in BlockReasons
  /\ call.pc \notin BeforeContext =>
       run.ctx.snap # 0 \/ (At("blocking") /\ chain.term = "TRUSTED_CONTEXT_CHANGED")

\* The chain file.
ChainOK ==
  /\ HasChain =>
       /\ chain.max \in RevisionOptions
       /\ Len(chain.rounds) <= Len(attempts) + 1
       /\ \A i \in DOMAIN chain.rounds : chain.rounds[i].plan.ctx = chain.ctx
  /\ LiveChain =>
       /\ run.ctx \in {NoContext, chain.ctx}
       /\ LastRound.review # NoReview =>
            /\ LastRound.review = StoredReview
            /\ chain.term \in BlockReasons \cup {TerminationOf(LastRound.review.verdict)}

\* The newest attempt while a revision is under way.
AttemptOK ==
  call.pc \in Revising =>
    /\ Open
    /\ At("claimed") => LastAttempt.calls = 0
    /\ ~At("extended") => Len(chain.rounds) <= Len(attempts)
    /\ At("rejected") \/ At("claimed") =>
         \A i \in 2 .. Len(chain.rounds) :
           \E k \in 1 .. Len(attempts) - 1 :
             /\ attempts[k].input = chain.rounds[i].input
             /\ attempts[k].outcome # "TERMINATED"

\* What is planned and approved so far in the call.
ProgressOK ==
  /\ call.pc \in Unreviewed => ~Approved
  /\ call.pc \in {"proposed", "answered", "materialized"} => call.plan.ctx = run.ctx
  /\ call.pc \in {"planned", "chained", "selected", "awaiting", "reviewed", "revised"} =>
       run.plan.ctx = run.ctx
  /\ call.pc \in {"extended", "completed", "revised"} => LastRound.review = NoReview
  /\ At("reviewed") =>
       /\ call.review.plan = run.plan
       /\ call.review = IF call.chained THEN StoredReview ELSE plain.review
       /\ call.review # NoReview
       /\ call.chained => LastRound.review = NoReview
  /\ At("approved") =>
       /\ StoredReview # NoReview
       /\ Approved => run.appr = StoredReview
  /\ At("cycle") =>
       /\ LastRound.review # NoReview
       /\ chain.term = TerminationOf(LastRound.review.verdict)
       /\ Approved => run.appr = LastRound.review
  /\ At("evidence") /\ LiveChain => LastRound.review # NoReview
  /\ At("triggered") => ~LiveChain

\* The cycles, as far as the run's steps depend on them.
EvidenceOK ==
  /\ Len(cycles) <= policy
  /\ work.step = "off" => work = E!Off
  /\ work.step # "off" => InGap \/ At("triggered")
  /\ work.step \in {"claimed", "asked", "requested", "resolved", "child"} => cycles # <<>>
  /\ work.step \in {"claimed", "asked", "requested", "resolved"} => E!Last.record = "none"
  /\ work.step = "claimed" => E!Last.calls = 0
  /\ work.step = "resolved" => E!Last.outcome # E!Unasked
  /\ work.step = "child" =>
       E!Last.record = "child" /\ chain.ctx.cyc # Len(cycles)
  /\ \A c \in {run.ctx.cyc, chain.ctx.cyc} : c = 0 \/ c \in E!Completed

\* What an APPROVED run carries.
ApprovalOK ==
  Approved =>
    /\ run.appr.verdict = "APPROVE" /\ run.appr.plan = run.plan
    /\ run.plan.ctx = run.ctx
    /\ ~LeftChain => StoredReview = run.appr

IInv ==
  /\ TypeOK /\ CallOK /\ ChainOK /\ AttemptOK /\ ProgressOK /\ EvidenceOK /\ ApprovalOK
  /\ RoundsPaid /\ GlobalBudget

-----------------------------------------------------------------------------
(* The cycles and the namespace they give the run's artifacts. *)

\* The greatest element of a bounded, non-empty set of naturals is in it.
LEMMA MaxInside ==
  ASSUME NEW n \in Nat, NEW S \in SUBSET (0 .. n), S # {}
  PROVE  E!Max(S) \in S /\ \A x \in S : x <= E!Max(S)
<1> DEFINE R == OpToRel(<, Nat)
           T == {n - x : x \in S}
<1>1. IsWellFoundedOn(R, Nat)
  BY NatLessThanWellFounded
<1>2. T \subseteq Nat /\ T # {}
  <2>1. \A x \in S : x \in 0 .. n /\ n - x \in Nat
    OBVIOUS
  <2>2. PICK x \in S : TRUE
    OBVIOUS
  <2> QED BY <2>1, <2>2
<1>3. PICK t \in T : \A u \in T : <<u, t>> \notin R
  <2> HIDE DEF R, T
  <2> QED BY <1>1, <1>2, WFMin
<1>4. PICK m \in S : t = n - m
  OBVIOUS
<1>5. ASSUME NEW x \in S PROVE m >= x
  <2>1. n - x \in T /\ n - x \in Nat /\ t \in Nat
    BY <1>2
  <2>2. ~ (n - x < t)
    BY <2>1, <1>3 DEF OpToRel
  <2> QED BY <2>1, <2>2, <1>4
<1>6. \E y \in S : \A x \in S : y >= x
  BY <1>5
<1>7. E!Max(S) \in S /\ \A x \in S : E!Max(S) >= x
  BY <1>6 DEF E!Max
<1> QED
  BY <1>7

\* The cycle with the newest record is a completed one, and the namespace of
\* the run's artifacts is the base one or that of a completed cycle.
LEMMA NewestIsCompleted ==
  ASSUME TypeOK
  PROVE  /\ E!Completed \subseteq 1 .. Len(cycles) /\ Len(cycles) \in Nat
         /\ E!LatestCompleted = 0 \/ E!LatestCompleted \in E!Completed
         /\ \A c \in E!Completed : c <= E!LatestCompleted
         /\ E!Namespace = 0 \/ E!Namespace \in E!Completed
         /\ \A s : E!ChildFor(s) = 0 \/ E!ChildFor(s) \in E!Completed
<1>1. E!Completed \subseteq 1 .. Len(cycles) /\ Len(cycles) \in Nat
  BY DEF TypeOK, E!Completed
<1>2. E!Completed # {} =>
        /\ E!Max(E!Completed) \in E!Completed
        /\ \A c \in E!Completed : c <= E!Max(E!Completed)
  <2>1. E!Completed \in SUBSET (0 .. Len(cycles))
    BY <1>1
  <2> QED BY <1>1, <2>1, MaxInside
<1>3. /\ E!LatestCompleted = 0 \/ E!LatestCompleted \in E!Completed
      /\ \A c \in E!Completed : c <= E!LatestCompleted
  BY <1>2 DEF E!LatestCompleted
<1>4. E!Namespace = 0 \/ E!Namespace \in E!Completed
  BY <1>3 DEF E!Namespace
<1> QED BY <1>1, <1>3, <1>4 DEF E!ChildFor

\* A step that leaves the cycles alone leaves the namespace alone.
LEMMA NamespaceKept ==
  ASSUME cycles' = cycles
  PROVE  /\ E!Completed' = E!Completed /\ E!Namespace' = E!Namespace
         /\ E!LatestCompleted' = E!LatestCompleted
<1>1. E!Completed' = E!Completed
  BY DEF E!Completed
<1>2. E!LatestCompleted' = E!LatestCompleted
  BY <1>1 DEF E!LatestCompleted
<1> QED BY <1>1, <1>2 DEF E!Namespace

\* The round prefixes are those the files are stored under.
LEMMA PrefixesTyped ==
  ASSUME TypeOK, Len(cycles) <= policy
  PROVE  /\ E!Namespace \in 0 .. CycleLimit
         /\ E!LatestCompleted \in 0 .. CycleLimit
         /\ \A s : E!ChildFor(s) \in 0 .. CycleLimit
         /\ \A r \in 0 .. MaxRevisions : Prefix(r) \in Prefixes
<1>1. Len(cycles) \in 0 .. CycleLimit /\ CycleLimit \in Nat
  BY NewestIsCompleted, RunAssumption DEF TypeOK
<1>2. E!Completed \subseteq 0 .. CycleLimit /\ 0 \in 0 .. CycleLimit
  BY <1>1, NewestIsCompleted
<1>3. E!Namespace \in 0 .. CycleLimit /\ E!LatestCompleted \in 0 .. CycleLimit
      /\ \A s : E!ChildFor(s) \in 0 .. CycleLimit
  BY <1>2, NewestIsCompleted
<1> QED BY <1>3 DEF Prefix, Prefixes

-----------------------------------------------------------------------------
(* Types. *)

\* The fields of the files and of the call.
LEMMA FieldsTyped ==
  ASSUME TypeOK
  PROVE  /\ run.status \in Statuses /\ run.ctx \in Contexts /\ run.plan \in Plans
         /\ run.sel \in BOOLEAN /\ run.appr \in Reviews /\ run.exported \in BOOLEAN
         /\ chain.ctx \in Contexts /\ chain.max \in 0 .. MaxRevisions
         /\ chain.rounds \in Seq(Rounds) /\ chain.term \in Terminations
         /\ plain.plan \in Plans /\ plain.review \in Reviews
         /\ call.pc \in PCs /\ call.opt \in Options \cup {NoOption}
         /\ call.prev \in Runs /\ call.chained \in BOOLEAN
         /\ call.plan \in Plans /\ call.review \in Reviews
BY DEF TypeOK, Runs, Chains, Call

\* The values that stand for missing files.
LEMMA MissingTyped ==
  /\ NoContext \in Contexts /\ NoPlan \in Plans /\ NoReview \in Reviews
  /\ NoRun \in Runs /\ NoChain \in Chains /\ Idle \in Call
  /\ NoReview.verdict = "none" /\ NoContext.snap = 0
<1>1. NoContext \in Contexts /\ NoContext.snap = 0
  BY RunAssumption DEF NoContext, Contexts
<1>2. NoPlan \in Plans
  BY <1>1, RunAssumption DEF NoPlan, Plans
<1>3. NoReview \in Reviews /\ NoReview.verdict = "none"
  BY <1>2 DEF NoReview, Reviews
<1>4. NoRun \in Runs
  BY <1>1, <1>2, <1>3 DEF NoRun, Runs, Statuses
<1>5. NoChain \in Chains
  BY <1>1, RunAssumption DEF NoChain, Chains, Terminations
<1>6. Idle \in Call
  BY <1>2, <1>3, <1>4 DEF Idle, Call, PCs
<1> QED BY <1>1, <1>2, <1>3, <1>4, <1>5, <1>6

\* The fields of a review and of a plan.
LEMMA ReviewFields ==
  /\ \A r \in Reviews : r.plan \in Plans /\ r.verdict \in Verdicts \cup {"none"}
  /\ \A p \in Plans : p.ctx \in Contexts
  /\ \A d \in Rounds : d.plan \in Plans /\ d.input \in Reviews /\ d.review \in Reviews
  /\ \A c \in Contexts : c.snap \in 0 .. MaxSnapshot /\ c.cyc \in 0 .. CycleLimit
BY DEF Reviews, Plans, Rounds, Contexts

\* The options of a call.
LEMMA OptionFields ==
  \A opt \in Options :
    /\ opt.rev \in RevisionOptions /\ opt.rev \in 0 .. MaxRevisions
    /\ opt.cycles \in CycleOptions /\ opt.cycles \in 0 .. CycleLimit
    /\ opt.approve \in BOOLEAN /\ opt.sel \in BOOLEAN /\ opt.dry \in BOOLEAN
BY RunAssumption DEF Options

\* The chain's last round and the approval files export would open.
LEMMA ChainTyped ==
  ASSUME TypeOK, ChainOK, GlobalBudget, Len(cycles) <= policy
  PROVE  /\ Len(attempts) \in 0 .. MaxRevisions
         /\ DOMAIN attempts = 1 .. Len(attempts)
         /\ DOMAIN chain.rounds = 1 .. Len(chain.rounds)
         /\ Len(chain.rounds) \in Nat
         /\ HasChain => /\ Len(chain.rounds) # 0 /\ Len(chain.rounds) \in DOMAIN chain.rounds
                        /\ LastIndex \in 0 .. MaxRevisions
                        /\ LastIndex + 1 = Len(chain.rounds)
                        /\ Prefix(LastIndex) \in Prefixes
                        /\ LastRound \in Rounds /\ LastRound.plan.ctx = chain.ctx
         /\ StoredReview \in Reviews
<1>1. Len(attempts) \in 0 .. MaxRevisions /\ DOMAIN attempts = 1 .. Len(attempts)
  <2>1. attempts \in Seq(Attempts) /\ Len(attempts) \in Nat
    BY DEF TypeOK
  <2>2. CASE attempts = <<>>
    BY <2>1, <2>2, RunAssumption
  <2>3. CASE attempts # <<>>
    BY <2>1, <2>3, RunAssumption DEF GlobalBudget
  <2> QED BY <2>1, <2>2, <2>3
<1>2. chain.rounds \in Seq(Rounds)
  BY FieldsTyped
<1>3. DOMAIN chain.rounds = 1 .. Len(chain.rounds) /\ Len(chain.rounds) \in Nat
  BY <1>2
<1>4. ASSUME HasChain
      PROVE  /\ Len(chain.rounds) # 0 /\ Len(chain.rounds) \in DOMAIN chain.rounds
             /\ LastIndex \in 0 .. MaxRevisions
             /\ LastIndex + 1 = Len(chain.rounds)
             /\ LastRound \in Rounds /\ LastRound.plan.ctx = chain.ctx
  <2>1. Len(chain.rounds) # 0 /\ Len(chain.rounds) \in DOMAIN chain.rounds
    BY <1>2, <1>3, <1>4 DEF HasChain
  <2>2. Len(chain.rounds) <= Len(attempts) + 1
    BY <1>4 DEF ChainOK
  <2>3. LastIndex \in 0 .. MaxRevisions /\ LastIndex + 1 = Len(chain.rounds)
    BY <1>1, <1>3, <2>1, <2>2, RunAssumption DEF LastIndex
  <2>4. LastRound \in Rounds
    BY <1>2, <2>1 DEF LastRound
  <2>5. LastRound.plan.ctx = chain.ctx
    BY <1>4, <2>1 DEF ChainOK, LastRound
  <2> QED BY <2>1, <2>3, <2>4, <2>5
<1>5. HasChain => Prefix(LastIndex) \in Prefixes
  BY <1>4, PrefixesTyped
<1>6. StoredReview \in Reviews
  BY <1>5, FieldsTyped DEF StoredReview, TypeOK
<1> QED BY <1>1, <1>3, <1>4, <1>5, <1>6

-----------------------------------------------------------------------------
(* What a step that leaves files alone keeps. *)

\* What the chain, the attempts and the approval files say.
LEMMA RecordsKept ==
  ASSUME UNCHANGED <<chain, attempts, reviewFile, cycles>>, plain'.review = plain.review
  PROVE  /\ HasChain' = HasChain /\ LastRound' = LastRound /\ LastIndex' = LastIndex
         /\ LeftChain' = LeftChain /\ LiveChain' = LiveChain
         /\ StoredReview' = StoredReview /\ LastAttempt' = LastAttempt /\ Open' = Open
         /\ (RoundsPaid => RoundsPaid') /\ (GlobalBudget => GlobalBudget')
         /\ (ChainOK /\ run'.ctx = run.ctx => ChainOK')
<1>1. /\ HasChain' = HasChain /\ LastRound' = LastRound /\ LastIndex' = LastIndex
      /\ LeftChain' = LeftChain /\ LiveChain' = LiveChain
      /\ LastAttempt' = LastAttempt
  BY DEF HasChain, LastRound, LastIndex, LeftChain, LiveChain, LastAttempt
<1>2. Open' = Open
  BY <1>1 DEF Open
<1>3. E!Namespace' = E!Namespace
  BY NamespaceKept
<1>4. StoredReview' = StoredReview
  BY <1>1, <1>3 DEF StoredReview, Prefix
<1>5. (RoundsPaid => RoundsPaid') /\ (GlobalBudget => GlobalBudget')
  BY DEF RoundsPaid, GlobalBudget
<1>6. ChainOK /\ run'.ctx = run.ctx => ChainOK'
  BY <1>1, <1>4 DEF ChainOK
<1> QED BY <1>1, <1>2, <1>4, <1>5, <1>6

\* What the resolver left.
LEMMA EvidenceKept ==
  ASSUME EvidenceOK, UNCHANGED <<policy, cycles, work>>,
         run'.ctx = run.ctx, chain'.ctx = chain.ctx,
         work.step = "off" \/ call' = call
  PROVE  EvidenceOK'
<1>1. E!Completed' = E!Completed
  BY NamespaceKept
<1>2. E!Last' = E!Last
  BY DEF E!Last
<1>3. InGap' = InGap \/ work.step = "off"
  BY DEF InGap, At
<1>4. At("triggered")' = At("triggered") \/ work.step = "off"
  BY DEF At
<1> QED BY <1>1, <1>2, <1>3, <1>4 DEF EvidenceOK, E!Off, E!Unasked

\* The resolver is off outside the planning loop and the review's trigger.
LEMMA ResolverOff ==
  ASSUME EvidenceOK, ~At("interpreted"), ~At("triggered")
  PROVE  work.step = "off" /\ work = E!Off
BY DEF EvidenceOK, InGap

-----------------------------------------------------------------------------
(* The common steps. *)

\* The parts of the invariant.
LEMMA Parts ==
  IInv => /\ TypeOK /\ CallOK /\ ChainOK /\ AttemptOK /\ ProgressOK /\ EvidenceOK
          /\ ApprovalOK /\ RoundsPaid /\ GlobalBudget /\ Len(cycles) <= policy
BY DEF IInv, EvidenceOK

\* A step of the call that writes at most run.json: what the call's place
\* says of the files is all there is to show.
LEMMA SameFiles ==
  ASSUME IInv, UNCHANGED <<chain, attempts, store, snap, evidence>>,
         run' \in Runs, run'.ctx = run.ctx, call' \in Call,
         work.step = "off" \/ call' = call,
         CallOK', AttemptOK', ProgressOK', ApprovalOK'
  PROVE  IInv'
<1> USE Parts
<1>1. UNCHANGED <<chain, attempts, planFile, reviewFile, plain, snap, policy, cycles,
                  archive, work>>
  BY DEF store, evidence
<1>2. TypeOK'
  BY <1>1 DEF TypeOK
<1>3. ChainOK' /\ RoundsPaid' /\ GlobalBudget'
  BY <1>1, RecordsKept
<1>4. EvidenceOK'
  BY <1>1, EvidenceKept
<1> QED BY <1>2, <1>3, <1>4 DEF IInv

\* A call that returns, or is interrupted.
LEMMA Returns ==
  ASSUME IInv, call' = Idle, work' = E!Off,
         UNCHANGED <<chain, attempts, store, snap, policy, cycles, archive>>,
         run' \in Runs, run'.ctx = run.ctx, ApprovalOK'
  PROVE  IInv'
<1> USE Parts
<1>1. UNCHANGED <<chain, attempts, planFile, reviewFile, plain, snap, policy, cycles, archive>>
  BY DEF store
<1>2. TypeOK'
  <2>1. call' \in Call
    BY MissingTyped
  <2>2. work' \in [step : E!Steps, request : Requests \cup {"nothing"}, why : E!Reasons]
    BY DEF E!Off, E!Steps, E!Reasons
  <2> QED BY <1>1, <2>1, <2>2 DEF TypeOK
<1>3. ChainOK' /\ RoundsPaid' /\ GlobalBudget'
  BY <1>1, RecordsKept
<1>4. call'.pc = "idle" /\ ~call'.chained
  BY DEF Idle
<1>5. CallOK'
  BY <1>4 DEF CallOK, At, InChain, BeforeContext
<1>6. AttemptOK'
  BY <1>4 DEF AttemptOK, Revising
<1>7. ProgressOK'
  BY <1>4 DEF ProgressOK, At, Unreviewed
<1>8. EvidenceOK'
  <2>1. E!Completed' = E!Completed
    BY <1>1, NamespaceKept
  <2>2. work'.step = "off"
    BY DEF E!Off
  <2> QED BY <1>1, <2>1, <2>2 DEF EvidenceOK, E!Off
<1> QED BY <1>2, <1>3, <1>5, <1>6, <1>7, <1>8 DEF IInv

\* A run that is not approved carries nothing; an untouched one with the
\* same approval files carries what it carried.
LEMMA ApprovalKept ==
  ASSUME IInv,
         \/ ~Approved'
         \/ run' = run /\ StoredReview' = StoredReview /\ LeftChain' = LeftChain
  PROVE  ApprovalOK'
<1>1. CASE ~Approved'
  BY <1>1 DEF ApprovalOK
<1>2. CASE run' = run /\ StoredReview' = StoredReview /\ LeftChain' = LeftChain
  BY <1>2, Parts DEF ApprovalOK, Approved
<1> QED BY <1>1, <1>2

\* A call that saves the run with a status that is not an approval's, or does
\* not save it, and returns.
LEMMA ReturnsUnapproved ==
  ASSUME IInv, call' = Idle, work' = E!Off,
         UNCHANGED <<chain, attempts, store, snap, policy, cycles, archive>>,
         \/ run' = run
         \/ \E status \in Statuses \ {"APPROVED", "EXPORTED"} : Save(status)
  PROVE  IInv'
<1>1. run \in Runs
  BY Parts DEF TypeOK
<1>2. CASE run' = run
  <2>1. UNCHANGED <<chain, attempts, reviewFile, cycles>> /\ plain'.review = plain.review
    BY DEF store
  <2>2. ApprovalOK'
    BY <1>2, <2>1, RecordsKept, ApprovalKept
  <2> QED BY <1>1, <1>2, <2>2, Returns
<1>3. CASE \E status \in Statuses \ {"APPROVED", "EXPORTED"} : Save(status)
  <2>1. PICK status \in Statuses \ {"APPROVED", "EXPORTED"} :
          run' = [run EXCEPT !.status = status]
    BY <1>3 DEF Save
  <2>2. run' \in Runs /\ run'.ctx = run.ctx /\ run'.status = status
    BY <1>1, <2>1 DEF Runs
  <2>3. ApprovalOK'
    BY <2>2, ApprovalKept DEF Approved
  <2> QED BY <2>2, <2>3, Returns
<1> QED BY <1>2, <1>3

\* _revision_block terminates the chain, whether or not a review had ended it.
LEMMA Blocks ==
  ASSUME IInv, NEW reason \in BlockReasons, Block(reason), ~At("idle"), call.chained,
         work.step = "off", run.ctx.snap # 0 \/ reason = "TRUSTED_CONTEXT_CHANGED",
         UNCHANGED <<run, attempts, store, snap, evidence>>
  PROVE  IInv'
<1> USE Parts
<1>1. UNCHANGED <<attempts, planFile, reviewFile, plain, snap, policy, cycles, archive, work>>
  BY DEF store, evidence
<1>2. /\ chain' = [chain EXCEPT !.term = reason]
      /\ call' = [call EXCEPT !.pc = "blocking"]
  BY DEF Block, Goto
<1>3. /\ chain' \in Chains /\ chain'.rounds = chain.rounds /\ chain'.max = chain.max
      /\ chain'.ctx = chain.ctx /\ chain'.term = reason
  BY <1>2 DEF TypeOK, Chains, Terminations
<1>4. /\ call' \in Call /\ call'.pc = "blocking" /\ call'.opt = call.opt
      /\ call'.chained = call.chained
  BY <1>2 DEF TypeOK, Call, PCs
<1>5. TypeOK'
  BY <1>1, <1>3, <1>4 DEF TypeOK
<1>6. /\ HasChain' = HasChain /\ LastRound' = LastRound /\ LastIndex' = LastIndex
      /\ LiveChain' => LiveChain
      /\ ~LeftChain' => ~LeftChain
  BY <1>3 DEF HasChain, LastRound, LastIndex, LeftChain, LiveChain, BlockReasons
<1>7. CallOK'
  BY <1>3, <1>4, <1>6 DEF CallOK, At, ChainInEffect, HasChain, InChain, Closing, BeforeContext
<1>14. StoredReview' = StoredReview
  <2>1. E!Namespace' = E!Namespace
    BY <1>1, NamespaceKept
  <2> QED BY <1>1, <1>6, <2>1 DEF StoredReview, Prefix
<1>8. ChainOK'
  BY <1>1, <1>3, <1>6, <1>14 DEF ChainOK
<1>9. AttemptOK'
  BY <1>4 DEF AttemptOK, Revising
<1>10. ProgressOK'
  BY <1>4 DEF ProgressOK, At, Unreviewed
<1>11. EvidenceOK'
  BY <1>1, <1>3, EvidenceKept
<1>12. ApprovalOK'
  BY <1>6, <1>14 DEF ApprovalOK, Approved
<1>13. RoundsPaid' /\ GlobalBudget'
  BY <1>1, <1>3 DEF RoundsPaid, GlobalBudget
<1> QED BY <1>5, <1>7, <1>8, <1>9, <1>10, <1>11, <1>12, <1>13 DEF IInv

-----------------------------------------------------------------------------
(* Entering, and building the context. *)

\* A step of the call that saves only the run's status.
LEMMA Saves ==
  ASSUME IInv, NEW status \in Statuses \ {"APPROVED", "EXPORTED"}, Save(status),
         NEW pc \in PCs \ {"idle", "blocking"}, Goto(pc), ~At("idle"),
         work.step = "off", UNCHANGED <<chain, attempts, store, snap, evidence>>,
         pc \in InChain => call.chained,
         call.chained /\ pc \notin Closing => chain.term = "none",
         pc \notin BeforeContext => run.ctx.snap # 0,
         AttemptOK', ProgressOK'
  PROVE  IInv'
<1> USE Parts
<1>1. /\ run' \in Runs /\ run'.ctx = run.ctx /\ run'.status = status
  BY DEF Save, TypeOK, Runs
<1>2. /\ call' \in Call /\ call'.pc = pc /\ call'.opt = call.opt
      /\ call'.chained = call.chained
  BY DEF Goto, TypeOK, Call
<1>3. HasChain' = HasChain /\ LiveChain' = LiveChain
  BY DEF HasChain, LiveChain, LastRound
<1>4. CallOK'
  BY <1>1, <1>2, <1>3 DEF CallOK, At, ChainInEffect
<1>5. ApprovalOK'
  BY <1>1, ApprovalKept DEF Approved
<1> QED BY <1>1, <1>2, <1>4, <1>5, SameFiles

LEMMA EnterKeeps ==
  ASSUME IInv, NEW opt \in Options, Enter(opt)
  PROVE  IInv'
<1> USE Parts
<1>1. /\ UNCHANGED <<run, chain, attempts, planFile, reviewFile, plain, snap, cycles,
                     archive, work>>
      /\ At("idle") /\ E!EnsurePolicy(opt.cycles) /\ call = Idle
  BY DEF Enter, store, E!EnsurePolicy, CallOK
<1>2. policy' \in 0 .. CycleLimit /\ Len(cycles) <= policy'
  <2>1. opt.cycles \in 0 .. CycleLimit /\ policy \in 0 .. CycleLimit
        /\ Len(cycles) \in Nat
    BY OptionFields DEF TypeOK
  <2>2. CASE policy = 0
    BY <2>1, <2>2, <1>1 DEF E!EnsurePolicy
  <2>3. CASE policy # 0
    BY <2>1, <2>3, <1>1 DEF E!EnsurePolicy
  <2> QED BY <2>2, <2>3
<1> DEFINE entered == [Idle EXCEPT !.pc = "entered", !.opt = opt, !.prev = run,
                                   !.chained = ChainInEffect(run)]
<1>3. \/ call' = call
      \/ /\ call' = entered
         /\ ChainInEffect(run) => chain.term = "none"
  BY DEF Enter
<1>4. /\ entered \in Call /\ entered.pc = "entered" /\ entered.opt = opt
      /\ entered.chained = ChainInEffect(run)
  <2>1. ChainInEffect(run) \in BOOLEAN
    BY DEF ChainInEffect, HasChain
  <2> QED BY <2>1, MissingTyped DEF TypeOK, Call, Idle, PCs
<1> HIDE DEF entered
<1>5. TypeOK'
  <2>1. call' \in Call
    BY <1>3, <1>4 DEF TypeOK
  <2> QED BY <1>1, <1>2, <2>1 DEF TypeOK
<1>6. /\ HasChain' = HasChain /\ LiveChain' = LiveChain /\ StoredReview' = StoredReview
      /\ LeftChain' = LeftChain /\ ChainOK' /\ RoundsPaid' /\ GlobalBudget'
  BY <1>1, RecordsKept
<1>7. ApprovalOK'
  BY <1>1, <1>6, ApprovalKept
<1>8. EvidenceOK'
  <2>1. E!Completed' = E!Completed
    BY <1>1, NamespaceKept
  <2>2. work.step = "off" /\ work = E!Off
    BY <1>1, ResolverOff DEF At
  <2> QED BY <1>1, <1>2, <2>1, <2>2 DEF EvidenceOK, E!Off
<1>9. LiveChain => ChainInEffect(run)
  BY DEF ChainOK, ChainInEffect, LiveChain
<1>10. CASE call' = call
  BY <1>1, <1>5, <1>6, <1>7, <1>8, <1>10 DEF IInv, CallOK, AttemptOK, ProgressOK, At, Idle,
     InChain, BeforeContext, Revising, Unreviewed
<1>11. CASE call' = entered /\ (ChainInEffect(run) => chain.term = "none")
  <2>1. /\ call'.pc = "entered" /\ call'.opt = opt
        /\ call'.chained = ChainInEffect(run)
    BY <1>4, <1>11
  <2>2. CallOK'
    BY <1>1, <1>6, <1>9, <1>11, <2>1
       DEF CallOK, At, InChain, BeforeContext, ChainInEffect, HasChain
  <2>3. AttemptOK'
    BY <2>1 DEF AttemptOK, Revising
  <2>4. ProgressOK'
    BY <2>1 DEF ProgressOK, At, Unreviewed
  <2> QED BY <1>5, <1>6, <1>7, <1>8, <2>2, <2>3, <2>4 DEF IInv
<1> QED BY <1>3, <1>10, <1>11

LEMMA CurationPendingKeeps == IInv /\ CurationPending => IInv'
<1> SUFFICES ASSUME IInv, CurationPending PROVE IInv'
  OBVIOUS
<1>1. work.step = "off" /\ work = E!Off
  BY Parts, ResolverOff DEF CurationPending, At
<1>2. work' = E!Off /\ UNCHANGED <<policy, cycles, archive>>
  BY <1>1 DEF CurationPending, evidence
<1> QED BY <1>2, ReturnsUnapproved DEF CurationPending, Return, Statuses

LEMMA FailStageKeeps == IInv /\ FailStage => IInv'
<1> SUFFICES ASSUME IInv, FailStage PROVE IInv'
  OBVIOUS
<1>1. work' = E!Off /\ UNCHANGED <<policy, cycles, archive>>
  BY Parts DEF FailStage, Quiet, EvidenceOK, evidence
<1> QED BY <1>1, ReturnsUnapproved DEF FailStage, Return, Statuses

LEMMA DryReturnKeeps == IInv /\ DryReturn => IInv'
<1> SUFFICES ASSUME IInv, DryReturn PROVE IInv'
  OBVIOUS
<1>1. work = E!Off
  BY Parts, ResolverOff DEF DryReturn, At
<1>2. work' = E!Off /\ UNCHANGED <<policy, cycles, archive>>
  BY <1>1 DEF DryReturn, evidence
<1> QED BY <1>2, ReturnsUnapproved DEF DryReturn, Return

LEMMA ReadyKeeps == IInv /\ Ready => IInv'
<1> SUFFICES ASSUME IInv, Ready PROVE IInv'
  OBVIOUS
<1> USE Parts
<1>1. /\ At("entered") /\ Save("READY") /\ Goto("ready")
      /\ UNCHANGED <<chain, attempts, store, snap, evidence>>
  BY DEF Ready
<1>2. work.step = "off"
  BY <1>1, ResolverOff DEF At
<1>3. call'.pc = "ready" /\ run'.status = "READY"
  BY <1>1 DEF Goto, Save, TypeOK, Call, Runs
<1>4. AttemptOK' /\ ProgressOK'
  BY <1>3 DEF AttemptOK, ProgressOK, Revising, At, Approved
<1>5. call.chained => chain.term = "none"
  BY <1>1 DEF CallOK, At, Closing
<1> QED BY <1>1, <1>2, <1>4, <1>5, Saves DEF Statuses, PCs, InChain, BeforeContext, At

LEMMA InterpretKeeps == IInv /\ Interpret => IInv'
<1> SUFFICES ASSUME IInv, Interpret PROVE IInv'
  OBVIOUS
<1> USE Parts
<1>1. /\ At("context") /\ Save("INTERPRETED") /\ Goto("interpreted")
      /\ UNCHANGED <<chain, attempts, store, snap, evidence>>
  BY DEF Interpret
<1>2. work.step = "off"
  BY <1>1, ResolverOff DEF At
<1>3. call'.pc = "interpreted" /\ run'.status = "INTERPRETED"
  BY <1>1 DEF Goto, Save, TypeOK, Call, Runs
<1>4. AttemptOK' /\ ProgressOK'
  BY <1>3 DEF AttemptOK, ProgressOK, Revising, At, Approved
<1>5. (call.chained => chain.term = "none") /\ run.ctx.snap # 0
  BY <1>1 DEF CallOK, At, Closing, BeforeContext
<1> QED BY <1>1, <1>2, <1>4, <1>5, Saves DEF Statuses, PCs, InChain, At

LEMMA BuildContextKeeps == IInv /\ BuildContext => IInv'
<1> SUFFICES ASSUME IInv, BuildContext PROVE IInv'
  OBVIOUS
<1> USE Parts
<1> DEFINE c == [snap |-> snap, cyc |-> E!ChildFor(snap)]
<1>1. At("ready") /\ UNCHANGED <<attempts, store, snap, evidence>> /\ work.step = "off"
  BY ResolverOff DEF BuildContext, At
<1>2. CASE call.chained /\ chain.ctx # c /\ Block("TRUSTED_CONTEXT_CHANGED") /\ UNCHANGED run
  BY <1>1, <1>2, Blocks DEF At, BlockReasons
<1>3. CASE /\ call.chained => chain.ctx = c
           /\ run' = [IF run.ctx \in {NoContext, c} THEN run ELSE Cleared(run)
                      EXCEPT !.status = "CONTEXT_BUILT", !.ctx = c]
           /\ Goto("context")
           /\ UNCHANGED chain
  <2>1. /\ c \in Contexts /\ c.snap = snap /\ snap # 0
        /\ c.cyc = 0 \/ c.cyc \in E!Completed
    BY PrefixesTyped, NewestIsCompleted DEF TypeOK, Contexts
  <2> HIDE DEF c
  <2>2. /\ run' \in Runs /\ run'.ctx = c /\ run'.status = "CONTEXT_BUILT"
    <3>1. Cleared(run) \in Runs
      BY MissingTyped DEF Cleared, Runs, TypeOK
    <3> QED BY <1>3, <2>1, <3>1 DEF TypeOK, Runs, Statuses
  <2>3. /\ call' \in Call /\ call'.pc = "context" /\ call'.opt = call.opt
        /\ call'.chained = call.chained
    BY <1>3 DEF Goto, TypeOK, Call, PCs
  <2>4. UNCHANGED <<planFile, reviewFile, plain, policy, cycles, archive, work>>
    BY <1>1 DEF store, evidence
  <2>5. TypeOK'
    BY <1>1, <1>3, <2>2, <2>3, <2>4 DEF TypeOK
  <2>6. /\ HasChain' = HasChain /\ LiveChain' = LiveChain /\ StoredReview' = StoredReview
        /\ LastRound' = LastRound /\ RoundsPaid' /\ GlobalBudget'
    BY <1>1, <1>3, <2>4, RecordsKept
  <2>7. LiveChain => call.chained
    BY <1>1 DEF CallOK, At
  <2>8. CallOK'
    BY <1>1, <1>3, <2>1, <2>2, <2>3, <2>6
       DEF CallOK, At, ChainInEffect, InChain, Closing, BeforeContext
  <2>9. ChainOK'
    BY <1>1, <1>3, <2>2, <2>6, <2>7 DEF ChainOK
  <2>10. AttemptOK' /\ ProgressOK'
    BY <2>2, <2>3 DEF AttemptOK, ProgressOK, Revising, At, Approved
  <2>11. EvidenceOK'
    <3>1. E!Completed' = E!Completed
      BY <2>4, NamespaceKept
    <3>2. work = E!Off
      BY <1>1 DEF EvidenceOK
    <3> QED BY <1>1, <1>3, <2>1, <2>2, <2>4, <3>1, <3>2 DEF EvidenceOK, E!Off
  <2>12. ApprovalOK'
    BY <2>2, ApprovalKept DEF Approved
  <2> QED BY <2>5, <2>6, <2>8, <2>9, <2>10, <2>11, <2>12 DEF IInv
<1> QED BY <1>2, <1>3 DEF BuildContext

-----------------------------------------------------------------------------
(* Evidence resolution. *)

\* Replacing the last element of a non-empty sequence.
LEMMA LastReplaced ==
  ASSUME NEW S, NEW s \in Seq(S), s # <<>>, NEW c \in S,
         NEW t, t = [s EXCEPT ![Len(s)] = c]
  PROVE  /\ t \in Seq(S) /\ t # <<>> /\ Len(t) = Len(s) /\ DOMAIN t = DOMAIN s
         /\ Len(s) \in DOMAIN s /\ t[Len(t)] = c /\ DOMAIN s = 1 .. Len(s)
         /\ \A i \in DOMAIN s : i # Len(s) => t[i] = s[i]
<1>1. Len(s) \in 1 .. Len(s) /\ DOMAIN s = 1 .. Len(s) /\ Len(s) \in Nat
  OBVIOUS
<1>2. /\ t \in Seq(S) /\ Len(t) = Len(s)
      /\ \A j \in 1 .. Len(s) : t[j] = IF j = Len(s) THEN c ELSE s[j]
  BY <1>1, ExceptSeq
<1>3. DOMAIN t = 1 .. Len(s) /\ t # <<>>
  BY <1>1, <1>2
<1> QED
  BY <1>1, <1>2, <1>3

\* Appending to a sequence.
LEMMA Appended ==
  ASSUME NEW S, NEW s \in Seq(S), NEW c \in S, NEW t, t = Append(s, c)
  PROVE  /\ t \in Seq(S) /\ t # <<>> /\ Len(t) = Len(s) + 1 /\ Len(s) \in Nat
         /\ DOMAIN t = 1 .. Len(s) + 1 /\ DOMAIN s = 1 .. Len(s)
         /\ t[Len(t)] = c /\ \A i \in 1 .. Len(s) : t[i] = s[i]
OBVIOUS

\* Resolution is not entered while the chain is live, so what it changes of
\* the namespace moves no file the run still refers to.
LEMMA NotLive ==
  ASSUME IInv, InGap \/ At("triggered")
  PROVE  ~LiveChain
<1>1. CASE InGap
  <2>1. ~At("idle") /\ ~call.chained
    BY <1>1 DEF InGap, At
  <2> QED BY <2>1, Parts DEF CallOK
<1>2. CASE At("triggered")
  BY <1>2, Parts DEF ProgressOK
<1> QED BY <1>1, <1>2

\* A step of the resolver keeps everything but the cycles, which it keeps in
\* order.
LEMMA ResolverStep ==
  ASSUME IInv, InGap \/ At("triggered"),
         UNCHANGED <<run, chain, attempts, store, snap, call, policy, archive>>,
         cycles' \in Seq(E!Cycle), EvidenceOK',
         work' \in [step : E!Steps, request : Requests \cup {"nothing"}, why : E!Reasons]
  PROVE  IInv'
<1> USE Parts
<1>1. UNCHANGED <<planFile, reviewFile, plain>>
  BY DEF store
<1>2. TypeOK'
  BY <1>1 DEF TypeOK
<1>3. /\ HasChain' = HasChain /\ LastRound' = LastRound /\ LeftChain' = LeftChain
      /\ LiveChain' = LiveChain /\ ~LiveChain
  BY NotLive DEF HasChain, LastRound, LeftChain, LiveChain
<1>4. CallOK'
  BY <1>3 DEF CallOK, At, ChainInEffect
<1>5. ChainOK'
  BY <1>3 DEF ChainOK
<1>6. AttemptOK' /\ RoundsPaid' /\ GlobalBudget'
  BY DEF AttemptOK, At, Open, LastAttempt, RoundsPaid, GlobalBudget
<1>7. call.pc \in {"interpreted", "triggered"}
  BY DEF InGap, At
<1>8. ProgressOK'
  BY <1>3, <1>7 DEF ProgressOK, At, Approved
<1>9. ApprovalOK'
  <2> SUFFICES ASSUME Approved, ~LeftChain PROVE StoredReview' = StoredReview
    BY <1>3 DEF ApprovalOK, Approved
  <2>1. ~HasChain
    BY <1>3 DEF LiveChain, LeftChain
  <2> QED BY <1>1, <1>3, <2>1 DEF StoredReview
<1> QED BY <1>2, <1>4, <1>5, <1>6, <1>8, <1>9 DEF IInv

\* A cycle is refused or claimed.
LEMMA DecisionKeeps ==
  ASSUME IInv, InGap \/ At("triggered"), work.step = "off",
         NEW t \in {"gap", "review"}, E!Refuse(run.ctx.snap) \/ E!Claim(run.ctx.snap, t),
         UNCHANGED <<run, chain, attempts, store, snap, call>>
  PROVE  IInv'
<1> USE Parts
<1>1. UNCHANGED <<policy, archive>>
  BY DEF E!Refuse, E!Claim
<1>2. InGap' = InGap /\ At("triggered")' = At("triggered")
  BY DEF InGap, At
<1>3. CASE E!Refuse(run.ctx.snap)
  <2>1. UNCHANGED cycles /\ work' \in [step : {"blocked"}, request : {"nothing"}, why : E!Reasons]
    BY <1>3 DEF E!Refuse, E!Blocked, E!Off, E!Reasons
  <2>2. E!Completed' = E!Completed /\ cycles \in Seq(E!Cycle)
    BY <2>1, NamespaceKept DEF TypeOK
  <2>3. EvidenceOK'
    BY <1>1, <1>2, <2>1, <2>2 DEF EvidenceOK
  <2>4. work' \in [step : E!Steps, request : Requests \cup {"nothing"}, why : E!Reasons]
    BY <2>1 DEF E!Steps
  <2> QED BY <1>1, <2>1, <2>2, <2>3, <2>4, ResolverStep
<1>4. CASE E!Claim(run.ctx.snap, t)
  <2> DEFINE c == [snap |-> run.ctx.snap, trigger |-> t, calls |-> 0, saved |-> FALSE,
                   request |-> "nothing", outcome |-> E!Unasked, record |-> "none"]
  <2>1. /\ cycles' = Append(cycles, c) /\ ~E!Exhausted
        /\ work' = [step |-> "claimed", request |-> "nothing", why |-> "none"]
    BY <1>4 DEF E!Claim, E!Off
  <2>2. c \in E!Cycle
    <3>1. run.ctx.snap \in Nat
      BY FieldsTyped, RunAssumption DEF Contexts
    <3> QED BY <3>1 DEF E!Cycle, E!Triggers
  <2>3. c.record = "none" /\ c.calls = 0
    OBVIOUS
  <2> HIDE DEF c
  <2>4. /\ cycles' \in Seq(E!Cycle) /\ cycles' # <<>> /\ Len(cycles') = Len(cycles) + 1
        /\ E!Last' = c /\ E!Completed \subseteq E!Completed'
    <3>1. cycles \in Seq(E!Cycle)
      BY DEF TypeOK
    <3> QED BY <2>1, <2>2, <3>1, Appended DEF E!Last, E!Completed
  <2>5. Len(cycles') <= policy'
    BY <1>1, <2>1, <2>4, NewestIsCompleted, RunAssumption DEF E!Exhausted, TypeOK
  <2>6. EvidenceOK'
    BY <1>2, <2>1, <2>3, <2>4, <2>5 DEF EvidenceOK
  <2>7. work' \in [step : E!Steps, request : Requests \cup {"nothing"}, why : E!Reasons]
    BY <2>1 DEF E!Steps, E!Reasons
  <2> QED BY <1>1, <2>4, <2>6, <2>7, ResolverStep
<1> QED BY <1>3, <1>4

LEMMA ResolveGapKeeps == IInv /\ ResolveGap => IInv'
BY DecisionKeeps DEF ResolveGap, Quiet

LEMMA ResolveReviewKeeps == IInv /\ ResolveReview => IInv'
BY DecisionKeeps DEF ResolveReview, Quiet

LEMMA EvidenceStepKeeps == IInv /\ EvidenceStep => IInv'
<1> SUFFICES ASSUME IInv, EvidenceStep PROVE IInv'
  OBVIOUS
<1> USE Parts
<1>1. E!Resolving /\ UNCHANGED <<run, chain, attempts, store, snap, call>>
  BY DEF EvidenceStep
<1>2. /\ UNCHANGED <<policy, archive>>
      /\ work.step \in {"claimed", "asked", "requested", "resolved"} /\ work'.step # "off"
      /\ work'.step # "claimed"
  BY <1>1 DEF E!Resolving, E!Ask, E!ProviderUnavailable, E!RepeatRefused, E!SaveRequests,
     E!Resolve, E!CloseTerminal, E!CloseWithChild, E!Fail, E!Blocked, E!Off, TypeOK
<1>4. /\ InGap \/ At("triggered")
      /\ cycles # <<>> /\ E!Last.record = "none"
      /\ InGap' = InGap /\ At("triggered")' = At("triggered")
  BY <1>1, <1>2 DEF EvidenceOK, InGap, At
<1>5. cycles \in Seq(E!Cycle) /\ Len(cycles) \in DOMAIN cycles /\ E!Last \in E!Cycle
  BY <1>4 DEF TypeOK, E!Last
<1>6. ASSUME UNCHANGED cycles, work'.step \in {"asked", "blocked", "failed"},
             work' \in [step : E!Steps, request : Requests \cup {"nothing"}, why : E!Reasons]
      PROVE  IInv'
  <2>1. E!Completed' = E!Completed /\ E!Last' = E!Last
    BY <1>6, NamespaceKept DEF E!Last
  <2>2. EvidenceOK'
    BY <1>1, <1>2, <1>4, <1>6, <2>1 DEF EvidenceOK
  <2> QED BY <1>1, <1>2, <1>4, <1>5, <1>6, <2>2, ResolverStep
<1>7. ASSUME NEW c \in E!Cycle, cycles' = [cycles EXCEPT ![Len(cycles)] = c],
             work'.step \in {"asked", "requested", "resolved"} => c.record = "none",
             work'.step = "resolved" => c.outcome # E!Unasked,
             work'.step = "child" => c.record = "child",
             work' \in [step : E!Steps, request : Requests \cup {"nothing"}, why : E!Reasons]
      PROVE  IInv'
  <2>1. /\ cycles' \in Seq(E!Cycle) /\ cycles' # <<>> /\ Len(cycles') = Len(cycles)
        /\ DOMAIN cycles' = DOMAIN cycles /\ cycles'[Len(cycles')] = c
        /\ \A i \in DOMAIN cycles : i # Len(cycles) => cycles'[i] = cycles[i]
    BY <1>4, <1>5, <1>7, LastReplaced
  <2>2. E!Last' = c
    BY <2>1 DEF E!Last
  <2>3. Len(cycles) \notin E!Completed /\ E!Completed \subseteq E!Completed'
    BY <1>4, <2>1 DEF E!Completed, E!Last
  <2>4. chain.ctx.cyc # Len(cycles)
    BY <1>5, <2>3, NewestIsCompleted DEF EvidenceOK
  <2>5. EvidenceOK'
    BY <1>1, <1>2, <1>4, <1>7, <2>1, <2>2, <2>3, <2>4 DEF EvidenceOK
  <2> QED BY <1>1, <1>2, <1>4, <1>7, <2>1, <2>5, ResolverStep
<1>8. work \in [step : E!Steps, request : Requests \cup {"nothing"}, why : E!Reasons]
  BY DEF TypeOK
<1>9. CASE \E request \in Requests \cup {"nothing"} : E!Ask(request)
  <2>1. PICK request \in Requests \cup {"nothing"} : E!Ask(request)
    BY <1>9
  <2>2. /\ work' \in [step : E!Steps, request : Requests \cup {"nothing"}, why : E!Reasons]
        /\ work'.step = "asked" /\ work.step = "claimed"
    BY <1>8, <2>1 DEF E!Ask, E!Steps
  <2>3. CASE UNCHANGED cycles
    BY <1>6, <2>2, <2>3
  <2>4. CASE cycles' = [cycles EXCEPT ![Len(cycles)].calls = @ + 1]
    <3> DEFINE c == [E!Last EXCEPT !.calls = 1]
    <3>1. E!Last.calls = 0
      BY <2>2 DEF EvidenceOK
    <3>2. c \in E!Cycle /\ c.record = "none"
      <4>1. \A l \in E!Cycle : /\ [l EXCEPT !.calls = 1] \in E!Cycle
                               /\ [l EXCEPT !.calls = 1].record = l.record
        BY DEF E!Cycle
      <4> QED BY <1>4, <1>5, <4>1
    <3>3. cycles' = [cycles EXCEPT ![Len(cycles)] = c]
      <4>1. cycles' = [cycles EXCEPT ![Len(cycles)] =
                         [cycles[Len(cycles)] EXCEPT !.calls = cycles[Len(cycles)].calls + 1]]
        BY <2>4
      <4>2. cycles[Len(cycles)].calls = 0
        BY <3>1 DEF E!Last
      <4> QED BY <4>1, <4>2 DEF E!Last
    <3> HIDE DEF c
    <3> QED BY <1>7, <2>2, <3>2, <3>3
  <2> QED BY <2>1, <2>3, <2>4 DEF E!Ask
<1>10. CASE E!ProviderUnavailable \/ E!RepeatRefused \/ E!Fail
  BY <1>6, <1>10 DEF E!ProviderUnavailable, E!RepeatRefused, E!Fail, E!Blocked, E!Off,
     E!Steps, E!Reasons
<1>11. CASE E!SaveRequests
  <2> DEFINE c == [E!Last EXCEPT !.saved = TRUE, !.request = work.request]
  <2>1. c \in E!Cycle /\ c.record = "none"
    BY <1>4, <1>5, <1>8 DEF E!Cycle
  <2>2. cycles' = [cycles EXCEPT ![Len(cycles)] = c]
    BY <1>5, <1>11 DEF E!SaveRequests, E!Last, E!Cycle
  <2>3. /\ work' \in [step : E!Steps, request : Requests \cup {"nothing"}, why : E!Reasons]
        /\ work'.step = "requested"
    BY <1>8, <1>11 DEF E!SaveRequests, E!Steps
  <2> HIDE DEF c
  <2> QED BY <1>7, <2>1, <2>2, <2>3
<1>12. CASE \E outcome \in E!Outcomes : E!Resolve(outcome)
  <2>1. PICK outcome \in E!Outcomes : E!Resolve(outcome)
    BY <1>12
  <2> DEFINE c == [E!Last EXCEPT !.outcome = outcome]
  <2>2. c \in E!Cycle /\ c.record = "none" /\ c.outcome # E!Unasked
    BY <1>4, <1>5 DEF E!Cycle, E!Outcomes, E!Unasked
  <2>3. cycles' = [cycles EXCEPT ![Len(cycles)] = c]
    BY <1>5, <2>1 DEF E!Resolve, E!Last, E!Cycle
  <2>4. /\ work' \in [step : E!Steps, request : Requests \cup {"nothing"}, why : E!Reasons]
        /\ work'.step = "resolved"
    BY <1>8, <2>1 DEF E!Resolve, E!Steps
  <2> HIDE DEF c
  <2> QED BY <1>7, <2>2, <2>3, <2>4
<1>13. CASE E!CloseTerminal
  <2> DEFINE c == [E!Last EXCEPT !.record = "terminal"]
  <2>1. c \in E!Cycle
    BY <1>5 DEF E!Cycle
  <2>2. cycles' = [cycles EXCEPT ![Len(cycles)] = c]
    BY <1>5, <1>13 DEF E!CloseTerminal, E!Last, E!Cycle
  <2>3. E!Last.outcome \in E!Outcomes
    BY <1>5, <1>13 DEF E!CloseTerminal, EvidenceOK, E!Cycle
  <2>4. /\ work' \in [step : E!Steps, request : Requests \cup {"nothing"}, why : E!Reasons]
        /\ work'.step = "blocked"
    BY <1>13, <2>3 DEF E!CloseTerminal, E!Blocked, E!Off, E!Steps, E!Reasons
  <2> HIDE DEF c
  <2> QED BY <1>7, <2>1, <2>2, <2>4
<1>14. CASE E!CloseWithChild
  <2> DEFINE c == [E!Last EXCEPT !.record = "child"]
  <2>1. c \in E!Cycle /\ c.record = "child"
    BY <1>5 DEF E!Cycle
  <2>2. cycles' = [cycles EXCEPT ![Len(cycles)] = c]
    BY <1>5, <1>14 DEF E!CloseWithChild, E!Last, E!Cycle
  <2>3. /\ work' \in [step : E!Steps, request : Requests \cup {"nothing"}, why : E!Reasons]
        /\ work'.step = "child"
    BY <1>14 DEF E!CloseWithChild, E!Off, E!Steps, E!Reasons
  <2> HIDE DEF c
  <2> QED BY <1>7, <2>1, <2>2, <2>3
<1> QED BY <1>1, <1>9, <1>10, <1>11, <1>12, <1>13, <1>14 DEF E!Resolving

LEMMA EvidenceBlockedKeeps == IInv /\ EvidenceBlocked => IInv'
<1> SUFFICES ASSUME IInv, EvidenceBlocked PROVE IInv'
  OBVIOUS
<1>1. /\ call' = Idle /\ work' = E!Off
      /\ UNCHANGED <<chain, attempts, store, snap, policy, cycles, archive>>
  BY DEF EvidenceBlocked, Return, E!Finish
<1>2. \E status \in Statuses \ {"APPROVED", "EXPORTED"} : Save(status)
  BY DEF EvidenceBlocked, Statuses
<1> QED BY <1>1, <1>2, ReturnsUnapproved

LEMMA EvidenceFailedKeeps == IInv /\ EvidenceFailed => IInv'
<1> SUFFICES ASSUME IInv, EvidenceFailed PROVE IInv'
  OBVIOUS
<1>1. /\ call' = Idle /\ work' = E!Off
      /\ UNCHANGED <<chain, attempts, store, snap, policy, cycles, archive>>
  BY DEF EvidenceFailed, Return, E!Finish
<1>2. run' = run \/ \E status \in Statuses \ {"APPROVED", "EXPORTED"} : Save(status)
  BY DEF EvidenceFailed, Statuses
<1> QED BY <1>1, <1>2, ReturnsUnapproved

\* The child of the cycle just completed is a new context, so a chain made
\* for an older one is not in effect when the call starts over.
LEMMA EvidenceChildKeeps == IInv /\ EvidenceChild => IInv'
<1> SUFFICES ASSUME IInv, EvidenceChild PROVE IInv'
  OBVIOUS
<1> USE Parts
<1>1. /\ work.step = "child" /\ work' = E!Off
      /\ UNCHANGED <<chain, attempts, planFile, reviewFile, plain, snap, policy, cycles, archive>>
      /\ run' = [Cleared(run) EXCEPT !.status = "INTERPRETED", !.ctx.cyc = E!LatestCompleted]
  BY DEF EvidenceChild, E!Finish, store
<1>2. /\ cycles # <<>> /\ E!Last.record = "child" /\ chain.ctx.cyc # Len(cycles)
      /\ InGap \/ At("triggered")
  BY <1>1 DEF EvidenceOK
<1>3. E!LatestCompleted = Len(cycles) /\ Len(cycles) # 0 /\ Len(cycles) \in E!Completed
  <2>1. cycles \in Seq(E!Cycle)
    BY DEF TypeOK
  <2>2. Len(cycles) \in E!Completed /\ Len(cycles) # 0
    BY <1>2, <2>1 DEF E!Completed, E!Last
  <2>3. E!LatestCompleted \in E!Completed /\ E!LatestCompleted >= Len(cycles)
        /\ E!LatestCompleted <= Len(cycles)
    BY <2>2, NewestIsCompleted
  <2> QED BY <2>2, <2>3, NewestIsCompleted
<1>4. /\ run' \in Runs /\ run'.status = "INTERPRETED" /\ run'.ctx.cyc = Len(cycles)
      /\ run'.ctx.snap = run.ctx.snap
  <2>1. run \in Runs /\ run.ctx \in Contexts
    BY FieldsTyped DEF TypeOK
  <2> DEFINE c == [run.ctx EXCEPT !.cyc = E!LatestCompleted]
  <2>2. c \in Contexts /\ c.cyc = E!LatestCompleted /\ c.snap = run.ctx.snap
    BY <2>1, PrefixesTyped DEF Contexts
  <2>3. Cleared(run) \in Runs /\ Cleared(run).ctx = run.ctx
    BY <2>1, MissingTyped DEF Cleared, Runs
  <2>4. run' = [Cleared(run) EXCEPT !.status = "INTERPRETED", !.ctx = c]
    BY <1>1, <2>3 DEF Runs
  <2> HIDE DEF c
  <2> QED BY <1>3, <2>2, <2>3, <2>4 DEF Runs, Statuses
<1>5. ~LiveChain /\ run.ctx.snap # 0
  <2>1. call.pc \in {"interpreted", "triggered"}
    BY <1>2 DEF InGap, At
  <2> QED BY <1>2, <2>1, NotLive DEF CallOK, BeforeContext, At
<1>6. ChainInEffect(run') = FALSE
  <2>1. NoContext.snap = 0
    BY MissingTyped
  <2>2. run'.ctx # NoContext
    BY <1>4, <1>5, <2>1
  <2>3. run'.ctx # chain.ctx
    BY <1>2, <1>4
  <2> QED BY <2>2, <2>3 DEF ChainInEffect
<1>7. /\ HasChain' = HasChain /\ LastRound' = LastRound /\ LeftChain' = LeftChain
      /\ LiveChain' = LiveChain /\ RoundsPaid' /\ GlobalBudget'
  BY <1>1, RecordsKept
<1>8. ChainOK'
  BY <1>1, <1>5, <1>7 DEF ChainOK
<1>9. work' \in [step : E!Steps, request : Requests \cup {"nothing"}, why : E!Reasons]
      /\ work'.step = "off" /\ work' = E!Off'
  BY <1>1 DEF E!Off, E!Steps, E!Reasons
<1>10. EvidenceOK'
  <2>1. E!Completed' = E!Completed
    BY <1>1, NamespaceKept
  <2> QED BY <1>1, <1>3, <1>4, <1>9, <2>1 DEF EvidenceOK
<1>11. ApprovalOK'
  BY <1>4, ApprovalKept DEF Approved
<1>12. ASSUME call' \in Call, call'.pc \in {"interpreted", "entered"}, ~call'.chained,
              call'.opt \in Options
       PROVE  IInv'
  <2>1. TypeOK'
    BY <1>1, <1>4, <1>9, <1>12 DEF TypeOK
  <2>2. CallOK'
    BY <1>4, <1>5, <1>7, <1>12 DEF CallOK, At, InChain, BeforeContext
  <2>3. AttemptOK' /\ ProgressOK'
    BY <1>4, <1>12 DEF AttemptOK, ProgressOK, Revising, At, Approved
  <2> QED BY <1>7, <1>8, <1>10, <1>11, <2>1, <2>2, <2>3 DEF IInv
<1>13. CASE At("interpreted") /\ UNCHANGED call
  <2>1. InGap /\ call \in Call /\ call.opt \in Options
    BY <1>2, <1>13 DEF TypeOK, CallOK, At
  <2> QED BY <1>12, <1>13, <2>1 DEF InGap, At
<1>14. CASE At("triggered") /\ call' = [Idle EXCEPT !.pc = "entered", !.prev = run',
                                        !.opt = [call.opt EXCEPT !.sel = FALSE],
                                        !.chained = ChainInEffect(run')]
  <2> DEFINE opt == [call.opt EXCEPT !.sel = FALSE]
  <2>1. opt \in Options
    <3>1. call.opt \in Options
      BY <1>14 DEF CallOK, At
    <3> QED BY <3>1 DEF Options
  <2> HIDE DEF opt
  <2> DEFINE inEffect == ChainInEffect(run')
  <2>2. call' = [Idle EXCEPT !.pc = "entered", !.prev = run', !.opt = opt, !.chained = inEffect]
    BY <1>14 DEF opt
  <2>3. inEffect = FALSE
    BY <1>6
  <2> HIDE DEF inEffect
  <2>4. call' \in Call /\ call'.pc = "entered" /\ ~call'.chained /\ call'.opt = opt
    BY <1>4, <2>1, <2>2, <2>3, MissingTyped DEF Call, Idle, PCs
  <2> QED BY <1>12, <2>1, <2>4
<1> QED BY <1>13, <1>14 DEF EvidenceChild

-----------------------------------------------------------------------------
(* Planning. *)

LEMMA PlanFromChainKeeps == IInv /\ PlanFromChain => IInv'
<1> SUFFICES ASSUME IInv, PlanFromChain PROVE IInv'
  OBVIOUS
<1> USE Parts
<1>1. At("interpreted") /\ call.chained /\ UNCHANGED <<attempts, store, snap, evidence>>
  BY DEF PlanFromChain
<1>2. HasChain /\ run.ctx.snap # 0 /\ run.ctx = chain.ctx /\ chain.term = "none" /\ ~Approved
  <2>1. ChainInEffect(run) /\ run.ctx.snap # 0 /\ chain.term = "none"
    BY <1>1 DEF CallOK, At, BeforeContext, Closing
  <2>2. ~Approved
    BY <1>1 DEF ProgressOK, At, Unreviewed
  <2> QED BY <2>1, <2>2, MissingTyped DEF ChainInEffect
<1>3. work.step = "off"
  BY <1>1 DEF EvidenceOK, InGap, At
<1>4. CASE Block("PLANNING_INPUT_CHANGED") /\ UNCHANGED run
  BY <1>1, <1>2, <1>3, <1>4, Blocks DEF At, BlockReasons
<1>5. CASE /\ run' = [run EXCEPT !.status = "PLANNED", !.plan = LastRound.plan,
                                 !.sel = call.opt.sel]
           /\ Goto("planned") /\ UNCHANGED chain
  <2>1. LastRound.plan \in Plans /\ LastRound.plan.ctx = chain.ctx
    BY <1>2, ChainTyped, ReviewFields
  <2>2. call.opt.sel \in BOOLEAN
    BY <1>1, OptionFields DEF CallOK, At
  <2>3. /\ run' \in Runs /\ run'.ctx = run.ctx /\ run'.plan = LastRound.plan
        /\ run'.status = "PLANNED"
    BY <1>5, <2>1, <2>2 DEF TypeOK, Runs, Statuses
  <2>4. /\ call' \in Call /\ call'.pc = "planned" /\ call'.opt = call.opt
        /\ call'.chained = call.chained
    BY <1>5 DEF Goto, TypeOK, Call, PCs
  <2>5. HasChain' = HasChain /\ LiveChain' = LiveChain
    BY <1>5 DEF HasChain, LiveChain, LastRound
  <2>6. CallOK'
    BY <1>1, <1>2, <1>5, <2>3, <2>4, <2>5
       DEF CallOK, At, ChainInEffect, InChain
  <2>7. AttemptOK' /\ ProgressOK'
    BY <1>2, <2>1, <2>3, <2>4 DEF AttemptOK, ProgressOK, Revising, At, Approved
  <2>8. ApprovalOK'
    BY <2>3, ApprovalKept DEF Approved
  <2> QED BY <1>1, <1>3, <1>5, <2>3, <2>4, <2>6, <2>7, <2>8, SameFiles
<1> QED BY <1>4, <1>5 DEF PlanFromChain

\* A proposal is written and its plan kept in the call.
LEMMA WriteProposalKeeps ==
  ASSUME IInv, InGap, Quiet, NEW proposal \in Plans, NEW plan \in Plans,
         plan.ctx = run.ctx, WriteProposal(proposal, plan),
         UNCHANGED <<run, chain, attempts, reviewFile, snap, evidence>>
  PROVE  IInv'
<1> USE Parts
<1>1. /\ UNCHANGED <<policy, cycles, archive, work>> /\ At("interpreted") /\ ~call.chained
      /\ work.step = "off" /\ work = E!Off /\ call.opt \in Options
  BY DEF evidence, InGap, Quiet, EvidenceOK, CallOK, At
<1> DEFINE p == Prefix(0)
<1>2. p \in Prefixes
  BY PrefixesTyped, RunAssumption
<1>3. CASE Return /\ UNCHANGED <<planFile, plain>>
  BY <1>1, <1>3, ReturnsUnapproved DEF Return, store
<1>4. CASE /\ call' = [call EXCEPT !.pc = "proposed", !.plan = plan]
           /\ \/ planFile' = [planFile EXCEPT ![p] = proposal] /\ UNCHANGED plain
              \/ plain' = [plain EXCEPT !.plan = proposal] /\ UNCHANGED planFile
  <2>1. /\ call' \in Call /\ call'.pc = "proposed" /\ call'.opt = call.opt
        /\ call'.chained = call.chained /\ call'.plan = plan
    BY <1>4 DEF TypeOK, Call, PCs
  <2>2. planFile' \in [Prefixes -> Plans]
    BY <1>2, <1>4 DEF TypeOK
  <2>3. plain' \in [plan : Plans, review : Reviews] /\ plain'.review = plain.review
    BY <1>4 DEF TypeOK
  <2>4. TypeOK'
    BY <1>1, <2>1, <2>2, <2>3 DEF TypeOK
  <2>5. /\ HasChain' = HasChain /\ LiveChain' = LiveChain /\ StoredReview' = StoredReview
        /\ LeftChain' = LeftChain /\ ChainOK' /\ RoundsPaid' /\ GlobalBudget'
    BY <1>1, <2>3, RecordsKept
  <2>6. ~Approved
    BY <1>1 DEF ProgressOK, At, Unreviewed
  <2>7. CallOK'
    BY <1>1, <2>1, <2>5 DEF CallOK, At, InChain, BeforeContext
  <2>8. AttemptOK' /\ ProgressOK'
    BY <2>1, <2>6 DEF AttemptOK, ProgressOK, Revising, At, Approved
  <2>9. EvidenceOK'
    BY <1>1, EvidenceKept
  <2>10. ApprovalOK'
    BY <2>6, ApprovalKept DEF Approved
  <2> QED BY <2>4, <2>5, <2>7, <2>8, <2>9, <2>10 DEF IInv
<1> QED BY <1>3, <1>4 DEF WriteProposal

LEMMA ProposeKeeps == ASSUME IInv, NEW out \in Outputs, Propose(out) PROVE IInv'
<1> USE Parts
<1> DEFINE plan == [ctx |-> run.ctx, round |-> 0, out |-> out]
<1>1. /\ InGap /\ Quiet
      /\ UNCHANGED <<run, chain, attempts, reviewFile, snap, evidence>>
      /\ \/ WriteProposal(plan, plan)
         \/ Reusable /\ WriteProposal(plain.plan, run.plan)
  BY DEF Propose
<1>2. plan \in Plans /\ plan.ctx = run.ctx
  BY FieldsTyped, RunAssumption DEF Plans
<1>3. plain.plan \in Plans /\ run.plan \in Plans
  BY FieldsTyped
<1> HIDE DEF plan
<1>4. CASE WriteProposal(plan, plan)
  BY <1>1, <1>2, <1>4, WriteProposalKeeps
<1>5. CASE Reusable /\ WriteProposal(plain.plan, run.plan)
  BY <1>1, <1>3, <1>5, WriteProposalKeeps DEF Reusable
<1> QED BY <1>1, <1>4, <1>5

LEMMA SavePlannedKeeps == IInv /\ SavePlanned => IInv'
<1> SUFFICES ASSUME IInv, SavePlanned PROVE IInv'
  OBVIOUS
<1> USE Parts
<1>1. /\ At("proposed") /\ UNCHANGED <<chain, attempts, store, snap, evidence>>
      /\ work.step = "off"
  BY ResolverOff DEF SavePlanned, At
<1>2. /\ call.opt.sel \in BOOLEAN /\ call.plan \in Plans /\ call.plan.ctx = run.ctx
      /\ run.ctx.snap # 0 /\ (call.chained => chain.term = "none")
  BY <1>1, OptionFields, FieldsTyped DEF CallOK, ProgressOK, At, BeforeContext, Closing
<1>3. /\ run' \in Runs /\ run'.ctx = run.ctx /\ run'.plan = call.plan
      /\ run'.status = "PLANNED"
  BY <1>2 DEF SavePlanned, TypeOK, Runs, Statuses
<1>4. /\ call' \in Call /\ call'.pc = "planned" /\ call'.opt = call.opt
      /\ call'.chained = call.chained
  BY DEF SavePlanned, Goto, TypeOK, Call, PCs
<1>5. HasChain' = HasChain /\ LiveChain' = LiveChain
  BY <1>1 DEF HasChain, LiveChain, LastRound
<1>6. CallOK'
  BY <1>1, <1>2, <1>3, <1>4, <1>5 DEF CallOK, At, ChainInEffect, InChain
<1>7. AttemptOK' /\ ProgressOK'
  BY <1>2, <1>3, <1>4 DEF AttemptOK, ProgressOK, Revising, At, Approved
<1>8. ApprovalOK'
  BY <1>3, ApprovalKept DEF Approved
<1> QED BY <1>1, <1>3, <1>4, <1>6, <1>7, <1>8, SameFiles

LEMMA CreateChainKeeps == IInv /\ CreateChain => IInv'
<1> SUFFICES ASSUME IInv, CreateChain PROVE IInv'
  OBVIOUS
<1> USE Parts
<1>1. /\ At("planned") /\ ~call.chained /\ call.opt.rev > 0 /\ work.step = "off"
      /\ UNCHANGED <<run, attempts, planFile, reviewFile, plain, snap, policy, cycles,
                     archive, work>>
  BY ResolverOff DEF CreateChain, CreatesChain, At, store, evidence
<1> DEFINE round == [plan |-> run.plan, input |-> NoReview, review |-> NoReview]
<1>2. /\ call.opt.rev \in RevisionOptions /\ call.opt.rev \in 0 .. MaxRevisions
      /\ run.plan.ctx = run.ctx /\ run.ctx.snap # 0 /\ ~Approved
  BY <1>1, OptionFields DEF CallOK, ProgressOK, At, BeforeContext, Unreviewed
<1>3. /\ round \in Rounds /\ round.plan = run.plan /\ round.review = NoReview
  BY FieldsTyped, MissingTyped DEF Rounds
<1>4. /\ chain' = [ctx |-> run.ctx, max |-> call.opt.rev, term |-> "none", rounds |-> <<round>>]
      /\ call' = [call EXCEPT !.pc = "chained", !.chained = TRUE]
  BY DEF CreateChain
<1> HIDE DEF round
<1>5. /\ <<round>> \in Seq(Rounds) /\ Len(<<round>>) = 1 /\ <<round>>[1] = round
      /\ <<round>> # <<>> /\ DOMAIN <<round>> = {1}
  BY <1>3
<1>6. /\ chain' \in Chains /\ chain'.rounds = <<round>> /\ chain'.term = "none"
      /\ chain'.ctx = run.ctx /\ chain'.max = call.opt.rev
  BY <1>2, <1>4, <1>5, FieldsTyped DEF Chains, Terminations
<1>7. /\ call' \in Call /\ call'.pc = "chained" /\ call'.opt = call.opt /\ call'.chained
  BY <1>4 DEF TypeOK, Call, PCs
<1>8. TypeOK'
  BY <1>1, <1>6, <1>7 DEF TypeOK
<1>9. HasChain' /\ LiveChain' /\ LastRound' = round
  BY <1>5, <1>6 DEF HasChain, LiveChain, LastRound
<1>10. CallOK'
  BY <1>1, <1>2, <1>6, <1>7, <1>9 DEF CallOK, At, ChainInEffect
<1>11. ChainOK'
  <2>1. Len(attempts) \in Nat
    BY ChainTyped
  <2> QED BY <1>1, <1>2, <1>3, <1>5, <1>6, <1>9, <2>1 DEF ChainOK
<1>12. AttemptOK' /\ ProgressOK'
  BY <1>1, <1>2, <1>7 DEF AttemptOK, ProgressOK, Revising, At, Approved
<1>13. EvidenceOK'
  <2>1. E!Completed' = E!Completed
    BY <1>1, NamespaceKept
  <2> QED BY <1>1, <1>6, <2>1 DEF EvidenceOK, E!Off
<1>14. ApprovalOK'
  BY <1>1, <1>2, ApprovalKept DEF Approved
<1>15. RoundsPaid' /\ GlobalBudget'
  BY <1>1, <1>5, <1>6 DEF RoundsPaid, GlobalBudget
<1> QED BY <1>8, <1>10, <1>11, <1>12, <1>13, <1>14, <1>15 DEF IInv

LEMMA SelectRoundKeeps == IInv /\ SelectRound => IInv'
<1> SUFFICES ASSUME IInv, SelectRound PROVE IInv'
  OBVIOUS
<1> USE Parts
<1>1. /\ At("chained") /\ UNCHANGED <<chain, attempts, store, snap, evidence>>
      /\ work.step = "off"
  BY ResolverOff DEF SelectRound, At
<1>2. /\ run' \in Runs /\ run'.ctx = run.ctx /\ run'.plan = run.plan
      /\ run'.status = run.status
  BY DEF SelectRound, TypeOK, Runs
<1>3. /\ call' \in Call /\ call'.pc = "selected" /\ call'.opt = call.opt
      /\ call'.chained = call.chained
  BY DEF SelectRound, Goto, TypeOK, Call, PCs
<1>4. HasChain' = HasChain /\ LiveChain' = LiveChain
  BY <1>1 DEF HasChain, LiveChain, LastRound
<1>5. CallOK'
  BY <1>1, <1>2, <1>3, <1>4 DEF CallOK, At, ChainInEffect, InChain, Closing, BeforeContext
<1>6. ~Approved /\ run.plan.ctx = run.ctx
  BY <1>1 DEF ProgressOK, At, Unreviewed
<1>7. AttemptOK' /\ ProgressOK'
  BY <1>2, <1>3, <1>6 DEF AttemptOK, ProgressOK, Revising, At, Approved
<1>8. ApprovalOK'
  BY <1>2, <1>6, ApprovalKept DEF Approved
<1> QED BY <1>1, <1>2, <1>3, <1>5, <1>7, <1>8, SameFiles

LEMMA AwaitApprovalKeeps == IInv /\ AwaitApproval => IInv'
<1> SUFFICES ASSUME IInv, AwaitApproval PROVE IInv'
  OBVIOUS
<1> USE Parts
<1>1. /\ At("selected") \/ At("planned")
      /\ Save("AWAITING_APPROVAL") /\ Goto("awaiting")
      /\ UNCHANGED <<chain, attempts, store, snap, evidence>>
  BY DEF AwaitApproval
<1>2. work.step = "off"
  BY <1>1, ResolverOff DEF At
<1>3. /\ call'.pc = "awaiting" /\ run'.status = "AWAITING_APPROVAL"
      /\ run'.plan = run.plan /\ run'.ctx = run.ctx
  BY <1>1 DEF Goto, Save, TypeOK, Call, Runs
<1>4. run.plan.ctx = run.ctx
  BY <1>1 DEF ProgressOK, At
<1>5. AttemptOK' /\ ProgressOK'
  BY <1>3, <1>4 DEF AttemptOK, ProgressOK, Revising, At, Approved
<1>6. (call.chained => chain.term = "none") /\ run.ctx.snap # 0
  BY <1>1 DEF CallOK, At, Closing, BeforeContext
<1> QED BY <1>1, <1>2, <1>5, <1>6, Saves DEF Statuses, PCs, InChain, At

-----------------------------------------------------------------------------
(* Approval. *)

\* Only an APPROVE verdict makes a run APPROVED.
LEMMA StatusOfApproval ==
  \A verdict : /\ StatusOf(verdict) \in Statuses \ {"EXPORTED"}
               /\ StatusOf(verdict) = "APPROVED" <=> verdict = "APPROVE"
BY DEF StatusOf, Statuses

\* What a reused approval says of the run.
LEMMA ReusedFacts ==
  ASSUME IInv, ApprovalReusable
  PROVE  /\ Reused \in Runs /\ Reused.ctx = run.ctx /\ Reused.plan = run.plan
         /\ Reused.appr = StoredReview /\ StoredReview.plan = run.plan
         /\ Reused.status \in {"APPROVED", "EXPORTED"} => StoredReview.verdict = "APPROVE"
<1> USE Parts
<1>1. StoredReview \in Reviews /\ run \in Runs /\ call.prev.exported \in BOOLEAN
  BY ChainTyped, FieldsTyped DEF TypeOK, Runs
<1> DEFINE status == IF StoredReview.verdict = "APPROVE" /\ call.prev.exported
                     THEN "EXPORTED" ELSE StatusOf(StoredReview.verdict)
<1>2. /\ status \in Statuses
      /\ status \in {"APPROVED", "EXPORTED"} => StoredReview.verdict = "APPROVE"
  BY StatusOfApproval DEF Statuses
<1>3. Reused = [run EXCEPT !.status = status, !.sel = TRUE, !.appr = StoredReview,
                           !.exported = call.prev.exported]
  BY DEF Reused
<1> HIDE DEF status
<1>4. /\ Reused \in Runs /\ Reused.ctx = run.ctx /\ Reused.plan = run.plan
      /\ Reused.appr = StoredReview /\ Reused.status = status
  BY <1>1, <1>2, <1>3 DEF Runs
<1> QED BY <1>2, <1>4 DEF ApprovalReusable

LEMMA ReturnUnapprovedKeeps == IInv /\ ReturnUnapproved => IInv'
<1> SUFFICES ASSUME IInv, ReturnUnapproved PROVE IInv'
  OBVIOUS
<1> USE Parts
<1>1. /\ At("awaiting") /\ work = E!Off /\ call' = Idle
      /\ UNCHANGED <<chain, attempts, planFile, reviewFile, plain, snap, policy, cycles,
                     archive, work>>
  BY ResolverOff DEF ReturnUnapproved, Return, At, store, evidence
<1>2. work' = E!Off /\ UNCHANGED <<chain, attempts, store, snap, policy, cycles, archive>>
  BY <1>1 DEF store
<1>3. CASE run' = run
  BY <1>1, <1>2, <1>3, ReturnsUnapproved
<1>4. CASE ApprovalReusable /\ run' = Reused
  <2>1. run.plan.ctx = run.ctx
    BY <1>1 DEF ProgressOK, At
  <2>2. StoredReview' = StoredReview
    BY <1>1, RecordsKept
  <2>3. ApprovalOK'
    BY <1>4, <2>1, <2>2, ReusedFacts DEF ApprovalOK, Approved
  <2>4. run' \in Runs /\ run'.ctx = run.ctx
    BY <1>4, ReusedFacts
  <2> QED BY <1>1, <1>2, <2>3, <2>4, Returns
<1> QED BY <1>3, <1>4 DEF ReturnUnapproved

LEMMA ReuseRoundApprovalKeeps == IInv /\ ReuseRoundApproval => IInv'
<1> SUFFICES ASSUME IInv, ReuseRoundApproval PROVE IInv'
  OBVIOUS
<1> USE Parts
<1>1. /\ At("awaiting") /\ call.chained /\ LastRound.review # NoReview
      /\ UNCHANGED <<attempts, store, snap, evidence>> /\ work.step = "off"
  BY ResolverOff DEF ReuseRoundApproval, RoundReviewed, At
<1>2. /\ HasChain /\ chain.term = "none" /\ LiveChain /\ ~Approved /\ run.plan.ctx = run.ctx
      /\ run.ctx.snap # 0
  BY <1>1 DEF CallOK, ProgressOK, At, Closing, Unreviewed, ChainInEffect, LiveChain,
     BeforeContext
<1>3. LastRound.review = StoredReview /\ chain.term = TerminationOf(LastRound.review.verdict)
  BY <1>1, <1>2 DEF ChainOK, BlockReasons
<1>4. CASE Block("STALE_APPROVAL_CHAIN") /\ UNCHANGED run
  BY <1>1, <1>2, <1>4, Blocks DEF At, BlockReasons
<1>5. CASE ApprovalReusable /\ run' = Reused /\ Goto("cycle") /\ UNCHANGED chain
  <2>1. /\ run' \in Runs /\ run'.ctx = run.ctx /\ run'.plan = run.plan
        /\ run'.appr = StoredReview /\ StoredReview.plan = run.plan
        /\ run'.status \in {"APPROVED", "EXPORTED"} => StoredReview.verdict = "APPROVE"
    BY <1>5, ReusedFacts
  <2>2. /\ call' \in Call /\ call'.pc = "cycle" /\ call'.opt = call.opt
        /\ call'.chained = call.chained
    BY <1>5 DEF Goto, TypeOK, Call, PCs
  <2>3. UNCHANGED <<reviewFile, plain, cycles>>
    BY <1>1 DEF store, evidence
  <2>4. /\ HasChain' = HasChain /\ LiveChain' = LiveChain /\ StoredReview' = StoredReview
        /\ LastRound' = LastRound
    BY <1>1, <1>5, <2>3, RecordsKept
  <2>5. CallOK'
    BY <1>1, <1>2, <1>5, <2>1, <2>2, <2>4 DEF CallOK, At, ChainInEffect
  <2>6. AttemptOK'
    BY <2>2 DEF AttemptOK, Revising
  <2>7. ProgressOK'
    BY <1>1, <1>3, <1>5, <2>1, <2>2, <2>4 DEF ProgressOK, At, Approved, Unreviewed
  <2>8. ApprovalOK'
    BY <1>2, <2>1, <2>4 DEF ApprovalOK, Approved
  <2> QED BY <1>1, <1>5, <2>1, <2>2, <2>5, <2>6, <2>7, <2>8, SameFiles
<1> QED BY <1>4, <1>5 DEF ReuseRoundApproval

LEMMA ApproveKeeps == ASSUME IInv, NEW verdict \in Verdicts, Approve(verdict) PROVE IInv'
<1> USE Parts
<1> DEFINE review == [plan |-> run.plan, verdict |-> verdict]
           p == Prefix(LastIndex)
<1>1. /\ At("awaiting") \/ At("revised")
      /\ At("awaiting") => ~RoundReviewed
      /\ UNCHANGED <<run, chain, attempts, planFile, snap, policy, cycles, archive, work>>
  BY DEF Approve, Approving, At, evidence
<1>2. /\ work.step = "off" /\ work = E!Off /\ ~Approved /\ run.plan.ctx = run.ctx
      /\ run.ctx.snap # 0 /\ call.opt \in Options
      /\ call.chained => HasChain /\ chain.term = "none" /\ LastRound.review = NoReview
  <2>1. call.chained => LastRound.review = NoReview
    BY <1>1 DEF RoundReviewed, ProgressOK, At
  <2> QED BY <1>1, <2>1, ResolverOff
          DEF At, ProgressOK, Unreviewed, CallOK, BeforeContext, Closing, ChainInEffect
<1>3. /\ review \in Reviews /\ review.plan = run.plan /\ review.verdict = verdict
      /\ review # NoReview
  <2>1. verdict # "none"
    BY RunAssumption DEF AllVerdicts
  <2> QED BY <2>1, FieldsTyped, MissingTyped DEF Reviews
<1> HIDE DEF review
<1>4. CASE Return /\ UNCHANGED <<reviewFile, plain>>
  BY <1>1, <1>2, <1>4, ReturnsUnapproved DEF Return, store
<1>5. ASSUME call' = [call EXCEPT !.pc = "reviewed", !.review = review],
             reviewFile' \in [Prefixes -> Reviews],
             plain' \in [plan : Plans, review : Reviews],
             review = IF call.chained THEN StoredReview' ELSE plain'.review
      PROVE  IInv'
  <2>1. /\ call' \in Call /\ call'.pc = "reviewed" /\ call'.opt = call.opt
        /\ call'.chained = call.chained /\ call'.review = review
    BY <1>3, <1>5 DEF TypeOK, Call, PCs
  <2>2. TypeOK'
    BY <1>1, <1>5, <2>1 DEF TypeOK
  <2>3. /\ HasChain' = HasChain /\ LiveChain' = LiveChain /\ LastRound' = LastRound
        /\ LeftChain' = LeftChain
    BY <1>1 DEF HasChain, LiveChain, LastRound, LeftChain
  <2>4. CallOK'
    BY <1>1, <1>2, <2>1, <2>3 DEF CallOK, At, ChainInEffect, InChain
  <2>5. ChainOK'
    <3>1. LiveChain => call.chained
      BY <1>1 DEF CallOK, At
    <3> QED BY <1>1, <1>2, <2>3, <3>1 DEF ChainOK
  <2>6. AttemptOK'
    BY <2>1 DEF AttemptOK, Revising
  <2>7. ProgressOK'
    BY <1>1, <1>2, <1>3, <1>5, <2>1, <2>3 DEF ProgressOK, At, Approved
  <2>8. EvidenceOK'
    BY <1>1, <1>2, EvidenceKept
  <2>9. ApprovalOK'
    BY <1>1, <1>2, ApprovalKept DEF Approved
  <2>10. RoundsPaid' /\ GlobalBudget'
    BY <1>1 DEF RoundsPaid, GlobalBudget
  <2> QED BY <2>2, <2>4, <2>5, <2>6, <2>7, <2>8, <2>9, <2>10 DEF IInv
<1>6. CASE /\ ~call.chained /\ plain' = [plain EXCEPT !.review = review]
           /\ call' = [call EXCEPT !.pc = "reviewed", !.review = review]
           /\ UNCHANGED reviewFile
  BY <1>3, <1>5, <1>6 DEF TypeOK
<1>7. CASE /\ call.chained /\ reviewFile' = [reviewFile EXCEPT ![p] = review]
           /\ call' = [call EXCEPT !.pc = "reviewed", !.review = review]
           /\ UNCHANGED plain
  <2>1. HasChain /\ p \in Prefixes
    BY <1>2, <1>7, ChainTyped
  <2>2. reviewFile' \in [Prefixes -> Reviews] /\ reviewFile'[p] = review
    BY <1>3, <1>7, <2>1 DEF TypeOK
  <2>3. p' = p /\ HasChain'
    <3>1. E!Namespace' = E!Namespace
      BY <1>1, NamespaceKept
    <3> QED BY <1>1, <2>1, <3>1 DEF Prefix, LastIndex, HasChain
  <2>4. StoredReview' = review
    BY <2>2, <2>3 DEF StoredReview
  <2>5. plain' \in [plan : Plans, review : Reviews]
    BY <1>7 DEF TypeOK
  <2> QED BY <1>5, <1>7, <2>2, <2>4, <2>5
<1> QED BY <1>4, <1>6, <1>7 DEF Approve, review

LEMMA ApproverFailsKeeps == IInv /\ ApproverFails => IInv'
<1> SUFFICES ASSUME IInv, ApproverFails PROVE IInv'
  OBVIOUS
<1> USE Parts
<1>1. /\ At("awaiting") \/ At("revised")
      /\ Save("FAILED") /\ UNCHANGED <<chain, attempts, store, snap, evidence>>
  BY DEF ApproverFails, Approving
<1>2. work.step = "off" /\ work = E!Off /\ run.ctx.snap # 0
  BY <1>1, ResolverOff DEF At, CallOK, BeforeContext
<1>3. CASE Return
  BY <1>1, <1>2, <1>3, ReturnsUnapproved DEF Return, Statuses, evidence
<1>5. CASE ~call.chained /\ Goto("evidence")
  <2>1. ~LiveChain
    BY <1>1, <1>5 DEF CallOK, At
  <2>2. ~LiveChain'
    BY <1>1, <2>1 DEF LiveChain, HasChain, LastRound
  <2>3. call'.pc = "evidence"
    BY <1>5 DEF Goto, TypeOK, Call
  <2>4. AttemptOK' /\ ProgressOK'
    BY <2>2, <2>3 DEF AttemptOK, ProgressOK, Revising, At, Unreviewed
  <2> QED BY <1>1, <1>2, <1>5, <2>4, Saves DEF Statuses, PCs, InChain, At
<1>4. CASE /\ call.chained /\ reviewFile[Prefix(LastIndex)] # NoReview
           /\ Goto("approved")
  <2>1. HasChain /\ chain.term = "none"
    BY <1>1, <1>4 DEF CallOK, At, Closing, ChainInEffect
  <2>2. StoredReview # NoReview
    BY <1>4, <2>1 DEF StoredReview
  <2>3. StoredReview' = StoredReview
    BY <1>1, RecordsKept DEF store, evidence
  <2>4. call'.pc = "approved" /\ run'.status = "FAILED"
    BY <1>1, <1>4 DEF Goto, Save, TypeOK, Call, Runs
  <2>5. AttemptOK' /\ ProgressOK'
    BY <2>2, <2>3, <2>4 DEF AttemptOK, ProgressOK, Revising, At, Approved, Unreviewed
  <2> QED BY <1>1, <1>2, <1>4, <2>1, <2>5, Saves DEF Statuses, PCs, At
<1> QED BY <1>3, <1>4, <1>5 DEF ApproverFails

LEMMA SaveApprovedKeeps == IInv /\ SaveApproved => IInv'
<1> SUFFICES ASSUME IInv, SaveApproved PROVE IInv'
  OBVIOUS
<1> USE Parts
<1> DEFINE status == StatusOf(call.review.verdict)
           pc == IF call.chained THEN "approved" ELSE "evidence"
<1>1. /\ At("reviewed") /\ UNCHANGED <<chain, attempts, store, snap, evidence>>
      /\ run' = [run EXCEPT !.status = status, !.sel = TRUE, !.appr = call.review]
      /\ Goto(pc) /\ work.step = "off"
  BY ResolverOff DEF SaveApproved, At
<1>2. /\ call.review.plan = run.plan /\ run.plan.ctx = run.ctx /\ call.review # NoReview
      /\ call.review = IF call.chained THEN StoredReview ELSE plain.review
      /\ run.ctx.snap # 0 /\ call.review \in Reviews
      /\ call.chained => chain.term = "none"
  BY <1>1, FieldsTyped DEF ProgressOK, At, CallOK, BeforeContext, Closing
<1>3. /\ status \in Statuses
      /\ status \in {"APPROVED", "EXPORTED"} => call.review.verdict = "APPROVE"
  BY StatusOfApproval
<1> HIDE DEF status
<1>4. /\ run' \in Runs /\ run'.ctx = run.ctx /\ run'.plan = run.plan
      /\ run'.appr = call.review /\ run'.status = status
  BY <1>1, <1>2, <1>3 DEF TypeOK, Runs
<1>5. /\ call' \in Call /\ call'.pc = pc /\ call'.opt = call.opt
      /\ call'.chained = call.chained
  BY <1>1 DEF Goto, TypeOK, Call, PCs
<1>6. UNCHANGED <<reviewFile, plain, cycles>>
  BY <1>1 DEF store, evidence
<1>7. /\ HasChain' = HasChain /\ LiveChain' = LiveChain /\ StoredReview' = StoredReview
      /\ LeftChain' = LeftChain /\ LastRound' = LastRound
  BY <1>1, <1>6, RecordsKept
<1>8. LiveChain => call.chained
  BY <1>1 DEF CallOK, At
<1>9. CallOK'
  BY <1>1, <1>2, <1>4, <1>5, <1>7, <1>8 DEF CallOK, At, ChainInEffect, InChain
<1>10. AttemptOK'
  BY <1>5 DEF AttemptOK, Revising
<1>11. ProgressOK'
  BY <1>2, <1>4, <1>5, <1>7, <1>8 DEF ProgressOK, At, Unreviewed
<1>12. ApprovalOK'
  <2>1. ~call.chained /\ ~LeftChain => StoredReview = plain.review
    BY <1>8 DEF LiveChain, LeftChain, StoredReview
  <2> QED BY <1>2, <1>3, <1>4, <1>7, <2>1 DEF ApprovalOK, Approved
<1> QED BY <1>1, <1>4, <1>5, <1>9, <1>10, <1>11, <1>12, SameFiles

LEMMA RecordRoundKeeps == IInv /\ RecordRound => IInv'
<1> SUFFICES ASSUME IInv, RecordRound PROVE IInv'
  OBVIOUS
<1> USE Parts
<1> DEFINE review == reviewFile[Prefix(LastIndex)]
           round == [LastRound EXCEPT !.review = review]
           term == TerminationOf(review.verdict)
           n == Len(chain.rounds)
<1>1. /\ At("approved") /\ work.step = "off"
      /\ UNCHANGED <<run, attempts, planFile, reviewFile, plain, snap, policy, cycles,
                     archive, work>>
  BY ResolverOff DEF RecordRound, At, store, evidence
<1>2. /\ call.chained /\ HasChain /\ chain.term = "none" /\ LiveChain /\ ~LeftChain
      /\ StoredReview # NoReview /\ run.ctx.snap # 0
      /\ Approved => run.appr = StoredReview
  BY <1>1 DEF CallOK, ProgressOK, At, ChainInEffect, LiveChain, LeftChain, InChain, Closing,
     BeforeContext
<1>3. review = StoredReview /\ review \in Reviews
  BY <1>2, ChainTyped DEF StoredReview
<1>4. /\ LastRound \in Rounds /\ n \in DOMAIN chain.rounds /\ chain.rounds \in Seq(Rounds)
      /\ LastRound.plan.ctx = chain.ctx /\ n # 0
  BY <1>2, ChainTyped, FieldsTyped
<1>5. /\ chain' = [chain EXCEPT !.rounds[n].review = review, !.term = term]
      /\ call' = [call EXCEPT !.pc = "cycle"]
  BY DEF RecordRound, Goto
<1>6. /\ round \in Rounds /\ round.review = review /\ round.plan = LastRound.plan
      /\ round.input = LastRound.input
  BY <1>3, <1>4 DEF Rounds
<1>7. /\ term \in Terminations /\ term \in {"none", "approved", "non_revisable_decision"}
      /\ term = "approved" => review.verdict = "APPROVE"
  BY DEF TerminationOf, Terminations
<1>8. chain'.rounds = [chain.rounds EXCEPT ![n] = round]
  BY <1>4, <1>5 DEF LastRound, Rounds, TypeOK, Chains
<1>9. chain'.term = term /\ chain'.ctx = chain.ctx /\ chain'.max = chain.max
      /\ DOMAIN chain' = DOMAIN chain
  BY <1>5 DEF TypeOK, Chains
<1> HIDE DEF review, round, term
<1>10. /\ chain'.rounds \in Seq(Rounds) /\ chain'.rounds # <<>> /\ Len(chain'.rounds) = n
       /\ DOMAIN chain'.rounds = DOMAIN chain.rounds /\ chain'.rounds[n] = round
       /\ \A i \in DOMAIN chain.rounds : i # n => chain'.rounds[i] = chain.rounds[i]
  BY <1>4, <1>6, <1>8, <1>2, LastReplaced DEF HasChain
<1>11. chain' \in Chains
  <2> DEFINE rounds == [chain.rounds EXCEPT ![n] = round]
  <2>1. rounds \in Seq(Rounds)
    BY <1>8, <1>10
  <2>2. chain' = [[chain EXCEPT !.rounds = rounds] EXCEPT !.term = term]
    BY <1>4, <1>5 DEF LastRound, Rounds, TypeOK, Chains, round
  <2> HIDE DEF rounds
  <2> QED BY <1>7, <2>1, <2>2 DEF TypeOK, Chains
<1>12. /\ call' \in Call /\ call'.pc = "cycle" /\ call'.opt = call.opt
       /\ call'.chained = call.chained
  BY <1>5 DEF TypeOK, Call, PCs
<1>13. TypeOK'
  BY <1>1, <1>11, <1>12 DEF TypeOK
<1>14. HasChain' /\ LastRound' = round /\ LastIndex' = LastIndex
  BY <1>10 DEF HasChain, LastRound, LastIndex
<1>15. StoredReview' = review
  <2>1. E!Namespace' = E!Namespace
    BY <1>1, NamespaceKept
  <2> QED BY <1>1, <1>14, <2>1 DEF StoredReview, Prefix, review
<1>16. CallOK'
  BY <1>1, <1>2, <1>9, <1>12, <1>14 DEF CallOK, At, ChainInEffect, Closing
<1>17. ChainOK'
  <2>1. \A i \in DOMAIN chain'.rounds : chain'.rounds[i].plan.ctx = chain'.ctx
    BY <1>2, <1>4, <1>6, <1>9, <1>10 DEF ChainOK
  <2>2. Len(chain'.rounds) <= Len(attempts') + 1 /\ chain'.max \in RevisionOptions
    BY <1>1, <1>2, <1>9, <1>10 DEF ChainOK
  <2>3. run'.ctx \in {NoContext, chain'.ctx}
    BY <1>1, <1>2, <1>9 DEF ChainOK
  <2> QED BY <1>6, <1>7, <1>9, <1>14, <1>15, <2>1, <2>2, <2>3 DEF ChainOK, term
<1>18. AttemptOK'
  BY <1>12 DEF AttemptOK, Revising
<1>19. ProgressOK'
  BY <1>1, <1>2, <1>3, <1>6, <1>9, <1>12, <1>14 DEF ProgressOK, At, Unreviewed, Approved, term
<1>20. EvidenceOK'
  BY <1>1, <1>9, EvidenceKept
<1>21. ApprovalOK'
  BY <1>1, <1>2, <1>3, <1>15 DEF ApprovalOK, Approved
<1>22. RoundsPaid' /\ GlobalBudget'
  <2>1. \A i \in DOMAIN chain.rounds : chain'.rounds[i].input = chain.rounds[i].input
    BY <1>6, <1>10 DEF LastRound
  <2>2. DOMAIN chain.rounds = 1 .. n /\ n \in Nat
    BY ChainTyped
  <2> HIDE DEF n
  <2> QED BY <1>1, <1>10, <2>1, <2>2 DEF RoundsPaid, GlobalBudget, n
<1> QED BY <1>13, <1>16, <1>17, <1>18, <1>19, <1>20, <1>21, <1>22 DEF IInv

-----------------------------------------------------------------------------
(* Revision. *)

LEMMA RejectTriggerKeeps == IInv /\ RejectTrigger => IInv'
<1> SUFFICES ASSUME IInv, RejectTrigger PROVE IInv'
  OBVIOUS
<1>1. /\ At("cycle") /\ Block("INVALID_TRIGGER_APPROVAL_CHAIN")
      /\ UNCHANGED <<run, attempts, store, snap, evidence>>
  BY DEF RejectTrigger
<1>2. call.chained /\ run.ctx.snap # 0 /\ work.step = "off"
  BY <1>1, Parts, ResolverOff DEF CallOK, At, InChain, BeforeContext
<1> QED BY <1>1, <1>2, Blocks DEF At, BlockReasons

LEMMA LeaveCycleKeeps == IInv /\ LeaveCycle => IInv'
<1> SUFFICES ASSUME IInv, LeaveCycle PROVE IInv'
  OBVIOUS
<1> USE Parts
<1>1. /\ At("cycle") /\ UNCHANGED <<run, chain, attempts, store, snap, evidence>>
      /\ work.step = "off"
  BY ResolverOff DEF LeaveCycle, At
<1>2. /\ call' \in Call /\ call'.pc = "evidence" /\ call'.opt = call.opt
      /\ call'.chained = call.chained
  BY DEF LeaveCycle, Goto, TypeOK, Call, PCs
<1>3. UNCHANGED <<reviewFile, plain, cycles>>
  BY <1>1 DEF store, evidence
<1>4. /\ HasChain' = HasChain /\ LiveChain' = LiveChain /\ StoredReview' = StoredReview
      /\ LeftChain' = LeftChain /\ LastRound' = LastRound
  BY <1>1, <1>3, RecordsKept
<1>5. CallOK'
  BY <1>1, <1>2, <1>4 DEF CallOK, At, ChainInEffect, InChain, Closing, BeforeContext
<1>6. AttemptOK'
  BY <1>2 DEF AttemptOK, Revising
<1>7. ProgressOK'
  BY <1>1, <1>2, <1>4 DEF ProgressOK, At, Unreviewed
<1>8. ApprovalOK'
  BY <1>1, <1>4, ApprovalKept
<1> QED BY <1>1, <1>2, <1>5, <1>6, <1>7, <1>8, SameFiles DEF TypeOK

\* Where the revision cycle may stop or go on, the run is not approved and
\* its chain is live.
LEMMA AtRevisable ==
  ASSUME IInv, At("cycle"), Revisable
  PROVE  /\ call.chained /\ HasChain /\ chain.term = "none" /\ LiveChain /\ ~Approved
         /\ run.ctx.snap # 0 /\ run.ctx = chain.ctx /\ call.opt \in Options
         /\ work.step = "off"
<1> USE Parts
<1>1. /\ call.chained /\ HasChain /\ ChainInEffect(run) /\ run.ctx.snap # 0
      /\ call.opt \in Options
  BY DEF CallOK, At, InChain, ChainInEffect, BeforeContext
<1>2. /\ chain.term = TerminationOf(LastRound.review.verdict)
      /\ Approved => run.appr = LastRound.review
  BY DEF ProgressOK
<1>3. LastRound.review.verdict \in {"REVISE", "REPLAN"}
  BY DEF Revisable, RequestsRevision
<1>4. chain.term = "none"
  BY <1>2, <1>3 DEF TerminationOf, RequestsRevision
<1>5. ~Approved
  BY <1>2, <1>3 DEF ApprovalOK
<1>6. run.ctx = chain.ctx
  BY <1>1, MissingTyped DEF ChainInEffect
<1>7. work.step = "off"
  BY ResolverOff DEF At
<1> QED BY <1>1, <1>4, <1>5, <1>6, <1>7 DEF LiveChain

LEMMA StopRevisingKeeps == IInv /\ StopRevising => IInv'
<1> SUFFICES ASSUME IInv, StopRevising PROVE IInv'
  OBVIOUS
<1>1. At("cycle") /\ Revisable /\ UNCHANGED <<run, attempts, store, snap, evidence>>
  BY DEF StopRevising
<1>2. PICK reason \in BlockReasons : Block(reason)
  BY DEF StopRevising, BlockReasons
<1> QED BY <1>1, <1>2, AtRevisable, Blocks DEF At

\* A step changes the newest attempt and keeps its input.
LEMMA AttemptChanged ==
  ASSUME IInv, attempts # <<>>, NEW a \in Attempts, a.input = LastAttempt.input,
         attempts' = [attempts EXCEPT ![Len(attempts)] = a],
         UNCHANGED chain
  PROVE  /\ attempts' \in Seq(Attempts) /\ attempts' # <<>> /\ LastAttempt' = a
         /\ Len(attempts') = Len(attempts) /\ GlobalBudget'
         /\ \A i \in DOMAIN attempts : i # Len(attempts) => attempts'[i] = attempts[i]
         /\ a.outcome # "TERMINATED" => RoundsPaid'
<1> USE Parts
<1>1. attempts \in Seq(Attempts)
  BY DEF TypeOK
<1>2. /\ attempts' \in Seq(Attempts) /\ attempts' # <<>> /\ Len(attempts') = Len(attempts)
      /\ DOMAIN attempts' = DOMAIN attempts /\ attempts'[Len(attempts)] = a
      /\ \A i \in DOMAIN attempts : i # Len(attempts) => attempts'[i] = attempts[i]
  BY <1>1, LastReplaced
<1>3. LastAttempt' = a
  BY <1>2 DEF LastAttempt
<1>4. GlobalBudget'
  BY <1>2 DEF GlobalBudget
<1>5. ASSUME a.outcome # "TERMINATED" PROVE RoundsPaid'
  <2>1. \A k \in DOMAIN attempts :
          /\ attempts'[k].input = attempts[k].input
          /\ attempts[k].outcome # "TERMINATED" => attempts'[k].outcome # "TERMINATED"
    BY <1>2, <1>5 DEF LastAttempt
  <2> QED BY <1>2, <2>1 DEF RoundsPaid
<1> QED BY <1>2, <1>3, <1>4, <1>5

\* A step of the revision cycle that writes at most the attempts.
LEMMA AttemptStep ==
  ASSUME IInv, UNCHANGED <<run, chain, store, snap, evidence>>, ~At("idle"),
         attempts' \in Seq(Attempts), Len(attempts') >= Len(attempts),
         call' \in Call, call'.opt = call.opt, call'.chained = call.chained, call.chained,
         call'.pc \notin {"idle", "blocking"}, call'.pc \notin Closing => chain.term = "none",
         run.ctx.snap # 0, work.step = "off",
         AttemptOK', ProgressOK', RoundsPaid', GlobalBudget'
  PROVE  IInv'
<1> USE Parts
<1>1. UNCHANGED <<planFile, reviewFile, plain, policy, cycles, archive, work>>
  BY DEF store, evidence
<1>2. TypeOK'
  BY <1>1 DEF TypeOK
<1>3. /\ HasChain' = HasChain /\ LiveChain' = LiveChain /\ LastRound' = LastRound
      /\ LeftChain' = LeftChain /\ LastIndex' = LastIndex
  BY DEF HasChain, LiveChain, LastRound, LeftChain, LastIndex
<1>4. StoredReview' = StoredReview
  <2>1. E!Namespace' = E!Namespace
    BY <1>1, NamespaceKept
  <2> QED BY <1>1, <1>3, <2>1 DEF StoredReview, Prefix
<1>5. CallOK'
  BY <1>3 DEF CallOK, At, ChainInEffect
<1>6. ChainOK'
  <2>1. Len(attempts) \in Nat /\ Len(attempts') \in Nat /\ Len(chain.rounds) \in Nat
    BY ChainTyped
  <2> QED BY <1>3, <1>4, <2>1 DEF ChainOK
<1>7. EvidenceOK'
  BY <1>1, EvidenceKept
<1>8. ApprovalOK'
  BY <1>3, <1>4, ApprovalKept
<1> QED BY <1>2, <1>5, <1>6, <1>7, <1>8 DEF IInv

LEMMA ReconcileKeeps == IInv /\ Reconcile => IInv'
<1> SUFFICES ASSUME IInv, Reconcile PROVE IInv'
  OBVIOUS
<1> USE Parts
<1>1. /\ At("cycle") /\ Revisable /\ Open
      /\ attempts' = [attempts EXCEPT ![Len(attempts)].outcome = "COMPLETED"]
      /\ UNCHANGED <<run, chain, store, snap, call, evidence>>
  BY DEF Reconcile
<1> DEFINE a == [LastAttempt EXCEPT !.outcome = "COMPLETED"]
<1>2. attempts # <<>> /\ LastAttempt \in Attempts /\ attempts \in Seq(Attempts)
  BY <1>1 DEF Open, LastAttempt, TypeOK
<1>3. a \in Attempts /\ a.input = LastAttempt.input /\ a.outcome = "COMPLETED"
  BY <1>2 DEF Attempts
<1>4. attempts' = [attempts EXCEPT ![Len(attempts)] = a]
  BY <1>1, <1>2 DEF LastAttempt, Attempts
<1> HIDE DEF a
<1>5. /\ attempts' \in Seq(Attempts) /\ Len(attempts') = Len(attempts) /\ GlobalBudget'
      /\ RoundsPaid'
  BY <1>1, <1>2, <1>3, <1>4, AttemptChanged
<1>6. AttemptOK'
  BY <1>1 DEF AttemptOK, At, Revising
<1>7. ProgressOK'
  BY <1>1 DEF ProgressOK, At, LastRound, Approved, Unreviewed
<1>8. Len(attempts') >= Len(attempts) /\ call' \in Call
  BY <1>1, <1>2, <1>5 DEF TypeOK
<1> QED BY <1>1, <1>5, <1>6, <1>7, <1>8, AtRevisable, AttemptStep DEF At

LEMMA ClaimAttemptKeeps == IInv /\ ClaimAttempt => IInv'
<1> SUFFICES ASSUME IInv, ClaimAttempt PROVE IInv'
  OBVIOUS
<1> USE Parts
<1> DEFINE a == [ns |-> E!Namespace, input |-> LastRound.review, calls |-> 0, outcome |-> "open"]
           n == Len(attempts)
<1>1. /\ At("cycle") /\ Revisable /\ ~Exhausted
      /\ attempts' = Append(attempts, a) /\ Goto("claimed")
      /\ UNCHANGED <<run, chain, store, snap, evidence>>
  BY DEF ClaimAttempt
<1>2. /\ call.chained /\ HasChain /\ chain.term = "none" /\ ~Approved /\ run.ctx.snap # 0
      /\ work.step = "off"
  BY <1>1, AtRevisable
<1>3. a \in Attempts /\ a.calls = 0 /\ a.outcome = "open"
  BY <1>2, PrefixesTyped, ChainTyped, ReviewFields DEF Attempts
<1> HIDE DEF a
<1>4. /\ attempts' \in Seq(Attempts) /\ attempts' # <<>> /\ Len(attempts') = n + 1
      /\ n \in Nat /\ DOMAIN attempts = 1 .. n /\ DOMAIN attempts' = 1 .. n + 1
      /\ attempts'[n + 1] = a /\ \A i \in 1 .. n : attempts'[i] = attempts[i]
  <2>1. attempts \in Seq(Attempts)
    BY DEF TypeOK
  <2> QED BY <1>1, <1>3, <2>1, Appended
<1>5. /\ call' \in Call /\ call'.pc = "claimed" /\ call'.opt = call.opt
      /\ call'.chained = call.chained
  BY <1>1 DEF Goto, TypeOK, Call, PCs
<1>6. LastAttempt' = a /\ Open'
  BY <1>3, <1>4 DEF LastAttempt, Open
<1>7. GlobalBudget'
  <2>1. chain.max \in RevisionOptions /\ chain.max \in 0 .. MaxRevisions
    BY <1>2, FieldsTyped DEF ChainOK
  <2>2. n + 1 <= chain.max
    BY <1>1, <1>4, <2>1, RunAssumption DEF Exhausted
  <2> QED BY <1>4, <2>1, <2>2 DEF GlobalBudget
<1>8. RoundsPaid'
  BY <1>1, <1>4 DEF RoundsPaid
<1>9. AttemptOK'
  <2>1. Len(chain.rounds) <= n + 1
    BY <1>2 DEF ChainOK
  <2>2. \A i \in 2 .. Len(chain.rounds) :
          \E k \in 1 .. n : /\ attempts'[k].input = chain.rounds[i].input
                            /\ attempts'[k].outcome # "TERMINATED"
    BY <1>4 DEF RoundsPaid
  <2>3. Len(attempts') - 1 = n
    BY <1>4
  <2> HIDE DEF n
  <2> QED BY <1>1, <1>3, <1>4, <1>5, <1>6, <2>1, <2>2, <2>3 DEF AttemptOK, At
<1>10. ProgressOK'
  BY <1>1, <1>2, <1>5 DEF ProgressOK, At, Approved
<1>11. Len(attempts') >= Len(attempts)
  BY <1>4
<1> QED BY <1>1, <1>2, <1>4, <1>5, <1>7, <1>8, <1>9, <1>10, <1>11, AttemptStep DEF At

\* While a revision is under way the chain is live and the run not approved.
LEMMA InRevision ==
  ASSUME IInv, call.pc \in Revising \cup {"refused", "completed"}
  PROVE  /\ call.chained /\ HasChain /\ chain.term = "none" /\ LiveChain /\ ~Approved
         /\ run.ctx.snap # 0 /\ run.ctx = chain.ctx /\ call.opt \in Options
         /\ work.step = "off" /\ ~At("idle")
<1> USE Parts
<1>1. /\ call.chained /\ HasChain /\ ChainInEffect(run) /\ run.ctx.snap # 0
      /\ call.opt \in Options /\ chain.term = "none" /\ ~At("idle")
  BY DEF CallOK, At, InChain, ChainInEffect, BeforeContext, Revising, Closing
<1>2. ~Approved
  BY DEF ProgressOK, Unreviewed, Revising
<1>3. run.ctx = chain.ctx
  BY <1>1, MissingTyped DEF ChainInEffect
<1>4. work.step = "off"
  BY ResolverOff DEF At, Revising
<1> QED BY <1>1, <1>2, <1>3, <1>4 DEF LiveChain

LEMMA ReviseKeeps == IInv /\ Revise => IInv'
<1> SUFFICES ASSUME IInv, Revise PROVE IInv'
  OBVIOUS
<1> USE Parts
<1>1. /\ At("claimed") /\ attempts' = [attempts EXCEPT ![Len(attempts)].calls = @ + 1]
      /\ UNCHANGED <<run, chain, store, snap, evidence>>
      /\ \/ Goto("rejected")
         \/ \E out \in Outputs :
              call' = [call EXCEPT !.pc = "answered",
                         !.plan = [ctx |-> run.ctx, out |-> out, round |-> LastIndex + 1]]
  BY DEF Revise
<1>2. /\ call.chained /\ HasChain /\ chain.term = "none" /\ ~Approved /\ run.ctx.snap # 0
      /\ work.step = "off" /\ ~At("idle")
  BY <1>1, InRevision DEF At, Revising
<1>3. /\ Open /\ attempts # <<>> /\ LastAttempt.calls = 0 /\ LastAttempt.outcome = "open"
      /\ Len(chain.rounds) <= Len(attempts)
      /\ \A i \in 2 .. Len(chain.rounds) :
           \E k \in 1 .. Len(attempts) - 1 :
             /\ attempts[k].input = chain.rounds[i].input
             /\ attempts[k].outcome # "TERMINATED"
  BY <1>1 DEF AttemptOK, At, Revising, Open
<1>4. LastAttempt \in Attempts /\ attempts \in Seq(Attempts) /\ Len(attempts) \in DOMAIN attempts
  BY <1>3 DEF TypeOK, LastAttempt
<1> DEFINE a == [LastAttempt EXCEPT !.calls = 1]
<1>5. a \in Attempts /\ a.input = LastAttempt.input /\ a.outcome = "open"
  BY <1>3, <1>4 DEF Attempts
<1>6. attempts' = [attempts EXCEPT ![Len(attempts)] = a]
  <2>1. attempts' = [attempts EXCEPT ![Len(attempts)] =
                       [attempts[Len(attempts)] EXCEPT !.calls = @ + 1]]
    BY <1>1
  <2>2. [attempts[Len(attempts)] EXCEPT !.calls = @ + 1]
          = [attempts[Len(attempts)] EXCEPT !.calls = 1]
    BY <1>3, <1>4 DEF LastAttempt, Attempts
  <2> QED BY <2>1, <2>2 DEF LastAttempt
<1> HIDE DEF a
<1>7. /\ attempts' \in Seq(Attempts) /\ attempts' # <<>> /\ LastAttempt' = a
      /\ Len(attempts') = Len(attempts) /\ GlobalBudget' /\ RoundsPaid'
      /\ \A i \in DOMAIN attempts : i # Len(attempts) => attempts'[i] = attempts[i]
  BY <1>1, <1>3, <1>5, <1>6, AttemptChanged
<1>8. /\ call' \in Call /\ call'.pc \in {"rejected", "answered"} /\ call'.opt = call.opt
      /\ call'.chained = call.chained
      /\ call'.pc = "answered" => call'.plan.ctx = run.ctx
  <2>1. CASE Goto("rejected")
    BY <2>1 DEF Goto, TypeOK, Call, PCs
  <2>2. CASE \E out \in Outputs :
               call' = [call EXCEPT !.pc = "answered",
                          !.plan = [ctx |-> run.ctx, out |-> out, round |-> LastIndex + 1]]
    <3>1. PICK out \in Outputs :
               call' = [call EXCEPT !.pc = "answered",
                          !.plan = [ctx |-> run.ctx, out |-> out, round |-> LastIndex + 1]]
      BY <2>2
    <3> DEFINE plan == [ctx |-> run.ctx, out |-> out, round |-> LastIndex + 1]
    <3>2. LastIndex + 1 \in 0 .. MaxRevisions
      BY <1>2, <1>3, ChainTyped, RunAssumption
    <3>3. plan \in Plans /\ plan.ctx = run.ctx
      BY <3>2, FieldsTyped DEF Plans
    <3> HIDE DEF plan
    <3>4. call' = [call EXCEPT !.pc = "answered", !.plan = plan]
      BY <3>1 DEF plan
    <3> QED BY <3>3, <3>4 DEF TypeOK, Call, PCs
  <2> QED BY <1>1, <2>1, <2>2
<1>9. Open'
  BY <1>5, <1>7 DEF Open
<1>10. AttemptOK'
  <2>1. DOMAIN attempts = 1 .. Len(attempts) /\ Len(attempts) \in Nat
    BY <1>4
  <2>2. \A k \in 1 .. Len(attempts) - 1 : attempts'[k] = attempts[k]
    BY <1>7, <2>1
  <2>3. ASSUME NEW i \in 2 .. Len(chain.rounds)
        PROVE  \E k \in 1 .. Len(attempts) - 1 :
                 /\ attempts'[k].input = chain.rounds[i].input
                 /\ attempts'[k].outcome # "TERMINATED"
    <3>1. PICK k \in 1 .. Len(attempts) - 1 :
                 /\ attempts[k].input = chain.rounds[i].input
                 /\ attempts[k].outcome # "TERMINATED"
      BY <1>3
    <3>2. attempts'[k] = attempts[k]
      BY <2>2
    <3> QED BY <3>1, <3>2
  <2>4. call'.pc \in {"rejected", "answered"} /\ Len(attempts') = Len(attempts) /\ Open'
        /\ chain' = chain /\ Len(chain.rounds) <= Len(attempts)
    BY <1>1, <1>3, <1>7, <1>8, <1>9
  <2> QED BY <2>3, <2>4 DEF AttemptOK, At
<1>11. ProgressOK'
  BY <1>1, <1>2, <1>8 DEF ProgressOK, At, Approved
<1>12. Len(attempts') >= Len(attempts)
  BY <1>4, <1>7
<1> QED BY <1>1, <1>2, <1>7, <1>8, <1>10, <1>11, <1>12, AttemptStep

LEMMA TerminateAttemptKeeps == IInv /\ TerminateAttempt => IInv'
<1> SUFFICES ASSUME IInv, TerminateAttempt PROVE IInv'
  OBVIOUS
<1> USE Parts
<1>1. /\ At("rejected") /\ Goto("refused")
      /\ attempts' = [attempts EXCEPT ![Len(attempts)].outcome = "TERMINATED"]
      /\ UNCHANGED <<run, chain, store, snap, evidence>>
  BY DEF TerminateAttempt
<1>2. /\ call.chained /\ HasChain /\ chain.term = "none" /\ ~Approved /\ run.ctx.snap # 0
      /\ work.step = "off" /\ ~At("idle")
  BY <1>1, InRevision DEF At, Revising
<1>3. /\ attempts # <<>>
      /\ \A i \in 2 .. Len(chain.rounds) :
           \E k \in 1 .. Len(attempts) - 1 :
             /\ attempts[k].input = chain.rounds[i].input
             /\ attempts[k].outcome # "TERMINATED"
  BY <1>1 DEF AttemptOK, At, Revising, Open
<1>4. LastAttempt \in Attempts /\ attempts \in Seq(Attempts) /\ Len(attempts) \in DOMAIN attempts
  BY <1>3 DEF TypeOK, LastAttempt
<1> DEFINE a == [LastAttempt EXCEPT !.outcome = "TERMINATED"]
<1>5. a \in Attempts /\ a.input = LastAttempt.input
  BY <1>4 DEF Attempts
<1>6. attempts' = [attempts EXCEPT ![Len(attempts)] = a]
  BY <1>1, <1>4 DEF LastAttempt, Attempts
<1> HIDE DEF a
<1>7. /\ attempts' \in Seq(Attempts) /\ Len(attempts') = Len(attempts) /\ GlobalBudget'
      /\ \A i \in DOMAIN attempts : i # Len(attempts) => attempts'[i] = attempts[i]
  BY <1>1, <1>3, <1>5, <1>6, AttemptChanged
<1>8. RoundsPaid'
  <2>1. DOMAIN attempts = 1 .. Len(attempts) /\ Len(attempts) \in Nat
        /\ DOMAIN attempts' = 1 .. Len(attempts)
    BY <1>4, <1>7
  <2>2. \A k \in 1 .. Len(attempts) - 1 : k \in DOMAIN attempts' /\ attempts'[k] = attempts[k]
    BY <1>7, <2>1
  <2> QED BY <1>1, <1>3, <2>2 DEF RoundsPaid
<1>9. /\ call' \in Call /\ call'.pc = "refused" /\ call'.opt = call.opt
      /\ call'.chained = call.chained
  BY <1>1 DEF Goto, TypeOK, Call, PCs
<1>10. AttemptOK'
  BY <1>9 DEF AttemptOK, Revising
<1>11. ProgressOK'
  BY <1>1, <1>2, <1>9 DEF ProgressOK, At, Approved
<1>12. Len(attempts') >= Len(attempts)
  BY <1>4, <1>7
<1> QED BY <1>1, <1>2, <1>7, <1>8, <1>9, <1>10, <1>11, <1>12, AttemptStep

LEMMA BlockRejectedKeeps == IInv /\ BlockRejected => IInv'
<1> SUFFICES ASSUME IInv, BlockRejected PROVE IInv'
  OBVIOUS
<1>1. /\ At("refused") /\ Block("REVISION_OUTPUT_REJECTED")
      /\ UNCHANGED <<run, attempts, store, snap, evidence>>
  BY DEF BlockRejected
<1>2. "REVISION_OUTPUT_REJECTED" \in BlockReasons
  BY DEF BlockReasons
<1> QED BY <1>1, <1>2, InRevision, Blocks DEF At

LEMMA MaterializeKeeps == IInv /\ Materialize => IInv'
<1> SUFFICES ASSUME IInv, Materialize PROVE IInv'
  OBVIOUS
<1> USE Parts
<1> DEFINE p == Prefix(LastIndex + 1)
<1>1. /\ At("answered")
      /\ UNCHANGED <<run, chain, attempts, reviewFile, plain, snap, policy, cycles,
                     archive, work>>
  BY DEF Materialize, evidence
<1>2. /\ call.chained /\ HasChain /\ chain.term = "none" /\ ~Approved /\ run.ctx.snap # 0
      /\ work.step = "off" /\ work = E!Off /\ ~At("idle") /\ call.opt \in Options
  BY <1>1, InRevision, ResolverOff DEF At, Revising
<1>3. /\ Open /\ Len(chain.rounds) <= Len(attempts) /\ call.plan.ctx = run.ctx
      /\ call.plan \in Plans
  BY <1>1, FieldsTyped DEF AttemptOK, At, Revising, ProgressOK
<1>4. CASE Return /\ UNCHANGED planFile
  BY <1>1, <1>2, <1>4, ReturnsUnapproved DEF Return, store
<1>5. CASE planFile' = [planFile EXCEPT ![p] = call.plan] /\ Goto("materialized")
  <2>1. p \in Prefixes
    <3>1. LastIndex + 1 \in 0 .. MaxRevisions
      BY <1>2, <1>3, ChainTyped, RunAssumption
    <3> QED BY <3>1, PrefixesTyped
  <2>2. planFile' \in [Prefixes -> Plans]
    BY <1>3, <1>5, <2>1 DEF TypeOK
  <2>3. /\ call' \in Call /\ call'.pc = "materialized" /\ call'.opt = call.opt
        /\ call'.chained = call.chained /\ call'.plan = call.plan
    BY <1>5 DEF Goto, TypeOK, Call, PCs
  <2>4. TypeOK'
    BY <1>1, <2>2, <2>3 DEF TypeOK
  <2>5. /\ HasChain' = HasChain /\ LiveChain' = LiveChain /\ StoredReview' = StoredReview
        /\ LeftChain' = LeftChain /\ ChainOK' /\ RoundsPaid' /\ GlobalBudget'
        /\ LastAttempt' = LastAttempt /\ Open' = Open
    BY <1>1, RecordsKept
  <2>6. CallOK'
    BY <1>1, <1>2, <2>3, <2>5 DEF CallOK, At, ChainInEffect
  <2>7. AttemptOK'
    BY <1>1, <1>3, <2>3, <2>5 DEF AttemptOK, At
  <2>8. ProgressOK'
    BY <1>1, <1>2, <1>3, <2>3 DEF ProgressOK, At, Approved
  <2>9. EvidenceOK'
    BY <1>1, <1>2, EvidenceKept
  <2>10. ApprovalOK'
    BY <1>1, <2>5, ApprovalKept
  <2> QED BY <2>4, <2>5, <2>6, <2>7, <2>8, <2>9, <2>10 DEF IInv
<1> QED BY <1>4, <1>5 DEF Materialize

LEMMA ExtendChainKeeps == IInv /\ ExtendChain => IInv'
<1> SUFFICES ASSUME IInv, ExtendChain PROVE IInv'
  OBVIOUS
<1> USE Parts
<1> DEFINE round == [plan |-> call.plan, input |-> LastAttempt.input, review |-> NoReview]
           n == Len(chain.rounds)
           m == Len(attempts)
<1>1. /\ At("materialized") /\ Goto("extended")
      /\ chain' = [chain EXCEPT !.term = "none", !.rounds = Append(@, round)]
      /\ UNCHANGED <<run, attempts, planFile, reviewFile, plain, snap, policy, cycles,
                     archive, work>>
  BY DEF ExtendChain, store, evidence
<1>2. /\ call.chained /\ HasChain /\ chain.term = "none" /\ ~Approved /\ run.ctx.snap # 0
      /\ work.step = "off" /\ ~At("idle") /\ call.opt \in Options /\ run.ctx = chain.ctx
  BY <1>1, InRevision DEF At, Revising
<1>3. /\ Open /\ attempts # <<>> /\ LastAttempt.outcome = "open" /\ n <= m
      /\ call.plan.ctx = run.ctx /\ call.plan \in Plans
  BY <1>1, FieldsTyped DEF AttemptOK, At, Revising, ProgressOK, Open
<1>4. LastAttempt \in Attempts /\ m \in DOMAIN attempts /\ LastAttempt = attempts[m] /\ m \in Nat
  BY <1>3 DEF TypeOK, LastAttempt
<1>5. /\ round \in Rounds /\ round.plan = call.plan /\ round.review = NoReview
      /\ round.input = LastAttempt.input
  BY <1>3, <1>4, MissingTyped DEF Rounds, Attempts
<1> HIDE DEF round
<1> DEFINE rounds == Append(chain.rounds, round)
<1>6. chain' = [chain EXCEPT !.term = "none", !.rounds = rounds]
  BY <1>1 DEF TypeOK, Chains
<1>7. /\ rounds \in Seq(Rounds) /\ rounds # <<>> /\ Len(rounds) = n + 1 /\ n \in Nat
      /\ DOMAIN rounds = 1 .. n + 1 /\ DOMAIN chain.rounds = 1 .. n
      /\ rounds[n + 1] = round /\ \A i \in 1 .. n : rounds[i] = chain.rounds[i]
  BY <1>5, FieldsTyped, Appended
<1> HIDE DEF rounds
<1>8. /\ chain' \in Chains /\ chain'.rounds = rounds /\ chain'.term = "none"
      /\ chain'.ctx = chain.ctx /\ chain'.max = chain.max
  BY <1>6, <1>7 DEF TypeOK, Chains, Terminations
<1>9. /\ call' \in Call /\ call'.pc = "extended" /\ call'.opt = call.opt
      /\ call'.chained = call.chained
  BY <1>1 DEF Goto, TypeOK, Call, PCs
<1>10. TypeOK'
  BY <1>1, <1>8, <1>9 DEF TypeOK
<1>11. HasChain' /\ LiveChain' /\ LastRound' = round
  BY <1>7, <1>8 DEF HasChain, LiveChain, LastRound
<1>12. CallOK'
  BY <1>1, <1>2, <1>8, <1>9, <1>11 DEF CallOK, At, ChainInEffect
<1>13. ChainOK'
  <2>1. \A i \in DOMAIN rounds : rounds[i].plan.ctx = chain.ctx
    <3>1. \A i \in 1 .. n : chain.rounds[i].plan.ctx = chain.ctx
      BY <1>2, <1>7 DEF ChainOK
    <3> HIDE DEF n
    <3> QED BY <1>2, <1>3, <1>5, <1>7, <3>1
  <2>2. n + 1 <= m + 1 /\ chain.max \in RevisionOptions
    BY <1>2, <1>3, <1>4, <1>7 DEF ChainOK
  <2> QED BY <1>1, <1>2, <1>5, <1>7, <1>8, <1>11, <2>1, <2>2 DEF ChainOK
<1>14. AttemptOK'
  BY <1>1, <1>3, <1>9 DEF AttemptOK, At, Open, LastAttempt
<1>15. ProgressOK'
  BY <1>1, <1>2, <1>5, <1>9, <1>11 DEF ProgressOK, At, Approved
<1>16. EvidenceOK'
  BY <1>1, <1>2, <1>8, EvidenceKept
<1>17. ApprovalOK'
  BY <1>1, <1>2, ApprovalKept DEF Approved
<1>18. RoundsPaid'
  <2> SUFFICES ASSUME NEW i \in 2 .. n + 1
               PROVE  \E k \in DOMAIN attempts : /\ attempts[k].input = rounds[i].input
                                                 /\ attempts[k].outcome # "TERMINATED"
    BY <1>1, <1>7, <1>8 DEF RoundsPaid
  <2>1. CASE i = n + 1
    BY <1>3, <1>4, <1>5, <1>7, <2>1
  <2>2. CASE i # n + 1
    <3>1. i \in 2 .. n /\ rounds[i] = chain.rounds[i]
      BY <1>7, <2>2
    <3> QED BY <3>1 DEF RoundsPaid
  <2> QED BY <2>1, <2>2
<1>19. GlobalBudget'
  BY <1>1 DEF GlobalBudget
<1> QED BY <1>10, <1>12, <1>13, <1>14, <1>15, <1>16, <1>17, <1>18, <1>19 DEF IInv

LEMMA CompleteAttemptKeeps == IInv /\ CompleteAttempt => IInv'
<1> SUFFICES ASSUME IInv, CompleteAttempt PROVE IInv'
  OBVIOUS
<1> USE Parts
<1>1. /\ At("extended") /\ Goto("completed")
      /\ attempts' = [attempts EXCEPT ![Len(attempts)].outcome = "COMPLETED"]
      /\ UNCHANGED <<run, chain, store, snap, evidence>>
  BY DEF CompleteAttempt
<1>2. /\ call.chained /\ HasChain /\ chain.term = "none" /\ ~Approved /\ run.ctx.snap # 0
      /\ work.step = "off" /\ ~At("idle")
  BY <1>1, InRevision DEF At, Revising
<1>3. attempts # <<>>
  BY <1>1 DEF AttemptOK, At, Revising, Open
<1>4. LastAttempt \in Attempts /\ attempts \in Seq(Attempts) /\ Len(attempts) \in DOMAIN attempts
  BY <1>3 DEF TypeOK, LastAttempt
<1> DEFINE a == [LastAttempt EXCEPT !.outcome = "COMPLETED"]
<1>5. a \in Attempts /\ a.input = LastAttempt.input /\ a.outcome = "COMPLETED"
  BY <1>4 DEF Attempts
<1>6. attempts' = [attempts EXCEPT ![Len(attempts)] = a]
  BY <1>1, <1>4 DEF LastAttempt, Attempts
<1> HIDE DEF a
<1>7. /\ attempts' \in Seq(Attempts) /\ Len(attempts') = Len(attempts) /\ GlobalBudget'
      /\ RoundsPaid'
  BY <1>1, <1>3, <1>5, <1>6, AttemptChanged
<1>8. /\ call' \in Call /\ call'.pc = "completed" /\ call'.opt = call.opt
      /\ call'.chained = call.chained
  BY <1>1 DEF Goto, TypeOK, Call, PCs
<1>9. AttemptOK'
  BY <1>8 DEF AttemptOK, Revising
<1>10. LastRound.review = NoReview /\ LastRound' = LastRound
  BY <1>1 DEF ProgressOK, At, LastRound
<1>11. ProgressOK'
  BY <1>1, <1>2, <1>8, <1>10 DEF ProgressOK, At, Approved
<1>12. Len(attempts') >= Len(attempts)
  BY <1>4, <1>7
<1> QED BY <1>1, <1>2, <1>7, <1>8, <1>9, <1>11, <1>12, AttemptStep

LEMMA SaveRevisedKeeps == IInv /\ SaveRevised => IInv'
<1> SUFFICES ASSUME IInv, SaveRevised PROVE IInv'
  OBVIOUS
<1> USE Parts
<1>1. /\ At("completed") /\ Goto("revised") /\ UNCHANGED <<chain, attempts, store, snap, evidence>>
      /\ run' = [run EXCEPT !.status = "AWAITING_APPROVAL", !.plan = LastRound.plan,
                            !.sel = TRUE, !.appr = NoReview, !.exported = FALSE]
  BY DEF SaveRevised
<1>2. /\ call.chained /\ HasChain /\ chain.term = "none" /\ ~Approved /\ run.ctx.snap # 0
      /\ work.step = "off" /\ ~At("idle") /\ run.ctx = chain.ctx /\ call.opt \in Options
  BY <1>1, InRevision DEF At
<1>3. LastRound.plan \in Plans /\ LastRound.plan.ctx = run.ctx
  BY <1>2, ChainTyped, ReviewFields
<1>4. /\ run' \in Runs /\ run'.ctx = run.ctx /\ run'.plan = LastRound.plan
      /\ run'.status = "AWAITING_APPROVAL"
  BY <1>1, <1>3, MissingTyped DEF TypeOK, Runs, Statuses
<1>5. /\ call' \in Call /\ call'.pc = "revised" /\ call'.opt = call.opt
      /\ call'.chained = call.chained
  BY <1>1 DEF Goto, TypeOK, Call, PCs
<1>6. HasChain' = HasChain /\ LiveChain' = LiveChain /\ LastRound' = LastRound
  BY <1>1 DEF HasChain, LiveChain, LastRound
<1>7. CallOK'
  BY <1>1, <1>2, <1>4, <1>5, <1>6 DEF CallOK, At, ChainInEffect
<1>8. LastRound.review = NoReview
  BY <1>1 DEF ProgressOK, At
<1>9. AttemptOK' /\ ProgressOK'
  BY <1>3, <1>4, <1>5, <1>6, <1>8 DEF AttemptOK, ProgressOK, Revising, At, Approved
<1>10. ApprovalOK'
  BY <1>4, ApprovalKept DEF Approved
<1> QED BY <1>1, <1>2, <1>4, <1>5, <1>7, <1>9, <1>10, SameFiles

-----------------------------------------------------------------------------
(* The end of the call, export and the environment. *)

LEMMA SaveBlockedKeeps == IInv /\ SaveBlocked => IInv'
<1> SUFFICES ASSUME IInv, SaveBlocked PROVE IInv'
  OBVIOUS
<1> USE Parts
<1>1. /\ At("blocking") /\ Save("REVISION_BLOCKED") /\ work = E!Off /\ work.step = "off"
      /\ UNCHANGED <<chain, attempts, store, snap, evidence>>
  BY ResolverOff DEF SaveBlocked, At
<1>2. work' = E!Off /\ UNCHANGED <<policy, cycles, archive>>
  BY <1>1 DEF evidence
<1>3. CASE Return
  BY <1>1, <1>2, <1>3, ReturnsUnapproved DEF Return, Statuses
<1>4. CASE Goto("evidence") /\ chain.term # "TRUSTED_CONTEXT_CHANGED"
  <2>1. run.ctx.snap # 0 /\ chain.term # "none"
    BY <1>1, <1>4 DEF CallOK, At, BeforeContext, BlockReasons
  <2>2. call'.pc = "evidence"
    BY <1>4 DEF Goto, TypeOK, Call
  <2>3. LiveChain' => LastRound'.review # NoReview
    BY <1>1, <2>1, MissingTyped DEF LiveChain, LastRound
  <2>4. AttemptOK' /\ ProgressOK'
    BY <2>2, <2>3 DEF AttemptOK, ProgressOK, Revising, At, Unreviewed
  <2> QED BY <1>1, <1>4, <2>1, <2>4, Saves DEF Statuses, PCs, InChain, Closing, At
<1> QED BY <1>3, <1>4 DEF SaveBlocked

\* The review that may trigger an evidence cycle ended its chain.
LEMMA SettleKeeps == IInv /\ Settle => IInv'
<1> SUFFICES ASSUME IInv, Settle PROVE IInv'
  OBVIOUS
<1> USE Parts
<1>1. /\ At("evidence") /\ work.step = "off" /\ work = E!Off
      /\ UNCHANGED <<run, chain, attempts, planFile, reviewFile, plain, snap>>
  BY DEF Settle, Quiet, EvidenceOK, store
<1>2. CASE Return /\ UNCHANGED evidence
  <2>1. call' = Idle /\ work' = E!Off /\ UNCHANGED <<policy, cycles, archive, store>>
    BY <1>1, <1>2 DEF Return, evidence, store
  <2> QED BY <1>1, <2>1, ReturnsUnapproved
<1>3. CASE /\ StoredReview.verdict = "INSUFFICIENT"
           /\ E!Archive(StoredReview) /\ Goto("triggered")
  <2>1. UNCHANGED <<policy, cycles, work>>
        /\ archive' = [archive EXCEPT ![Len(cycles) + 1] = StoredReview]
    BY <1>3 DEF E!Archive
  <2>2. archive' \in [1 .. CycleLimit + 1 -> Reviews]
    <3>1. StoredReview \in Reviews
      BY ChainTyped
    <3>2. archive \in [1 .. CycleLimit + 1 -> Reviews]
      BY DEF TypeOK
    <3> QED BY <2>1, <3>1, <3>2
  <2>3. /\ call' \in Call /\ call'.pc = "triggered" /\ call'.opt = call.opt
        /\ call'.chained = call.chained
    BY <1>3 DEF Goto, TypeOK, Call, PCs
  <2>4. TypeOK'
    BY <1>1, <2>1, <2>2, <2>3 DEF TypeOK
  <2>5. ~LiveChain
    BY <1>1, <1>3 DEF ProgressOK, ChainOK, LiveChain, TerminationOf, RequestsRevision,
       BlockReasons
  <2>6. /\ HasChain' = HasChain /\ LiveChain' = LiveChain /\ StoredReview' = StoredReview
        /\ LeftChain' = LeftChain /\ ChainOK' /\ RoundsPaid' /\ GlobalBudget'
    BY <1>1, <2>1, RecordsKept
  <2>7. CallOK'
    BY <1>1, <2>3, <2>6 DEF CallOK, At, ChainInEffect, InChain, Closing, BeforeContext
  <2>8. AttemptOK' /\ ProgressOK'
    BY <2>3, <2>5, <2>6 DEF AttemptOK, ProgressOK, Revising, Unreviewed, At
  <2>9. EvidenceOK'
    BY <1>1, <2>1, EvidenceKept
  <2>10. ApprovalOK'
    BY <1>1, <2>6, ApprovalKept
  <2> QED BY <2>4, <2>6, <2>7, <2>8, <2>9, <2>10 DEF IInv
<1> QED BY <1>2, <1>3 DEF Settle

LEMMA ExportKeeps == IInv /\ Export => IInv'
<1> SUFFICES ASSUME IInv, Export PROVE IInv'
  OBVIOUS
<1> USE Parts
<1>1. /\ At("idle") /\ Approved
      /\ run' = [run EXCEPT !.status = "EXPORTED", !.exported = TRUE]
      /\ UNCHANGED <<chain, attempts, store, snap, call, evidence>>
  BY DEF Export, Approved
<1>2. /\ run' \in Runs /\ run'.ctx = run.ctx /\ run'.plan = run.plan
      /\ run'.appr = run.appr
  BY <1>1 DEF TypeOK, Runs, Statuses
<1>3. UNCHANGED <<reviewFile, plain, cycles>>
  BY <1>1 DEF store, evidence
<1>4. /\ HasChain' = HasChain /\ LiveChain' = LiveChain /\ StoredReview' = StoredReview
      /\ LeftChain' = LeftChain
  BY <1>1, <1>3, RecordsKept
<1>5. CallOK' /\ AttemptOK' /\ ProgressOK'
  BY <1>1, <1>2, <1>4 DEF CallOK, AttemptOK, ProgressOK, At, ChainInEffect, HasChain, InChain,
     BeforeContext, Revising, Unreviewed
<1>6. ApprovalOK'
  BY <1>1, <1>2, <1>4 DEF ApprovalOK, Approved
<1> QED BY <1>1, <1>2, <1>5, <1>6, SameFiles DEF TypeOK

LEMMA KnowledgeChangesKeeps == IInv /\ KnowledgeChanges => IInv'
<1> SUFFICES ASSUME IInv, KnowledgeChanges PROVE IInv'
  OBVIOUS
<1> USE Parts
<1>1. /\ snap < MaxSnapshot /\ snap' = snap + 1
      /\ UNCHANGED <<run, chain, attempts, planFile, reviewFile, plain, call, policy,
                     cycles, archive, work>>
  BY DEF KnowledgeChanges, store, evidence
<1>2. snap' \in 1 .. MaxSnapshot
  BY <1>1, RunAssumption DEF TypeOK
<1>3. TypeOK'
  BY <1>1, <1>2 DEF TypeOK
<1>4. /\ HasChain' = HasChain /\ LiveChain' = LiveChain /\ StoredReview' = StoredReview
      /\ LeftChain' = LeftChain /\ LastRound' = LastRound /\ LastAttempt' = LastAttempt
      /\ Open' = Open /\ ChainOK' /\ RoundsPaid' /\ GlobalBudget'
  BY <1>1, RecordsKept
<1>5. CallOK' /\ AttemptOK' /\ ProgressOK'
  BY <1>1, <1>4 DEF CallOK, AttemptOK, ProgressOK, At, ChainInEffect, Approved
<1>6. EvidenceOK'
  BY <1>1, EvidenceKept
<1>7. ApprovalOK'
  BY <1>1, <1>4, ApprovalKept
<1> QED BY <1>3, <1>4, <1>5, <1>6, <1>7 DEF IInv

LEMMA CrashKeeps == IInv /\ Crash => IInv'
BY ReturnsUnapproved DEF Crash, Return

-----------------------------------------------------------------------------
(* The invariant. *)

LEMMA InitInv == Init => IInv
<1> SUFFICES ASSUME Init PROVE IInv
  OBVIOUS
<1>1. /\ run = NoRun /\ chain = NoChain /\ attempts = <<>> /\ snap = 1 /\ call = Idle
      /\ planFile = [p \in Prefixes |-> NoPlan]
      /\ reviewFile = [p \in Prefixes |-> NoReview]
      /\ plain = [plan |-> NoPlan, review |-> NoReview]
      /\ policy = 0 /\ cycles = <<>> /\ work = E!Off
      /\ archive = [k \in 1 .. CycleLimit + 1 |-> NoReview]
  BY DEF Init, E!CyclesInit
<1>2. E!Off \in [step : E!Steps, request : Requests \cup {"nothing"}, why : E!Reasons]
      /\ E!Off.step = "off"
  BY DEF E!Off, E!Steps, E!Reasons
<1>3. TypeOK
  BY <1>1, <1>2, MissingTyped, RunAssumption DEF TypeOK
<1>4. ~HasChain /\ ~LiveChain /\ ~Approved
  BY <1>1 DEF HasChain, LiveChain, Approved, NoChain, NoRun
<1>5. call.pc = "idle" /\ ~call.chained
  BY <1>1 DEF Idle
<1>6. CallOK /\ AttemptOK /\ ProgressOK
  BY <1>1, <1>4, <1>5 DEF CallOK, AttemptOK, ProgressOK, At, InChain, BeforeContext, Revising
<1>7. ChainOK /\ ApprovalOK
  BY <1>4 DEF ChainOK, ApprovalOK
<1>8. EvidenceOK
  BY <1>1, <1>2 DEF EvidenceOK, NoRun, NoChain, NoContext
<1>9. RoundsPaid /\ GlobalBudget
  BY <1>1 DEF RoundsPaid, GlobalBudget, NoChain
<1> QED BY <1>3, <1>6, <1>7, <1>8, <1>9 DEF IInv

LEMMA NextInv == IInv /\ [Next]_vars => IInv'
<1> SUFFICES ASSUME IInv, [Next]_vars PROVE IInv'
  OBVIOUS
<1>1. CASE \E opt \in Options : Enter(opt)
  BY <1>1, EnterKeeps
<1>2. CASE EvidenceResolution
  BY <1>2, ResolveGapKeeps, ResolveReviewKeeps, EvidenceStepKeeps, EvidenceBlockedKeeps,
     EvidenceFailedKeeps, EvidenceChildKeeps DEF EvidenceResolution
<1>3. CASE Planning
  BY <1>3, PlanFromChainKeeps, ProposeKeeps, SavePlannedKeeps, CreateChainKeeps,
     SelectRoundKeeps, AwaitApprovalKeeps DEF Planning
<1>4. CASE Approval
  BY <1>4, ReturnUnapprovedKeeps, ReuseRoundApprovalKeeps, ApproveKeeps, ApproverFailsKeeps,
     SaveApprovedKeeps, RecordRoundKeeps DEF Approval
<1>5. CASE Revision
  BY <1>5, RejectTriggerKeeps, LeaveCycleKeeps, ReconcileKeeps, StopRevisingKeeps, ClaimAttemptKeeps, ReviseKeeps,
     TerminateAttemptKeeps, BlockRejectedKeeps, MaterializeKeeps, ExtendChainKeeps,
     CompleteAttemptKeeps, SaveRevisedKeeps DEF Revision
<1>6. CASE Advance
  BY <1>2, <1>3, <1>4, <1>5, <1>6, CurationPendingKeeps, ReadyKeeps, FailStageKeeps,
     BuildContextKeeps, DryReturnKeeps, InterpretKeeps, SaveBlockedKeeps, SettleKeeps
     DEF Advance
<1>7. CASE Export \/ KnowledgeChanges \/ Crash
  BY <1>7, ExportKeeps, KnowledgeChangesKeeps, CrashKeeps
<1>8. CASE UNCHANGED vars
  <2>1. UNCHANGED <<run, chain, attempts, planFile, reviewFile, plain, snap, call, policy,
                    cycles, archive, work>>
    BY <1>8 DEF vars
  <2>2. /\ HasChain' = HasChain /\ LiveChain' = LiveChain /\ StoredReview' = StoredReview
        /\ LastRound' = LastRound /\ LastAttempt' = LastAttempt /\ LeftChain' = LeftChain
        /\ Open' = Open /\ ChainOK' /\ RoundsPaid' /\ GlobalBudget'
    BY <2>1, Parts, RecordsKept
  <2>3. TypeOK'
    BY <2>1, Parts DEF TypeOK
  <2>4. CallOK' /\ AttemptOK' /\ ProgressOK'
    BY <2>1, <2>2, Parts DEF CallOK, AttemptOK, ProgressOK, At, ChainInEffect, Approved
  <2>5. EvidenceOK'
    BY <2>1, Parts, EvidenceKept
  <2>6. ApprovalOK'
    BY <2>1, <2>2, ApprovalKept
  <2> QED BY <2>2, <2>3, <2>4, <2>5, <2>6 DEF IInv
<1> QED BY <1>1, <1>6, <1>7, <1>8 DEF Next

\* The files of a run, the locals of the call that holds its lock and the
\* evidence cycles stay related as IInv says, whatever is interrupted.
THEOREM Invariant == Spec => []IInv
BY InitInv, NextInv, PTL DEF Spec

\* Every file and local has its type.
THEOREM TypeCorrect == Spec => []TypeOK
<1>1. IInv => TypeOK
  BY Parts
<1> QED BY <1>1, Invariant, PTL

\* Every revised round was paid for by an attempt that was not terminated.
THEOREM EveryRoundPaid == Spec => []RoundsPaid
<1>1. IInv => RoundsPaid
  BY Parts
<1> QED BY <1>1, Invariant, PTL

\* No sequence of resumes, replans and evidence cycles claims more revision
\* attempts than a caller once allowed.
THEOREM BudgetIsGlobal == Spec => []GlobalBudget
<1>1. IInv => GlobalBudget
  BY Parts
<1> QED BY <1>1, Invariant, PTL

\* An approved or exported run carries the approval of its current plan, and
\* the plan is one for its current context.
THEOREM ApprovalIsBound == Spec => []ApprovalBindsPlan
<1>1. IInv => ApprovalBindsPlan
  BY Parts DEF ApprovalOK, Approved, ApprovalBindsPlan
<1> QED BY <1>1, Invariant, PTL

\* Unless a terminated chain was left behind, the approval files that export
\* opens are those of the approved plan.
THEOREM ExportFindsApproval == Spec => []ApprovedIsExportable
<1>1. IInv => ApprovedIsExportable
  BY Parts DEF ApprovalOK, Approved, ApprovedIsExportable
<1> QED BY <1>1, Invariant, PTL

-----------------------------------------------------------------------------
(* The attempts as a ledger of claimed planner calls. *)

\* Changing the newest attempt changes the newest entry of the ledger.
LEMMA LedgerNewest ==
  ASSUME TypeOK, attempts # <<>>, NEW a \in Attempts,
         attempts' = [attempts EXCEPT ![Len(attempts)] = a]
  PROVE  /\ Ledger # <<>> /\ Calls!Newest = LedgerState(LastAttempt)
         /\ Ledger' = [Ledger EXCEPT ![Len(Ledger)] = LedgerState(a)]
<1>1. attempts \in Seq(Attempts)
  BY DEF TypeOK
<1>2. /\ Len(attempts') = Len(attempts) /\ DOMAIN attempts' = DOMAIN attempts
      /\ Len(attempts) \in DOMAIN attempts
      /\ attempts'[Len(attempts)] = a /\ DOMAIN attempts = 1 .. Len(attempts)
      /\ \A i \in DOMAIN attempts : i # Len(attempts) => attempts'[i] = attempts[i]
  BY <1>1, LastReplaced
<1>3. Ledger # <<>> /\ Len(Ledger) = Len(attempts)
  <2>1. Ledger \in Seq({"claimed", "called", "settled"})
    BY <1>1, <1>2 DEF Ledger, LedgerState
  <2> QED BY <1>1, <1>2, <2>1 DEF Ledger
<1>4. Calls!Newest = LedgerState(LastAttempt)
  BY <1>2, <1>3 DEF Calls!Newest, Ledger, LastAttempt
<1>5. Ledger' = [Ledger EXCEPT ![Len(Ledger)] = LedgerState(a)]
  BY <1>2, <1>3 DEF Ledger
<1> QED BY <1>3, <1>4, <1>5

\* The planner is called at most once for an attempt, an attempt is claimed
\* before its call, and none is claimed while the outcome of the one before
\* is unknown: every step of a run is a step of ClaimedCalls or a stutter.
THEOREM ClaimedOnce == Spec => AtMostOnce
<1>1. Init => Calls!Init
  BY DEF Init, Calls!Init, Ledger
<1>2. IInv /\ [Next]_vars => [Calls!Next]_Ledger
  <2> SUFFICES ASSUME IInv, [Next]_vars PROVE Calls!Next \/ Ledger' = Ledger
    OBVIOUS
  <2> USE Parts
  <2>1. attempts \in Seq(Attempts)
    BY DEF TypeOK
  <2>2. ASSUME attempts' = attempts PROVE Ledger' = Ledger
    BY <2>2 DEF Ledger
  <2>3. ASSUME NEW o \in {"COMPLETED", "TERMINATED"}, Open,
               attempts' = [attempts EXCEPT ![Len(attempts)].outcome = o]
        PROVE  Calls!Next
    <3> DEFINE a == [LastAttempt EXCEPT !.outcome = o]
    <3>1. attempts # <<>> /\ LastAttempt \in Attempts /\ LastAttempt.outcome = "open"
      BY <2>1, <2>3 DEF Open, LastAttempt
    <3>2. a \in Attempts /\ LedgerState(a) = "settled" /\ LedgerState(LastAttempt) # "settled"
      BY <3>1 DEF Attempts, LedgerState
    <3>3. attempts' = [attempts EXCEPT ![Len(attempts)] = a]
      BY <2>1, <2>3, <3>1 DEF LastAttempt, Attempts
    <3> HIDE DEF a
    <3>4. /\ Ledger # <<>> /\ Calls!Newest # "settled"
          /\ Ledger' = [Ledger EXCEPT ![Len(Ledger)] = "settled"]
      BY <3>1, <3>2, <3>3, LedgerNewest
    <3> QED BY <3>4 DEF Calls!Next, Calls!Settle
  <2>4. CASE Reconcile
    BY <2>3, <2>4 DEF Reconcile
  <2>5. CASE TerminateAttempt \/ CompleteAttempt
    <3>1. Open
      BY <2>5 DEF TerminateAttempt, CompleteAttempt, AttemptOK, At, Revising
    <3> QED BY <2>3, <2>5, <3>1 DEF TerminateAttempt, CompleteAttempt
  <2>6. CASE Revise
    <3> DEFINE a == [LastAttempt EXCEPT !.calls = 1]
    <3>1. /\ attempts # <<>> /\ LastAttempt.outcome = "open" /\ LastAttempt.calls = 0
          /\ attempts' = [attempts EXCEPT ![Len(attempts)] =
                            [attempts[Len(attempts)] EXCEPT !.calls = @ + 1]]
      BY <2>6 DEF Revise, AttemptOK, At, Revising, Open
    <3>2. LastAttempt \in Attempts
      BY <2>1, <3>1 DEF LastAttempt
    <3>3. /\ a \in Attempts /\ LedgerState(a) = "called"
          /\ LedgerState(LastAttempt) = "claimed"
      BY <3>1, <3>2 DEF Attempts, LedgerState
    <3>4. [attempts[Len(attempts)] EXCEPT !.calls = @ + 1] = a
      BY <3>1, <3>2 DEF LastAttempt, Attempts
    <3>5. attempts' = [attempts EXCEPT ![Len(attempts)] = a]
      BY <3>1, <3>4
    <3> HIDE DEF a
    <3>6. /\ Ledger # <<>> /\ Calls!Newest = "claimed"
          /\ Ledger' = [Ledger EXCEPT ![Len(Ledger)] = "called"]
      BY <3>1, <3>3, <3>5, LedgerNewest
    <3> QED BY <3>6 DEF Calls!Next, Calls!Call
  <2>7. CASE ClaimAttempt
    <3> DEFINE a == [ns |-> E!Namespace, input |-> LastRound.review, calls |-> 0,
                     outcome |-> "open"]
               n == Len(attempts)
               S == {"claimed", "called", "settled"}
               t == Append(Ledger, "claimed")
    <3>1. /\ At("cycle") /\ Revisable /\ ~Open /\ ~Exhausted /\ attempts' = Append(attempts, a)
      BY <2>7 DEF ClaimAttempt
    <3>2. HasChain /\ chain.max \in RevisionOptions
      BY <3>1, AtRevisable DEF ChainOK
    <3>3. a \in Attempts /\ LedgerState(a) = "claimed"
      BY <3>2, PrefixesTyped, ChainTyped, ReviewFields DEF Attempts, LedgerState
    <3> HIDE DEF a
    <3>4. /\ DOMAIN attempts' = 1 .. n + 1 /\ DOMAIN attempts = 1 .. n /\ n \in Nat
          /\ attempts'[n + 1] = a /\ \A i \in 1 .. n : attempts'[i] = attempts[i]
      BY <2>1, <3>1, <3>3, Appended
    <3>5. \A x : LedgerState(x) \in S
      BY DEF LedgerState
    <3>6. /\ Ledger = [i \in 1 .. n |-> LedgerState(attempts[i])]
          /\ Ledger' = [i \in 1 .. n + 1 |-> LedgerState(attempts'[i])]
      BY <3>4 DEF Ledger
    <3>7. /\ Ledger \in Seq(S) /\ Len(Ledger) = n
          /\ Ledger' \in Seq(S) /\ Len(Ledger') = n + 1
      <4> HIDE DEF S, n
      <4> QED BY <3>4, <3>5, <3>6
    <3>8. t \in Seq(S) /\ Len(t) = n + 1 /\ t[n + 1] = "claimed"
          /\ \A i \in 1 .. n : t[i] = Ledger[i]
      <4> HIDE DEF n
      <4> QED BY <3>4, <3>7
    <3>9. \A i \in 1 .. n + 1 : Ledger'[i] = t[i]
      <4> HIDE DEF S, n, t
      <4> QED BY <3>3, <3>4, <3>6, <3>8
    <3>10. Ledger' = t
      <4> HIDE DEF S, n, t
      <4> QED BY <3>7, <3>8, <3>9, SeqEqual
    <3>11. Len(Ledger) < MaxRevisions
      <4>1. n < chain.max /\ chain.max \in 0 .. MaxRevisions
        BY <3>1, <3>4, FieldsTyped DEF Exhausted
      <4> QED BY <3>4, <3>7, <4>1, RunAssumption
    <3>12. Ledger # <<>> => Calls!Newest = "settled"
      <4> SUFFICES ASSUME Ledger # <<>> PROVE Calls!Newest = "settled"
        OBVIOUS
      <4>1. n # 0 /\ n \in 1 .. n /\ attempts # <<>>
        BY <3>4, <3>7
      <4>2. LastAttempt.outcome # "open" /\ LastAttempt = attempts[n]
        BY <3>1, <4>1 DEF Open, LastAttempt
      <4>3. Ledger[n] = "settled"
        BY <3>6, <4>1, <4>2 DEF LedgerState
      <4> QED BY <3>7, <4>3 DEF Calls!Newest
    <3> QED BY <3>10, <3>11, <3>12 DEF Calls!Next, Calls!Claim
  <2>8. CASE attempts' = attempts
    BY <2>2, <2>8
  <2>9. CASE UNCHANGED vars \/ Export \/ KnowledgeChanges \/ Crash
             \/ \E opt \in Options : Enter(opt)
    BY <2>8, <2>9 DEF vars, Export, KnowledgeChanges, Crash, Enter
  <2>10. CASE EvidenceResolution \/ Planning \/ Approval
    <3>1. attempts' = attempts
      BY <2>10 DEF EvidenceResolution, ResolveGap, ResolveReview, EvidenceStep, EvidenceBlocked,
         EvidenceFailed, EvidenceChild, Planning, PlanFromChain, Propose, SavePlanned,
         CreateChain, SelectRound, AwaitApproval, Approval, ReturnUnapproved,
         ReuseRoundApproval, Approve, ApproverFails, SaveApproved, RecordRound
    <3> QED BY <2>8, <3>1
  <2>11. CASE Revision
    BY <2>4, <2>5, <2>6, <2>7, <2>8, <2>11 DEF Revision, RejectTrigger, LeaveCycle, StopRevising,
       BlockRejected, Materialize, ExtendChain, SaveRevised
  <2>12. CASE Advance
    BY <2>8, <2>10, <2>11, <2>12 DEF Advance, CurationPending, Ready, FailStage, BuildContext,
       DryReturn, Interpret, SaveBlocked, Settle
  <2> QED BY <2>9, <2>12 DEF Next
<1> QED
  BY <1>1, <1>2, Invariant, PTL DEF Spec, AtMostOnce, Calls!Spec

-----------------------------------------------------------------------------
(* A run serves its evidence cycles as EvidenceResolution promises.        *)

\* What the run wants resolved, as EvidenceResolution sees it.
Asked == IF At("triggered") THEN "review" ELSE IF InGap THEN "gap" ELSE "no"

\* The cycles' operators read the same files in both instances.
LEMMA SameOperators ==
  /\ Resolver!Off = E!Off /\ Resolver!Last = E!Last
  /\ \A n : Resolver!EnsurePolicy(n) <=> E!EnsurePolicy(n)
  /\ \A review : Resolver!Archive(review) <=> E!Archive(review)
  /\ \A s : Resolver!Refuse(s) <=> E!Refuse(s)
  /\ \A s, t : Resolver!Claim(s, t) <=> E!Claim(s, t)
  /\ Resolver!Resolving <=> E!Resolving
  /\ Resolver!Finish <=> E!Finish
<1>1. Resolver!Off = E!Off /\ Resolver!Last = E!Last /\ Resolver!Completed = E!Completed
      /\ Resolver!Unasked = E!Unasked /\ Resolver!Outcomes = E!Outcomes
  BY DEF Resolver!Off, E!Off, Resolver!Last, E!Last, Resolver!Completed, E!Completed,
     Resolver!Unasked, E!Unasked, Resolver!Outcomes, E!Outcomes
<1>2. Resolver!Max(E!Completed) = E!Max(E!Completed)
  BY DEF Resolver!Max, E!Max
<1>3. Resolver!LatestCompleted = E!LatestCompleted
  BY <1>1, <1>2 DEF Resolver!LatestCompleted, E!LatestCompleted
<1>4. /\ \A s : Resolver!Terminated(s) <=> E!Terminated(s)
      /\ Resolver!RequestUncertain <=> E!RequestUncertain
      /\ Resolver!RetrievalUncertain <=> E!RetrievalUncertain
      /\ Resolver!Exhausted <=> E!Exhausted
  BY <1>1, <1>3 DEF Resolver!Terminated, E!Terminated, Resolver!RequestUncertain,
     E!RequestUncertain, Resolver!RetrievalUncertain, E!RetrievalUncertain,
     Resolver!Exhausted, E!Exhausted
<1>5. \A why : Resolver!Blocked(why) <=> E!Blocked(why)
  BY <1>1 DEF Resolver!Blocked, E!Blocked
<1>6. \A s : Resolver!Refuse(s) <=> E!Refuse(s)
  BY <1>4, <1>5 DEF Resolver!Refuse, E!Refuse
<1>7. \A s, t : Resolver!Claim(s, t) <=> E!Claim(s, t)
  BY <1>1, <1>4 DEF Resolver!Claim, E!Claim
<1>8. \A n : Resolver!EnsurePolicy(n) <=> E!EnsurePolicy(n)
  BY DEF Resolver!EnsurePolicy, E!EnsurePolicy
<1>9. \A review : Resolver!Archive(review) <=> E!Archive(review)
  BY DEF Resolver!Archive, E!Archive, Resolver!ArchiveConflict, E!ArchiveConflict
<1>10. Resolver!Finish <=> E!Finish
  BY <1>1 DEF Resolver!Finish, E!Finish
<1>11. \A request : Resolver!Equivalent(request) <=> E!Equivalent(request)
  BY <1>1 DEF Resolver!Equivalent, E!Equivalent
<1>12. Resolver!Resolving <=> E!Resolving
  <2>1. \A request : Resolver!Ask(request) <=> E!Ask(request)
    BY <1>1 DEF Resolver!Ask, E!Ask
  <2>2. \A outcome : Resolver!Resolve(outcome) <=> E!Resolve(outcome)
    BY <1>1 DEF Resolver!Resolve, E!Resolve
  <2>3. Resolver!ProviderUnavailable <=> E!ProviderUnavailable
    BY <1>5 DEF Resolver!ProviderUnavailable, E!ProviderUnavailable
  <2>4. Resolver!RepeatRefused <=> E!RepeatRefused
    BY <1>5, <1>11 DEF Resolver!RepeatRefused, E!RepeatRefused
  <2>5. Resolver!SaveRequests <=> E!SaveRequests
    BY <1>11 DEF Resolver!SaveRequests, E!SaveRequests
  <2>6. Resolver!CloseTerminal <=> E!CloseTerminal
    BY <1>1, <1>5 DEF Resolver!CloseTerminal, E!CloseTerminal
  <2>7. (Resolver!CloseWithChild <=> E!CloseWithChild) /\ (Resolver!Fail <=> E!Fail)
    BY <1>1 DEF Resolver!CloseWithChild, E!CloseWithChild, Resolver!Fail, E!Fail
  <2> QED
    BY <1>1, <2>1, <2>2, <2>3, <2>4, <2>5, <2>6, <2>7 DEF Resolver!Resolving, E!Resolving
<1> QED BY <1>1, <1>6, <1>7, <1>8, <1>9, <1>10, <1>12

\* A step that leaves the cycles, the context's snapshot and the question
\* alone is a stuttering step of the resolver.
LEMMA ResolverStutters ==
  ASSUME UNCHANGED <<policy, cycles, archive, work, snap>>,
         run'.ctx.snap = run.ctx.snap, Asked' = Asked
  PROVE  UNCHANGED Resolver!vars
BY DEF Resolver!vars, Resolver!evidenceVars, Asked

\* A step of the call from and to places where nothing is asked.
LEMMA NothingAsked ==
  ASSUME UNCHANGED evidence, UNCHANGED snap, run'.ctx.snap = run.ctx.snap,
         ~At("triggered"), ~InGap, call'.pc \notin {"triggered", "interpreted"}
  PROVE  UNCHANGED Resolver!vars
<1>1. Asked = "no" /\ Asked' = "no"
  BY DEF Asked, At, InGap
<1> QED BY <1>1, ResolverStutters DEF evidence

\* Where nothing is asked, and where what is.
LEMMA AskedAt ==
  /\ call.pc \notin {"triggered", "interpreted"} => Asked = "no"
  /\ At("triggered") => Asked = "review"
  /\ At("interpreted") /\ call.chained => Asked = "no"
  /\ InGap => Asked = "gap"
  /\ Asked = "review" => At("triggered")
  /\ Asked = "gap" => InGap
BY DEF Asked, At, InGap

LEMMA ResolutionMaps ==
  ASSUME IInv, EvidenceResolution
  PROVE  [Resolver!Next]_Resolver!vars
<1> USE Parts
<1>1. CASE ResolveGap \/ ResolveReview
  <2>1. /\ Asked \in {"gap", "review"}
        /\ E!Refuse(run.ctx.snap) \/ E!Claim(run.ctx.snap, Asked)
    BY <1>1, AskedAt DEF ResolveGap, ResolveReview
  <2>2. Resolver!Refuse(run.ctx.snap) \/ Resolver!Claim(run.ctx.snap, Asked)
    BY <2>1, SameOperators
  <2>3. UNCHANGED <<snap, run>> /\ Asked' = Asked
    BY <1>1 DEF ResolveGap, ResolveReview, Asked, InGap, At
  <2>4. Resolver!Decide
    BY <2>1, <2>2, <2>3 DEF Resolver!Decide, Asked
  <2> QED BY <2>4 DEF Resolver!Next, Resolver!Serve
<1>2. CASE EvidenceStep
  <2>1. Resolver!Resolving
    BY <1>2, SameOperators DEF EvidenceStep
  <2>2. UNCHANGED <<snap, run>> /\ Asked' = Asked
    BY <1>2 DEF EvidenceStep, Asked, InGap, At
  <2>3. Resolver!Answer
    BY <2>1, <2>2 DEF Resolver!Answer, Asked
  <2> QED BY <2>3 DEF Resolver!Next, Resolver!Serve
<1>3. ASSUME E!Finish, UNCHANGED snap, run'.ctx.snap = run.ctx.snap,
             Asked' = IF work.step = "child" /\ Asked = "gap" THEN "gap" ELSE "no"
      PROVE  Resolver!Next
  <2>1. Resolver!Finish
    BY <1>3, SameOperators
  <2>2. Resolver!Take
    BY <1>3, <2>1 DEF Resolver!Take, Asked
  <2> QED BY <2>2 DEF Resolver!Next, Resolver!Serve
<1>4. CASE EvidenceBlocked \/ EvidenceFailed
  <2>1. E!Finish /\ work.step \in {"blocked", "failed"} /\ UNCHANGED snap /\ Return
    BY <1>4 DEF EvidenceBlocked, EvidenceFailed
  <2>2. run'.ctx = run.ctx
    BY <1>4 DEF EvidenceBlocked, EvidenceFailed, Save, TypeOK, Runs
  <2>3. Asked' = "no"
    BY <2>1 DEF Return, Idle, Asked, At, InGap
  <2> QED BY <1>3, <2>1, <2>2, <2>3
<1>5. CASE EvidenceChild
  <2>1. E!Finish /\ work.step = "child" /\ UNCHANGED snap /\ (InGap \/ At("triggered"))
    BY <1>5 DEF EvidenceChild, EvidenceOK
  <2>2. run'.ctx.snap = run.ctx.snap
    BY <1>5, FieldsTyped DEF EvidenceChild, Cleared, TypeOK, Runs, Contexts
  <2>3. CASE At("interpreted") /\ UNCHANGED call
    <3>1. InGap /\ InGap' /\ Asked = "gap" /\ Asked' = "gap"
      BY <2>1, <2>3, AskedAt DEF InGap, At, Asked
    <3> QED BY <1>3, <2>1, <2>2, <3>1
  <2>4. CASE At("triggered") /\ call'.pc = "entered"
    <3>1. Asked = "review" /\ Asked' = "no"
      BY <2>4, AskedAt DEF InGap, At, Asked
    <3> QED BY <1>3, <2>1, <2>2, <3>1
  <2>5. At("triggered") => (call'.pc = "entered" \/ (At("interpreted") /\ UNCHANGED call))
    BY <1>5 DEF EvidenceChild, Idle
  <2> QED BY <1>5, <2>1, <2>3, <2>4, <2>5 DEF EvidenceChild, InGap
<1> QED BY <1>1, <1>2, <1>3, <1>4, <1>5 DEF EvidenceResolution

\* Where a step leaves the call.
LEMMA PlaceAfter ==
  ASSUME TypeOK
  PROVE  /\ \A pc : Goto(pc) => call'.pc = pc
         /\ Return => call'.pc = "idle"
         /\ \A reason : Block(reason) => call'.pc = "blocking"
         /\ \A status : Save(status) => run'.ctx = run.ctx
BY DEF Goto, Return, Idle, Block, Save, TypeOK, Call, Runs

LEMMA CallMaps ==
  ASSUME IInv, Advance, ~EvidenceResolution
  PROVE  [Resolver!Next]_Resolver!vars
<1> USE Parts
<1> DEFINE away == {"triggered", "interpreted"}
<1>1. ASSUME UNCHANGED <<snap, evidence>>, run'.ctx = run.ctx, InGap, work.step = "off",
             call'.pc \notin away
      PROVE  Resolver!Next
  <2>1. Asked = "gap" /\ Asked' = "no" /\ UNCHANGED Resolver!evidenceVars
    BY <1>1, AskedAt DEF Asked, At, InGap, evidence, Resolver!evidenceVars
  <2>2. Resolver!Leave
    BY <1>1, <2>1 DEF Resolver!Leave, Asked
  <2> QED BY <2>2 DEF Resolver!Next, Resolver!Serve
<1>2. CASE FailStage
  <2>1. /\ UNCHANGED <<snap, evidence>> /\ run'.ctx = run.ctx /\ work.step = "off"
        /\ call'.pc \notin away /\ ~At("triggered")
    BY <1>2 DEF FailStage, Quiet, Save, Return, Idle, TypeOK, Runs, At
  <2> QED BY <1>1, <2>1, NothingAsked
<1>3. CASE BuildContext
  <2>1. UNCHANGED <<snap, evidence>> /\ Asked = "no" /\ Asked' = "no"
    BY <1>3, AskedAt DEF BuildContext, Block, Goto, At, Asked, InGap, TypeOK, Call
  <2>2. CASE UNCHANGED run
    BY <2>1, <2>2, ResolverStutters DEF evidence
  <2>3. CASE run'.ctx.snap = snap
    <3>1. Resolver!BuildContext
      BY <2>1, <2>3 DEF Resolver!BuildContext, Asked, evidence, Resolver!evidenceVars
    <3> QED BY <3>1 DEF Resolver!Next
  <2>4. UNCHANGED run \/ run'.ctx.snap = snap
    <3> DEFINE c == [snap |-> snap, cyc |-> E!ChildFor(snap)]
    <3>1. UNCHANGED run \/ run' = [IF run.ctx \in {NoContext, c} THEN run ELSE Cleared(run)
                                   EXCEPT !.status = "CONTEXT_BUILT", !.ctx = c]
      BY <1>3 DEF BuildContext
    <3>2. c.snap = snap
      OBVIOUS
    <3> HIDE DEF c
    <3>3. run \in Runs /\ Cleared(run) \in [status : Statuses, ctx : Contexts, plan : {NoPlan},
             sel : {FALSE}, appr : {NoReview}, exported : {FALSE}]
      BY DEF TypeOK, Cleared, Runs
    <3> QED BY <3>1, <3>2, <3>3 DEF Runs
  <2> QED BY <2>2, <2>3, <2>4
<1>4. CASE Interpret
  <2>1. /\ UNCHANGED <<snap, evidence>> /\ run'.ctx = run.ctx /\ Asked = "no"
        /\ call'.chained = call.chained /\ call'.pc = "interpreted" /\ run.ctx.snap # 0
    BY <1>4, AskedAt DEF Interpret, Goto, At, Save, TypeOK, Runs, Call, CallOK, BeforeContext
  <2>2. CASE call.chained
    <3>1. Asked' = "no"
      BY <2>1, <2>2 DEF Asked, At, InGap
    <3> QED BY <2>1, <3>1, ResolverStutters DEF evidence
  <2>3. CASE ~call.chained
    <3>1. Asked' = "gap"
      BY <2>1, <2>3 DEF Asked, At, InGap
    <3>2. Resolver!GapFound
      BY <2>1, <3>1 DEF Resolver!GapFound, Asked, evidence, Resolver!evidenceVars
    <3> QED BY <3>2 DEF Resolver!Next
  <2> QED BY <2>2, <2>3
<1>5. CASE Settle
  <2>1. Asked = "no" /\ UNCHANGED <<run, snap>>
    BY <1>5, AskedAt DEF Settle, At
  <2>2. CASE Return /\ UNCHANGED evidence
    <3>1. Asked' = "no"
      BY <2>2 DEF Return, Idle, Asked, At, InGap
    <3> QED BY <2>1, <2>2, <3>1, ResolverStutters DEF evidence
  <2>3. CASE /\ policy # 0 /\ StoredReview.verdict = "INSUFFICIENT"
             /\ E!Archive(StoredReview) /\ Goto("triggered")
    <3>1. StoredReview \in Reviews \ {NoReview}
      BY <2>3, ChainTyped, MissingTyped
    <3>2. Asked' = "review" /\ run.ctx.snap # 0
      BY <1>5, <2>3 DEF Settle, Goto, Asked, At, TypeOK, Call, CallOK, BeforeContext
    <3>3. Resolver!Archive(StoredReview)
      BY <2>3, SameOperators
    <3>4. Resolver!ReviewFound(StoredReview)
      BY <2>1, <2>3, <3>2, <3>3 DEF Resolver!ReviewFound, Asked
    <3> QED BY <3>1, <3>4 DEF Resolver!Next
  <2> QED BY <1>5, <2>2, <2>3 DEF Settle
<1>6. CASE CurationPending \/ Ready \/ DryReturn \/ SaveBlocked
  <2>1. /\ UNCHANGED <<snap, evidence>> /\ run'.ctx = run.ctx /\ call'.pc \notin away
        /\ ~At("triggered") /\ ~InGap
    BY <1>6, PlaceAfter DEF CurationPending, Ready, DryReturn, SaveBlocked, At, InGap
  <2> QED BY <2>1, NothingAsked
<1>7. CASE \E out \in Outputs : Propose(out)
  <2>1. PICK out \in Outputs : Propose(out)
    BY <1>7
  <2>2. /\ UNCHANGED <<snap, evidence, run>> /\ InGap /\ work.step = "off"
        /\ call'.pc \notin away
    <3>1. InGap /\ Quiet /\ UNCHANGED <<run, chain, attempts, reviewFile, snap, evidence>>
      BY <2>1 DEF Propose
    <3>2. \E proposal, plan : WriteProposal(proposal, plan)
      BY <2>1 DEF Propose
    <3>3. PICK proposal, plan : WriteProposal(proposal, plan)
      BY <3>2
    <3>4. Return \/ call' = [call EXCEPT !.pc = "proposed", !.plan = plan]
      BY <3>3 DEF WriteProposal
    <3>5. call'.pc \in {"idle", "proposed"}
      BY <3>4, PlaceAfter DEF TypeOK, Call
    <3> QED BY <3>1, <3>5 DEF Quiet
  <2> QED BY <1>1, <2>2
<1>8. CASE Planning /\ ~ \E out \in Outputs : Propose(out)
  <2>1. UNCHANGED <<snap, evidence>> /\ run'.ctx = run.ctx
    BY <1>8 DEF Planning, PlanFromChain, SavePlanned, CreateChain, SelectRound, AwaitApproval,
       Save, TypeOK, Runs
  <2>2. ~At("triggered") /\ ~InGap /\ call'.pc \notin away
    BY <1>8 DEF Planning, PlanFromChain, SavePlanned, CreateChain, SelectRound, AwaitApproval,
       At, InGap, Goto, Block, TypeOK, Call
  <2> QED BY <2>1, <2>2, NothingAsked
<1>9. CASE Approval
  <2>1. UNCHANGED <<snap, evidence>>
    BY <1>9 DEF Approval, ReturnUnapproved, ReuseRoundApproval, Approve, ApproverFails,
       SaveApproved, RecordRound
  <2>2. run'.ctx = run.ctx
    BY <1>9, ReusedFacts DEF Approval, ReturnUnapproved, ReuseRoundApproval, Approve,
       ApproverFails, SaveApproved, RecordRound, Save, TypeOK, Runs
  <2>3. ~At("triggered") /\ ~InGap
    BY <1>9 DEF Approval, ReturnUnapproved, ReuseRoundApproval, Approve, Approving,
       ApproverFails, SaveApproved, RecordRound, At, InGap
  <2>4. call'.pc \notin away
    <3>1. CASE \E verdict \in Verdicts : Approve(verdict)
      <4>1. PICK verdict \in Verdicts : Approve(verdict)
        BY <3>1
      <4> DEFINE review == [plan |-> run.plan, verdict |-> verdict]
      <4>2. Return \/ call' = [call EXCEPT !.pc = "reviewed", !.review = review]
        BY <4>1 DEF Approve
      <4> HIDE DEF review
      <4>3. call'.pc \in {"idle", "reviewed"}
        BY <4>2, PlaceAfter DEF TypeOK, Call
      <4> QED BY <4>3
    <3>2. CASE ReturnUnapproved \/ ReuseRoundApproval \/ ApproverFails \/ SaveApproved
               \/ RecordRound
      BY <3>2, PlaceAfter DEF ReturnUnapproved, ReuseRoundApproval, ApproverFails,
         SaveApproved, RecordRound
    <3> QED BY <1>9, <3>1, <3>2 DEF Approval
  <2> QED BY <2>1, <2>2, <2>3, <2>4, NothingAsked
<1>10. CASE Revision
  <2>1. UNCHANGED <<snap, evidence>>
    BY <1>10 DEF Revision, RejectTrigger, LeaveCycle, Reconcile, StopRevising, ClaimAttempt, Revise,
       TerminateAttempt, BlockRejected, Materialize, ExtendChain, CompleteAttempt, SaveRevised
  <2>2. run'.ctx = run.ctx
    BY <1>10 DEF Revision, RejectTrigger, LeaveCycle, Reconcile, StopRevising, ClaimAttempt, Revise,
       TerminateAttempt, BlockRejected, Materialize, ExtendChain, CompleteAttempt, SaveRevised,
       TypeOK, Runs
  <2>3. ~At("triggered") /\ ~InGap
    BY <1>10 DEF Revision, RejectTrigger, LeaveCycle, Reconcile, StopRevising, ClaimAttempt, Revise,
       TerminateAttempt, BlockRejected, Materialize, ExtendChain, CompleteAttempt, SaveRevised,
       At, InGap
  <2>4. call'.pc \notin away
    <3>1. CASE Reconcile
      BY <3>1 DEF Reconcile, At
    <3>2. CASE Revise
      <4>1. Goto("rejected") \/ \E plan : call' = [call EXCEPT !.pc = "answered", !.plan = plan]
        BY <3>2 DEF Revise
      <4>2. call'.pc \in {"rejected", "answered"}
        BY <4>1, PlaceAfter DEF TypeOK, Call
      <4> QED BY <4>2
    <3>3. CASE \/ RejectTrigger \/ LeaveCycle \/ StopRevising \/ ClaimAttempt
               \/ TerminateAttempt \/ BlockRejected \/ Materialize \/ ExtendChain \/ CompleteAttempt \/ SaveRevised
      BY <3>3, PlaceAfter DEF RejectTrigger, LeaveCycle, StopRevising, ClaimAttempt,
         TerminateAttempt, BlockRejected, Materialize, ExtendChain, CompleteAttempt, SaveRevised
    <3> QED BY <1>10, <3>1, <3>2, <3>3 DEF Revision
  <2> QED BY <2>1, <2>2, <2>3, <2>4, NothingAsked
<1> QED BY <1>2, <1>3, <1>4, <1>5, <1>6, <1>7, <1>8, <1>9, <1>10 DEF Advance

\* The run implements the contract of its evidence cycles: its knowledge
\* snapshot, its context and its questions are a caller EvidenceResolution
\* allows, whatever it plans, approves and revises in between.
THEOREM ServesEvidence == Spec => EvidenceContract
<1>1. Init => Resolver!Init
  <2> SUFFICES ASSUME Init PROVE Resolver!Init
    OBVIOUS
  <2>1. run.ctx.snap = 0 /\ snap = 1 /\ Asked = "no"
    BY AskedAt DEF Init, NoRun, NoContext, Idle
  <2>2. Resolver!CyclesInit
    BY DEF Init, E!CyclesInit, Resolver!CyclesInit, E!Off, Resolver!Off
  <2> QED BY <2>1, <2>2 DEF Resolver!Init, Asked
<1>2. IInv /\ [Next]_vars => [Resolver!Next]_Resolver!vars
  <2> SUFFICES ASSUME IInv, [Next]_vars PROVE [Resolver!Next]_Resolver!vars
    OBVIOUS
  <2> USE Parts
  <2>1. CASE \E opt \in Options : Enter(opt)
    <3>1. PICK opt \in Options : Enter(opt)
      BY <2>1
    <3>2. E!EnsurePolicy(opt.cycles) /\ opt.cycles \in 0 .. CycleLimit /\ UNCHANGED <<run, snap>>
      BY <3>1, OptionFields DEF Enter
    <3>3. Asked = "no" /\ Asked' = "no"
      BY <3>1, AskedAt DEF Enter, Asked, At, InGap, Idle
    <3>4. Resolver!EnsurePolicy(opt.cycles)
      BY <3>2, SameOperators
    <3>5. Resolver!Configure(opt.cycles)
      BY <3>2, <3>3, <3>4 DEF Resolver!Configure, Asked
    <3> QED BY <3>2, <3>5 DEF Resolver!Next
  <2>2. CASE Advance
    BY <2>2, ResolutionMaps, CallMaps
  <2>3. CASE Export
    <3>1. UNCHANGED <<call, snap, evidence>> /\ run'.ctx = run.ctx
      BY <2>3 DEF Export, TypeOK, Runs
    <3> QED BY <3>1, ResolverStutters DEF evidence, Asked, At, InGap
  <2>4. CASE KnowledgeChanges
    <3>1. /\ snap < MaxSnapshot /\ snap' = snap + 1 /\ Asked' = Asked
          /\ UNCHANGED <<run, policy, cycles, archive, work>>
      BY <2>4 DEF KnowledgeChanges, Asked, At, InGap, evidence
    <3>2. Resolver!KnowledgeChanges
      BY <3>1 DEF Resolver!KnowledgeChanges, Resolver!evidenceVars, Asked
    <3> QED BY <3>2 DEF Resolver!Next
  <2>5. CASE Crash
    <3>1. /\ UNCHANGED <<run, snap, policy, cycles, archive>> /\ Asked' = "no"
          /\ work' = E!Off /\ Resolver!Off = E!Off
      BY <2>5, SameOperators DEF Crash, Return, Idle, Asked, At, InGap
    <3>2. CASE Asked = "no"
      <4>1. work = E!Off
        BY <3>2 DEF EvidenceOK, Asked
      <4> QED BY <3>1, <3>2, <4>1, ResolverStutters
    <3>3. CASE Asked # "no"
      <4>1. Resolver!Die
        BY <3>1, <3>3 DEF Resolver!Die, Asked
      <4> QED BY <4>1 DEF Resolver!Next
    <3> QED BY <3>2, <3>3
  <2>6. CASE UNCHANGED vars
    BY <2>6, ResolverStutters DEF vars, Asked, At, InGap
  <2> QED BY <2>1, <2>2, <2>3, <2>4, <2>5, <2>6 DEF Next
<1> QED
  BY <1>1, <1>2, Invariant, PTL DEF Spec, EvidenceContract, Resolver!Spec

-----------------------------------------------------------------------------
(* How a chain changes.                                                    *)

\* Where a call may stand before it planned, and where the resolver is at
\* work on a cycle.
Early == {"entered", "ready", "context", "interpreted"}
Busy == {"claimed", "asked", "requested", "resolved", "child"}

\* The context of the chain belongs to the snapshot of the run's, and
\* resolution ended for it.
Ended == chain.ctx.snap = run.ctx.snap /\ E!Terminated(run.ctx.snap)

\* Snapshots never decrease along the cycles, and the run's context is not
\* older than its cycles.
CyclesOrdered ==
  /\ \A i, j \in DOMAIN cycles : i <= j => cycles[i].snap <= cycles[j].snap
  /\ \A i \in DOMAIN cycles : cycles[i].snap <= run.ctx.snap
  /\ run.ctx.snap <= snap
  /\ run.ctx.cyc # 0 => cycles[run.ctx.cyc].snap = run.ctx.snap
  /\ work.step \in Busy => E!Last.snap = run.ctx.snap

\* The run's context comes after the chain's unless resolution has ended;
\* then a call that is not working on the chain does not get to plan.
ChainBehind ==
  HasChain =>
    /\ chain.ctx.snap # 0
    /\ run.ctx = chain.ctx \/ Before(chain.ctx, run.ctx) \/ Ended
    /\ ~At("idle") /\ ~call.chained =>
         \/ Before(chain.ctx, run.ctx)
         \/ Ended /\ call.pc \in Early /\ work.step \notin Busy

\* A review is recorded in the chain once.
RecordedOnce == At("approved") => LastRound.review = NoReview

OrderInv == CyclesOrdered /\ ChainBehind /\ RecordedOnce

LEMMA BlockGrows ==
  ASSUME TypeOK, NEW reason, Block(reason),
         chain.term = "none" \/ reason = "INVALID_TRIGGER_APPROVAL_CHAIN"
  PROVE  ChainGrows /\ HasChain' = HasChain
<1>1. /\ chain'.rounds = chain.rounds /\ chain'.ctx = chain.ctx /\ chain'.max = chain.max
      /\ chain'.term = reason /\ Len(chain.rounds) \in Nat
  BY DEF Block, TypeOK, Chains
<1> QED BY <1>1 DEF ChainGrows, HasChain

\* The approval of a round is recorded in a chain that is in effect.
LEMMA RecordGrows ==
  ASSUME IInv, RecordedOnce, RecordRound
  PROVE  ChainInEffect(run) /\ ChainGrows /\ HasChain
<1> USE Parts
<1> DEFINE review == reviewFile[Prefix(LastIndex)]
           round == [LastRound EXCEPT !.review = review]
           n == Len(chain.rounds)
<1>1. /\ ChainInEffect(run) /\ HasChain /\ chain.term = "none"
      /\ LastRound.review = NoReview
  BY DEF RecordRound, RecordedOnce, CallOK, At, ChainInEffect, InChain, Closing
<1>2. /\ LastRound \in Rounds /\ n \in DOMAIN chain.rounds /\ chain.rounds \in Seq(Rounds)
      /\ StoredReview \in Reviews /\ n \in Nat
  BY <1>1, ChainTyped, FieldsTyped
<1>3. review \in Reviews
  BY <1>1, <1>2 DEF StoredReview
<1>4. /\ round \in Rounds /\ round.review = review /\ round.plan = LastRound.plan
      /\ round.input = LastRound.input
  BY <1>2, <1>3 DEF Rounds
<1>5. /\ chain'.rounds = [chain.rounds EXCEPT ![n] = round]
      /\ chain'.ctx = chain.ctx /\ chain'.max = chain.max
  BY <1>2 DEF RecordRound, LastRound, Rounds, TypeOK, Chains
<1> HIDE DEF review, round
<1>6. /\ Len(chain'.rounds) = n /\ chain'.rounds[n] = round
      /\ \A i \in DOMAIN chain.rounds : i # n => chain'.rounds[i] = chain.rounds[i]
  BY <1>1, <1>2, <1>4, <1>5, LastReplaced DEF HasChain
<1>7. \A i \in DOMAIN chain.rounds :
        /\ chain'.rounds[i].plan = chain.rounds[i].plan
        /\ chain'.rounds[i].input = chain.rounds[i].input
        /\ chain.rounds[i].review \in {NoReview, chain'.rounds[i].review}
  BY <1>1, <1>4, <1>6 DEF LastRound
<1> QED BY <1>1, <1>2, <1>5, <1>6, <1>7 DEF ChainGrows

\* A revised round is added to a chain that is in effect.
LEMMA ExtendGrows ==
  ASSUME IInv, ExtendChain
  PROVE  ChainInEffect(run) /\ ChainGrows /\ HasChain
<1> USE Parts
<1> DEFINE round == [plan |-> call.plan, input |-> LastAttempt.input, review |-> NoReview]
           rounds == Append(chain.rounds, round)
           n == Len(chain.rounds)
<1>1. HasChain /\ chain.term = "none" /\ run.ctx = chain.ctx
  BY InRevision DEF ExtendChain, At, Revising
<1>2. /\ chain'.rounds = rounds /\ chain'.ctx = chain.ctx /\ chain'.max = chain.max
  BY DEF ExtendChain, TypeOK, Chains
<1>3. chain.rounds \in Seq(Rounds) /\ n \in Nat /\ DOMAIN chain.rounds = 1 .. n
  BY DEF TypeOK, Chains
<1> HIDE DEF round
<1>4. Len(rounds) = n + 1 /\ \A i \in 1 .. n : rounds[i] = chain.rounds[i]
  BY <1>3
<1> HIDE DEF rounds
<1> QED BY <1>1, <1>2, <1>3, <1>4 DEF ChainGrows, ChainInEffect

\* Except to create one, the call changes only a chain that is in effect, and
\* only adds to it or ends it.
LEMMA ChainMoves ==
  ASSUME IInv, RecordedOnce, Advance, ~CreateChain
  PROVE  UNCHANGED chain \/ (ChainInEffect(run) /\ HasChain /\ ChainGrows)
<1> USE Parts
<1>1. ASSUME NEW reason, Block(reason), ChainInEffect(run),
             chain.term = "none" \/ reason = "INVALID_TRIGGER_APPROVAL_CHAIN"
      PROVE  ChainInEffect(run) /\ HasChain /\ ChainGrows
  BY <1>1, BlockGrows DEF ChainInEffect
<1>2. CASE BuildContext
  BY <1>1, <1>2 DEF BuildContext, CallOK, At, Closing
<1>3. CASE PlanFromChain
  BY <1>1, <1>3 DEF PlanFromChain, CallOK, At, Closing
<1>4. CASE ReuseRoundApproval
  <2>1. call.chained
    BY <1>4 DEF ReuseRoundApproval, RoundReviewed
  <2> QED BY <1>1, <1>4, <2>1 DEF ReuseRoundApproval, CallOK, At, Closing
<1>5. CASE RecordRound
  BY <1>5, RecordGrows
<1>6. CASE StopRevising
  <2>1. ChainInEffect(run) /\ chain.term = "none"
    BY <1>6, AtRevisable DEF StopRevising, ChainInEffect
  <2>2. \E reason : Block(reason)
    BY <1>6 DEF StopRevising
  <2> QED BY <1>1, <2>1, <2>2
<1>7. CASE BlockRejected
  <2>1. ChainInEffect(run) /\ chain.term = "none"
    BY <1>7, InRevision DEF BlockRejected, ChainInEffect, At
  <2> QED BY <1>1, <1>7, <2>1 DEF BlockRejected
<1>8. CASE ExtendChain
  BY <1>8, ExtendGrows
<1>9. CASE EvidenceResolution
  BY <1>9 DEF EvidenceResolution, ResolveGap, ResolveReview, EvidenceStep, EvidenceBlocked,
     EvidenceFailed, EvidenceChild
<1>10. CASE \/ \E out \in Outputs : Propose(out)
            \/ SavePlanned \/ SelectRound \/ AwaitApproval
  BY <1>10 DEF Propose, SavePlanned, SelectRound, AwaitApproval
<1>11. CASE \/ \E verdict \in Verdicts : Approve(verdict)
            \/ ReturnUnapproved \/ ApproverFails \/ SaveApproved
  BY <1>11 DEF Approve, ReturnUnapproved, ApproverFails, SaveApproved
<1>14. CASE RejectTrigger
  <2>1. ChainInEffect(run)
    BY <1>14 DEF RejectTrigger, CallOK, At, InChain
  <2> QED BY <1>1, <1>14, <2>1 DEF RejectTrigger
<1>12. CASE LeaveCycle \/ Reconcile \/ ClaimAttempt \/ Revise \/ TerminateAttempt
            \/ Materialize \/ CompleteAttempt \/ SaveRevised
  BY <1>12 DEF LeaveCycle, Reconcile, ClaimAttempt, Revise, TerminateAttempt, Materialize,
     CompleteAttempt, SaveRevised
<1>13. CASE CurationPending \/ Ready \/ FailStage \/ DryReturn \/ Interpret \/ SaveBlocked
            \/ Settle
  BY <1>13 DEF CurationPending, Ready, FailStage, DryReturn, Interpret, SaveBlocked, Settle
<1> QED BY <1>2, <1>3, <1>4, <1>5, <1>6, <1>7, <1>8, <1>9, <1>10, <1>11, <1>12, <1>13,
           <1>14
        DEF Advance, Planning, Approval, Revision

\* Numbers and records behind the order of contexts.
LEMMA OrderTyped ==
  ASSUME TypeOK
  PROVE  /\ chain.ctx \in Contexts /\ run.ctx \in Contexts
         /\ chain.ctx.snap \in Nat /\ chain.ctx.cyc \in Nat
         /\ run.ctx.snap \in Nat /\ run.ctx.cyc \in Nat /\ snap \in Nat
         /\ chain.ctx = [snap |-> chain.ctx.snap, cyc |-> chain.ctx.cyc]
         /\ run.ctx = [snap |-> run.ctx.snap, cyc |-> run.ctx.cyc]
         /\ \A i \in DOMAIN cycles : cycles[i].snap \in Nat
         /\ DOMAIN cycles = 1 .. Len(cycles) /\ Len(cycles) \in Nat
<1>1. chain.ctx \in Contexts /\ run.ctx \in Contexts
  BY FieldsTyped
<1>2. \A c \in Contexts : /\ c.snap \in Nat /\ c.cyc \in Nat
                          /\ c = [snap |-> c.snap, cyc |-> c.cyc]
  BY RunAssumption DEF Contexts
<1>3. cycles \in Seq(E!Cycle) /\ snap \in Nat
  BY RunAssumption DEF TypeOK
<1>4. \A c \in E!Cycle : c.snap \in Nat
  BY DEF E!Cycle
<1> QED BY <1>1, <1>2, <1>3, <1>4

\* A step that leaves the cycles and the contexts alone, and with them the
\* call on its chain or before or after its planning.
LEMMA OrderKept ==
  ASSUME CyclesOrdered, ChainBehind, UNCHANGED <<cycles, snap>>,
         run'.ctx = run.ctx, chain'.ctx = chain.ctx, HasChain' = HasChain,
         work' = work \/ work' = E!Off,
         \/ call'.pc = "idle"
         \/ /\ ~At("idle") /\ call'.chained = call.chained
            /\ call.chained \/ call.pc \notin Early \/ call'.pc \in Early
  PROVE  CyclesOrdered' /\ ChainBehind'
<1>1. /\ E!Terminated(run.ctx.snap)' = E!Terminated(run.ctx.snap) /\ E!Last' = E!Last
  <2>1. E!LatestCompleted' = E!LatestCompleted
    BY NamespaceKept
  <2> QED BY <2>1 DEF E!Terminated, E!Last
<1>2. Ended' = Ended /\ Before(chain.ctx, run.ctx)' = Before(chain.ctx, run.ctx)
  BY <1>1 DEF Ended, Before, E!Terminated
<1>3. work'.step \in Busy => work' = work
  BY DEF E!Off, Busy
<1>4. CyclesOrdered'
  BY <1>1, <1>3 DEF CyclesOrdered
<1>5. ChainBehind'
  BY <1>2, <1>3 DEF ChainBehind, At, Early
<1> QED BY <1>4, <1>5

\* When a child context comes before an older one of its snapshot, the
\* latest cycle has ended resolution for that snapshot.
LEMMA ChildIsNewest ==
  ASSUME TypeOK, EvidenceOK, CyclesOrdered, run.ctx.snap = snap
  PROVE  E!ChildFor(snap) >= run.ctx.cyc \/ E!Terminated(snap)
<1>1. CASE run.ctx.cyc = 0
  BY <1>1, NewestIsCompleted, OrderTyped
<1>2. CASE run.ctx.cyc # 0
  <2> DEFINE k == run.ctx.cyc
             l == E!LatestCompleted
  <2>1. k \in E!Completed /\ k \in 1 .. Len(cycles) /\ k <= l
    BY <1>2, NewestIsCompleted, OrderTyped DEF EvidenceOK
  <2>2. l \in E!Completed /\ l \in 1 .. Len(cycles) /\ l # 0
    BY <2>1, NewestIsCompleted
  <2>3. cycles[l].snap = snap
    <3>1. cycles[k].snap <= cycles[l].snap /\ cycles[l].snap <= snap /\ cycles[k].snap = snap
      BY <1>2, <2>1, <2>2, OrderTyped DEF CyclesOrdered
    <3> QED BY <3>1, <2>2, OrderTyped
  <2>4. cycles[l].record \in {"terminal", "child"}
    <3>1. cycles[l] \in E!Cycle
      BY <2>2 DEF TypeOK
    <3> QED BY <2>2, <3>1 DEF E!Completed, E!Cycle
  <2>5. CASE cycles[l].record = "terminal"
    BY <2>2, <2>3, <2>5 DEF E!Terminated
  <2>6. CASE cycles[l].record = "child"
    <3>1. E!Namespace = l
      BY <2>2, <2>6 DEF E!Namespace
    <3>2. E!ChildFor(snap) = l
      BY <2>2, <2>3, <3>1 DEF E!ChildFor
    <3> QED BY <2>1, <3>2
  <2> QED BY <2>4, <2>5, <2>6
<1> QED BY <1>1, <1>2

LEMMA BuildContextOrder ==
  ASSUME IInv, CyclesOrdered, ChainBehind, BuildContext
  PROVE  CyclesOrdered' /\ ChainBehind'
<1> USE Parts
<1> DEFINE c == [snap |-> snap, cyc |-> E!ChildFor(snap)]
<1>1. /\ At("ready") /\ UNCHANGED <<cycles, snap, work>> /\ work.step = "off"
      /\ E!Terminated(snap)' = E!Terminated(snap)
  <2>1. At("ready") /\ UNCHANGED <<cycles, snap, work>>
    BY DEF BuildContext, evidence
  <2>2. E!LatestCompleted' = E!LatestCompleted
    BY <2>1, NamespaceKept
  <2> QED BY <2>1, <2>2, ResolverOff DEF At, E!Terminated
<1>2. CASE call.chained /\ Block("TRUSTED_CONTEXT_CHANGED") /\ UNCHANGED run
  <2>1. chain'.ctx = chain.ctx /\ HasChain' = HasChain /\ call'.chained = call.chained
    BY <1>2 DEF Block, Goto, HasChain, TypeOK, Chains, Call
  <2> QED BY <1>1, <1>2, <2>1, OrderKept DEF At
<1>3. CASE /\ call.chained => chain.ctx = c
           /\ run' = [IF run.ctx \in {NoContext, c} THEN run ELSE Cleared(run)
                      EXCEPT !.status = "CONTEXT_BUILT", !.ctx = c]
           /\ Goto("context")
           /\ UNCHANGED chain
  <2>1. /\ c.snap = snap /\ c.cyc = E!ChildFor(snap) /\ snap # 0
        /\ E!ChildFor(snap) \in Nat
        /\ E!ChildFor(snap) # 0 => cycles[E!ChildFor(snap)].snap = snap
    <3>1. E!ChildFor(snap) \in 0 .. CycleLimit /\ snap # 0
      BY PrefixesTyped DEF TypeOK
    <3>2. E!ChildFor(snap) # 0 => cycles[E!ChildFor(snap)].snap = snap
      BY DEF E!ChildFor
    <3> QED BY <3>1, <3>2, RunAssumption
  <2>2. (chain.ctx = c) = (chain.ctx.snap = snap /\ chain.ctx.cyc = E!ChildFor(snap))
    BY OrderTyped
  <2> HIDE DEF c
  <2>3. run'.ctx = c
    <3>1. run \in Runs /\ Cleared(run) \in Runs
      BY MissingTyped DEF Cleared, Runs, TypeOK
    <3> QED BY <1>3, <3>1 DEF Runs
  <2>4. call'.pc = "context" /\ call'.chained = call.chained
    BY <1>3 DEF Goto, TypeOK, Call
  <2>5. run.ctx.snap <= snap /\ snap \in Nat /\ run.ctx.snap \in Nat
    BY OrderTyped DEF CyclesOrdered
  <2>6. CyclesOrdered'
    <3>1. \A i \in DOMAIN cycles : cycles[i].snap <= snap
      BY <2>5, OrderTyped DEF CyclesOrdered
    <3>2. work'.step \notin Busy
      BY <1>1 DEF Busy
    <3> QED BY <1>1, <2>1, <2>3, <2>5, <3>1, <3>2 DEF CyclesOrdered
  <2>7. ASSUME HasChain
        PROVE  \/ chain.ctx = c /\ call.chained
               \/ chain.ctx.snap < snap
               \/ chain.ctx.snap = snap /\ chain.ctx.cyc < E!ChildFor(snap)
               \/ chain.ctx.snap = snap /\ E!Terminated(snap)
    <3>1. /\ chain.ctx.snap \in Nat /\ chain.ctx.cyc \in Nat /\ run.ctx.cyc \in Nat
          /\ chain.ctx.snap <= run.ctx.snap
      BY <2>7, OrderTyped DEF ChainBehind, Before, Ended
    <3>2. CASE chain.ctx.snap < snap
      BY <3>2
    <3>3. CASE chain.ctx.snap = snap /\ call.chained
      BY <1>3, <3>3
    <3>4. CASE chain.ctx.snap = snap /\ ~call.chained
      <4>1. run.ctx.snap = snap
        BY <2>5, <3>1, <3>4
      <4>2. chain.ctx.cyc < run.ctx.cyc \/ E!Terminated(snap)
        <5>1. ~At("idle")
          BY <1>1 DEF At
        <5>2. Before(chain.ctx, run.ctx) \/ Ended
          BY <2>7, <3>4, <5>1 DEF ChainBehind
        <5>3. Ended => E!Terminated(snap)
          BY <4>1 DEF Ended
        <5> QED BY <3>1, <3>4, <4>1, <5>2, <5>3 DEF Before
      <4>3. E!ChildFor(snap) >= run.ctx.cyc \/ E!Terminated(snap)
        BY <4>1, ChildIsNewest
      <4> QED BY <2>1, <3>1, <3>4, <4>2, <4>3
    <3> QED BY <2>5, <3>1, <3>2, <3>3, <3>4
  <2>8. ChainBehind'
    <3>1. HasChain' = HasChain /\ ~At("idle") /\ chain'.ctx = chain.ctx
      BY <1>1, <1>3 DEF HasChain, At
    <3>2. Before(chain.ctx, run.ctx)' =
            (\/ chain.ctx.snap < snap
             \/ chain.ctx.snap = snap /\ chain.ctx.cyc < E!ChildFor(snap))
      BY <2>1, <2>3, <3>1 DEF Before
    <3>3. Ended' = (chain.ctx.snap = snap /\ E!Terminated(snap))
      BY <1>1, <2>1, <2>3, <3>1 DEF Ended, E!Terminated
    <3>4. HasChain => chain.ctx.snap # 0
      BY DEF ChainBehind
    <3>5. work'.step \notin Busy
      BY <1>1 DEF Busy
    <3>6. HasChain => (run'.ctx = chain'.ctx /\ call'.chained) \/ Before(chain.ctx, run.ctx)' \/ Ended'
      BY <2>3, <2>4, <2>7, <3>1, <3>2, <3>3
    <3> QED BY <2>4, <3>1, <3>4, <3>5, <3>6 DEF ChainBehind, Early
  <2> QED BY <2>6, <2>8
<1> QED BY <1>2, <1>3 DEF BuildContext

\* A cycle is refused, or claimed for the snapshot of the run's context.
LEMMA DecisionOrder ==
  ASSUME IInv, CyclesOrdered, ChainBehind, NEW t \in {"gap", "review"},
         E!Refuse(run.ctx.snap) \/ E!Claim(run.ctx.snap, t),
         UNCHANGED <<run, chain, snap, call>>, ~At("idle")
  PROVE  CyclesOrdered' /\ ChainBehind'
<1> USE Parts
<1>1. /\ HasChain' = HasChain /\ Before(chain.ctx, run.ctx)' = Before(chain.ctx, run.ctx)
      /\ At("idle")' = At("idle")
  BY DEF HasChain, Before, At
<1>2. CASE E!Refuse(run.ctx.snap)
  <2>1. UNCHANGED cycles /\ work'.step = "blocked"
    BY <1>2 DEF E!Refuse, E!Blocked, E!Off
  <2>2. E!LatestCompleted' = E!LatestCompleted
    BY <2>1, NamespaceKept
  <2>3. Ended' = Ended
    BY <2>1, <2>2 DEF Ended, E!Terminated
  <2>4. work'.step \notin Busy
    BY <2>1 DEF Busy
  <2>5. CyclesOrdered'
    BY <2>1, <2>4 DEF CyclesOrdered
  <2>6. ChainBehind'
    BY <1>1, <2>3, <2>4 DEF ChainBehind
  <2> QED BY <2>5, <2>6
<1>3. CASE E!Claim(run.ctx.snap, t)
  <2> DEFINE c == [snap |-> run.ctx.snap, trigger |-> t, calls |-> 0, saved |-> FALSE,
                   request |-> "nothing", outcome |-> E!Unasked, record |-> "none"]
             n == Len(cycles)
  <2>1. ~E!Terminated(run.ctx.snap) /\ cycles' = Append(cycles, c)
    BY <1>3 DEF E!Claim
  <2>2. c.snap = run.ctx.snap
    OBVIOUS
  <2>3. cycles \in Seq(E!Cycle) /\ n \in Nat
    BY DEF TypeOK
  <2> HIDE DEF c
  <2>4. /\ DOMAIN cycles' = 1 .. n + 1 /\ DOMAIN cycles = 1 .. n /\ Len(cycles') = n + 1
        /\ cycles'[n + 1] = c /\ \A i \in 1 .. n : cycles'[i] = cycles[i]
    BY <2>1, <2>3
  <2>5. /\ \A i \in 1 .. n : cycles[i].snap \in Nat /\ cycles[i].snap <= run.ctx.snap
        /\ \A i, j \in 1 .. n : i <= j => cycles[i].snap <= cycles[j].snap
        /\ run.ctx.snap \in Nat
    BY <2>4, OrderTyped DEF CyclesOrdered
  <2>6. \A i, j \in DOMAIN cycles' : i <= j => cycles'[i].snap <= cycles'[j].snap
    BY <2>2, <2>3, <2>4, <2>5
  <2>7. \A i \in DOMAIN cycles' : cycles'[i].snap <= run.ctx.snap
    BY <2>2, <2>3, <2>4, <2>5
  <2>8. run.ctx.cyc # 0 => cycles'[run.ctx.cyc].snap = run.ctx.snap
    <3>1. run.ctx.cyc # 0 => run.ctx.cyc \in 1 .. n
      BY NewestIsCompleted DEF EvidenceOK
    <3> QED BY <2>4, <3>1 DEF CyclesOrdered
  <2>9. E!Last' = c
    BY <2>4 DEF E!Last
  <2>10. CyclesOrdered'
    BY <2>2, <2>6, <2>7, <2>8, <2>9 DEF CyclesOrdered
  <2>11. ChainBehind'
    BY <1>1, <2>1 DEF ChainBehind, Ended
  <2> QED BY <2>10, <2>11
<1> QED BY <1>2, <1>3

\* The resolver keeps the snapshots of its cycles.
LEMMA SnapshotsKept ==
  ASSUME TypeOK, cycles # <<>>, E!Resolving
  PROVE  /\ DOMAIN cycles' = DOMAIN cycles /\ Len(cycles') = Len(cycles)
         /\ \A i \in DOMAIN cycles : cycles'[i].snap = cycles[i].snap
<1>1. /\ cycles \in Seq(E!Cycle) /\ Len(cycles) \in DOMAIN cycles
      /\ DOMAIN cycles = 1 .. Len(cycles) /\ Len(cycles) \in Nat
      /\ cycles[Len(cycles)] \in E!Cycle
  BY DEF TypeOK
<1>2. ASSUME NEW c, c.snap = cycles[Len(cycles)].snap,
             cycles' = [cycles EXCEPT ![Len(cycles)] = c]
      PROVE  /\ DOMAIN cycles' = DOMAIN cycles /\ Len(cycles') = Len(cycles)
             /\ \A i \in DOMAIN cycles : cycles'[i].snap = cycles[i].snap
  <2>1. DOMAIN cycles' = DOMAIN cycles
    BY <1>2
  <2>2. Len(cycles') = Len(cycles)
    BY <1>1, <1>2
  <2>3. \A i \in DOMAIN cycles : cycles'[i] = IF i = Len(cycles) THEN c ELSE cycles[i]
    BY <1>2
  <2> QED BY <1>2, <2>1, <2>2, <2>3
<1>3. \A l \in E!Cycle :
        /\ \A x : [l EXCEPT !.calls = x].snap = l.snap
        /\ \A x, y : [l EXCEPT !.saved = x, !.request = y].snap = l.snap
        /\ \A x : [l EXCEPT !.outcome = x].snap = l.snap
        /\ \A x : [l EXCEPT !.record = x].snap = l.snap
  BY DEF E!Cycle
<1>4. CASE UNCHANGED cycles
  BY <1>4
<1> DEFINE l == cycles[Len(cycles)]
<1>5. CASE cycles' = [cycles EXCEPT ![Len(cycles)].calls = @ + 1]
  <2> DEFINE c == [l EXCEPT !.calls = l.calls + 1]
  <2>1. cycles' = [cycles EXCEPT ![Len(cycles)] = c]
    BY <1>5
  <2>2. c.snap = l.snap
    BY <1>1, <1>3
  <2> HIDE DEF c
  <2> QED BY <1>2, <2>1, <2>2
<1>6. CASE E!SaveRequests
  <2> DEFINE c == [l EXCEPT !.saved = TRUE, !.request = work.request]
  <2>1. cycles' = [cycles EXCEPT ![Len(cycles)] = c]
    BY <1>1, <1>6 DEF E!SaveRequests, E!Cycle
  <2>2. c.snap = l.snap
    BY <1>1, <1>3
  <2> HIDE DEF c
  <2> QED BY <1>2, <2>1, <2>2
<1>7. ASSUME NEW x, cycles' = [cycles EXCEPT ![Len(cycles)].outcome = x]
      PROVE  /\ DOMAIN cycles' = DOMAIN cycles /\ Len(cycles') = Len(cycles)
             /\ \A i \in DOMAIN cycles : cycles'[i].snap = cycles[i].snap
  <2> DEFINE c == [l EXCEPT !.outcome = x]
  <2>1. cycles' = [cycles EXCEPT ![Len(cycles)] = c]
    BY <1>7
  <2>2. c.snap = l.snap
    BY <1>1, <1>3
  <2> HIDE DEF c
  <2> QED BY <1>2, <2>1, <2>2
<1>8. ASSUME NEW x, cycles' = [cycles EXCEPT ![Len(cycles)].record = x]
      PROVE  /\ DOMAIN cycles' = DOMAIN cycles /\ Len(cycles') = Len(cycles)
             /\ \A i \in DOMAIN cycles : cycles'[i].snap = cycles[i].snap
  <2> DEFINE c == [l EXCEPT !.record = x]
  <2>1. cycles' = [cycles EXCEPT ![Len(cycles)] = c]
    BY <1>8
  <2>2. c.snap = l.snap
    BY <1>1, <1>3
  <2> HIDE DEF c
  <2> QED BY <1>2, <2>1, <2>2
<1> HIDE DEF l
<1> QED BY <1>4, <1>5, <1>6, <1>7, <1>8 DEF E!Resolving, E!Ask, E!ProviderUnavailable,
        E!RepeatRefused, E!Resolve, E!CloseTerminal, E!CloseWithChild, E!Fail

LEMMA EvidenceStepOrder ==
  ASSUME IInv, CyclesOrdered, ChainBehind, EvidenceStep
  PROVE  CyclesOrdered' /\ ChainBehind'
<1> USE Parts
<1>1. E!Resolving /\ UNCHANGED <<run, chain, snap, call>> /\ ~At("idle")
  BY DEF EvidenceStep
<1>2. work.step \in {"claimed", "asked", "requested", "resolved"}
  BY <1>1 DEF E!Resolving, E!Ask, E!ProviderUnavailable, E!RepeatRefused, E!SaveRequests,
     E!Resolve, E!CloseTerminal, E!CloseWithChild, E!Fail
<1>3. cycles # <<>> /\ (InGap \/ At("triggered")) /\ work.step \in Busy
  BY <1>2 DEF EvidenceOK, Busy
<1>4. /\ DOMAIN cycles' = DOMAIN cycles /\ Len(cycles') = Len(cycles)
      /\ \A i \in DOMAIN cycles : cycles'[i].snap = cycles[i].snap
      /\ Len(cycles) \in DOMAIN cycles
  BY <1>1, <1>3, SnapshotsKept DEF TypeOK
<1>5. E!Last'.snap = run.ctx.snap
  BY <1>3, <1>4 DEF E!Last, CyclesOrdered
<1>6. run.ctx.cyc # 0 => run.ctx.cyc \in DOMAIN cycles
  BY NewestIsCompleted, OrderTyped DEF EvidenceOK
<1>7. CyclesOrdered'
  BY <1>1, <1>4, <1>5, <1>6 DEF CyclesOrdered
<1>8. HasChain => run.ctx = chain.ctx \/ Before(chain.ctx, run.ctx)
  <2>1. CASE call.chained
    <3>1. run.ctx.snap # 0 /\ ChainInEffect(run)
      BY <1>3, <2>1 DEF CallOK, InGap, At, BeforeContext
    <3> QED BY <3>1, MissingTyped DEF ChainInEffect
  <2>2. CASE ~call.chained
    BY <1>1, <1>3, <2>2 DEF ChainBehind
  <2> QED BY <2>1, <2>2
<1>9. HasChain /\ ~call.chained => Before(chain.ctx, run.ctx)
  BY <1>1, <1>3 DEF ChainBehind
<1>10. /\ HasChain' = HasChain /\ At("idle")' = At("idle")
       /\ Before(chain.ctx, run.ctx)' = Before(chain.ctx, run.ctx)
  BY <1>1 DEF HasChain, At, Before
<1>11. ChainBehind'
  BY <1>1, <1>8, <1>9, <1>10 DEF ChainBehind
<1> QED BY <1>7, <1>11

\* The child context the run is replanned for comes after the chain's.
LEMMA EvidenceChildOrder ==
  ASSUME IInv, CyclesOrdered, ChainBehind, EvidenceChild
  PROVE  CyclesOrdered' /\ ChainBehind'
<1> USE Parts
<1>1. /\ work.step = "child" /\ work' = E!Off /\ UNCHANGED <<chain, snap, cycles>>
      /\ run' = [Cleared(run) EXCEPT !.status = "INTERPRETED", !.ctx.cyc = E!LatestCompleted]
  BY DEF EvidenceChild, E!Finish
<1>2. /\ cycles # <<>> /\ E!Last.record = "child" /\ chain.ctx.cyc # Len(cycles)
      /\ InGap \/ At("triggered")
  BY <1>1 DEF EvidenceOK
<1>3. E!LatestCompleted = Len(cycles) /\ Len(cycles) # 0 /\ Len(cycles) \in DOMAIN cycles
  <2>1. cycles \in Seq(E!Cycle)
    BY DEF TypeOK
  <2>2. Len(cycles) \in E!Completed /\ Len(cycles) # 0 /\ Len(cycles) \in DOMAIN cycles
    BY <1>2, <2>1 DEF E!Completed, E!Last
  <2>3. E!LatestCompleted \in E!Completed /\ E!LatestCompleted >= Len(cycles)
        /\ E!LatestCompleted <= Len(cycles)
    BY <2>2, NewestIsCompleted
  <2> QED BY <2>2, <2>3, NewestIsCompleted
<1>4. run'.ctx.cyc = Len(cycles) /\ run'.ctx.snap = run.ctx.snap
  <2>1. run \in Runs /\ run.ctx \in Contexts
    BY FieldsTyped DEF TypeOK
  <2> DEFINE c == [run.ctx EXCEPT !.cyc = E!LatestCompleted]
  <2>2. c.cyc = E!LatestCompleted /\ c.snap = run.ctx.snap
    BY <2>1 DEF Contexts
  <2>3. Cleared(run) \in Runs /\ Cleared(run).ctx = run.ctx
    BY <2>1, MissingTyped DEF Cleared, Runs
  <2>4. run' = [Cleared(run) EXCEPT !.status = "INTERPRETED", !.ctx = c]
    BY <1>1, <2>3 DEF Runs
  <2> HIDE DEF c
  <2>5. run'.ctx = c
    BY <2>3, <2>4 DEF Runs
  <2> QED BY <1>3, <2>2, <2>5
<1>5. CyclesOrdered'
  <2>1. cycles[Len(cycles)].snap = run.ctx.snap
    BY <1>1 DEF CyclesOrdered, Busy, E!Last
  <2>2. work'.step \notin Busy
    BY <1>1 DEF E!Off, Busy
  <2> QED BY <1>1, <1>3, <1>4, <2>1, <2>2 DEF CyclesOrdered
<1>6. HasChain => chain.ctx.snap < run.ctx.snap
                  \/ (chain.ctx.snap = run.ctx.snap /\ chain.ctx.cyc < Len(cycles))
  <2>1. /\ chain.ctx.snap \in Nat /\ chain.ctx.cyc \in Nat /\ run.ctx.snap \in Nat
        /\ Len(cycles) \in Nat /\ run.ctx.cyc \in Nat /\ run.ctx.cyc <= Len(cycles)
    BY OrderTyped, NewestIsCompleted DEF EvidenceOK
  <2>2. ASSUME HasChain PROVE run.ctx = chain.ctx \/ Before(chain.ctx, run.ctx)
    <3>1. CASE call.chained
      <4>1. run.ctx.snap # 0 /\ ChainInEffect(run)
        BY <1>2, <3>1 DEF CallOK, InGap, At, BeforeContext
      <4> QED BY <4>1, MissingTyped DEF ChainInEffect
    <3>2. CASE ~call.chained
      <4>1. ~At("idle") /\ work.step \in Busy
        BY <1>1, <1>2 DEF InGap, At, Busy
      <4> QED BY <2>2, <3>2, <4>1 DEF ChainBehind
    <3> QED BY <3>1, <3>2
  <2> QED BY <1>2, <2>1, <2>2 DEF Before
<1>7. HasChain' = HasChain /\ (HasChain => Before(chain.ctx, run.ctx)')
  BY <1>1, <1>4, <1>6 DEF HasChain, Before
<1>8. ChainBehind'
  BY <1>1, <1>7 DEF ChainBehind
<1> QED BY <1>5, <1>8

LEMMA EnterOrder ==
  ASSUME IInv, CyclesOrdered, ChainBehind, NEW opt \in Options, Enter(opt)
  PROVE  CyclesOrdered' /\ ChainBehind'
<1> USE Parts
<1>1. UNCHANGED <<run, chain, snap, cycles, work>> /\ At("idle") /\ work.step = "off"
  BY ResolverOff DEF Enter, E!EnsurePolicy, At
<1>2. E!LatestCompleted' = E!LatestCompleted
  BY <1>1, NamespaceKept
<1>3. /\ HasChain' = HasChain /\ Before(chain.ctx, run.ctx)' = Before(chain.ctx, run.ctx)
      /\ Ended' = Ended /\ work'.step \notin Busy
  BY <1>1, <1>2 DEF HasChain, Before, Ended, E!Terminated, Busy
<1>4. CyclesOrdered'
  BY <1>1, <1>3 DEF CyclesOrdered, E!Last
<1>5. HasChain' => /\ chain'.ctx.snap # 0
                   /\ run'.ctx = chain'.ctx \/ Before(chain.ctx, run.ctx)' \/ Ended'
  BY <1>1, <1>3 DEF ChainBehind
<1>6. CASE call' = call
  <2>1. At("idle")'
    BY <1>1, <1>6 DEF At
  <2> QED BY <1>4, <1>5, <2>1 DEF ChainBehind
<1>7. CASE call' = [Idle EXCEPT !.pc = "entered", !.opt = opt, !.prev = run,
                                !.chained = ChainInEffect(run)]
  <2>1. call'.pc \in Early /\ call'.chained = ChainInEffect(run)
    BY <1>7 DEF Idle, Early
  <2>2. HasChain /\ ~ChainInEffect(run) => run'.ctx # chain'.ctx
    BY <1>1 DEF ChainInEffect
  <2>3. HasChain' /\ ~call'.chained =>
           Before(chain.ctx, run.ctx)' \/ (Ended' /\ call'.pc \in Early /\ work'.step \notin Busy)
    BY <1>3, <1>5, <2>1, <2>2
  <2> QED BY <1>4, <1>5, <2>3 DEF ChainBehind
<1> QED BY <1>6, <1>7 DEF Enter

LEMMA CreateChainOrder ==
  ASSUME IInv, CyclesOrdered, CreateChain
  PROVE  CyclesOrdered' /\ ChainBehind'
<1> USE Parts
<1>1. /\ At("planned") /\ UNCHANGED <<run, snap, cycles, work>> /\ work.step = "off"
      /\ chain'.ctx = run.ctx
  BY ResolverOff DEF CreateChain, evidence, At
<1>2. call'.chained = TRUE
  BY DEF CreateChain, TypeOK, Call
<1>3. run.ctx.snap # 0
  BY <1>1 DEF CallOK, At, BeforeContext
<1>4. CyclesOrdered'
  BY <1>1 DEF CyclesOrdered, E!Last, Busy
<1>5. ChainBehind'
  BY <1>1, <1>2, <1>3 DEF ChainBehind
<1> QED BY <1>4, <1>5

LEMMA KnowledgeOrder ==
  ASSUME IInv, CyclesOrdered, ChainBehind, KnowledgeChanges
  PROVE  CyclesOrdered' /\ ChainBehind'
<1> USE Parts
<1>1. UNCHANGED <<run, chain, call, cycles, work>> /\ snap' = snap + 1
  BY DEF KnowledgeChanges, evidence
<1>2. E!LatestCompleted' = E!LatestCompleted
  BY <1>1, NamespaceKept
<1>3. run.ctx.snap <= snap'
  BY <1>1, OrderTyped DEF CyclesOrdered
<1>4. CyclesOrdered'
  BY <1>1, <1>3 DEF CyclesOrdered, E!Last
<1>5. ChainBehind'
  BY <1>1, <1>2 DEF ChainBehind, HasChain, Before, Ended, E!Terminated, At
<1> QED BY <1>4, <1>5

\* A context is planned anew only when resolution has not ended for it.
LEMMA ProposeOrder ==
  ASSUME IInv, CyclesOrdered, ChainBehind, NEW out \in Outputs, Propose(out)
  PROVE  CyclesOrdered' /\ ChainBehind'
<1> USE Parts
<1>1. /\ InGap /\ Quiet /\ ~MustResolve /\ UNCHANGED <<run, chain, snap, cycles, work, policy>>
      /\ \E proposal, plan : WriteProposal(proposal, plan)
  BY DEF Propose, evidence
<1>2. PICK proposal, plan : WriteProposal(proposal, plan)
  BY <1>1
<1>3. Return \/ call' = [call EXCEPT !.pc = "proposed", !.plan = plan]
  BY <1>2 DEF WriteProposal
<1>4. call'.pc = "idle" \/ (call'.pc = "proposed" /\ call'.chained = call.chained)
  BY <1>3, PlaceAfter DEF TypeOK, Call
<1>5. E!LatestCompleted' = E!LatestCompleted
  BY <1>1, NamespaceKept
<1>6. ~Ended
  <2>1. E!Terminated(run.ctx.snap) => policy # 0
    <3>1. E!Terminated(run.ctx.snap) => E!Completed # {}
      BY DEF E!Terminated, E!LatestCompleted
    <3>2. E!Completed # {} => Len(cycles) # 0 /\ Len(cycles) \in Nat
      BY NewestIsCompleted
    <3>3. policy \in Nat
      BY RunAssumption DEF TypeOK
    <3> QED BY <3>1, <3>2, <3>3
  <2> QED BY <1>1, <2>1 DEF MustResolve, Ended
<1>7. CyclesOrdered'
  BY <1>1 DEF CyclesOrdered, E!Last
<1>8. /\ HasChain' = HasChain /\ Before(chain.ctx, run.ctx)' = Before(chain.ctx, run.ctx)
      /\ ~At("idle") /\ ~call.chained
  BY <1>1 DEF HasChain, Before, InGap, At
<1>9. ChainBehind'
  BY <1>1, <1>6, <1>8 DEF ChainBehind
<1> QED BY <1>7, <1>9

\* The other steps of the call.
LEMMA CallOrder ==
  ASSUME IInv, OrderInv, Advance, ~BuildContext, ~CreateChain,
         ~ \E out \in Outputs : Propose(out),
         ~EvidenceResolution \/ EvidenceBlocked \/ EvidenceFailed
  PROVE  CyclesOrdered' /\ ChainBehind'
<1> USE Parts
<1>1. chain'.ctx = chain.ctx /\ HasChain' = HasChain
  <2>1. UNCHANGED chain \/ (HasChain /\ ChainGrows)
    BY ChainMoves DEF OrderInv
  <2>2. CASE UNCHANGED chain
    BY <2>2 DEF HasChain
  <2>3. CASE HasChain /\ ChainGrows
    <3>1. Len(chain.rounds) # 0 /\ Len(chain.rounds) \in Nat
      BY <2>3, ChainTyped
    <3>2. chain'.rounds # <<>>
      BY <2>3, <3>1 DEF ChainGrows
    <3> QED BY <2>3, <3>2 DEF ChainGrows, HasChain
  <2> QED BY <2>1, <2>2, <2>3
<1>2. /\ \A pc : Goto(pc) => call'.pc = pc /\ call'.chained = call.chained
      /\ Return => call'.pc = "idle"
      /\ \A reason : Block(reason) => call'.chained = call.chained
      /\ \A status : Save(status) => run'.ctx = run.ctx
  BY DEF Goto, Return, Idle, Block, Save, TypeOK, Call, Runs
<1>3. CyclesOrdered /\ ChainBehind
  BY DEF OrderInv
<1>4. ASSUME UNCHANGED evidence, UNCHANGED snap, run'.ctx = run.ctx, ~At("idle"),
             \/ call'.pc = "idle"
             \/ /\ call'.chained = call.chained
                /\ call.chained \/ call.pc \notin Early \/ call'.pc \in Early
      PROVE  CyclesOrdered' /\ ChainBehind'
  BY <1>1, <1>3, <1>4, OrderKept DEF evidence
<1>5. CASE EvidenceBlocked \/ EvidenceFailed
  <2>1. /\ UNCHANGED <<cycles, snap>> /\ work' = E!Off /\ run'.ctx = run.ctx
        /\ call'.pc = "idle"
    BY <1>2, <1>5 DEF EvidenceBlocked, EvidenceFailed, E!Finish
  <2> QED BY <1>1, <1>3, <2>1, OrderKept
<1>6. CASE CurationPending \/ FailStage \/ DryReturn \/ SaveBlocked
  BY <1>2, <1>4, <1>6 DEF CurationPending, FailStage, DryReturn, SaveBlocked, At, Early
<1>7. CASE Ready \/ Interpret
  BY <1>2, <1>4, <1>7 DEF Ready, Interpret, At, Early
<1>8. CASE Settle
  <2>1. /\ UNCHANGED <<run, snap, cycles, work>> /\ At("evidence")
        /\ Return \/ Goto("triggered")
    BY <1>8 DEF Settle, E!Archive, evidence
  <2>2. ~At("idle") /\ (call'.pc = "idle" \/ (call'.chained = call.chained /\ call.pc \notin Early))
    BY <1>2, <2>1 DEF At, Early
  <2> QED BY <1>1, <1>3, <2>1, <2>2, OrderKept
<1>9. CASE PlanFromChain
  <2>1. run'.ctx = run.ctx /\ call'.chained = call.chained /\ call.chained /\ ~At("idle")
        /\ UNCHANGED <<snap, evidence>>
    BY <1>2, <1>9 DEF PlanFromChain, At, TypeOK, Runs
  <2> QED BY <1>4, <2>1
<1>10. CASE SavePlanned \/ SelectRound \/ AwaitApproval
  <2>1. run'.ctx = run.ctx /\ UNCHANGED <<snap, evidence>>
    BY <1>2, <1>10 DEF SavePlanned, SelectRound, AwaitApproval, TypeOK, Runs
  <2>2. ~At("idle") /\ call'.chained = call.chained /\ call.pc \notin Early
    BY <1>2, <1>10 DEF SavePlanned, SelectRound, AwaitApproval, At, Early
  <2> QED BY <1>4, <2>1, <2>2
<1>11. CASE Approval
  <2>1. UNCHANGED <<snap, evidence>>
    BY <1>11 DEF Approval, ReturnUnapproved, ReuseRoundApproval, Approve, ApproverFails,
       SaveApproved, RecordRound
  <2>2. run'.ctx = run.ctx
    BY <1>11, ReusedFacts DEF Approval, ReturnUnapproved, ReuseRoundApproval, Approve,
       ApproverFails, SaveApproved, RecordRound, Save, TypeOK, Runs
  <2>3. call.pc \in {"awaiting", "revised", "reviewed", "approved"}
    BY <1>11 DEF Approval, ReturnUnapproved, ReuseRoundApproval, Approve, Approving,
       ApproverFails, SaveApproved, RecordRound, At
  <2>4. call'.pc = "idle" \/ call'.chained = call.chained
    <3>1. CASE \E verdict \in Verdicts : Approve(verdict)
      <4>1. PICK verdict \in Verdicts : Approve(verdict)
        BY <3>1
      <4> DEFINE review == [plan |-> run.plan, verdict |-> verdict]
      <4>2. Return \/ call' = [call EXCEPT !.pc = "reviewed", !.review = review]
        BY <4>1 DEF Approve
      <4> HIDE DEF review
      <4> QED BY <1>2, <4>2 DEF TypeOK, Call
    <3>2. CASE ReturnUnapproved \/ ReuseRoundApproval \/ ApproverFails \/ SaveApproved
               \/ RecordRound
      BY <1>2, <3>2 DEF ReturnUnapproved, ReuseRoundApproval, ApproverFails, SaveApproved,
         RecordRound
    <3> QED BY <1>11, <3>1, <3>2 DEF Approval
  <2> QED BY <1>4, <2>1, <2>2, <2>3, <2>4 DEF At, Early
<1>12. CASE Revision
  <2>1. UNCHANGED <<snap, evidence>>
    BY <1>12 DEF Revision, RejectTrigger, LeaveCycle, Reconcile, StopRevising, ClaimAttempt, Revise,
       TerminateAttempt, BlockRejected, Materialize, ExtendChain, CompleteAttempt, SaveRevised
  <2>2. run'.ctx = run.ctx
    BY <1>12 DEF Revision, RejectTrigger, LeaveCycle, Reconcile, StopRevising, ClaimAttempt, Revise,
       TerminateAttempt, BlockRejected, Materialize, ExtendChain, CompleteAttempt, SaveRevised,
       TypeOK, Runs
  <2>3. call.pc \notin Early \cup {"idle"}
    BY <1>12 DEF Revision, RejectTrigger, LeaveCycle, Reconcile, StopRevising, ClaimAttempt, Revise,
       TerminateAttempt, BlockRejected, Materialize, ExtendChain, CompleteAttempt, SaveRevised,
       At, Early
  <2>4. call'.pc = "idle" \/ call'.chained = call.chained
    <3>1. CASE Revise
      <4>1. Goto("rejected") \/ \E plan : call' = [call EXCEPT !.pc = "answered", !.plan = plan]
        BY <3>1 DEF Revise
      <4> QED BY <1>2, <4>1 DEF TypeOK, Call
    <3>2. CASE \/ RejectTrigger \/ LeaveCycle \/ Reconcile \/ StopRevising \/ ClaimAttempt
               \/ TerminateAttempt \/ BlockRejected \/ Materialize \/ ExtendChain \/ CompleteAttempt \/ SaveRevised
      BY <1>2, <3>2 DEF RejectTrigger, LeaveCycle, Reconcile, StopRevising, ClaimAttempt,
         TerminateAttempt, BlockRejected, Materialize, ExtendChain, CompleteAttempt, SaveRevised
    <3> QED BY <1>12, <3>1, <3>2 DEF Revision
  <2> QED BY <1>4, <2>1, <2>2, <2>3, <2>4 DEF At
<1> QED BY <1>5, <1>6, <1>7, <1>8, <1>9, <1>10, <1>11, <1>12 DEF Advance, Planning

\* A round whose approval is about to be recorded has none yet.
LEMMA RecordedOnceKept ==
  ASSUME IInv, RecordedOnce, Next
  PROVE  RecordedOnce'
<1> USE Parts
<1>1. /\ \A pc : Goto(pc) => call'.pc = pc
      /\ Return => call'.pc = "idle"
      /\ \A reason : Block(reason) => call'.pc = "blocking"
  BY PlaceAfter
<1>2. ASSUME UNCHANGED <<chain, call>> PROVE RecordedOnce'
  BY <1>2 DEF RecordedOnce, At, LastRound
<1>3. ASSUME call'.pc # "approved" PROVE RecordedOnce'
  BY <1>3 DEF RecordedOnce, At
<1>4. ASSUME UNCHANGED chain, LastRound.review = NoReview PROVE RecordedOnce'
  BY <1>4 DEF RecordedOnce, LastRound
<1>5. CASE SaveApproved
  <2>1. CASE call.chained
    <3>1. LastRound.review = NoReview /\ UNCHANGED chain
      BY <1>5, <2>1 DEF SaveApproved, ProgressOK, At
    <3> QED BY <1>4, <3>1
  <2>2. CASE ~call.chained
    <3>1. call'.pc = "evidence"
      BY <1>1, <1>5, <2>2 DEF SaveApproved
    <3> QED BY <1>3, <3>1
  <2> QED BY <2>1, <2>2
<1>6. CASE ApproverFails
  <2>1. CASE call.chained
    <3>1. LastRound.review = NoReview /\ UNCHANGED chain
      BY <1>6, <2>1 DEF ApproverFails, Approving, RoundReviewed, ProgressOK, At
    <3> QED BY <1>4, <3>1
  <2>2. CASE ~call.chained
    <3>1. call'.pc \in {"idle", "evidence"}
      BY <1>1, <1>6, <2>2 DEF ApproverFails
    <3> QED BY <1>3, <3>1
  <2> QED BY <2>1, <2>2
<1>7. CASE \E verdict \in Verdicts : Approve(verdict)
  <2>1. PICK verdict \in Verdicts : Approve(verdict)
    BY <1>7
  <2> DEFINE review == [plan |-> run.plan, verdict |-> verdict]
  <2>2. Return \/ call' = [call EXCEPT !.pc = "reviewed", !.review = review]
    BY <2>1 DEF Approve
  <2> HIDE DEF review
  <2>3. call'.pc \in {"idle", "reviewed"}
    BY <1>1, <2>2 DEF TypeOK, Call
  <2> QED BY <1>3, <2>3
<1>8. CASE ReturnUnapproved \/ ReuseRoundApproval \/ RecordRound
  <2>1. call'.pc # "approved"
    BY <1>1, <1>8 DEF ReturnUnapproved, ReuseRoundApproval, RecordRound
  <2> QED BY <1>3, <2>1
<1>9. CASE Revision
  <2>1. CASE Revise
    <3>1. Goto("rejected") \/ \E plan : call' = [call EXCEPT !.pc = "answered", !.plan = plan]
      BY <2>1 DEF Revise
    <3>2. call'.pc # "approved"
      BY <1>1, <3>1 DEF TypeOK, Call
    <3> QED BY <1>3, <3>2
  <2>2. CASE Reconcile
    BY <1>2, <2>2 DEF Reconcile
  <2>3. CASE \/ RejectTrigger \/ LeaveCycle \/ StopRevising \/ ClaimAttempt
             \/ TerminateAttempt \/ BlockRejected \/ Materialize \/ ExtendChain \/ CompleteAttempt \/ SaveRevised
    <3>1. call'.pc # "approved"
      BY <1>1, <2>3 DEF RejectTrigger, LeaveCycle, StopRevising, ClaimAttempt,
         TerminateAttempt, BlockRejected, Materialize, ExtendChain, CompleteAttempt, SaveRevised
    <3> QED BY <1>3, <3>1
  <2> QED BY <1>9, <2>1, <2>2, <2>3 DEF Revision
<1>10. CASE \E out \in Outputs : Propose(out)
  <2>1. PICK out \in Outputs : Propose(out)
    BY <1>10
  <2>2. PICK proposal, plan : WriteProposal(proposal, plan)
    BY <2>1 DEF Propose
  <2>3. Return \/ call' = [call EXCEPT !.pc = "proposed", !.plan = plan]
    BY <2>2 DEF WriteProposal
  <2>4. call'.pc \in {"idle", "proposed"}
    BY <1>1, <2>3 DEF TypeOK, Call
  <2> QED BY <1>3, <2>4
<1>11. CASE PlanFromChain \/ SavePlanned \/ CreateChain \/ SelectRound \/ AwaitApproval
  <2>1. call'.pc # "approved"
    BY <1>1, <1>11 DEF PlanFromChain, SavePlanned, CreateChain, SelectRound, AwaitApproval,
       TypeOK, Call
  <2> QED BY <1>3, <2>1
<1>12. CASE CurationPending \/ Ready \/ FailStage \/ BuildContext \/ DryReturn \/ Interpret
            \/ SaveBlocked \/ Settle \/ EvidenceBlocked \/ EvidenceFailed \/ Crash
  <2>1. call'.pc # "approved"
    BY <1>1, <1>12 DEF CurationPending, Ready, FailStage, BuildContext, DryReturn, Interpret,
       SaveBlocked, Settle, EvidenceBlocked, EvidenceFailed, Crash
  <2> QED BY <1>3, <2>1
<1>13. CASE EvidenceChild \/ \E opt \in Options : Enter(opt)
  <2>1. UNCHANGED <<chain, call>> \/ call'.pc = "entered"
    BY <1>13 DEF EvidenceChild, Enter, Idle
  <2> QED BY <1>2, <1>3, <2>1
<1>14. CASE ResolveGap \/ ResolveReview \/ EvidenceStep \/ Export \/ KnowledgeChanges
  BY <1>2, <1>14 DEF ResolveGap, ResolveReview, EvidenceStep, Export, KnowledgeChanges
<1> QED BY <1>5, <1>6, <1>7, <1>8, <1>9, <1>10, <1>11, <1>12, <1>13, <1>14
        DEF Next, Advance, EvidenceResolution, Planning, Approval

LEMMA OrderInit == Init => OrderInv
<1> SUFFICES ASSUME Init PROVE OrderInv
  OBVIOUS
<1>1. /\ cycles = <<>> /\ run.ctx.snap = 0 /\ run.ctx.cyc = 0 /\ snap = 1
      /\ chain.rounds = <<>> /\ work.step = "off" /\ call.pc = "idle"
  BY DEF Init, NoRun, NoContext, NoChain, Idle, E!CyclesInit, E!Off
<1> QED BY <1>1 DEF OrderInv, CyclesOrdered, ChainBehind, RecordedOnce, HasChain, Busy, At

LEMMA OrderNext == IInv /\ OrderInv /\ [Next]_vars => OrderInv'
<1> SUFFICES ASSUME IInv, OrderInv, [Next]_vars PROVE OrderInv'
  OBVIOUS
<1> USE DEF OrderInv
<1>1. CASE UNCHANGED vars
  <2>1. UNCHANGED <<run, chain, snap, call, cycles, work>>
    BY <1>1 DEF vars
  <2>2. E!LatestCompleted' = E!LatestCompleted
    BY <2>1, NamespaceKept
  <2> QED BY <2>1, <2>2 DEF CyclesOrdered, ChainBehind, RecordedOnce, HasChain, Before, Ended,
          E!Terminated, E!Last, LastRound, At
<1>2. CASE Next
  <2>1. RecordedOnce'
    BY <1>2, RecordedOnceKept
  <2>2. CyclesOrdered' /\ ChainBehind'
    <3>1. CASE \E opt \in Options : Enter(opt)
      BY <3>1, EnterOrder
    <3>2. CASE BuildContext
      BY <3>2, BuildContextOrder
    <3>3. CASE CreateChain
      BY <3>3, CreateChainOrder
    <3>4. CASE \E out \in Outputs : Propose(out)
      BY <3>4, ProposeOrder
    <3>5. CASE ResolveGap
      BY <3>5, DecisionOrder DEF ResolveGap, InGap, At
    <3>6. CASE ResolveReview
      BY <3>6, DecisionOrder DEF ResolveReview, At
    <3>7. CASE EvidenceStep
      BY <3>7, EvidenceStepOrder
    <3>8. CASE EvidenceChild
      BY <3>8, EvidenceChildOrder
    <3>9. CASE /\ Advance /\ ~BuildContext /\ ~CreateChain
               /\ ~ \E out \in Outputs : Propose(out)
               /\ ~EvidenceResolution \/ EvidenceBlocked \/ EvidenceFailed
      BY <3>9, CallOrder
    <3>10. CASE Export
      <4>1. UNCHANGED <<chain, snap, call, cycles, work>> /\ run'.ctx = run.ctx /\ At("idle")
        BY <3>10, Parts DEF Export, evidence, TypeOK, Runs
      <4> QED BY <4>1, OrderKept DEF HasChain, At
    <3>11. CASE KnowledgeChanges
      BY <3>11, KnowledgeOrder
    <3>12. CASE Crash
      <4>1. UNCHANGED <<run, chain, snap, cycles>> /\ work' = E!Off /\ call'.pc = "idle"
        BY <3>12 DEF Crash, Return, Idle
      <4> QED BY <4>1, OrderKept DEF HasChain
    <3> QED BY <1>2, <3>1, <3>2, <3>3, <3>4, <3>5, <3>6, <3>7, <3>8, <3>9, <3>10, <3>11, <3>12
            DEF Next, EvidenceResolution
  <2> QED BY <2>1, <2>2
<1> QED BY <1>1, <1>2

\* A chain that counts for its run only grows until it has ended, and a
\* chain that is left is replaced only by one for a later context: whatever
\* is interrupted, no context is planned under two chains, and nothing that
\* was recorded in one changes.
THEOREM ChainsOnlyAdvance == Spec => ChainsAdvance
<1>1. Spec => []OrderInv
  BY OrderInit, OrderNext, Invariant, PTL DEF Spec
<1>2. IInv /\ OrderInv /\ [Next]_vars =>
        [chain' # chain =>
           IF ChainInEffect(run) THEN ChainGrows
           ELSE /\ chain'.ctx = run.ctx
                /\ HasChain => Before(chain.ctx, chain'.ctx)]_vars
  <2> SUFFICES ASSUME IInv, OrderInv, Next, chain' # chain
               PROVE  IF ChainInEffect(run) THEN ChainGrows
                      ELSE /\ chain'.ctx = run.ctx
                           /\ HasChain => Before(chain.ctx, chain'.ctx)
    BY DEF vars
  <2> USE Parts
  <2>1. CASE CreateChain
    <3>1. At("planned") /\ ~call.chained /\ chain'.ctx = run.ctx /\ run.ctx.snap # 0
      BY <2>1 DEF CreateChain, CreatesChain, CallOK, At, BeforeContext
    <3>2. HasChain => Before(chain.ctx, run.ctx)
      BY <3>1 DEF OrderInv, ChainBehind, At, Early
    <3>3. ~ChainInEffect(run)
      <4>1. SUFFICES ASSUME HasChain, run.ctx = chain.ctx PROVE FALSE
        BY <3>1, MissingTyped DEF ChainInEffect
      <4> QED BY <3>2, <4>1, OrderTyped DEF Before
    <3>4. HasChain => Before(chain.ctx, chain'.ctx)
      BY <3>1, <3>2 DEF Before
    <3> QED BY <3>1, <3>3, <3>4
  <2>2. CASE Advance /\ ~CreateChain
    BY <2>2, ChainMoves DEF OrderInv
  <2>3. CASE (\E opt \in Options : Enter(opt)) \/ Export \/ KnowledgeChanges \/ Crash
    BY <2>3 DEF Enter, Export, KnowledgeChanges, Crash
  <2> QED BY <2>1, <2>2, <2>3 DEF Next
<1> QED
  BY <1>1, <1>2, Invariant, PTL DEF Spec, ChainsAdvance
=============================================================================
