---------------------- MODULE EvidenceResolution_proofs ----------------------
(***************************************************************************)
(* Proofs about EvidenceResolution.                                        *)
(***************************************************************************)
EXTENDS EvidenceResolution, SequenceTheorems, WellFoundedInduction, TLAPS

\* The greatest element of a bounded, non-empty set of naturals exists, so
\* LatestCompleted is a completed cycle and the newest one.
LEMMA MaxOfBounded ==
  ASSUME NEW n \in Nat, NEW S \in SUBSET (0 .. n), S # {}
  PROVE  Max(S) \in S /\ \A x \in S : x <= Max(S)
<1> DEFINE R == OpToRel(<, Nat)
           T == {n - x : x \in S}
<1>1. IsWellFoundedOn(R, Nat)
  BY NatLessThanWellFounded
<1>2. T \subseteq Nat /\ T # {}
  <2>1. \A x \in S : x \in 0 .. n /\ n - x \in Nat
    OBVIOUS
  <2>2. PICK x \in S : TRUE
    OBVIOUS
  <2> QED BY <2>1, <2>2
<1>3. PICK t \in T : \A u \in T : <<u, t>> \notin R
  <2> HIDE DEF R, T
  <2> QED BY <1>1, <1>2, WFMin
<1>4. PICK m \in S : t = n - m
  OBVIOUS
<1>5. ASSUME NEW x \in S PROVE m >= x
  <2>1. n - x \in T /\ n - x \in Nat /\ t \in Nat
    BY <1>2
  <2>2. ~ (n - x < t)
    BY <2>1, <1>3 DEF OpToRel
  <2> QED BY <2>1, <2>2, <1>4
<1>6. \E y \in S : \A x \in S : y >= x
  BY <1>5
<1>7. Max(S) \in S /\ \A x \in S : Max(S) >= x
  BY <1>6 DEF Max
<1> QED
  BY <1>7

\* Replacing the last element of a non-empty sequence.
LEMMA LastReplaced ==
  ASSUME NEW S, NEW s \in Seq(S), s # <<>>, NEW c \in S,
         NEW t, t = [s EXCEPT ![Len(s)] = c]
  PROVE  /\ t \in Seq(S) /\ t # <<>> /\ Len(t) = Len(s) /\ DOMAIN t = DOMAIN s
         /\ Len(s) \in DOMAIN s /\ t[Len(t)] = c
         /\ \A i \in DOMAIN s : i # Len(s) => t[i] = s[i]
<1>1. Len(s) \in 1 .. Len(s) /\ DOMAIN s = 1 .. Len(s) /\ Len(s) \in Nat
  OBVIOUS
<1>2. /\ t \in Seq(S) /\ Len(t) = Len(s)
      /\ \A j \in 1 .. Len(s) : t[j] = IF j = Len(s) THEN c ELSE s[j]
  BY <1>1, ExceptSeq
<1>3. DOMAIN t = 1 .. Len(s) /\ t # <<>>
  BY <1>1, <1>2
<1> QED
  BY <1>1, <1>2, <1>3

\* Appending to a sequence.
LEMMA Appended ==
  ASSUME NEW S, NEW s \in Seq(S), NEW c \in S, NEW t, t = Append(s, c)
  PROVE  /\ t \in Seq(S) /\ t # <<>> /\ Len(t) = Len(s) + 1
         /\ DOMAIN t = DOMAIN s \cup {Len(t)} /\ Len(s) \in Nat
         /\ t[Len(t)] = c /\ \A i \in DOMAIN s : i < Len(t) /\ t[i] = s[i]
OBVIOUS

-----------------------------------------------------------------------------
(* What each step does to the cycles. *)

\* The newest cycle becomes c; the older ones stay.
NewestBecomes(c) ==
  /\ cycles # <<>> /\ c \in Cycle
  /\ cycles' = [cycles EXCEPT ![Len(cycles)] = c]

\* Each step of the resolver that touches the cycles changes the newest one,
\* in the one field the file it wrote stands for.
LEMMA AnswerEffect ==
  ASSUME TypeOK, InProgress, Resolving
  PROVE  \/ cycles' = cycles
         \/ /\ work.step = "claimed" /\ work'.step = "asked"
            /\ NewestBecomes([Last EXCEPT !.calls = 1])
         \/ /\ work.step = "asked" /\ work'.step = "requested"
            /\ ~Equivalent(work.request)
            /\ NewestBecomes([Last EXCEPT !.saved = TRUE, !.request = work.request])
         \/ /\ work.step = "requested" /\ work'.step = "resolved"
            /\ \E o \in Outcomes : NewestBecomes([Last EXCEPT !.outcome = o])
         \/ /\ work.step = "resolved" /\ work'.step \in {"blocked", "child"}
            /\ \E r \in {"terminal", "child"} :
                 NewestBecomes([Last EXCEPT !.record = r])
<1> USE DEF TypeOK, WorkStates, NewestBecomes
<1>1. cycles # <<>> => Last \in Cycle
  BY DEF Last
<1>2. CASE \E request \in Requests \cup {Nothing} : Ask(request)
  <2>1. CASE UNCHANGED cycles
    BY <2>1
  <2>2. CASE cycles' = [cycles EXCEPT ![Len(cycles)].calls = @ + 1]
    <3>1. work.step = "claimed" /\ work'.step = "asked"
      BY <1>2 DEF Ask
    <3>2. cycles # <<>> /\ Last.calls = 0
      BY <3>1 DEF InProgress
    <3>3. [Last EXCEPT !.calls = 1] \in Cycle
      BY <1>1, <3>2 DEF Cycle
    <3>4. cycles' = [cycles EXCEPT ![Len(cycles)] = [Last EXCEPT !.calls = 1]]
      BY <2>2, <3>2, <1>1 DEF Last, Cycle
    <3> QED BY <3>1, <3>2, <3>3, <3>4
  <2> QED BY <1>2, <2>1, <2>2 DEF Ask
<1>3. CASE SaveRequests
  <2>1. /\ work.step = "asked" /\ work'.step = "requested"
        /\ ~Equivalent(work.request) /\ cycles # <<>>
    BY <1>3 DEF SaveRequests, InProgress
  <2>2. [Last EXCEPT !.saved = TRUE, !.request = work.request] \in Cycle
    BY <1>1, <2>1 DEF Cycle
  <2>3. cycles' = [cycles EXCEPT ![Len(cycles)] =
                     [Last EXCEPT !.saved = TRUE, !.request = work.request]]
    BY <1>1, <1>3, <2>1 DEF SaveRequests, Last, Cycle
  <2> QED BY <2>1, <2>2, <2>3
<1>4. CASE \E outcome \in Outcomes : Resolve(outcome)
  <2>1. PICK outcome \in Outcomes : Resolve(outcome)
    BY <1>4
  <2>2. work.step = "requested" /\ work'.step = "resolved" /\ cycles # <<>>
    BY <2>1 DEF Resolve, InProgress
  <2>3. [Last EXCEPT !.outcome = outcome] \in Cycle
    BY <1>1, <2>2 DEF Cycle
  <2>4. cycles' = [cycles EXCEPT ![Len(cycles)] = [Last EXCEPT !.outcome = outcome]]
    BY <1>1, <2>1, <2>2 DEF Resolve, Last, Cycle
  <2> QED BY <2>2, <2>3, <2>4
<1>5. CASE CloseTerminal \/ CloseWithChild
  <2>1. PICK r \in {"terminal", "child"} :
          cycles' = [cycles EXCEPT ![Len(cycles)].record = r]
    BY <1>5 DEF CloseTerminal, CloseWithChild
  <2>2. work.step = "resolved" /\ work'.step \in {"blocked", "child"} /\ cycles # <<>>
    BY <1>5 DEF CloseTerminal, CloseWithChild, Blocked, Off, InProgress
  <2>3. [Last EXCEPT !.record = r] \in Cycle
    BY <1>1, <2>2 DEF Cycle
  <2>4. cycles' = [cycles EXCEPT ![Len(cycles)] = [Last EXCEPT !.record = r]]
    BY <1>1, <2>1, <2>2 DEF Last, Cycle
  <2> QED BY <2>2, <2>3, <2>4
<1>6. CASE ProviderUnavailable \/ RepeatRefused \/ Fail
  BY <1>6 DEF ProviderUnavailable, RepeatRefused, Fail
<1> QED
  BY <1>2, <1>3, <1>4, <1>5, <1>6 DEF Resolving

-----------------------------------------------------------------------------
(* Type correctness. *)

LEMMA TypeInit == Init => TypeOK
BY LimitAssumption, SnapshotAssumption
   DEF Init, CyclesInit, TypeOK, WorkStates, Off, Steps, Triggers, Reasons, Outcomes

LEMMA TypeNext == TypeOK /\ InProgress /\ [Next]_vars => TypeOK'
<1> SUFFICES ASSUME TypeOK, InProgress, [Next]_vars PROVE TypeOK'
  OBVIOUS
<1> USE LimitAssumption, SnapshotAssumption
    DEF TypeOK, vars, evidenceVars, WorkStates, Off, Steps, Triggers, Reasons, Outcomes
<1>1. CASE \E n \in 0 .. CycleLimit : Configure(n)
  BY <1>1 DEF Configure, EnsurePolicy
<1>2. CASE BuildContext
  BY <1>2 DEF BuildContext
<1>3. CASE GapFound
  BY <1>3 DEF GapFound
<1>4. CASE \E review \in Reviews \ {NoReview} : ReviewFound(review)
  <2>1. PICK review \in Reviews :
          /\ archive' = [archive EXCEPT ![Len(cycles) + 1] = review]
          /\ open' = "review" /\ UNCHANGED <<policy, cycles, work, snap, at>>
    BY <1>4 DEF ReviewFound, Archive
  <2>2. archive' \in [1 .. CycleLimit + 1 -> Reviews \cup {NoReview}]
    BY <2>1
  <2> QED BY <2>1, <2>2
<1>5. CASE Decide
  <2>1. CASE Refuse(at)
    <3>1. \/ Blocked("TERMINATED") \/ Blocked("REQUEST_UNCERTAIN")
          \/ Blocked("RETRIEVAL_UNCERTAIN") \/ Blocked("BUDGET_EXHAUSTED")
      BY <2>1, Zenon DEF Refuse
    <3>2. ASSUME NEW why \in Reasons, Blocked(why) PROVE work' \in WorkStates
      BY <3>2 DEF Blocked
    <3>3. UNCHANGED <<policy, cycles, archive>> /\ UNCHANGED <<snap, open, at>>
      BY <1>5, <2>1 DEF Decide, Refuse
    <3>4. work' \in WorkStates
      BY <3>1, <3>2
    <3> QED BY <3>3, <3>4
  <2>2. CASE Claim(at, open)
    <3>1. cycles' \in Seq(Cycle)
      BY <1>5, <2>2 DEF Decide, Claim, Cycle, Outcomes, Unasked
    <3> QED BY <1>5, <2>2, <3>1 DEF Decide, Claim
  <2> QED BY <1>5, <2>1, <2>2 DEF Decide
<1>6. CASE Answer
  <2>1. Resolving /\ UNCHANGED <<snap, at, open>>
    BY <1>6 DEF Answer
  <2>2. cycles' \in Seq(Cycle)
    <3>1. ASSUME NEW c, NewestBecomes(c) PROVE cycles' \in Seq(Cycle)
      BY <3>1, LastReplaced DEF NewestBecomes
    <3> HIDE DEF TypeOK
    <3> QED BY <2>1, <3>1, AnswerEffect DEF TypeOK
  <2>3. UNCHANGED <<policy, archive>>
    BY <2>1 DEF Resolving, Ask, ProviderUnavailable, RepeatRefused, SaveRequests,
                Resolve, CloseTerminal, CloseWithChild, Fail
  <2>4. work' \in WorkStates
    <3>1. CASE \E request \in Requests \cup {Nothing} : Ask(request)
      BY <3>1 DEF Ask
    <3>2. CASE \E outcome \in Outcomes : Resolve(outcome)
      BY <3>2 DEF Resolve
    <3>3. CASE CloseTerminal
      <4>1. cycles # <<>> /\ Last \in Cycle /\ Last.outcome # "new" /\ Last.outcome # Unasked
        BY <3>3 DEF CloseTerminal, InProgress, Last
      <4>2. Last.outcome \in Reasons
        BY <4>1 DEF Cycle
      <4> QED BY <3>3, <4>2 DEF CloseTerminal, Blocked
    <3>4. CASE \/ ProviderUnavailable \/ RepeatRefused \/ SaveRequests
               \/ CloseWithChild \/ Fail
      BY <3>4 DEF ProviderUnavailable, RepeatRefused, SaveRequests, CloseWithChild,
                  Fail, Blocked
    <3> QED BY <2>1, <3>1, <3>2, <3>3, <3>4 DEF Resolving
  <2> QED BY <2>1, <2>2, <2>3, <2>4
<1>7. CASE Take
  BY <1>7 DEF Take, Finish
<1>8. CASE Leave
  BY <1>8 DEF Leave
<1>9. CASE KnowledgeChanges
  BY <1>9 DEF KnowledgeChanges
<1>10. CASE Die
  BY <1>10 DEF Die
<1>11. CASE UNCHANGED vars
  BY <1>11
<1> QED
  BY <1>1, <1>2, <1>3, <1>4, <1>5, <1>6, <1>7, <1>8, <1>9, <1>10, <1>11 DEF Next, Serve

-----------------------------------------------------------------------------
(* The inductive invariant. *)

\* What of the invariant is about the files of the cycles.
FilesInv ==
  /\ CyclesOrdered /\ UncertainIsTerminal /\ WithinBudget
  /\ TerminalStops /\ CompletedDistinct /\ TriggerArchived

\* A step that leaves the cycles alone keeps it if the budget and the archive
\* do not shrink.
LEMMA FilesInvKept ==
  ASSUME TypeOK, TypeOK', FilesInv, cycles' = cycles, at <= at',
         policy <= policy',
         \A k \in DOMAIN archive : archive[k] # NoReview => archive'[k] # NoReview
  PROVE  FilesInv'
<1> USE DEF FilesInv
<1>1. DOMAIN cycles = 1 .. Len(cycles) /\ Len(cycles) \in Nat
      /\ \A i \in DOMAIN cycles : cycles[i] \in Cycle
  BY DEF TypeOK
<1>2. CyclesOrdered'
  <2>1. at \in Nat /\ at' \in Nat /\ \A i \in DOMAIN cycles : cycles[i].snap \in Nat
    BY <1>1 DEF TypeOK, Cycle
  <2> QED BY <2>1 DEF CyclesOrdered
<1>3. UncertainIsTerminal' /\ TerminalStops'
  BY DEF UncertainIsTerminal, TerminalStops
<1>4. WithinBudget'
  BY <1>1, LimitAssumption DEF WithinBudget, TypeOK
<1>5. CompletedDistinct'
  BY DEF CompletedDistinct, Completed
<1>6. TriggerArchived'
  <2>1. DOMAIN cycles \subseteq DOMAIN archive
    BY <1>1, LimitAssumption DEF TypeOK, WithinBudget
  <2> QED BY <2>1 DEF TriggerArchived
<1> QED
  BY <1>2, <1>3, <1>4, <1>5, <1>6

\* A change of the newest cycle that keeps its snapshot and trigger keeps it,
\* if the cycle was not recorded before and is only recorded when its request
\* repeats none of the completed cycles.
LEMMA FilesNewest ==
  ASSUME TypeOK, FilesInv, UNCHANGED <<policy, archive, at>>,
         NEW c, NewestBecomes(c),
         Last.record = "none", c.snap = Last.snap, c.trigger = Last.trigger,
         c.outcome # Unasked => c.saved,
         c.record # "none" => c.outcome # Unasked /\ ~Equivalent(c.request)
  PROVE  FilesInv'
<1> DEFINE n == Len(cycles)
<1>1. /\ cycles' \in Seq(Cycle) /\ Len(cycles') = n /\ DOMAIN cycles' = DOMAIN cycles
      /\ n \in DOMAIN cycles /\ cycles'[n] = c
      /\ \A i \in DOMAIN cycles : i # n => cycles'[i] = cycles[i]
  BY LastReplaced DEF TypeOK, NewestBecomes
<1>2. DOMAIN cycles = 1 .. n /\ n \in Nat /\ Last = cycles[n]
  BY DEF TypeOK, Last
<1>3. \A i \in DOMAIN cycles : cycles'[i].snap = cycles[i].snap
                               /\ cycles'[i].trigger = cycles[i].trigger
  BY <1>1, <1>2
<1>4. Completed \subseteq Completed' /\ Completed' \subseteq Completed \cup {n}
      /\ n \notin Completed
  BY <1>1, <1>2 DEF Completed
<1> HIDE DEF n
<1> USE DEF FilesInv
<1>5. CyclesOrdered'
  BY <1>1, <1>2, <1>3 DEF CyclesOrdered
<1>6. UncertainIsTerminal'
  BY <1>1, <1>2 DEF UncertainIsTerminal
<1>7. WithinBudget'
  BY <1>1 DEF WithinBudget, n
<1>8. TerminalStops'
  <2> SUFFICES ASSUME NEW i \in DOMAIN cycles, NEW j \in DOMAIN cycles,
                      i < j, cycles'[i].record = "terminal"
               PROVE  cycles'[j].snap > cycles'[i].snap
    BY <1>1 DEF TerminalStops
  <2>1. i # n
    BY <1>2
  <2> QED BY <1>1, <1>3, <2>1 DEF TerminalStops
<1>9. CompletedDistinct'
  <2> SUFFICES ASSUME NEW i \in Completed', NEW j \in Completed',
                      i < j, cycles'[i].snap = cycles'[j].snap
               PROVE  cycles'[i].request # cycles'[j].request
    BY DEF CompletedDistinct
  <2>1. i \in DOMAIN cycles /\ j \in DOMAIN cycles
    BY <1>1 DEF Completed
  <2>2. i # n /\ i \in Completed /\ cycles'[i] = cycles[i]
    BY <1>1, <1>2, <1>4, <2>1
  <2>3. CASE j # n
    BY <1>1, <1>4, <2>1, <2>2, <2>3 DEF CompletedDistinct
  <2>4. CASE j = n
    <3>1. c.record # "none"
      BY <1>1, <2>4 DEF Completed
    <3>2. cycles[i].snap = Last.snap
      BY <1>1, <1>2, <1>3, <2>1, <2>2, <2>4
    <3> QED BY <1>1, <2>2, <2>4, <3>1, <3>2 DEF Equivalent
  <2> QED BY <2>3, <2>4
<1>10. TriggerArchived'
  BY <1>1, <1>3 DEF TriggerArchived
<1> QED
  BY <1>5, <1>6, <1>7, <1>8, <1>9, <1>10

\* A claim keeps it: the newest cycle is settled, the budget has room, and a
\* terminal cycle of the same snapshot would be the latest completed one.
LEMMA FilesClaimed ==
  ASSUME TypeOK, FilesInv, ReviewReady, open # "no", Claim(at, open), UNCHANGED at
  PROVE  FilesInv'
<1> DEFINE n == Len(cycles)
           c == [snap |-> at, trigger |-> open, calls |-> 0, saved |-> FALSE,
                 request |-> Nothing, outcome |-> Unasked, record |-> "none"]
<1>1. cycles' = Append(cycles, c) /\ UNCHANGED <<policy, archive>>
  BY DEF Claim
<1>2. c \in Cycle
  BY DEF TypeOK, Cycle
<1>3. /\ cycles' \in Seq(Cycle) /\ Len(cycles') = n + 1 /\ n \in Nat
      /\ DOMAIN cycles' = DOMAIN cycles \cup {n + 1} /\ DOMAIN cycles = 1 .. n
      /\ cycles'[n + 1] = c
      /\ \A i \in DOMAIN cycles : cycles'[i] = cycles[i] /\ cycles[i] \in Cycle
  BY <1>1, <1>2, Appended DEF TypeOK
<1>4. c.snap = at /\ c.trigger = open /\ c.record = "none" /\ c.outcome = Unasked
      /\ ~c.saved
  OBVIOUS
<1>5. at \in Nat /\ \A i \in DOMAIN cycles : cycles[i].snap \in Nat
  BY <1>3 DEF TypeOK, Cycle
<1>6. Completed' = Completed
  BY <1>3, <1>4 DEF Completed
<1> HIDE DEF n, c
<1> USE DEF FilesInv
<1>7. CyclesOrdered'
  BY <1>3, <1>4, <1>5 DEF CyclesOrdered
<1>8. UncertainIsTerminal'
  <2>1. n # 0 => cycles[n].saved /\ cycles[n].outcome # Unasked
    <3>1. n # 0 => cycles # <<>> /\ Last = cycles[n]
      BY <1>3 DEF n, Last
    <3> QED BY <3>1 DEF Claim, RequestUncertain, RetrievalUncertain
  <2> QED BY <1>3, <2>1 DEF UncertainIsTerminal, n
<1>9. WithinBudget'
  BY <1>1, <1>3, LimitAssumption DEF WithinBudget, Claim, Exhausted, TypeOK, n
<1>10. TerminalStops'
  <2> SUFFICES ASSUME NEW i \in DOMAIN cycles, cycles[i].record = "terminal"
               PROVE  at > cycles[i].snap
    BY <1>3, <1>4 DEF TerminalStops
  <2>1. Completed \subseteq 0 .. n /\ i \in Completed
    BY <1>3 DEF Completed
  <2> DEFINE m == Max(Completed)
  <2>2. m \in Completed /\ i <= m
    BY <1>3, <2>1, MaxOfBounded
  <2>3. LatestCompleted = m /\ m # 0 /\ m \in DOMAIN cycles /\ m \in Nat
    BY <1>3, <2>1, <2>2 DEF LatestCompleted, Completed
  <2> HIDE DEF m
  <2>4. ~(cycles[m].record = "terminal" /\ cycles[m].snap = at)
    BY <2>3 DEF Claim, Terminated
  <2>5. cycles[m].snap <= at
    BY <2>3 DEF CyclesOrdered
  <2>6. CASE i = m
    BY <1>5, <2>3, <2>4, <2>5, <2>6
  <2>7. CASE i # m
    <3>1. cycles[m].snap > cycles[i].snap
      BY <1>3, <2>2, <2>3, <2>7 DEF TerminalStops
    <3> QED BY <1>5, <2>3, <2>5, <3>1
  <2> QED BY <2>6, <2>7
<1>11. CompletedDistinct'
  BY <1>3, <1>6 DEF CompletedDistinct, Completed
<1>12. TriggerArchived'
  BY <1>1, <1>3, <1>4 DEF TriggerArchived, ReviewReady, Claim, n
<1> QED
  BY <1>7, <1>8, <1>9, <1>10, <1>11, <1>12

LEMMA InvInit == Init => IInv
<1> SUFFICES ASSUME Init PROVE IInv
  OBVIOUS
<1>1. TypeOK
  BY TypeInit
<1>2. cycles = <<>> /\ DOMAIN cycles = {} /\ work = Off /\ policy = 0 /\ open = "no"
  BY DEF Init, CyclesInit
<1> QED
  BY <1>1, <1>2 DEF IInv, CyclesOrdered, InProgress, ReviewReady, UncertainIsTerminal,
     WithinBudget, TerminalStops, CompletedDistinct, Completed, TriggerArchived, Off

LEMMA InvNext == IInv /\ [Next]_vars => IInv'
<1> SUFFICES ASSUME IInv, [Next]_vars PROVE IInv'
  OBVIOUS
<1>1. TypeOK /\ FilesInv /\ InProgress /\ ReviewReady
  BY DEF IInv, FilesInv
<1>2. TypeOK'
  BY <1>1, TypeNext
<1> SUFFICES FilesInv' /\ InProgress' /\ ReviewReady'
  BY <1>2 DEF IInv, FilesInv
<1>3. ASSUME UNCHANGED <<cycles, policy, archive, at>> PROVE FilesInv'
  <2>1. at <= at' /\ policy <= policy'
    BY <1>1, <1>3, LimitAssumption, SnapshotAssumption DEF TypeOK
  <2> QED BY <1>1, <1>2, <1>3, <2>1, FilesInvKept
<1>4. ASSUME UNCHANGED <<cycles, work, open, at>> PROVE InProgress'
  BY <1>1, <1>4 DEF InProgress, Last, Equivalent, Completed
<1>5. ASSUME work'.step = "off" PROVE InProgress'
  BY <1>5 DEF InProgress
<1>6. ASSUME work'.step \in {"blocked", "child", "failed"}, open' # "no"
      PROVE  InProgress' /\ ReviewReady'
  BY <1>6 DEF InProgress, ReviewReady
<1>7. CASE \E n \in 0 .. CycleLimit : Configure(n)
  <2>1. UNCHANGED <<cycles, archive, work, snap, at, open>> /\ open = "no"
    BY <1>7 DEF Configure, EnsurePolicy
  <2>2. policy <= policy' /\ at <= at'
    BY <1>1, <1>7, <2>1, LimitAssumption, SnapshotAssumption DEF Configure, EnsurePolicy, TypeOK
  <2>3. FilesInv'
    BY <1>1, <1>2, <2>1, <2>2, FilesInvKept
  <2> QED BY <1>4, <2>1, <2>3 DEF ReviewReady
<1>8. CASE BuildContext
  <2>1. UNCHANGED <<evidenceVars, open>> /\ open = "no" /\ at' = snap
    BY <1>8 DEF BuildContext
  <2>2. at <= at' /\ policy <= policy' /\ UNCHANGED <<policy, cycles, archive, work>>
    BY <1>1, <2>1, LimitAssumption, SnapshotAssumption DEF TypeOK, evidenceVars
  <2>3. FilesInv'
    BY <1>1, <1>2, <2>2, FilesInvKept
  <2>4. work.step = "off"
    BY <1>1, <2>1 DEF InProgress
  <2> QED BY <1>5, <2>1, <2>2, <2>3, <2>4 DEF ReviewReady
<1>9. CASE GapFound
  <2>1. UNCHANGED <<policy, cycles, archive, work, snap, at>> /\ open = "no" /\ open' = "gap"
    BY <1>9 DEF GapFound, evidenceVars
  <2>2. work.step = "off"
    BY <1>1, <2>1 DEF InProgress
  <2> QED BY <1>3, <1>5, <2>1, <2>2 DEF ReviewReady
<1>10. CASE \E review \in Reviews \ {NoReview} : ReviewFound(review)
  <2>1. PICK review \in Reviews \ {NoReview} : ReviewFound(review)
    BY <1>10
  <2>2. /\ UNCHANGED <<policy, cycles, work, snap, at>> /\ open = "no"
        /\ ~ArchiveConflict(review)
        /\ archive' = [archive EXCEPT ![Len(cycles) + 1] = review]
    BY <2>1 DEF ReviewFound, Archive
  <2>3. work.step = "off"
    BY <1>1, <2>2 DEF InProgress
  <2>4. Len(cycles) + 1 \in DOMAIN archive
    BY <1>1, LimitAssumption DEF TypeOK, FilesInv, WithinBudget
  <2>5. archive'[Len(cycles) + 1] # NoReview
    BY <1>1, <2>2, <2>4 DEF TypeOK
  <2>6. \A k \in DOMAIN archive : archive[k] # NoReview => archive'[k] # NoReview
    BY <1>1, <2>2, <2>5 DEF TypeOK
  <2>7. at <= at' /\ policy <= policy'
    BY <1>1, <2>2, LimitAssumption, SnapshotAssumption DEF TypeOK
  <2>8. FilesInv'
    BY <1>1, <1>2, <2>2, <2>6, <2>7, FilesInvKept
  <2> QED BY <1>5, <2>2, <2>3, <2>5, <2>8 DEF ReviewReady
<1>11. CASE Decide
  <2>1. open # "no" /\ UNCHANGED <<snap, at, open>>
    BY <1>11 DEF Decide
  <2>2. CASE Refuse(at)
    <3>1. UNCHANGED <<policy, cycles, archive>> /\ work'.step = "blocked"
      BY <2>2 DEF Refuse, Blocked, Off
    <3> QED BY <1>3, <1>6, <2>1, <3>1
  <2>3. CASE Claim(at, open)
    <3>1. FilesInv'
      BY <1>1, <2>1, <2>3, FilesClaimed
    <3> DEFINE c == [snap |-> at, trigger |-> open, calls |-> 0, saved |-> FALSE,
                     request |-> Nothing, outcome |-> Unasked, record |-> "none"]
    <3>2. cycles' = Append(cycles, c) /\ work'.step = "claimed"
      BY <2>3 DEF Claim, Off
    <3>3. c \in Cycle
      BY <1>1, <2>1 DEF TypeOK, Cycle
    <3>4. cycles' # <<>> /\ Last' = c
      BY <1>1, <3>2, <3>3, Appended DEF TypeOK, Last
    <3>5. /\ Last'.record = "none" /\ Last'.snap = at /\ Last'.calls = 0
          /\ ~Last'.saved /\ Last'.outcome = Unasked
      BY <3>4
    <3>6. InProgress'
      BY <2>1, <3>2, <3>4, <3>5 DEF InProgress
    <3> QED BY <3>1, <3>2, <3>6 DEF ReviewReady
  <2> QED BY <1>11, <2>2, <2>3 DEF Decide
<1>12. CASE Answer
  <2>1. Resolving /\ UNCHANGED <<snap, at, open>>
    BY <1>12 DEF Answer
  <2>2. UNCHANGED <<policy, archive>> /\ work.step # "off" /\ work'.step # "off"
    BY <1>1, <2>1 DEF Resolving, Ask, ProviderUnavailable, RepeatRefused, SaveRequests,
       Resolve, CloseTerminal, CloseWithChild, Fail, Blocked, Off, TypeOK, WorkStates
  <2>3. open # "no" /\ open' # "no" /\ ReviewReady'
    BY <1>1, <2>1, <2>2 DEF InProgress, ReviewReady
  <2> SUFFICES FilesInv' /\ InProgress'
    BY <2>3
  <2>4. CASE cycles' = cycles
    <3>1. FilesInv'
      BY <1>3, <2>1, <2>2, <2>4
    <3>2. CASE \E request \in Requests \cup {Nothing} : Ask(request)
      <4>1. work.step = "claimed" /\ work'.step = "asked"
        BY <1>1, <3>2 DEF Ask, TypeOK, WorkStates
      <4> QED BY <1>1, <2>1, <2>3, <2>4, <3>1, <4>1
              DEF InProgress, Last, Equivalent, Completed
    <3>3. CASE ProviderUnavailable \/ RepeatRefused \/ Fail
      <4>1. work'.step \in {"blocked", "failed"}
        BY <3>3 DEF ProviderUnavailable, RepeatRefused, Fail, Blocked, Off
      <4> QED BY <1>6, <2>3, <3>1, <4>1
    <3>4. CASE SaveRequests \/ (\E outcome \in Outcomes : Resolve(outcome))
               \/ CloseTerminal \/ CloseWithChild
      <4>1. cycles' # cycles
        <5> DEFINE n == Len(cycles)
        <5>1. n \in DOMAIN cycles /\ cycles[n] = Last /\ Last \in Cycle
          BY <1>1, <3>4 DEF SaveRequests, Resolve, CloseTerminal, CloseWithChild,
             InProgress, TypeOK, Last
        <5>2. CASE SaveRequests
          <6>1. ~Last.saved
            BY <1>1, <5>2 DEF SaveRequests, InProgress
          <6>2. cycles'[n].saved = TRUE
            BY <1>1, <5>1, <5>2 DEF SaveRequests, Cycle, TypeOK
          <6> QED BY <5>1, <6>1, <6>2
        <5>3. CASE \E outcome \in Outcomes : Resolve(outcome)
          <6>1. PICK outcome \in Outcomes : Resolve(outcome)
            BY <5>3
          <6>2. Last.outcome = Unasked /\ outcome # Unasked
            BY <1>1, <6>1 DEF Resolve, InProgress, Outcomes, Unasked
          <6>3. cycles'[n].outcome = outcome
            BY <1>1, <5>1, <6>1 DEF Resolve, Cycle, TypeOK
          <6> QED BY <5>1, <6>2, <6>3
        <5>4. CASE CloseTerminal \/ CloseWithChild
          <6>1. Last.record = "none"
            BY <1>1, <5>4 DEF CloseTerminal, CloseWithChild, InProgress
          <6>2. cycles'[n].record # "none"
            BY <1>1, <5>1, <5>4 DEF CloseTerminal, CloseWithChild, Cycle, TypeOK
          <6> QED BY <5>1, <6>1, <6>2
        <5> QED BY <3>4, <5>2, <5>3, <5>4
      <4> QED BY <2>4, <4>1
    <3> QED BY <2>1, <3>2, <3>3, <3>4 DEF Resolving
  <2>5. ASSUME NEW c, NewestBecomes(c),
               work.step \in {"claimed", "asked", "requested", "resolved"},
               c.snap = Last.snap, c.trigger = Last.trigger,
               c.outcome # Unasked => c.saved,
               c.record # "none" => c.outcome # Unasked /\ ~Equivalent(c.request),
               c.record = "none" =>
                 /\ c.saved <=> work'.step \in {"requested", "resolved"}
                 /\ c.outcome = Unasked <=> work'.step # "resolved"
                 /\ c.saved => ~Equivalent(c.request),
               c.record # "none" => work'.step \in {"blocked", "child"},
               work'.step # "claimed"
        PROVE  FilesInv' /\ InProgress'
    <3>1. cycles # <<>> /\ Last.record = "none" /\ Last.snap = at
      BY <1>1, <2>5 DEF InProgress
    <3>2. FilesInv'
      BY <1>1, <2>1, <2>2, <2>5, <3>1, FilesNewest
    <3>3. cycles' # <<>> /\ Last' = c /\ Len(cycles') = Len(cycles)
          /\ \A i \in DOMAIN cycles : i # Len(cycles) => cycles'[i] = cycles[i]
          /\ DOMAIN cycles' = DOMAIN cycles
      BY <1>1, <2>5, LastReplaced DEF TypeOK, NewestBecomes, Last
    <3>4. CASE c.record # "none"
      BY <1>6, <2>3, <2>5, <3>2, <3>4
    <3>5. CASE c.record = "none"
      <4>1. Completed' = Completed
        BY <3>1, <3>3, <3>5 DEF Completed, Last
      <4>2. \A i \in Completed : cycles'[i] = cycles[i]
        BY <3>1, <3>3 DEF Completed, Last
      <4>3. c.saved => ~Equivalent(c.request)'
        BY <2>5, <3>3, <3>5, <4>1, <4>2 DEF Equivalent
      <4> QED BY <2>1, <2>3, <2>5, <3>1, <3>2, <3>3, <3>5, <4>3 DEF InProgress
    <3> QED BY <3>4, <3>5
  <2>6. CASE cycles' # cycles
    <3>1. cycles # <<>> => Last \in Cycle
      BY <1>1 DEF TypeOK, Last
    <3> USE DEF Cycle
    <3>2. CASE work.step = "claimed" /\ work'.step = "asked"
               /\ NewestBecomes([Last EXCEPT !.calls = 1])
      <4> DEFINE c == [Last EXCEPT !.calls = 1]
      <4>1. c.snap = Last.snap /\ c.trigger = Last.trigger /\ ~c.saved
            /\ c.outcome = Unasked /\ c.record = "none"
        BY <1>1, <3>1, <3>2 DEF InProgress, NewestBecomes
      <4> HIDE DEF c
      <4> QED BY <2>5, <3>2, <4>1 DEF c
    <3>3. CASE work.step = "asked" /\ work'.step = "requested"
               /\ ~Equivalent(work.request)
               /\ NewestBecomes([Last EXCEPT !.saved = TRUE, !.request = work.request])
      <4> DEFINE c == [Last EXCEPT !.saved = TRUE, !.request = work.request]
      <4>1. c.snap = Last.snap /\ c.trigger = Last.trigger /\ c.saved = TRUE
            /\ c.outcome = Unasked /\ c.record = "none" /\ c.request = work.request
        BY <1>1, <3>1, <3>3 DEF InProgress, NewestBecomes
      <4> HIDE DEF c
      <4> QED BY <2>5, <3>3, <4>1 DEF c
    <3>4. CASE work.step = "requested" /\ work'.step = "resolved"
               /\ \E o \in Outcomes : NewestBecomes([Last EXCEPT !.outcome = o])
      <4>1. PICK o \in Outcomes : NewestBecomes([Last EXCEPT !.outcome = o])
        BY <3>4
      <4> DEFINE c == [Last EXCEPT !.outcome = o]
      <4>2. c.snap = Last.snap /\ c.trigger = Last.trigger /\ c.saved = TRUE
            /\ c.outcome = o /\ c.record = "none" /\ ~Equivalent(c.request)
        BY <1>1, <3>1, <3>4, <4>1 DEF InProgress, NewestBecomes
      <4>3. o # Unasked
        BY DEF Outcomes, Unasked
      <4> HIDE DEF c
      <4> QED BY <2>5, <3>4, <4>1, <4>2, <4>3 DEF c
    <3>5. CASE work.step = "resolved" /\ work'.step \in {"blocked", "child"}
               /\ \E r \in {"terminal", "child"} : NewestBecomes([Last EXCEPT !.record = r])
      <4>1. PICK r \in {"terminal", "child"} : NewestBecomes([Last EXCEPT !.record = r])
        BY <3>5
      <4> DEFINE c == [Last EXCEPT !.record = r]
      <4>2. c.snap = Last.snap /\ c.trigger = Last.trigger /\ c.saved = TRUE
            /\ c.outcome # Unasked /\ c.record # "none" /\ ~Equivalent(c.request)
        BY <1>1, <3>1, <3>5, <4>1 DEF InProgress, NewestBecomes
      <4> HIDE DEF c
      <4> QED BY <2>5, <3>5, <4>1, <4>2 DEF c
    <3> QED BY <1>1, <2>1, <2>6, <3>2, <3>3, <3>4, <3>5, AnswerEffect
  <2> QED BY <2>4, <2>6
<1>13. CASE Take
  <2>1. UNCHANGED <<policy, cycles, archive, snap, at>> /\ work'.step = "off"
        /\ open' \in {"gap", "no"}
    BY <1>13 DEF Take, Finish, Off
  <2> QED BY <1>3, <1>5, <2>1 DEF ReviewReady
<1>14. CASE Leave
  <2>1. UNCHANGED <<policy, cycles, archive, at>> /\ work'.step = "off" /\ open' = "no"
    BY <1>14 DEF Leave, evidenceVars
  <2> QED BY <1>3, <1>5, <2>1 DEF ReviewReady
<1>15. CASE KnowledgeChanges
  <2>1. UNCHANGED <<policy, cycles, archive, work, at, open>>
    BY <1>15 DEF KnowledgeChanges, evidenceVars
  <2> QED BY <1>1, <1>3, <1>4, <2>1 DEF ReviewReady
<1>16. CASE Die
  <2>1. UNCHANGED <<policy, cycles, archive, snap, at>> /\ work'.step = "off" /\ open' = "no"
    BY <1>16 DEF Die, Off
  <2> QED BY <1>3, <1>5, <2>1 DEF ReviewReady
<1>17. CASE UNCHANGED vars
  <2>1. UNCHANGED <<policy, cycles, archive, work, snap, at, open>>
    BY <1>17 DEF vars, evidenceVars
  <2> QED BY <1>1, <1>3, <1>4, <2>1 DEF ReviewReady
<1> QED
  BY <1>7, <1>8, <1>9, <1>10, <1>11, <1>12, <1>13, <1>14, <1>15, <1>16, <1>17
     DEF Next, Serve

\* The invariant holds throughout every run of the resolver.
THEOREM Invariant == Spec => []IInv
BY InvInit, InvNext, PTL DEF Spec

\* Files, budget and progress have the shape the models declare.
THEOREM TypeCorrect == Spec => []TypeOK
<1>1. IInv => TypeOK
  BY DEF IInv
<1> QED BY <1>1, Invariant, PTL

\* No evidence-request call follows one whose outcome is unknown, for every
\* budget, every set of requests and every interleaving of interruptions.
THEOREM UncertainCallsStop == Spec => []UncertainIsTerminal
<1>1. IInv => UncertainIsTerminal
  BY DEF IInv
<1> QED BY <1>1, Invariant, PTL

\* Provider calls never exceed the persisted budget.
THEOREM BudgetHolds == Spec => []WithinBudget
<1>1. IInv => WithinBudget
  BY DEF IInv
<1> QED BY <1>1, Invariant, PTL

\* After a terminal cycle, nothing is asked until the knowledge changes.
THEOREM TerminalCyclesStop == Spec => []TerminalStops
<1>1. IInv => TerminalStops
  BY DEF IInv
<1> QED BY <1>1, Invariant, PTL

\* Completed cycles on one snapshot asked different things.
THEOREM CompletedCyclesDiffer == Spec => []CompletedDistinct
<1>1. IInv => CompletedDistinct
  BY DEF IInv
<1> QED BY <1>1, Invariant, PTL

\* Review-driven cycles have their review on file.
THEOREM TriggersArchived == Spec => []TriggerArchived
<1>1. IInv => TriggerArchived
  BY DEF IInv
<1> QED BY <1>1, Invariant, PTL

-----------------------------------------------------------------------------
(* The rule of claimed calls. *)

\* A changed entry of the ledger is the newest one.
LEMMA LedgerNewest ==
  ASSUME TypeOK, NEW c, NewestBecomes(c), LedgerState(c) # LedgerState(Last)
  PROVE  /\ Ledger # <<>> /\ Calls!Newest = LedgerState(Last)
         /\ Ledger' = [Ledger EXCEPT ![Len(Ledger)] = LedgerState(c)]
<1> DEFINE n == Len(cycles)
<1>1. /\ cycles' \in Seq(Cycle) /\ Len(cycles') = n /\ DOMAIN cycles' = DOMAIN cycles
      /\ n \in DOMAIN cycles /\ cycles'[n] = c
      /\ \A i \in DOMAIN cycles : i # n => cycles'[i] = cycles[i]
  BY LastReplaced DEF TypeOK, NewestBecomes
<1>2. DOMAIN cycles = 1 .. n /\ n \in Nat /\ Last = cycles[n]
  BY DEF TypeOK, Last
<1>3. Ledger \in Seq({"claimed", "called", "settled"}) /\ Len(Ledger) = n /\ Ledger # <<>>
  <2>1. Ledger = [i \in 1 .. n |-> LedgerState(cycles[i])]
    BY <1>2 DEF Ledger
  <2>2. \A i \in 1 .. n : LedgerState(cycles[i]) \in {"claimed", "called", "settled"}
    BY DEF LedgerState
  <2> QED BY <1>1, <1>2, <2>1, <2>2
<1>4. Calls!Newest = LedgerState(Last)
  BY <1>1, <1>2, <1>3 DEF Calls!Newest, Ledger
<1>5. Ledger' = [i \in DOMAIN cycles |-> LedgerState(cycles'[i])]
  BY <1>1 DEF Ledger
<1>6. Ledger' = [Ledger EXCEPT ![n] = LedgerState(c)]
  BY <1>1, <1>5 DEF Ledger
<1> QED BY <1>3, <1>4, <1>6

\* The resolver implements the rule of claimed calls: its claims, calls and
\* resolutions are steps of the abstract ledger, the rest stutters.
THEOREM ClaimedOnce == Spec => AtMostOnce
<1>1. Init => Calls!Init
  <2> SUFFICES ASSUME Init PROVE Ledger = <<>>
    BY DEF Calls!Init
  <2>1. cycles = <<>>
    BY DEF Init, CyclesInit
  <2> QED BY <2>1 DEF Ledger
<1>2. IInv /\ [Next]_vars => [Calls!Next]_Ledger
  <2> SUFFICES ASSUME IInv, [Next]_vars PROVE Calls!Next \/ Ledger' = Ledger
    OBVIOUS
  <2>1. TypeOK /\ InProgress /\ WithinBudget
    BY DEF IInv
  <2>2. ASSUME cycles' = cycles PROVE Ledger' = Ledger
    BY <2>2 DEF Ledger
  <2>3. CASE Decide
    <3>1. CASE Refuse(at)
      BY <2>2, <3>1 DEF Refuse
    <3>2. CASE Claim(at, open)
      <4> DEFINE c == [snap |-> at, trigger |-> open, calls |-> 0, saved |-> FALSE,
                       request |-> Nothing, outcome |-> Unasked, record |-> "none"]
                 n == Len(cycles)
      <4>1. c \in Cycle /\ cycles' = Append(cycles, c)
        BY <2>1, <2>3, <3>2 DEF TypeOK, Cycle, Claim, Decide
      <4>2. /\ DOMAIN cycles' = 1 .. n + 1 /\ DOMAIN cycles = 1 .. n /\ n \in Nat
            /\ cycles'[n + 1] = c /\ \A i \in 1 .. n : cycles'[i] = cycles[i]
        BY <2>1, <4>1, Appended DEF TypeOK
      <4>3. LedgerState(c) = "claimed"
        BY DEF LedgerState
      <4>4. Ledger \in Seq({"claimed", "called", "settled"}) /\ Len(Ledger) = n
        <5>1. Ledger = [i \in 1 .. n |-> LedgerState(cycles[i])]
          BY <4>2 DEF Ledger
        <5>2. \A i \in 1 .. n : LedgerState(cycles[i]) \in {"claimed", "called", "settled"}
          BY DEF LedgerState
        <5> QED BY <4>2, <5>1, <5>2
      <4>5. Ledger' = Append(Ledger, "claimed")
        <5> HIDE DEF c
        <5>1. Ledger' = [i \in 1 .. n + 1 |-> LedgerState(cycles'[i])]
          BY <4>2 DEF Ledger
        <5>2. \A i \in 1 .. n : Ledger[i] = LedgerState(cycles[i])
          BY <4>2 DEF Ledger
        <5> DEFINE S == {"claimed", "called", "settled"}
                   t == Append(Ledger, "claimed")
        <5>3. t \in Seq(S) /\ Len(t) = n + 1 /\ t[n + 1] = "claimed"
              /\ \A i \in 1 .. n : t[i] = Ledger[i]
          BY <4>2, <4>4
        <5>4. \A i \in 1 .. n + 1 : LedgerState(cycles'[i]) \in S
          BY DEF LedgerState
        <5>5. Ledger' \in Seq(S) /\ Len(Ledger') = n + 1
          BY <4>2, <5>1, <5>4
        <5>6. \A i \in 1 .. n + 1 : Ledger'[i] = t[i]
          BY <4>2, <4>3, <5>1, <5>2, <5>3
        <5> HIDE DEF S, t
        <5>7. Ledger' = t
          BY <5>3, <5>5, <5>6, SeqEqual
        <5> QED BY <5>7 DEF t
      <4>6. Len(Ledger) < CycleLimit
        BY <2>1, <3>2, <4>2, <4>4, LimitAssumption DEF Claim, Exhausted, TypeOK
      <4>7. Ledger # <<>> => Calls!Newest = "settled"
        <5> SUFFICES ASSUME Ledger # <<>> PROVE Calls!Newest = "settled"
          OBVIOUS
        <5>1. n # 0 /\ n \in DOMAIN cycles /\ cycles # <<>> /\ Last = cycles[n]
          BY <4>2, <4>4 DEF Last
        <5>2. Last.outcome # Unasked
          BY <3>2, <5>1 DEF Claim, RequestUncertain, RetrievalUncertain
        <5> QED BY <4>4, <5>1, <5>2 DEF Calls!Newest, Ledger, LedgerState
      <4> QED BY <4>5, <4>6, <4>7 DEF Calls!Next, Calls!Claim
    <3> QED BY <2>3, <3>1, <3>2 DEF Decide
  <2>4. CASE Answer
    <3>1. Resolving
      BY <2>4 DEF Answer
    <3>2. cycles # <<>> => Last \in Cycle
      BY <2>1 DEF TypeOK, Last
    <3> USE DEF Cycle
    <3>3. CASE work.step = "claimed" /\ NewestBecomes([Last EXCEPT !.calls = 1])
      <4> DEFINE c == [Last EXCEPT !.calls = 1]
      <4>1. LedgerState(c) = "called" /\ LedgerState(Last) = "claimed"
        BY <2>1, <3>2, <3>3 DEF InProgress, LedgerState, NewestBecomes
      <4> HIDE DEF c
      <4>2. /\ Ledger # <<>> /\ Calls!Newest = LedgerState(Last)
            /\ Ledger' = [Ledger EXCEPT ![Len(Ledger)] = LedgerState(c)]
        BY <2>1, <3>3, <4>1, LedgerNewest DEF c
      <4> QED BY <4>1, <4>2 DEF Calls!Next, Calls!Call
    <3>4. CASE work.step = "requested"
               /\ \E o \in Outcomes : NewestBecomes([Last EXCEPT !.outcome = o])
      <4>1. PICK o \in Outcomes : NewestBecomes([Last EXCEPT !.outcome = o])
        BY <3>4
      <4> DEFINE c == [Last EXCEPT !.outcome = o]
      <4>2. LedgerState(c) = "settled" /\ LedgerState(Last) # "settled"
        BY <2>1, <3>2, <3>4, <4>1
           DEF InProgress, LedgerState, NewestBecomes, Outcomes, Unasked
      <4> HIDE DEF c
      <4>3. /\ Ledger # <<>> /\ Calls!Newest = LedgerState(Last)
            /\ Ledger' = [Ledger EXCEPT ![Len(Ledger)] = LedgerState(c)]
        BY <2>1, <4>1, <4>2, LedgerNewest DEF c
      <4> QED BY <4>2, <4>3 DEF Calls!Next, Calls!Settle
    <3>5. ASSUME NEW c, NewestBecomes(c), LedgerState(c) = LedgerState(Last)
          PROVE  Ledger' = Ledger
      <4>1. /\ DOMAIN cycles' = DOMAIN cycles /\ Len(cycles) \in DOMAIN cycles
            /\ cycles'[Len(cycles)] = c /\ Len(cycles') = Len(cycles)
            /\ \A i \in DOMAIN cycles : i # Len(cycles) => cycles'[i] = cycles[i]
        BY <2>1, <3>5, LastReplaced DEF TypeOK, NewestBecomes
      <4>2. \A i \in DOMAIN cycles : LedgerState(cycles'[i]) = LedgerState(cycles[i])
        BY <3>5, <4>1 DEF Last
      <4> QED BY <4>1, <4>2 DEF Ledger
    <3>6. CASE NewestBecomes([Last EXCEPT !.saved = TRUE, !.request = work.request])
      <4>1. LedgerState([Last EXCEPT !.saved = TRUE, !.request = work.request])
              = LedgerState(Last)
        BY <3>2, <3>6 DEF LedgerState, NewestBecomes
      <4> QED BY <3>5, <3>6, <4>1
    <3>7. CASE \E r \in {"terminal", "child"} : NewestBecomes([Last EXCEPT !.record = r])
      <4>1. PICK r \in {"terminal", "child"} : NewestBecomes([Last EXCEPT !.record = r])
        BY <3>7
      <4>2. LedgerState([Last EXCEPT !.record = r]) = LedgerState(Last)
        BY <3>2, <4>1 DEF LedgerState, NewestBecomes
      <4> QED BY <3>5, <4>1, <4>2
    <3> QED BY <2>1, <2>2, <3>1, <3>3, <3>4, <3>6, <3>7, AnswerEffect
  <2>5. CASE \/ BuildContext \/ GapFound \/ Leave \/ KnowledgeChanges \/ Die
             \/ UNCHANGED vars \/ Take
             \/ \E n \in 0 .. CycleLimit : Configure(n)
             \/ \E review \in Reviews \ {NoReview} : ReviewFound(review)
    <3>1. cycles' = cycles
      BY <2>5 DEF BuildContext, GapFound, Leave, KnowledgeChanges, Die, Take, Finish,
         Configure, EnsurePolicy, ReviewFound, Archive, vars, evidenceVars
    <3> QED BY <2>2, <3>1
  <2> QED BY <2>3, <2>4, <2>5 DEF Next, Serve
<1> QED
  BY <1>1, <1>2, Invariant, PTL DEF Spec, AtMostOnce, Calls!Spec

-----------------------------------------------------------------------------
(* Immutable files. *)

\* No step rewrites what an earlier one wrote: the budget, an archived
\* review, a saved request set, a resolution or the record of a cycle.
THEOREM FilesAreImmutable == Spec => FilesImmutable
<1>1. IInv /\ [Next]_vars => [FilesKept]_vars
  <2> SUFFICES ASSUME IInv, [Next]_vars PROVE FilesKept \/ UNCHANGED vars
    OBVIOUS
  <2>1. TypeOK /\ InProgress
    BY DEF IInv
  <2>2. DOMAIN cycles = 1 .. Len(cycles) /\ Len(cycles) \in Nat
    BY <2>1 DEF TypeOK
  <2>3. ASSUME UNCHANGED <<policy, archive, cycles>> PROVE FilesKept
    BY <2>2, <2>3 DEF FilesKept
  <2>4. CASE \E n \in 0 .. CycleLimit : Configure(n)
    <3>1. UNCHANGED <<archive, cycles>> /\ (policy # 0 => policy' = policy)
      BY <2>4 DEF Configure, EnsurePolicy
    <3> QED BY <2>2, <3>1 DEF FilesKept
  <2>5. CASE \E review \in Reviews \ {NoReview} : ReviewFound(review)
    <3>1. PICK review \in Reviews \ {NoReview} : ReviewFound(review)
      BY <2>5
    <3>2. UNCHANGED <<policy, cycles>> /\ ~ArchiveConflict(review)
          /\ archive' = [archive EXCEPT ![Len(cycles) + 1] = review]
      BY <3>1 DEF ReviewFound, Archive
    <3>3. \A k \in DOMAIN archive : archive[k] # NoReview => archive'[k] = archive[k]
      BY <2>1, <3>2 DEF ArchiveConflict, TypeOK
    <3> QED BY <2>2, <3>2, <3>3 DEF FilesKept
  <2>6. CASE Decide
    <3>1. CASE Refuse(at)
      BY <2>3, <3>1 DEF Refuse
    <3>2. CASE Claim(at, open)
      <4> DEFINE c == [snap |-> at, trigger |-> open, calls |-> 0, saved |-> FALSE,
                       request |-> Nothing, outcome |-> Unasked, record |-> "none"]
      <4>1. c \in Cycle /\ cycles' = Append(cycles, c) /\ UNCHANGED <<policy, archive>>
        BY <2>1, <2>6, <3>2 DEF TypeOK, Cycle, Claim, Decide
      <4>2. Len(cycles) <= Len(cycles') /\ \A i \in DOMAIN cycles : cycles'[i] = cycles[i]
        BY <2>1, <2>2, <4>1, Appended DEF TypeOK
      <4> QED BY <4>1, <4>2 DEF FilesKept
    <3> QED BY <2>6, <3>1, <3>2 DEF Decide
  <2>7. CASE Answer
    <3>1. Resolving /\ UNCHANGED <<policy, archive>>
      BY <2>7 DEF Answer, Resolving, Ask, ProviderUnavailable, RepeatRefused,
         SaveRequests, Resolve, CloseTerminal, CloseWithChild, Fail
    <3>2. cycles # <<>> => Last \in Cycle
      BY <2>1 DEF TypeOK, Last
    <3>3. ASSUME NEW c, NewestBecomes(c), Last.record = "none",
                 c.snap = Last.snap, c.trigger = Last.trigger,
                 Last.saved => c.saved /\ c.request = Last.request,
                 Last.outcome # Unasked => c.outcome = Last.outcome
          PROVE  FilesKept
      <4>1. /\ Len(cycles') = Len(cycles) /\ Len(cycles) \in DOMAIN cycles
            /\ cycles'[Len(cycles)] = c
            /\ \A i \in DOMAIN cycles : i # Len(cycles) => cycles'[i] = cycles[i]
        BY <2>1, <3>3, LastReplaced DEF TypeOK, NewestBecomes
      <4>2. Len(cycles) <= Len(cycles')
        BY <2>2, <4>1
      <4> QED BY <3>1, <3>3, <4>1, <4>2 DEF FilesKept, Last
    <3> USE DEF Cycle
    <3>4. CASE work.step = "claimed" /\ NewestBecomes([Last EXCEPT !.calls = 1])
      <4> DEFINE c == [Last EXCEPT !.calls = 1]
      <4>1. Last.record = "none" /\ c.snap = Last.snap /\ c.trigger = Last.trigger
            /\ c.saved = Last.saved /\ c.request = Last.request /\ c.outcome = Last.outcome
        BY <2>1, <3>2, <3>4 DEF InProgress, NewestBecomes
      <4> HIDE DEF c
      <4> QED BY <3>3, <3>4, <4>1 DEF c
    <3>5. CASE work.step = "asked"
               /\ NewestBecomes([Last EXCEPT !.saved = TRUE, !.request = work.request])
      <4> DEFINE c == [Last EXCEPT !.saved = TRUE, !.request = work.request]
      <4>1. Last.record = "none" /\ ~Last.saved /\ c.snap = Last.snap
            /\ c.trigger = Last.trigger /\ c.outcome = Last.outcome
        BY <2>1, <3>2, <3>5 DEF InProgress, NewestBecomes
      <4> HIDE DEF c
      <4> QED BY <3>3, <3>5, <4>1 DEF c
    <3>6. CASE work.step = "requested"
               /\ \E o \in Outcomes : NewestBecomes([Last EXCEPT !.outcome = o])
      <4>1. PICK o \in Outcomes : NewestBecomes([Last EXCEPT !.outcome = o])
        BY <3>6
      <4> DEFINE c == [Last EXCEPT !.outcome = o]
      <4>2. Last.record = "none" /\ Last.outcome = Unasked /\ c.snap = Last.snap
            /\ c.trigger = Last.trigger /\ c.saved = Last.saved /\ c.request = Last.request
        BY <2>1, <3>2, <3>6, <4>1 DEF InProgress, NewestBecomes
      <4> HIDE DEF c
      <4> QED BY <3>3, <4>1, <4>2 DEF c
    <3>7. CASE work.step = "resolved"
               /\ \E r \in {"terminal", "child"} : NewestBecomes([Last EXCEPT !.record = r])
      <4>1. PICK r \in {"terminal", "child"} : NewestBecomes([Last EXCEPT !.record = r])
        BY <3>7
      <4> DEFINE c == [Last EXCEPT !.record = r]
      <4>2. Last.record = "none" /\ c.snap = Last.snap /\ c.trigger = Last.trigger
            /\ c.saved = Last.saved /\ c.request = Last.request /\ c.outcome = Last.outcome
        BY <2>1, <3>2, <3>7, <4>1 DEF InProgress, NewestBecomes
      <4> HIDE DEF c
      <4> QED BY <3>3, <4>1, <4>2 DEF c
    <3> QED BY <2>1, <2>3, <3>1, <3>4, <3>5, <3>6, <3>7, AnswerEffect
  <2>8. CASE \/ BuildContext \/ GapFound \/ Leave \/ KnowledgeChanges \/ Die \/ Take
    <3>1. UNCHANGED <<policy, archive, cycles>>
      BY <2>8 DEF BuildContext, GapFound, Leave, KnowledgeChanges, Die, Take, Finish,
         evidenceVars
    <3> QED BY <2>3, <3>1
  <2> QED BY <2>4, <2>5, <2>6, <2>7, <2>8 DEF Next, Serve
<1> QED
  BY <1>1, Invariant, PTL DEF Spec, FilesImmutable
=============================================================================
