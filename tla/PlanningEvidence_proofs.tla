----------------------- MODULE PlanningEvidence_proofs -----------------------
(***************************************************************************)
(* Proofs about PlanningEvidence.                                          *)
(***************************************************************************)
EXTENDS PlanningEvidence, SequenceTheorems, TLAPS

-----------------------------------------------------------------------------
(* The inductive invariant. *)

\* The stages that are there were validated against the gaps of the newest
\* context, which changes only with a fresh hierarchy.
StagesOK ==
  /\ hier = [directions |-> hier.directions, triage |-> hier.triage,
             expansion |-> hier.expansion]
  /\ at \in {"triage", "needs", "expansion"} => DirectionsValid(hier.directions)
  /\ at \in {"needs", "expansion"} =>
       TriageValid(hier.triage) /\ Disposed(hier.triage, {"human"}) = {}
  /\ at = "expansion" => (setup.budget > 0 => Blocking = {} /\ RetrievalNeeds = {})

IInv ==
  /\ TypeOK
  /\ StagesOK
  /\ EvidenceAdmitted
  /\ ClosedIsProved
  /\ ObligationsKept

-----------------------------------------------------------------------------
(* Retrieval and resolution. *)

\* A request is resolved, and its records admitted, from the trusted ones.
LEMMA AdmittedTrusted ==
  ASSUME NEW p
  PROVE  /\ TrustedHits(p) \subseteq setup.trusted
         /\ Supporting(p) \subseteq TrustedHits(p)
         /\ Admitted(p) \subseteq TrustedHits(p)
         /\ Admitted(p) = AdmittedAs(p, TRUE) \cup AdmittedAs(p, FALSE)
<1>1. Found(p.about, setup.trusted) \subseteq setup.trusted
  BY DEF Found, Matches, Expanded
<1>2. TrustedHits(p) \subseteq Found(p.about, setup.trusted)
  BY DEF TrustedHits, Acceptable
<1>3. Supporting(p) \subseteq TrustedHits(p)
  BY DEF Supporting
<1>4. Admitted(p) \subseteq TrustedHits(p)
  BY <1>3 DEF Admitted
<1>5. Admitted(p) = AdmittedAs(p, TRUE) \cup AdmittedAs(p, FALSE)
  <2>1. \A r : (r \in Finds[p.about]) \in BOOLEAN
    OBVIOUS
  <2> QED BY <2>1 DEF AdmittedAs
<1> QED BY <1>1, <1>2, <1>3, <1>4, <1>5

\* An expanded record carries a relation of the library.
LEMMA DisputesTyped ==
  ASSUME NEW p
  PROVE  AdmittedDisputes(p) \subseteq Relations
<1> SUFFICES ASSUME NEW r \in TrustedHits(p)
             PROVE  RelationRefs(p.about, setup.trusted, r) \subseteq Relations
  BY DEF AdmittedDisputes
<1>1. r \in Found(p.about, setup.trusted)
  BY DEF TrustedHits, Acceptable
<1>2. CASE r \in Finds[p.about]
  BY <1>2 DEF RelationRefs
<1>3. CASE r \notin Finds[p.about]
  <2>1. \E e \in Relations : Joins(e, r, Matches(p.about, setup.trusted))
    BY <1>1, <1>3 DEF Found, Matches, Expanded
  <2> DEFINE e == CHOOSE e \in Relations : Joins(e, r, Matches(p.about, setup.trusted))
  <2>2. e \in Relations
    BY <2>1
  <2> QED BY <1>3, <2>2 DEF RelationRefs
<1> QED BY <1>2, <1>3

\* A resolved request has all its conditions satisfied by supporting records.
LEMMA ResolvedIsProved ==
  ASSUME NEW p, Status(p) = "resolved"
  PROVE  /\ Admitted(p) = Supporting(p)
         /\ Demands[p.about] \subseteq UNION {States[r] : r \in Supporting(p)}
<1>1. Satisfied(p) = Demands[p.about]
  BY DEF Status
<1> QED BY <1>1 DEF Admitted, Satisfied

\* What a round comes to.
LEMMA OutcomeIs ==
  ASSUME NEW requests
  PROVE  Outcome(requests) \in
           {"source_curation", "unresolved", "nothing_new", "failed", "child"}
BY DEF Outcome

-----------------------------------------------------------------------------
(* The types of what a round writes. *)

LEMMA NewestContext ==
  ASSUME TypeOK
  PROVE  /\ Len(contexts) \in Nat \ {0} /\ Len(rounds) \in Nat
         /\ DOMAIN contexts = 1 .. Len(contexts) /\ DOMAIN rounds = 1 .. Len(rounds)
         /\ Len(contexts) = Len(rounds) + 1
         /\ Context \in ContextFile /\ Context = contexts[Len(contexts)]
         /\ Hits(Context) \subseteq setup.trusted
         /\ Blocking \subseteq Gap
<1>1. /\ Len(contexts) \in Nat \ {0} /\ Len(rounds) \in Nat
      /\ DOMAIN contexts = 1 .. Len(contexts) /\ DOMAIN rounds = 1 .. Len(rounds)
      /\ Len(contexts) = Len(rounds) + 1
  BY DEF TypeOK
<1>2. Context \in ContextFile /\ Hits(Context) \subseteq setup.trusted
  BY <1>1 DEF TypeOK, Context
<1> QED BY <1>1, <1>2 DEF Context, Blocking, ContextFile

LEMMA RequestsTyped ==
  ASSUME TypeOK, NEW requests \in Answers
  PROVE  requests \in Seq(RequestFile)
<1>1. NoGap \in Gap
  BY LibraryAssumption DEF NoGap, Gap
<1>2. Requests \subseteq RequestFile
  BY <1>1, NewestContext DEF Requests, GapRequests, QuestionRequests, RequestFile
<1>3. PICK n \in 1 .. MaxRequests : requests \in [1 .. n -> Requests]
  BY DEF Answers
<1>4. n \in Nat
  BY <1>3, LibraryAssumption
<1> QED BY <1>2, <1>3, <1>4

LEMMA ChildTyped ==
  ASSUME TypeOK, NEW requests \in Seq(RequestFile)
  PROVE  Child(requests) \in ContextFile /\ Hits(Child(requests)) \subseteq setup.trusted
<1> DEFINE d == Context.direct \cup UNION {AdmittedAs(requests[i], TRUE) : i \in DOMAIN requests}
           e == Context.expanded \cup UNION {AdmittedAs(requests[i], FALSE) : i \in DOMAIN requests}
           s == Context.disputes \cup UNION {AdmittedDisputes(requests[i]) : i \in DOMAIN requests}
           g == InterpretedGaps(Len(contexts) + 1) \cup CarriedGaps(requests)
<1>1. setup.trusted \subseteq Records
  BY DEF TypeOK
<1>2. d \subseteq setup.trusted /\ e \subseteq setup.trusted
  <2>1. \A i \in DOMAIN requests : /\ AdmittedAs(requests[i], TRUE) \subseteq setup.trusted
                                   /\ AdmittedAs(requests[i], FALSE) \subseteq setup.trusted
    BY AdmittedTrusted
  <2>2. Context.direct \subseteq setup.trusted /\ Context.expanded \subseteq setup.trusted
    BY NewestContext DEF Hits
  <2> QED BY <2>1, <2>2
<1>3. s \subseteq Relations
  BY NewestContext, DisputesTyped DEF ContextFile
<1>4. g \subseteq Gap
  <2>1. InterpretedGaps(Len(contexts) + 1) \subseteq Gap
    <3>1. Len(contexts) + 1 \in Nat
      BY NewestContext
    <3>2. \A n \in Nat : [about |-> Original, of |-> n, blocking |-> TRUE] \in Gap
      BY LibraryAssumption DEF Gap
    <3>3. [about |-> Original, of |-> Len(contexts) + 1, blocking |-> TRUE] \in Gap
      BY <3>1, <3>2
    <3> QED BY <3>3 DEF InterpretedGaps
  <2>2. \A i \in DOMAIN requests : requests[i] \in RequestFile
    OBVIOUS
  <2>3. \A p \in RequestFile : CarriedGap(p) \in Gap
    BY DEF RequestFile, CarriedGap, Gap, Carried
  <2> QED BY <2>1, <2>2, <2>3 DEF CarriedGaps
<1>5. Child(requests) = [direct |-> d, expanded |-> e, disputes |-> s, gaps |-> g]
  BY DEF Child
<1> HIDE DEF d, e, s, g
<1> QED BY <1>1, <1>2, <1>3, <1>4, <1>5 DEF ContextFile, Hits

\* The files of earlier rounds stay as they are.
LEMMA RoundAppended ==
  ASSUME TypeOK, NEW requests \in Seq(RequestFile), UNCHANGED setup,
         contexts' = Append(contexts, Child(requests)), rounds' = Append(rounds, requests)
  PROVE  /\ contexts' \in Seq(ContextFile) /\ rounds' \in Seq(Seq(RequestFile))
         /\ Len(contexts') = Len(rounds') + 1
         /\ DOMAIN rounds' = DOMAIN rounds \cup {Len(contexts)}
         /\ DOMAIN contexts' = DOMAIN contexts \cup {Len(contexts) + 1}
         /\ \A i \in DOMAIN rounds : rounds'[i] = rounds[i] /\ contexts'[i + 1] = contexts[i + 1]
         /\ \A i \in DOMAIN contexts : contexts'[i] = contexts[i]
         /\ rounds'[Len(contexts)] = requests
         /\ contexts'[Len(contexts)] = Context
         /\ contexts'[Len(contexts) + 1] = Child(requests)
<1> DEFINE c == Child(requests)
           n == Len(contexts)
<1>1. c \in ContextFile
  BY ChildTyped
<1>2. /\ n \in Nat \ {0} /\ DOMAIN contexts = 1 .. n /\ DOMAIN rounds = 1 .. n - 1
      /\ Len(rounds) = n - 1 /\ Context = contexts[n]
      /\ contexts \in Seq(ContextFile) /\ rounds \in Seq(Seq(RequestFile))
  BY NewestContext DEF TypeOK
<1> HIDE DEF c
<1>3. /\ contexts' \in Seq(ContextFile) /\ Len(contexts') = n + 1
      /\ contexts'[n + 1] = c /\ \A i \in 1 .. n : contexts'[i] = contexts[i]
  BY <1>1, <1>2, AppendProperties DEF c
<1> DEFINE T == Seq(RequestFile)
<1>4. /\ rounds' \in Seq(T) /\ Len(rounds') = n
      /\ rounds'[n] = requests /\ \A i \in 1 .. n - 1 : rounds'[i] = rounds[i]
  <2>1. rounds \in Seq(T) /\ requests \in T /\ rounds' = Append(rounds, requests)
    BY <1>2
  <2> HIDE DEF T
  <2>2. /\ Append(rounds, requests) \in Seq(T)
        /\ Len(Append(rounds, requests)) = Len(rounds) + 1
        /\ \A i \in 1 .. Len(rounds) : Append(rounds, requests)[i] = rounds[i]
        /\ Append(rounds, requests)[Len(rounds) + 1] = requests
    BY <2>1, AppendProperties, Zenon
  <2>3. Len(rounds) + 1 = n /\ Len(rounds) = n - 1
    BY <1>2
  <2> QED BY <2>1, <2>2, <2>3
<1>5. DOMAIN contexts' = 1 .. n + 1 /\ DOMAIN rounds' = 1 .. n
  <2>1. DOMAIN contexts' = 1 .. Len(contexts')
    BY <1>3
  <2>2. DOMAIN rounds' = 1 .. Len(rounds')
    BY <1>4
  <2> QED BY <1>3, <1>4, <2>1, <2>2
<1>6. \A i \in 1 .. n - 1 : i + 1 \in 1 .. n
  BY <1>2
<1>7. DOMAIN rounds' = DOMAIN rounds \cup {n} /\ DOMAIN contexts' = DOMAIN contexts \cup {n + 1}
  <2>1. 1 .. n = (1 .. n - 1) \cup {n} /\ 1 .. n + 1 = (1 .. n) \cup {n + 1}
    <3>1. n \in Nat \ {0}
      BY <1>2
    <3> HIDE DEF n
    <3> QED BY <3>1
  <2> QED BY <1>2, <1>5, <2>1
<1>8. /\ \A i \in DOMAIN rounds : rounds'[i] = rounds[i] /\ contexts'[i + 1] = contexts[i + 1]
      /\ \A i \in DOMAIN contexts : contexts'[i] = contexts[i]
      /\ contexts'[n] = Context
  <2>1. n \in 1 .. n
    BY <1>2
  <2>2. \A i \in 1 .. n - 1 : contexts'[i + 1] = contexts[i + 1]
    BY <1>3, <1>6
  <2> HIDE DEF n
  <2> QED BY <1>2, <1>3, <1>4, <2>1, <2>2
<1> QED BY <1>3, <1>4, <1>7, <1>8 DEF c

-----------------------------------------------------------------------------
(* The actions. *)

\* A step that only moves the call, to an end or to a stage.
LEMMA EndStep ==
  ASSUME IInv, NEW how, End(how),
         how \in Endings \cup {"gaps", "directions", "triage", "needs", "expansion", "review"},
         how \notin {"triage", "needs", "planned"},
         how = "expansion" =>
           /\ DirectionsValid(hier.directions) /\ TriageValid(hier.triage)
           /\ Disposed(hier.triage, {"human"}) = {}
           /\ setup.budget > 0 => Blocking = {} /\ RetrievalNeeds = {}
  PROVE  IInv'
<1>1. at' = how /\ UNCHANGED <<setup, contexts, rounds, hier>>
  BY DEF End
<1>2. TypeOK'
  BY <1>1 DEF IInv, TypeOK
<1>3. /\ DirectionsValid(hier.directions)' = DirectionsValid(hier.directions)
      /\ TriageValid(hier.triage)' = TriageValid(hier.triage)
      /\ Disposed(hier.triage, {"human"})' = Disposed(hier.triage, {"human"})
      /\ Blocking' = Blocking /\ RetrievalNeeds' = RetrievalNeeds
  BY <1>1 DEF DirectionsValid, Covers, TriageValid, TriageCovers, Disposed, Blocking, Context,
     RetrievalNeeds
<1>4. StagesOK'
  BY <1>1, <1>3 DEF IInv, StagesOK
<1>5. EvidenceAdmitted' /\ ClosedIsProved'
  <2>1. EvidenceAdmitted'
    BY <1>1 DEF IInv, EvidenceAdmitted
  <2>2. ClosedIsProved'
    BY <1>1 DEF IInv, ClosedIsProved
  <2> QED BY <2>1, <2>2
<1>6. ObligationsKept'
  BY <1>1 DEF ObligationsKept
<1> QED
  BY <1>2, <1>4, <1>5, <1>6 DEF IInv

\* A completed round: the child context admits what supports the requests, and
\* drops a gap only with the support for its conditions.
LEMMA RoundStep ==
  ASSUME IInv, NEW requests \in Answers, RoundCompleted(requests)
  PROVE  IInv'
<1> DEFINE c == Child(requests)
           n == Len(contexts)
<1>1. /\ TypeOK /\ requests \in Seq(RequestFile) /\ UNCHANGED setup
      /\ contexts' = Append(contexts, c) /\ rounds' = Append(rounds, requests)
      /\ hier' = NoHierarchy /\ at' = "gaps"
  BY RequestsTyped DEF IInv, RoundCompleted
<1>2. c \in ContextFile /\ Hits(c) \subseteq setup.trusted
  BY <1>1, ChildTyped
<1>3. /\ contexts' \in Seq(ContextFile) /\ rounds' \in Seq(Seq(RequestFile))
      /\ Len(contexts') = Len(rounds') + 1
      /\ DOMAIN rounds' = DOMAIN rounds \cup {n}
      /\ DOMAIN contexts' = DOMAIN contexts \cup {n + 1}
      /\ \A i \in DOMAIN rounds : rounds'[i] = rounds[i] /\ contexts'[i + 1] = contexts[i + 1]
      /\ \A i \in DOMAIN contexts : contexts'[i] = contexts[i]
      /\ rounds'[n] = requests /\ contexts'[n] = Context /\ contexts'[n + 1] = c
  BY <1>1, RoundAppended
<1>4. \A r \in Hits(c) \ Hits(Context) : \E j \in DOMAIN requests : r \in Admitted(requests[j])
  <2>1. \A r \in Hits(c) \ Hits(Context) : \E j \in DOMAIN requests :
          r \in AdmittedAs(requests[j], TRUE) \cup AdmittedAs(requests[j], FALSE)
    BY DEF Child, Hits
  <2> QED BY <2>1, AdmittedTrusted
<1>5. ASSUME NEW j \in DOMAIN requests
      PROVE  Admitted(requests[j]) \subseteq Hits(c)
  <2>1. Admitted(requests[j])
          \subseteq AdmittedAs(requests[j], TRUE) \cup AdmittedAs(requests[j], FALSE)
    BY AdmittedTrusted
  <2>2. /\ c.direct = Context.direct \cup
                      UNION {AdmittedAs(requests[i], TRUE) : i \in DOMAIN requests}
        /\ c.expanded = Context.expanded \cup
                        UNION {AdmittedAs(requests[i], FALSE) : i \in DOMAIN requests}
    BY DEF Child
  <2> HIDE DEF c
  <2>3. AdmittedAs(requests[j], TRUE) \subseteq c.direct
    BY <2>2
  <2>4. AdmittedAs(requests[j], FALSE) \subseteq c.expanded
    BY <2>2
  <2> QED BY <2>1, <2>3, <2>4 DEF Hits
<1>6. ASSUME NEW j \in DOMAIN requests, requests[j].gap # NoGap, requests[j].gap \notin c.gaps
      PROVE  Status(requests[j]) = "resolved"
  BY <1>6 DEF Child, CarriedGaps, CarriedGap
<1> HIDE DEF c, n
<1>7. TypeOK'
  BY <1>1, <1>2, <1>3 DEF TypeOK
<1>8. StagesOK' /\ ObligationsKept'
  BY <1>1 DEF StagesOK, ObligationsKept, NoHierarchy
<1>9. EvidenceAdmitted'
  <2>1. ASSUME NEW r \in Hits(c) \ Hits(Context)
        PROVE  \E j \in DOMAIN requests :
                 \/ r \in setup.trusted /\ States[r] \cap Demands[requests[j].about] # {}
                 \/ r \in setup.trusted /\ Disputes(Found(requests[j].about, setup.trusted)) # {}
    <3>1. PICK j \in DOMAIN requests : r \in Admitted(requests[j])
      BY <1>4
    <3>2. r \in setup.trusted
      BY <1>2
    <3>3. CASE Status(requests[j]) = "conflicting"
      <4>1. Disputes(Found(requests[j].about, setup.trusted)) # {}
        BY <3>3 DEF Status
      <4> QED BY <3>2, <4>1
    <3>4. CASE Status(requests[j]) # "conflicting"
      <4>1. r \in Supporting(requests[j])
        BY <3>1, <3>4 DEF Admitted
      <4> QED BY <3>2, <4>1 DEF Supporting
    <3> QED BY <3>3, <3>4
  <2> DEFINE Supports(r, about) ==
               \/ r \in setup.trusted /\ States[r] \cap Demands[about] # {}
               \/ r \in setup.trusted /\ Disputes(Found(about, setup.trusted)) # {}
             Admits(older, newer, round) ==
               \A r \in Hits(newer) \ Hits(older) :
                 \E j \in DOMAIN round : Supports(r, round[j].about)
  <2>2. Admits(Context, c, requests)
    BY <2>1
  <2>3. \A i \in DOMAIN rounds : Admits(contexts[i], contexts[i + 1], rounds[i])
    BY DEF IInv, EvidenceAdmitted
  <2>4. \A i \in DOMAIN rounds : i \in DOMAIN contexts
    BY <1>1, NewestContext
  <2>5. \A i \in DOMAIN rounds' : Admits(contexts'[i], contexts'[i + 1], rounds'[i])
    <3> HIDE DEF Admits
    <3> QED BY <1>3, <2>2, <2>3, <2>4
  <2>6. setup' = setup
    BY <1>1
  <2> SUFFICES ASSUME NEW i \in DOMAIN rounds',
                      NEW r \in Hits(contexts'[i + 1]) \ Hits(contexts'[i])
               PROVE  \E j \in DOMAIN rounds'[i] :
                        \/ r \in setup'.trusted /\ States[r] \cap Demands[rounds'[i][j].about] # {}
                        \/ r \in setup'.trusted
                             /\ Disputes(Found(rounds'[i][j].about, setup'.trusted)) # {}
    BY DEF EvidenceAdmitted
  <2> QED BY <2>5, <2>6
<1>10. ClosedIsProved'
  <2>1. ASSUME NEW j \in DOMAIN requests, requests[j].gap # NoGap, requests[j].gap \notin c.gaps
        PROVE  Demands[requests[j].about] \subseteq UNION {States[r] : r \in Hits(c)}
    BY <1>5, <1>6, <2>1, ResolvedIsProved
  <2> QED BY <1>3, <2>1 DEF IInv, ClosedIsProved
<1> QED
  BY <1>7, <1>8, <1>9, <1>10 DEF IInv

\* A stage of the hierarchy is written: the contexts and rounds stay.
LEMMA StageStep ==
  ASSUME IInv, UNCHANGED <<setup, contexts, rounds>>,
         at' \in {"triage", "needs", "planned", "human_choice", "nothing_retained"},
         StagesOK', ObligationsKept'
  PROVE  IInv'
<1>1. TypeOK'
  BY DEF IInv, TypeOK, Endings
<1>2. EvidenceAdmitted'
  BY DEF IInv, EvidenceAdmitted
<1>3. ClosedIsProved'
  BY DEF IInv, ClosedIsProved
<1> QED
  BY <1>1, <1>2, <1>3 DEF IInv

LEMMA ProposeStep ==
  ASSUME IInv, NEW directions, Propose(directions)
  PROVE  IInv'
<1>1. /\ DirectionsValid(directions) /\ hier' = [hier EXCEPT !.directions = directions]
      /\ at' = "triage" /\ UNCHANGED <<setup, contexts, rounds>> /\ StagesOK
  BY DEF Propose, IInv
<1>2. /\ hier' = [directions |-> hier'.directions, triage |-> hier'.triage,
                  expansion |-> hier'.expansion]
      /\ hier'.directions = directions
  BY <1>1 DEF StagesOK
<1>3. DirectionsValid(directions)'
  BY <1>1 DEF DirectionsValid, Covers, Blocking, Context
<1>4. StagesOK' /\ ObligationsKept'
  BY <1>1, <1>2, <1>3 DEF StagesOK, ObligationsKept, DirectionsValid
<1> QED
  BY <1>1, <1>4, StageStep

LEMMA TriageStep ==
  ASSUME IInv, NEW triage, Triage(triage)
  PROVE  IInv'
<1>1. /\ TriageValid(triage) /\ hier' = [hier EXCEPT !.triage = triage] /\ StagesOK
      /\ DirectionsValid(hier.directions)
      /\ at' = IF Disposed(triage, {"human"}) # {} THEN "human_choice"
               ELSE IF Disposed(triage, {"retain"}) = {} THEN "nothing_retained" ELSE "needs"
      /\ UNCHANGED <<setup, contexts, rounds>>
  BY DEF Triage, IInv, StagesOK
<1>2. /\ hier' = [directions |-> hier'.directions, triage |-> hier'.triage,
                  expansion |-> hier'.expansion]
      /\ hier'.triage = triage /\ hier'.directions = hier.directions
  BY <1>1 DEF StagesOK
<1>3. DirectionsValid(hier.directions)'
  BY <1>1, <1>2 DEF DirectionsValid, Covers, Blocking, Context
<1>4. TriageValid(hier.triage)'
  BY <1>1, <1>2 DEF TriageValid, TriageCovers, Covers, Disposed, Blocking, Context
<1>5. at' = "needs" => Disposed(hier.triage, {"human"})' = {}
  BY <1>1, <1>2 DEF Disposed
<1>6. at' \in {"needs", "human_choice", "nothing_retained"}
  BY <1>1
<1>7. StagesOK' /\ ObligationsKept'
  BY <1>2, <1>3, <1>4, <1>5, <1>6 DEF StagesOK, ObligationsKept
<1> QED
  BY <1>1, <1>6, <1>7, StageStep

\* Through the three answers each conflict and each gap of the input is handed
\* on: to a valid direction, to one that the triage retains, to its candidate.
LEMMA ExpandStep ==
  ASSUME IInv, NEW expansion, Expand(expansion)
  PROVE  IInv'
<1> DEFINE directions == hier.directions
           retained == Disposed(hier.triage, {"retain"})
<1>1. /\ ExpansionValid(expansion) /\ hier' = [hier EXCEPT !.expansion = expansion]
      /\ at' = "planned" /\ UNCHANGED <<setup, contexts, rounds>> /\ StagesOK
      /\ DirectionsValid(directions) /\ TriageValid(hier.triage)
      /\ Disposed(hier.triage, {"human"}) = {}
      /\ setup.budget > 0 => Blocking = {} /\ RetrievalNeeds = {}
  BY DEF Expand, IInv, StagesOK
<1>2. /\ hier' = [directions |-> hier'.directions, triage |-> hier'.triage,
                  expansion |-> hier'.expansion]
      /\ hier'.triage = hier.triage /\ hier'.directions = directions
      /\ hier'.expansion = expansion
  BY <1>1 DEF StagesOK
<1>3. DOMAIN expansion = retained /\ DOMAIN hier.triage = DOMAIN directions
  BY <1>1 DEF ExpansionValid, TriageValid
<1>4. Covers(directions, retained)
  <2>1. Disposed(hier.triage, {"retain", "human"}) = retained
    BY <1>1 DEF Disposed
  <2> QED BY <1>1, <2>1 DEF TriageValid, TriageCovers
<1>5. \A c \in Conflicts : \E d \in DOMAIN expansion : c \subseteq expansion[d]
  <2> SUFFICES ASSUME NEW c \in Conflicts
               PROVE  \E d \in DOMAIN expansion : c \subseteq expansion[d]
    OBVIOUS
  <2>1. PICK d \in retained : c \in directions[d].conflicts
    BY <1>4 DEF Covers
  <2>2. d \in DOMAIN directions /\ d \in DOMAIN expansion
    BY <1>3, <2>1 DEF Disposed
  <2>3. UNION directions[d].conflicts \subseteq directions[d].claims
        /\ directions[d].claims \subseteq expansion[d]
    BY <1>1, <2>2 DEF DirectionsValid, ExpansionValid
  <2> QED BY <2>1, <2>2, <2>3
<1>6. \A g \in Blocking : \E d \in DOMAIN expansion : g \in directions[d].gaps
  BY <1>3, <1>4 DEF Covers
<1>7. Blocking' = Blocking /\ RetrievalNeeds' = RetrievalNeeds
  BY <1>1, <1>2 DEF Blocking, Context, RetrievalNeeds
<1>8. ObligationsKept'
  BY <1>1, <1>2, <1>5, <1>6, <1>7 DEF ObligationsKept
<1>9. StagesOK'
  BY <1>1, <1>2 DEF StagesOK
<1> QED
  BY <1>1, <1>8, <1>9, StageStep

-----------------------------------------------------------------------------
(* The invariant holds. *)

LEMMA InvariantInit ==
  ASSUME Init
  PROVE  IInv
<1> DEFINE c == [direct |-> Matches(Original, setup.trusted),
                 expanded |-> Expanded(Original, setup.trusted),
                 disputes |-> Disputes(Found(Original, setup.trusted)),
                 gaps |-> InterpretedGaps(1)]
<1>1. /\ setup \in [trusted : SUBSET Records, budget : 0 .. CycleLimit, barrier : BOOLEAN]
      /\ contexts = <<c>> /\ rounds = <<>> /\ hier = NoHierarchy /\ at = "gaps"
  BY DEF Init
<1>2. c \in ContextFile /\ Hits(c) \subseteq setup.trusted
  <2>1. InterpretedGaps(1) \subseteq Gap
    <3>1. [about |-> Original, of |-> 1, blocking |-> TRUE] \in Gap
      BY LibraryAssumption DEF Gap
    <3> QED BY <3>1 DEF InterpretedGaps
  <2>2. Matches(Original, setup.trusted) \subseteq setup.trusted
        /\ Expanded(Original, setup.trusted) \subseteq setup.trusted
        /\ setup.trusted \subseteq Records
    BY <1>1 DEF Matches, Expanded
  <2>3. Disputes(Found(Original, setup.trusted)) \subseteq Relations
    BY DEF Disputes
  <2> QED BY <2>1, <2>2, <2>3 DEF ContextFile, Hits
<1> HIDE DEF c
<1>3. TypeOK
  <2>1. contexts \in Seq(ContextFile) /\ Len(contexts) = 1 /\ DOMAIN contexts = {1} /\ contexts[1] = c
    BY <1>1, <1>2
  <2>2. rounds \in Seq(Seq(RequestFile)) /\ Len(rounds) = 0
    BY <1>1, EmptySeq
  <2> QED BY <1>1, <1>2, <2>1, <2>2 DEF TypeOK
<1>4. StagesOK /\ ObligationsKept
  BY <1>1 DEF StagesOK, ObligationsKept, NoHierarchy
<1>5. EvidenceAdmitted /\ ClosedIsProved
  <2>1. DOMAIN rounds = {}
    BY <1>1
  <2> QED BY <2>1 DEF EvidenceAdmitted, ClosedIsProved
<1> QED
  BY <1>3, <1>4, <1>5 DEF IInv

LEMMA InvariantNext ==
  ASSUME IInv, [Next]_vars
  PROVE  IInv'
<1>1. CASE BudgetSpent
  BY <1>1, EndStep DEF BudgetSpent, Endings
<1>2. CASE NotRetrievable \/ ProviderRaises
  BY <1>2, EndStep DEF NotRetrievable, ProviderRaises, Endings
<1>3. CASE RejectRequests
  BY <1>3, EndStep DEF RejectRequests, Endings
<1>4. CASE Resolved
  <2>1. CASE at = "gaps"
    BY <1>4, <2>1, EndStep DEF Resolved
  <2>2. CASE at = "needs"
    <3>1. /\ End("expansion") /\ DirectionsValid(hier.directions) /\ TriageValid(hier.triage)
          /\ Disposed(hier.triage, {"human"}) = {}
      BY <1>4, <2>2 DEF Resolved, IInv, StagesOK
    <3>2. setup.budget > 0 => Blocking = {} /\ RetrievalNeeds = {}
      BY <1>4, <2>2 DEF Resolved, MustAsk
    <3> QED BY <3>1, <3>2, EndStep
  <2> QED BY <1>4, <2>1, <2>2 DEF Resolved
<1>5. CASE \E requests \in Answers : Repeated(requests)
  BY <1>5, EndStep DEF Repeated, Endings
<1>6. CASE \E requests \in Answers : RoundBlocked(requests)
  <2>1. PICK requests \in Answers : RoundBlocked(requests)
    BY <1>6
  <2>2. Outcome(requests) \in {"source_curation", "unresolved", "nothing_new", "failed"}
        /\ End(Outcome(requests))
    BY <2>1, OutcomeIs DEF RoundBlocked
  <2> QED BY <2>2, EndStep DEF Endings
<1>7. CASE \E requests \in Answers : RoundCompleted(requests)
  BY <1>7, RoundStep
<1>8. CASE \E d \in Partial(Keys, Direction) : Propose(d)
  BY <1>8, ProposeStep
<1>9. CASE \E t \in Triages : Triage(t)
  BY <1>9, TriageStep
<1>10. CASE \E e \in Partial(Keys, SUBSET Claims) : Expand(e)
  BY <1>10, ExpandStep
<1>11. CASE RejectStage
  BY <1>11, EndStep DEF RejectStage, Endings
<1>12. CASE Review
  BY <1>12, EndStep DEF Review
<1>13. CASE UNCHANGED vars
  <2>1. UNCHANGED <<setup, contexts, rounds, hier, at>>
    BY <1>13 DEF vars
  <2>2. TypeOK' /\ EvidenceAdmitted' /\ ClosedIsProved'
    <3>1. TypeOK'
      BY <2>1 DEF IInv, TypeOK
    <3>2. EvidenceAdmitted'
      BY <2>1 DEF IInv, EvidenceAdmitted
    <3>3. ClosedIsProved'
      BY <2>1 DEF IInv, ClosedIsProved
    <3> QED BY <3>1, <3>2, <3>3
  <2>3. Blocking' = Blocking /\ RetrievalNeeds' = RetrievalNeeds
    BY <2>1 DEF Blocking, Context, RetrievalNeeds
  <2>4. /\ DirectionsValid(hier.directions)' = DirectionsValid(hier.directions)
        /\ TriageValid(hier.triage)' = TriageValid(hier.triage)
        /\ Disposed(hier.triage, {"human"})' = Disposed(hier.triage, {"human"})
    BY <2>1, <2>3 DEF DirectionsValid, Covers, TriageValid, TriageCovers, Disposed
  <2>5. StagesOK'
    BY <2>1, <2>3, <2>4 DEF IInv, StagesOK
  <2>6. ObligationsKept'
    BY <2>1, <2>3 DEF IInv, ObligationsKept
  <2> QED BY <2>2, <2>5, <2>6 DEF IInv
<1> QED
  BY <1>1, <1>2, <1>3, <1>4, <1>5, <1>6, <1>7, <1>8, <1>9, <1>10, <1>11, <1>12, <1>13 DEF Next

\* The inductive invariant holds for every library, every set of questions and
\* whatever the providers answer (evidence_resolution.py, hierarchical.py).
THEOREM Invariant == Spec => []IInv
<1>1. Init => IInv
  BY InvariantInit
<1>2. IInv /\ [Next]_vars => IInv'
  BY InvariantNext
<1> QED BY <1>1, <1>2, PTL DEF Spec

\* Every context, request and stage has the shape its model class declares,
\* and no context holds a record that is not trusted (models.py,
\* evidence_resolution.py:1044-1060).
THEOREM TypeCorrect == Spec => []TypeOK
<1>1. IInv => TypeOK
  BY DEF IInv
<1> QED BY <1>1, Invariant, PTL

\* A record enters a context as trusted support or as part of a dispute
\* (evidence_resolution.py:1044-1060).
THEOREM AdmissionHolds == Spec => []EvidenceAdmitted
<1>1. IInv => EvidenceAdmitted
  BY DEF IInv
<1> QED BY <1>1, Invariant, PTL

\* A named gap that is gone is answered by records that state every condition
\* of its request (README.md:861-863).
THEOREM ClosureHolds == Spec => []ClosedIsProved
<1>1. IInv => ClosedIsProved
  BY DEF IInv
<1> QED BY <1>1, Invariant, PTL

\* A plan keeps the conflicts and the gaps of its input through the directions,
\* the triage and the expansion (hierarchical.py).
THEOREM ObligationsHold == Spec => []ObligationsKept
<1>1. IInv => ObligationsKept
  BY DEF IInv
<1> QED BY <1>1, Invariant, PTL

=============================================================================
