--------------------------- MODULE Knowledge_proofs ---------------------------
(***************************************************************************)
(* Proofs about the two modules of the knowledge side: KnowledgeTrust, the *)
(* store that callers share without a lock, and LiteratureImport, which    *)
(* fills the library.  In the first, what a call has read and not yet      *)
(* written is part of the invariant: its record fits the history it was    *)
(* read from, and histories only grow.  In the second, a page or a         *)
(* resource the traversal leaves out must have left its trace by the time  *)
(* the traversal is classified, and the resource in hand is owed a result. *)
(***************************************************************************)
EXTENDS KnowledgeTrust, LiteratureImport, SequenceTheorems, FiniteSetTheorems,
        WellFoundedInduction, TLAPS

-----------------------------------------------------------------------------
(* KnowledgeTrust: the inductive invariant. *)

\* Each decision of a path was an allowed transition from the one before.
Legal(p) == \A i \in 1 .. (Len(p) - 1) : p[i + 1].status \in Transitions(p[i].status)

\* The first n records of a path are a path of their own, stored before it.
Backed(p, n, paths) ==
    \A m \in 1 .. n : \E q \in paths : Len(q) = m /\ \A i \in 1 .. m : q[i] = p[i]

\* Curation histories: legal paths, each on top of what it supersedes, for the
\* call that has not put its record yet as well.
CurationsOK ==
    /\ \A target \in DOMAIN curations : \A p \in curations[target] :
         Legal(p) /\ Backed(p, Len(p), curations[target])
    /\ \A c \in Callers : In(c, "curate") =>
         /\ Legal(pending[c].path)
         /\ Backed(pending[c].path, Len(pending[c].path) - 1, Paths(pending[c].target))

\* An automatic promotion neither reduces the quality nor returns to an earlier
\* structure.
Advances(p) ==
    Last(p).how = "auto" =>
        /\ Last(p).structure \in Partial \cup Complete
        /\ \A i \in 1 .. (Len(p) - 1) : p[i].structure # Last(p).structure
        /\ Len(p) > 1 /\ p[Len(p) - 1].structure \in Complete
             => Last(p).structure \in Complete

PromotionsOK ==
    /\ \A r \in Reps : \A p \in promotions[r] : Advances(p)
    /\ \A c \in Callers : In(c, "promote") => Advances(pending[c].path)

\* What a compilation record, or a compiler past its grounding, is about: the
\* quote of the representation is bound to the structure it names.
CompilationsOK ==
    /\ \A k \in compilations :
         /\ k.records = {<<"claim", Last(k.selection).rep>>}
         /\ bound[Last(k.selection).rep] = Last(k.promotion).structure
         /\ k.promotion \in promotions[Last(k.selection).rep]
    /\ \A c \in Callers : In(c, "compile") =>
         /\ pending[c].promotion \in promotions[CompiledRep(c)]
         /\ ~At(c, "quote") => bound[CompiledRep(c)] = Last(pending[c].promotion).structure

IInv == TypeOK /\ CurationsOK /\ PromotionsOK /\ CompilationsOK

-----------------------------------------------------------------------------
(* Paths. *)

\* The tip of a history of bounded paths is one of its longest paths.
LEMMA TipIsLongest ==
  ASSUME NEW S, NEW n \in Nat, NEW paths \in SUBSET BoundedPaths(S, n), paths # {}
  PROVE  Tip(paths) \in paths /\ \A q \in paths : Len(q) <= Len(Tip(paths))
<1> DEFINE R == OpToRel(<, Nat)
           T == {n - Len(p) : p \in paths}
<1>1. \A p \in paths : Len(p) \in 1 .. n /\ n - Len(p) \in Nat
  BY DEF BoundedPaths
<1>2. T \subseteq Nat /\ T # {}
  BY <1>1
<1>3. PICK t \in T : \A u \in T : <<u, t>> \notin R
  <2>1. IsWellFoundedOn(R, Nat)
    BY NatLessThanWellFounded
  <2> HIDE DEF R, T
  <2> QED BY <1>2, <2>1, WFMin
<1>4. PICK m \in paths : t = n - Len(m)
  OBVIOUS
<1>5. ASSUME NEW q \in paths PROVE Len(q) <= Len(m)
  <2>1. n - Len(q) \in T /\ n - Len(q) \in Nat /\ t \in Nat
    BY <1>1, <1>2
  <2>2. ~(n - Len(q) < t)
    BY <1>3, <2>1 DEF OpToRel
  <2> QED BY <1>1, <1>4, <2>1, <2>2
<1>6. \E p \in paths : \A q \in paths : Len(q) <= Len(p)
  BY <1>5
<1>7. Tip(paths) = CHOOSE p \in paths : \A q \in paths : Len(q) <= Len(p)
  BY DEF Tip
<1> QED BY <1>6, <1>7

\* The elements of a path, its last one, and what appending to it gives.
LEMMA PathFacts ==
  ASSUME NEW S, NEW n \in Nat, NEW p \in BoundedPaths(S, n)
  PROVE  /\ p \in Seq(S) /\ Len(p) \in 1 .. n /\ DOMAIN p = 1 .. Len(p) /\ Len(p) \in Nat
         /\ Last(p) = p[Len(p)] /\ Last(p) \in S /\ \A i \in 1 .. Len(p) : p[i] \in S
BY DEF BoundedPaths, Last

LEMMA PathExtended ==
  ASSUME NEW S, NEW n \in Nat, NEW e \in S, NEW p \in Seq(S), Len(p) < n
  PROVE  /\ Append(p, e) \in BoundedPaths(S, n)
         /\ Len(Append(p, e)) = Len(p) + 1 /\ Len(p) \in Nat
         /\ Last(Append(p, e)) = e
         /\ \A i \in 1 .. Len(p) : Append(p, e)[i] = p[i]
<1>1. /\ Append(p, e) \in Seq(S) /\ Len(Append(p, e)) = Len(p) + 1 /\ Len(p) \in Nat
      /\ Append(p, e)[Len(p) + 1] = e
      /\ \A i \in 1 .. Len(p) : Append(p, e)[i] = p[i]
  OBVIOUS
<1>2. Last(Append(p, e)) = e
  BY <1>1 DEF Last
<1> QED BY <1>1, <1>2 DEF BoundedPaths

\* The current selections.
LEMMA CurrentTyped ==
  ASSUME TypeOK
  PROVE  /\ CurrentSelection \in selections /\ CurrentSelection \in SelectionPaths
         /\ CurrentRep \in Reps
         /\ \A r \in Reps : /\ promotions[r] \in SUBSET PromotionPaths
                            /\ promotions[r] = {} => CurrentPromotion(r) = << >>
                            /\ promotions[r] # {} =>
                                 /\ CurrentPromotion(r) \in promotions[r]
                                 /\ CurrentPromotion(r) \in PromotionPaths
<1>1. selections \in SUBSET BoundedPaths([rep : Reps, by : Curators], MaxSelections)
      /\ selections # {} /\ MaxSelections \in Nat /\ MaxPromotions \in Nat
  BY BoundsAssumption DEF TypeOK, SelectionPaths
<1>2. CurrentSelection \in selections
  BY <1>1, TipIsLongest DEF CurrentSelection
<1>3. CurrentRep \in Reps
  <2>1. Last(CurrentSelection) \in [rep : Reps, by : Curators]
    BY <1>1, <1>2, PathFacts
  <2> QED BY <2>1 DEF CurrentRep
<1>4. ASSUME NEW r \in Reps
      PROVE  /\ promotions[r] \in SUBSET PromotionPaths
             /\ promotions[r] = {} => CurrentPromotion(r) = << >>
             /\ promotions[r] # {} => CurrentPromotion(r) \in promotions[r]
  <2>1. promotions[r] \in SUBSET PromotionPaths
    BY DEF TypeOK
  <2>2. promotions[r] = {} => CurrentPromotion(r) = << >>
    BY DEF CurrentPromotion, Tip
  <2>3. promotions[r] # {} => CurrentPromotion(r) \in promotions[r]
    BY <1>1, <2>1, TipIsLongest DEF CurrentPromotion, PromotionPaths
  <2> QED BY <2>1, <2>2, <2>3
<1> QED BY <1>1, <1>2, <1>3, <1>4 DEF SelectionPaths

\* The tip of a curation history.
LEMMA CurationTip ==
  ASSUME TypeOK, NEW target
  PROVE  /\ Paths(target) \in SUBSET CurationPaths
         /\ Paths(target) = {} => Tip(Paths(target)) = << >> /\ StatusOf(target) = "none"
         /\ Paths(target) # {} =>
              /\ Tip(Paths(target)) \in Paths(target)
              /\ \A q \in Paths(target) : Len(q) <= Len(Tip(Paths(target)))
              /\ StatusOf(target) = Last(Tip(Paths(target))).status
<1>1. Paths(target) \in SUBSET CurationPaths
  BY DEF TypeOK, Paths
<1>2. Paths(target) # {} =>
        /\ Tip(Paths(target)) \in Paths(target)
        /\ \A q \in Paths(target) : Len(q) <= Len(Tip(Paths(target)))
  BY <1>1, TipIsLongest DEF CurationPaths
<1> QED BY <1>1, <1>2 DEF Tip, StatusOf

\* What a call carries.
LEMMA CallTyped ==
  ASSUME TypeOK, NEW c \in Callers
  PROVE  /\ pending[c] \in Calls \cup {None}
         /\ In(c, "curate") =>
              /\ pending[c].path \in CurationPaths
              /\ pending[c].target \in Records \cup ({"selection"} \X SelectionPaths)
         /\ In(c, "select") => pending[c].path \in SelectionPaths
         /\ In(c, "promote") => pending[c].rep \in Reps /\ pending[c].path \in PromotionPaths
         /\ In(c, "compile") =>
              /\ pending[c] \in [op : {"compile"},
                                 at : {"quote", "claim", "curation", "compilation"},
                                 selection : SelectionPaths, promotion : PromotionPaths]
              /\ pending[c].selection \in SelectionPaths
              /\ pending[c].promotion \in PromotionPaths
              /\ CompiledRep(c) \in Reps
              /\ Last(pending[c].promotion).structure \in Structures
<1>1. pending[c] \in Calls \cup {None}
  BY DEF TypeOK
<1>2. In(c, "curate") =>
        /\ pending[c].path \in CurationPaths
        /\ pending[c].target \in Records \cup ({"selection"} \X SelectionPaths)
  BY <1>1 DEF In, Idle, Calls
<1>3. In(c, "select") => pending[c].path \in SelectionPaths
  BY <1>1 DEF In, Idle, Calls
<1>4. In(c, "promote") => pending[c].rep \in Reps /\ pending[c].path \in PromotionPaths
  BY <1>1 DEF In, Idle, Calls
<1>5. In(c, "compile") =>
        pending[c] \in [op : {"compile"},
                        at : {"quote", "claim", "curation", "compilation"},
                        selection : SelectionPaths, promotion : PromotionPaths]
  BY <1>1 DEF In, Idle, Calls
<1>6. ASSUME In(c, "compile")
      PROVE  CompiledRep(c) \in Reps /\ Last(pending[c].promotion).structure \in Structures
  <2>1. pending[c].selection \in SelectionPaths /\ pending[c].promotion \in PromotionPaths
    BY <1>5, <1>6
  <2>2. Last(pending[c].selection) \in [rep : Reps, by : Curators]
    BY <2>1, PathFacts, BoundsAssumption DEF SelectionPaths
  <2>3. Last(pending[c].promotion) \in [structure : Structures, how : {"auto", "selected"}]
    BY <2>1, PathFacts, BoundsAssumption DEF PromotionPaths
  <2> QED BY <2>2, <2>3 DEF CompiledRep
<1> QED BY <1>1, <1>2, <1>3, <1>4, <1>5, <1>6

-----------------------------------------------------------------------------
(* Calls.  A step writes the place of its own call only.                   *)

Is(call, op) == call # None /\ call.op = op

LEMMA Parts == IInv => TypeOK /\ CurationsOK /\ PromotionsOK /\ CompilationsOK
BY DEF IInv

LEMMA Entered ==
  ASSUME TypeOK, NEW c \in Callers, NEW call \in Calls \cup {None}, Enter(c, call)
  PROVE  /\ pending' \in [Callers -> Calls \cup {None}]
         /\ pending'[c] = call /\ \A d \in Callers : d # c => pending'[d] = pending[d]
BY DEF TypeOK, Enter

\* A step that leaves the curations alone.
LEMMA CurationsKept ==
  ASSUME CurationsOK, UNCHANGED curations, NEW c \in Callers, NEW call,
         pending'[c] = call, \A d \in Callers : d # c => pending'[d] = pending[d],
         Is(call, "curate") =>
           /\ Legal(call.path)
           /\ Backed(call.path, Len(call.path) - 1, Paths(call.target))
  PROVE  CurationsOK'
<1>1. \A t : Paths(t)' = Paths(t)
  BY DEF Paths
<1>2. ASSUME NEW d \in Callers, In(d, "curate")'
      PROVE  (/\ Legal(pending[d].path)
              /\ Backed(pending[d].path, Len(pending[d].path) - 1,
                        Paths(pending[d].target)))'
  <2>1. CASE d = c
    <3>1. pending'[d] = call /\ Is(call, "curate")
      BY <1>2, <2>1 DEF In, Idle, Is
    <3>2. /\ Legal(call.path)
          /\ Backed(call.path, Len(call.path) - 1, Paths(call.target))
      BY <3>1
    <3> QED BY <3>1, <3>2 DEF Legal, Backed, Paths
  <2>2. CASE d # c
    <3>1. pending'[d] = pending[d] /\ In(d, "curate")
      BY <1>2, <2>2 DEF In, Idle
    <3>2. /\ Legal(pending[d].path)
          /\ Backed(pending[d].path, Len(pending[d].path) - 1, Paths(pending[d].target))
      BY <3>1 DEF CurationsOK
    <3> QED BY <3>1, <3>2 DEF Legal, Backed, Paths
  <2> QED BY <2>1, <2>2
<1>3. \A target \in DOMAIN curations' : \A p \in curations'[target] :
        Legal(p) /\ Backed(p, Len(p), curations'[target])
  BY DEF CurationsOK
<1> QED BY <1>2, <1>3 DEF CurationsOK, Legal, Backed

\* A step that leaves the promotions alone.
LEMMA PromotionsKept ==
  ASSUME PromotionsOK, UNCHANGED promotions, NEW c \in Callers, NEW call,
         pending'[c] = call, \A d \in Callers : d # c => pending'[d] = pending[d],
         Is(call, "promote") => Advances(call.path)
  PROVE  PromotionsOK'
<1>1. ASSUME NEW d \in Callers, In(d, "promote")' PROVE Advances(pending[d].path)'
  <2>1. CASE d = c
    BY <1>1, <2>1 DEF In, Idle, Is, Advances
  <2>2. CASE d # c
    BY <1>1, <2>2 DEF In, Idle, PromotionsOK, Advances
  <2> QED BY <2>1, <2>2
<1> QED BY <1>1 DEF PromotionsOK, Advances

\* A step that binds no quote anew and drops no promotion.
LEMMA CompilationsKept ==
  ASSUME TypeOK, CompilationsOK, UNCHANGED compilations, NEW c \in Callers, NEW call,
         \A r \in Reps : /\ promotions[r] \subseteq promotions'[r]
                         /\ bound[r] # None => bound'[r] = bound[r],
         pending'[c] = call, \A d \in Callers : d # c => pending'[d] = pending[d],
         Is(call, "compile") =>
           /\ call.promotion \in promotions'[Last(call.selection).rep]
           /\ call.at # "quote" =>
                bound'[Last(call.selection).rep] = Last(call.promotion).structure
  PROVE  CompilationsOK'
<1>1. ASSUME NEW k \in compilations
      PROVE  /\ k.records = {<<"claim", Last(k.selection).rep>>}
             /\ bound'[Last(k.selection).rep] = Last(k.promotion).structure
             /\ k.promotion \in promotions'[Last(k.selection).rep]
  <2>1. k.selection \in SelectionPaths /\ k.promotion \in PromotionPaths
    BY DEF TypeOK, Compilations
  <2>2. Last(k.selection) \in [rep : Reps, by : Curators]
    BY <2>1, PathFacts, BoundsAssumption DEF SelectionPaths
  <2>3. Last(k.promotion) \in [structure : Structures, how : {"auto", "selected"}]
    BY <2>1, PathFacts, BoundsAssumption DEF PromotionPaths
  <2>4. Last(k.selection).rep \in Reps /\ Last(k.promotion).structure # None
    BY <2>2, <2>3, StructuresAssumption DEF Structures
  <2> QED BY <2>4 DEF CompilationsOK
<1>2. ASSUME NEW d \in Callers, In(d, "compile")'
      PROVE  /\ pending'[d].promotion \in promotions'[Last(pending'[d].selection).rep]
             /\ pending'[d].at # "quote" =>
                  bound'[Last(pending'[d].selection).rep]
                    = Last(pending'[d].promotion).structure
  <2>1. CASE d = c
    BY <1>2, <2>1 DEF In, Idle, Is
  <2>2. CASE d # c
    <3>1. pending'[d] = pending[d] /\ In(d, "compile")
      BY <1>2, <2>2 DEF In, Idle
    <3>2. Last(pending[d].selection).rep \in Reps
          /\ Last(pending[d].promotion).structure # None
      BY <3>1, CallTyped, StructuresAssumption DEF CompiledRep, Structures
    <3>3. /\ pending[d].promotion \in promotions[Last(pending[d].selection).rep]
          /\ pending[d].at # "quote" =>
               bound[Last(pending[d].selection).rep] = Last(pending[d].promotion).structure
      BY <3>1 DEF CompilationsOK, CompiledRep, At
    <3> QED BY <3>1, <3>2, <3>3
  <2> QED BY <2>1, <2>2
<1> QED BY <1>1, <1>2 DEF CompilationsOK, CompiledRep, At

\* A call starts, goes on or ends without writing to the store, but for the
\* structure artifacts it stores.
LEMMA StoreKept ==
  ASSUME IInv, NEW c \in Callers, NEW call \in Calls \cup {None}, Enter(c, call),
         structures' \subseteq Structures,
         UNCHANGED <<selections, promotions, records, curations, bound, compilations>>,
         Is(call, "curate") =>
           /\ Legal(call.path)
           /\ Backed(call.path, Len(call.path) - 1, Paths(call.target)),
         Is(call, "promote") => Advances(call.path),
         Is(call, "compile") =>
           /\ call.promotion \in promotions[Last(call.selection).rep]
           /\ call.at # "quote" =>
                bound[Last(call.selection).rep] = Last(call.promotion).structure
  PROVE  IInv'
<1> USE Parts
<1>1. /\ pending' \in [Callers -> Calls \cup {None}]
      /\ pending'[c] = call /\ \A d \in Callers : d # c => pending'[d] = pending[d]
  BY Entered
<1>2. TypeOK'
  BY <1>1 DEF TypeOK
<1>3. CurationsOK'
  BY <1>1, CurationsKept
<1>4. PromotionsOK'
  BY <1>1, PromotionsKept
<1>5. CompilationsOK'
  BY <1>1, CompilationsKept
<1> QED BY <1>2, <1>3, <1>4, <1>5 DEF IInv

-----------------------------------------------------------------------------
(* Curation. *)

\* Accepted and rejected records are decided on no more, so a third decision
\* is the last.
LEMMA ThreeDecisionsEnd ==
  ASSUME NEW p \in CurationPaths, Legal(p), Len(p) = 3
  PROVE  Transitions(Last(p).status) = {}
<1>1. /\ p[1] \in [status : CurationStatus, by : Curators \cup {Compiler}]
      /\ Last(p) = p[3]
  <2> DEFINE S == [status : CurationStatus, by : Curators \cup {Compiler}]
  <2>1. p \in BoundedPaths(S, 3) /\ 3 \in Nat
    BY DEF CurationPaths
  <2> HIDE DEF S
  <2>2. Last(p) = p[Len(p)] /\ \A i \in 1 .. Len(p) : p[i] \in S
    BY <2>1, PathFacts
  <2> QED BY <2>2 DEF S
<1>2. p[1 + 1].status \in Transitions(p[1].status)
      /\ p[2 + 1].status \in Transitions(p[2].status)
  BY DEF Legal
<1>3. p[2].status \in {"reviewed", "accepted", "rejected"}
  BY <1>1, <1>2 DEF Transitions, CurationStatus
<1>4. p[3].status \in {"accepted", "rejected"}
  BY <1>2, <1>3 DEF Transitions
<1> QED BY <1>1, <1>4 DEF Transitions

\* A decision that the transitions allow extends the history of its target.
LEMMA Decided ==
  ASSUME IInv, NEW target,
         NEW e \in [status : CurationStatus, by : Curators \cup {Compiler}],
         e.status \in Transitions(StatusOf(target)),
         NEW path, path = Append(Tip(Paths(target)), e)
  PROVE  /\ path \in CurationPaths /\ Legal(path)
         /\ Backed(path, Len(path) - 1, Paths(target))
<1> USE Parts
<1> DEFINE S == [status : CurationStatus, by : Curators \cup {Compiler}]
           tip == Tip(Paths(target))
<1>0. 3 \in Nat /\ e \in S /\ path = Append(tip, e) /\ CurationPaths = BoundedPaths(S, 3)
  BY DEF CurationPaths
<1>1. CASE Paths(target) = {}
  <2>1. tip = << >>
    BY <1>1, CurationTip
  <2> HIDE DEF tip, S
  <2>2. tip \in Seq(S) /\ Len(tip) = 0 /\ Len(tip) < 3
    BY <2>1
  <2>3. path \in BoundedPaths(S, 3) /\ Len(path) = 1
    <3>1. Append(tip, e) \in BoundedPaths(S, 3) /\ Len(Append(tip, e)) = Len(tip) + 1
      BY <1>0, <2>2, PathExtended
    <3> QED BY <1>0, <2>2, <3>1
  <2> QED BY <1>0, <2>3 DEF Legal, Backed
<1>2. CASE Paths(target) # {}
  <2> DEFINE m == Len(tip)
  <2>1. tip \in Paths(target) /\ tip \in CurationPaths /\ StatusOf(target) = Last(tip).status
    <3>1. /\ Paths(target) \in SUBSET CurationPaths /\ tip \in Paths(target)
          /\ StatusOf(target) = Last(tip).status
      BY <1>2, CurationTip
    <3> QED BY <3>1
  <2>2. Legal(tip) /\ Backed(tip, m, Paths(target))
    <3> HIDE DEF tip
    <3>1. target \in DOMAIN curations /\ tip \in curations[target]
          /\ Paths(target) = curations[target]
      BY <2>1 DEF Paths
    <3> QED BY <3>1 DEF CurationsOK
  <2> HIDE DEF tip, S
  <2>3. tip \in Seq(S) /\ m \in 1 .. 3 /\ Last(tip) = tip[m]
    BY <1>0, <2>1, PathFacts
  <2>4. m < 3
    <3> SUFFICES ASSUME m = 3 PROVE FALSE
      BY <2>3
    <3>1. Transitions(Last(tip).status) = {}
      BY <2>1, <2>2, ThreeDecisionsEnd
    <3> QED BY <2>1, <3>1
  <2>5. /\ path \in BoundedPaths(S, 3) /\ Len(path) = m + 1 /\ Last(path) = e
        /\ \A i \in 1 .. m : path[i] = tip[i]
    BY <1>0, <2>3, <2>4, PathExtended
  <2>6. path[m + 1] = e
    BY <2>5 DEF Last
  <2>7. Legal(path)
    <3> SUFFICES ASSUME NEW i \in 1 .. m PROVE path[i + 1].status \in Transitions(path[i].status)
      BY <2>3, <2>5 DEF Legal
    <3>1. CASE i = m
      BY <2>1, <2>3, <2>5, <2>6, <3>1
    <3>2. CASE i # m
      <4>1. tip[i + 1].status \in Transitions(tip[i].status)
        BY <2>2, <2>3, <3>2 DEF Legal
      <4> QED BY <2>3, <2>5, <3>2, <4>1
    <3> QED BY <3>1, <3>2
  <2>8. Backed(path, m, Paths(target))
    BY <2>2, <2>3, <2>5 DEF Backed
  <2> QED BY <1>0, <2>3, <2>5, <2>7, <2>8
<1> QED BY <1>1, <1>2

\* A record is put on top of what it supersedes.
LEMMA CurationPut ==
  ASSUME IInv, NEW target, NEW path \in CurationPaths, Legal(path),
         Backed(path, Len(path) - 1, Paths(target)), curations' = Add(target, path),
         NEW c \in Callers, NEW call, ~Is(call, "curate"),
         pending'[c] = call, \A d \in Callers : d # c => pending'[d] = pending[d]
  PROVE  /\ CurationsOK'
         /\ \A t \in DOMAIN curations' : curations'[t] \subseteq CurationPaths
<1> USE Parts
<1>1. /\ DOMAIN curations' = DOMAIN curations \cup {target}
      /\ curations'[target] = Paths(target) \cup {path}
      /\ \A t \in DOMAIN curations : t # target => curations'[t] = curations[t]
  BY DEF Add
<1>3. ASSUME NEW p, NEW n, NEW A, NEW B, A \subseteq B, Backed(p, n, A)
      PROVE  Backed(p, n, B)
  BY <1>3 DEF Backed
<1>4. ASSUME NEW t \in DOMAIN curations', NEW p \in curations'[t]
      PROVE  p \in CurationPaths /\ Legal(p) /\ Backed(p, Len(p), curations'[t])
  <2>1. CASE p \in Paths(t)
    <3>1. t \in DOMAIN curations /\ p \in curations[t] /\ curations[t] = Paths(t)
      BY <2>1 DEF Paths
    <3>2. p \in CurationPaths /\ Legal(p) /\ Backed(p, Len(p), Paths(t))
      BY <3>1 DEF TypeOK, CurationsOK
    <3>3. Paths(t) \subseteq curations'[t]
      BY <1>1, <3>1
    <3> QED BY <1>3, <3>2, <3>3
  <2>2. CASE p \notin Paths(t)
    <3>1. t = target /\ p = path
      BY <1>1, <2>2 DEF Paths
    <3>2. Backed(path, Len(path) - 1, curations'[target])
      BY <1>1, <1>3
    <3>3. Len(path) \in Nat /\ path \in curations'[target]
      BY <1>1, PathFacts DEF CurationPaths
    <3>4. Backed(path, Len(path), curations'[target])
      <4> SUFFICES ASSUME NEW m \in 1 .. Len(path)
                   PROVE  \E q \in curations'[target] : /\ Len(q) = m
                                                        /\ \A i \in 1 .. m : q[i] = path[i]
        BY DEF Backed
      <4>1. CASE m = Len(path)
        BY <3>3, <4>1
      <4>2. CASE m # Len(path)
        BY <3>2, <3>3, <4>2 DEF Backed
      <4> QED BY <4>1, <4>2
    <3> QED BY <3>1, <3>4
  <2> QED BY <2>1, <2>2
<1>5. ASSUME NEW d \in Callers, In(d, "curate")'
      PROVE  /\ Legal(pending'[d].path)
             /\ Backed(pending'[d].path, Len(pending'[d].path) - 1,
                       IF pending'[d].target \in DOMAIN curations'
                       THEN curations'[pending'[d].target] ELSE {})
  <2>1. pending'[d] = pending[d] /\ In(d, "curate")
    BY <1>5 DEF In, Idle, Is
  <2> DEFINE t == pending[d].target
             p == pending[d].path
  <2>2. Legal(p) /\ Backed(p, Len(p) - 1, Paths(t))
    BY <2>1 DEF CurationsOK
  <2>3. Paths(t) \subseteq IF t \in DOMAIN curations' THEN curations'[t] ELSE {}
    BY <1>1 DEF Paths
  <2> HIDE DEF t, p
  <2>4. Backed(p, Len(p) - 1, IF t \in DOMAIN curations' THEN curations'[t] ELSE {})
    BY <1>3, <2>2, <2>3
  <2> QED BY <2>1, <2>2, <2>4 DEF t, p
<1>6. \A t \in DOMAIN curations' : curations'[t] \subseteq CurationPaths
  BY <1>4
<1>7. CurationsOK'
  BY <1>4, <1>5 DEF CurationsOK, Legal, Backed, Paths, In, Idle
<1> QED BY <1>6, <1>7

LEMMA CurateKeeps == ASSUME IInv, NEW c \in Callers, Curate(c) PROVE IInv'
<1> USE Parts
<1>1. PICK target \in Known, by \in Curators :
        \E status \in Transitions(StatusOf(target)) \cap Decisions :
          Enter(c, [op |-> "curate", target |-> target,
                    path |-> Append(Tip(Paths(target)), [status |-> status, by |-> by])])
  BY DEF Curate
<1>2. PICK status \in Transitions(StatusOf(target)) :
          Enter(c, [op |-> "curate", target |-> target,
                    path |-> Append(Tip(Paths(target)), [status |-> status, by |-> by])])
  BY <1>1
<1> DEFINE e == [status |-> status, by |-> by]
           path == Append(Tip(Paths(target)), e)
           call == [op |-> "curate", target |-> target, path |-> path]
<1>3. e \in [status : CurationStatus, by : Curators \cup {Compiler}] /\ e.status = status
  <2>1. status \in CurationStatus
    BY DEF Transitions, CurationStatus
  <2> QED BY <2>1
<1>4. /\ path \in CurationPaths /\ Legal(path)
      /\ Backed(path, Len(path) - 1, Paths(target))
  BY <1>3, Decided
<1>5. target \in Records \cup ({"selection"} \X SelectionPaths)
  BY DEF Known, SelectionTarget, TypeOK
<1>6. Enter(c, call)
  BY <1>2
<1> HIDE DEF path
<1>7. call \in Calls /\ call.path = path /\ call.target = target /\ call.op = "curate"
  BY <1>4, <1>5 DEF Calls
<1>8. UNCHANGED <<selections, structures, promotions, records, curations, bound, compilations>>
  BY DEF Curate, store
<1> HIDE DEF call
<1> QED BY <1>4, <1>6, <1>7, <1>8, StoreKept DEF Is, TypeOK

LEMMA PutCurationKeeps == ASSUME IInv, NEW c \in Callers, PutCuration(c) PROVE IInv'
<1> USE Parts
<1>1. /\ In(c, "curate") /\ Enter(c, None)
      /\ curations' = Add(pending[c].target, pending[c].path)
      /\ UNCHANGED <<selections, structures, promotions, records, bound, compilations>>
  BY DEF PutCuration, Leave
<1>2. /\ pending' \in [Callers -> Calls \cup {None}]
      /\ pending'[c] = None /\ \A d \in Callers : d # c => pending'[d] = pending[d]
  BY <1>1, Entered
<1>3. /\ pending[c].path \in CurationPaths /\ Legal(pending[c].path)
      /\ Backed(pending[c].path, Len(pending[c].path) - 1, Paths(pending[c].target))
  BY <1>1, CallTyped DEF CurationsOK
<1>4. CurationsOK' /\ \A t \in DOMAIN curations' : curations'[t] \subseteq CurationPaths
  BY <1>1, <1>2, <1>3, CurationPut DEF Is
<1>5. TypeOK'
  BY <1>1, <1>2, <1>4 DEF TypeOK
<1>6. PromotionsOK' /\ CompilationsOK'
  BY <1>1, <1>2, PromotionsKept, CompilationsKept DEF Is
<1> QED BY <1>4, <1>5, <1>6 DEF IInv

-----------------------------------------------------------------------------
(* Selections. *)

LEMMA SelectRepresentationKeeps ==
  ASSUME IInv, NEW c \in Callers, SelectRepresentation(c) PROVE IInv'
<1> USE Parts
<1>1. PICK r \in Reps, by \in Curators :
        Enter(c, [op |-> "select", path |-> Append(CurrentSelection, [rep |-> r, by |-> by])])
  BY DEF SelectRepresentation
<1> DEFINE S == [rep : Reps, by : Curators]
           e == [rep |-> r, by |-> by]
           path == Append(CurrentSelection, e)
           call == [op |-> "select", path |-> path]
<1>2. path \in SelectionPaths
  <2>1. /\ e \in S /\ MaxSelections \in Nat /\ SelectionPaths = BoundedPaths(S, MaxSelections)
        /\ Len(CurrentSelection) < MaxSelections
    BY BoundsAssumption DEF SelectionPaths, SelectRepresentation
  <2> HIDE DEF S, e
  <2>2. CurrentSelection \in Seq(S)
    BY <2>1, CurrentTyped, PathFacts
  <2> QED BY <2>1, <2>2, PathExtended
<1>3. Enter(c, call)
  BY <1>1
<1> HIDE DEF path
<1>4. call \in Calls /\ call.op = "select"
  BY <1>2 DEF Calls
<1>5. UNCHANGED <<selections, structures, promotions, records, curations, bound, compilations>>
  BY DEF SelectRepresentation, store
<1> HIDE DEF call
<1> QED BY <1>3, <1>4, <1>5, StoreKept DEF Is, TypeOK

LEMMA PutSelectionKeeps == ASSUME IInv, NEW c \in Callers, PutSelection(c) PROVE IInv'
<1> USE Parts
<1>1. /\ In(c, "select") /\ Enter(c, None)
      /\ selections' = selections \cup {pending[c].path}
      /\ UNCHANGED <<structures, promotions, records, curations, bound, compilations>>
  BY DEF PutSelection, Leave
<1>2. /\ pending' \in [Callers -> Calls \cup {None}]
      /\ pending'[c] = None /\ \A d \in Callers : d # c => pending'[d] = pending[d]
  BY <1>1, Entered
<1>3. TypeOK'
  BY <1>1, <1>2, CallTyped DEF TypeOK
<1>4. CurationsOK' /\ PromotionsOK' /\ CompilationsOK'
  BY <1>1, <1>2, CurationsKept, PromotionsKept, CompilationsKept DEF Is
<1> QED BY <1>3, <1>4 DEF IInv

\* A promotion of a structure on top of the current one.
LEMMA PromotionTyped ==
  ASSUME TypeOK, NEW s \in Structures, Promotable(Of(s)), NEW how \in {"auto", "selected"}
  PROVE  /\ Promotion(s, how) \in Calls
         /\ Promotion(s, how).op = "promote"
         /\ Len(Promotion(s, how).path) = Len(CurrentPromotion(Of(s))) + 1
         /\ Last(Promotion(s, how).path).structure = s
         /\ Last(Promotion(s, how).path).how = how
         /\ Len(CurrentPromotion(Of(s))) \in Nat
         /\ \A i \in 1 .. Len(CurrentPromotion(Of(s))) :
              Promotion(s, how).path[i] = CurrentPromotion(Of(s))[i]
<1> DEFINE S == [structure : Structures, how : {"auto", "selected"}]
           e == [structure |-> s, how |-> how]
           tip == CurrentPromotion(Of(s))
           path == Append(tip, e)
<1>1. /\ e \in S /\ MaxPromotions \in Nat /\ PromotionPaths = BoundedPaths(S, MaxPromotions)
      /\ Len(tip) < MaxPromotions /\ Of(s) \in Reps
  BY BoundsAssumption DEF PromotionPaths, Promotable, Of, Reps
<1>2. Promotion(s, how) = [op |-> "promote", rep |-> Of(s), path |-> path]
  BY DEF Promotion
<1>3. tip = << >> \/ tip \in PromotionPaths
  BY <1>1, CurrentTyped
<1> HIDE DEF S, e, tip
<1>4. tip \in Seq(S)
  <2>1. CASE tip = << >>
    BY <2>1
  <2>2. CASE tip \in PromotionPaths
    <3>1. tip \in BoundedPaths(S, MaxPromotions)
      BY <1>1, <2>2
    <3> QED BY <1>1, <3>1, PathFacts
  <2> QED BY <1>3, <2>1, <2>2
<1>5. /\ path \in PromotionPaths /\ Len(path) = Len(tip) + 1 /\ Last(path) = e /\ Len(tip) \in Nat
      /\ \A i \in 1 .. Len(tip) : path[i] = tip[i]
  BY <1>1, <1>4, PathExtended
<1> HIDE DEF path
<1>6. Promotion(s, how) \in Calls /\ Promotion(s, how).op = "promote" /\ Promotion(s, how).path = path
  BY <1>1, <1>2, <1>5 DEF Calls
<1> QED BY <1>5, <1>6 DEF e, tip

LEMMA ExtractKeeps ==
  ASSUME IInv, NEW c \in Callers, NEW s \in Structures, Extract(c, s) PROVE IInv'
<1> USE Parts
<1>1. /\ Idle(c) /\ structures' \subseteq Structures
      /\ UNCHANGED <<selections, promotions, records, curations, bound, compilations>>
  BY DEF Extract, TypeOK
<1>2. CASE Promotable(Of(s)) /\ Admissible(s)
  <2> DEFINE call == Promotion(s, "auto")
             tip == CurrentPromotion(Of(s))
  <2>1. Enter(c, call)
    BY <1>2 DEF Extract
  <2>2. /\ call \in Calls /\ call.op = "promote"
        /\ Len(call.path) = Len(tip) + 1 /\ Len(tip) \in Nat
        /\ Last(call.path).structure = s
        /\ \A i \in 1 .. Len(tip) : call.path[i] = tip[i]
    <3>1. TypeOK /\ Promotable(Of(s)) /\ "auto" \in {"auto", "selected"}
      BY <1>2
    <3> HIDE DEF call, tip
    <3> QED BY <3>1, PromotionTyped DEF call, tip
  <2>3. Of(s) \in Reps /\ s \in Partial \cup Complete
    BY <1>2 DEF Of, Reps, Admissible
  <2>4. tip # << >> => s \in Successors(Last(tip).structure)
                       /\ \A i \in 1 .. Len(tip) : tip[i].structure # s
    BY <1>2, <2>3, CurrentTyped DEF Admissible, CurrentStructure, HistoryStructures
  <2> HIDE DEF call
  <2>5. tip # << >> => Len(tip) > 0
    BY <2>2, <2>3, CurrentTyped, PathFacts, BoundsAssumption DEF PromotionPaths
  <2>6. Advances(call.path)
    <3>1. \A i \in 1 .. Len(tip) : tip[i].structure # s
      BY <2>2, <2>4
    <3>2. Len(tip) > 0 /\ tip[Len(tip)].structure \in Complete => s \in Complete
      <4>1. Len(tip) > 0 => s \in Successors(Last(tip).structure)
        BY <2>4
      <4> QED BY <4>1 DEF Successors, Last
    <3> HIDE DEF tip
    <3> QED BY <2>2, <2>3, <3>1, <3>2 DEF Advances
  <2> QED BY <1>1, <2>1, <2>2, <2>6, StoreKept DEF Is
<1>3. CASE ~(Promotable(Of(s)) /\ Admissible(s))
  <2>1. pending' = pending /\ pending[c] = None
    BY <1>1, <1>3 DEF Extract, Idle
  <2>2. Enter(c, None)
    BY <2>1 DEF Enter, TypeOK
  <2> QED BY <1>1, <2>2, StoreKept DEF Is
<1> QED BY <1>2, <1>3

LEMMA SelectStructureKeeps ==
  ASSUME IInv, NEW c \in Callers, NEW allow \in BOOLEAN, SelectStructure(c, allow)
  PROVE  IInv'
<1> USE Parts
<1>1. PICK s \in structures : Promotable(Of(s)) /\ Enter(c, Promotion(s, "selected"))
  BY DEF SelectStructure
<1>2. UNCHANGED <<selections, structures, promotions, records, curations, bound, compilations>>
  BY DEF SelectStructure, store
<1> DEFINE call == Promotion(s, "selected")
<1>3. s \in Structures /\ structures' \subseteq Structures
  BY <1>2 DEF TypeOK
<1>4. call \in Calls /\ call.op = "promote" /\ Last(call.path).how = "selected"
  <2>1. TypeOK /\ "selected" \in {"auto", "selected"}
    OBVIOUS
  <2> QED BY <1>1, <1>3, <2>1, PromotionTyped
<1> HIDE DEF call
<1>5. Advances(call.path)
  BY <1>4 DEF Advances
<1>6. Enter(c, call)
  BY <1>1 DEF call
<1> QED BY <1>2, <1>3, <1>4, <1>5, <1>6, StoreKept DEF Is

LEMMA PutPromotionKeeps == ASSUME IInv, NEW c \in Callers, PutPromotion(c) PROVE IInv'
<1> USE Parts
<1>1. /\ In(c, "promote") /\ Enter(c, None)
      /\ promotions' = [promotions EXCEPT ![pending[c].rep] = @ \cup {pending[c].path}]
      /\ UNCHANGED <<selections, structures, records, curations, bound, compilations>>
  BY DEF PutPromotion, Leave
<1>2. /\ pending' \in [Callers -> Calls \cup {None}]
      /\ pending'[c] = None /\ \A d \in Callers : d # c => pending'[d] = pending[d]
  BY <1>1, Entered
<1>3. pending[c].rep \in Reps /\ pending[c].path \in PromotionPaths
  BY <1>1, CallTyped
<1>4. /\ promotions \in [Reps -> SUBSET PromotionPaths]
      /\ promotions' \in [Reps -> SUBSET PromotionPaths]
      /\ \A r \in Reps : /\ promotions[r] \subseteq promotions'[r]
                         /\ promotions'[r] \subseteq promotions[r] \cup {pending[c].path}
  BY <1>1, <1>3 DEF TypeOK
<1>5. TypeOK'
  BY <1>1, <1>2, <1>4 DEF TypeOK
<1>6. CurationsOK' /\ CompilationsOK'
  BY <1>1, <1>2, <1>4, CurationsKept, CompilationsKept DEF Is
<1>7. PromotionsOK'
  <2>1. Advances(pending[c].path)
    BY <1>1 DEF PromotionsOK
  <2>2. \A r \in Reps : \A p \in promotions'[r] : Advances(p)
    BY <1>4, <2>1 DEF PromotionsOK
  <2>3. ASSUME NEW d \in Callers, In(d, "promote")' PROVE Advances(pending'[d].path)
    <3>1. pending'[d] = pending[d] /\ In(d, "promote")
      BY <1>2, <2>3 DEF In, Idle
    <3> QED BY <3>1 DEF PromotionsOK
  <2> QED BY <2>2, <2>3 DEF PromotionsOK, Advances
<1> QED BY <1>5, <1>6, <1>7 DEF IInv

-----------------------------------------------------------------------------
(* The literature compiler. *)

\* A call that ends, or is killed, and leaves the store as it is.
LEMMA LeaveKeeps ==
  ASSUME IInv, NEW c \in Callers, Leave(c), UNCHANGED store PROVE IInv'
<1>1. /\ UNCHANGED <<selections, structures, promotions, records, curations, bound,
                     compilations>>
      /\ Enter(c, None) /\ structures' \subseteq Structures
  BY Parts DEF store, Leave, TypeOK
<1> QED BY <1>1, StoreKept DEF Is

LEMMA CompileKeeps == ASSUME IInv, NEW c \in Callers, Compile(c) PROVE IInv'
<1> USE Parts
<1> DEFINE call == [op |-> "compile", at |-> "quote", selection |-> CurrentSelection,
                    promotion |-> CurrentPromotion(CurrentRep)]
<1>1. /\ CurrentSelection \in SelectionPaths /\ CurrentRep \in Reps
      /\ CurrentPromotion(CurrentRep) \in promotions[CurrentRep]
      /\ CurrentPromotion(CurrentRep) \in PromotionPaths
  BY CurrentTyped DEF Compile, InputResolves, StructureResolves
<1>2. /\ Enter(c, call) /\ structures' \subseteq Structures
      /\ UNCHANGED <<selections, structures, promotions, records, curations, bound,
                     compilations>>
  BY DEF Compile, store, TypeOK
<1>3. call \in Calls
  BY <1>1 DEF Calls
<1>4. /\ call.op = "compile" /\ call.at = "quote"
      /\ call.promotion \in promotions[Last(call.selection).rep]
  BY <1>1 DEF CurrentRep
<1> HIDE DEF call
<1> QED BY <1>2, <1>3, <1>4, StoreKept DEF Is

\* The next step of a compilation.
LEMMA Stepped ==
  ASSUME TypeOK, CompilationsOK, NEW c \in Callers, In(c, "compile"),
         NEW step \in {"claim", "curation", "compilation"},
         Step(c, step)
  PROVE  \E call \in Calls :
           /\ Enter(c, call) /\ call.op = "compile" /\ call.at = step
           /\ call.selection = pending[c].selection
           /\ call.promotion = pending[c].promotion
<1> DEFINE call == [pending[c] EXCEPT !.at = step]
<1>1. pending[c] \in [op : {"compile"}, at : {"quote", "claim", "curation", "compilation"},
                      selection : SelectionPaths, promotion : PromotionPaths]
  BY CallTyped
<1>2. /\ call \in Calls /\ call.op = "compile" /\ call.at = step
      /\ call.selection = pending[c].selection
      /\ call.promotion = pending[c].promotion
  BY <1>1 DEF Calls
<1>3. Enter(c, call)
  BY DEF Step
<1> HIDE DEF call
<1> QED BY <1>2, <1>3

LEMMA GroundKeeps == ASSUME IInv, NEW c \in Callers, Ground(c) PROVE IInv'
<1> USE Parts
<1>1. /\ In(c, "compile") /\ Quotable(c) /\ Step(c, "claim")
      /\ bound' = [bound EXCEPT ![CompiledRep(c)] =
                      IF @ = None THEN Last(pending[c].promotion).structure ELSE @]
      /\ UNCHANGED <<selections, structures, promotions, records, curations, compilations>>
  BY DEF Ground, At
<1>2. PICK call \in Calls :
        /\ Enter(c, call) /\ call.op = "compile" /\ call.at = "claim"
        /\ call.selection = pending[c].selection
        /\ call.promotion = pending[c].promotion
  BY <1>1, Stepped
<1>3. /\ pending' \in [Callers -> Calls \cup {None}]
      /\ pending'[c] = call /\ \A d \in Callers : d # c => pending'[d] = pending[d]
  BY <1>2, Entered
<1>4. /\ CompiledRep(c) \in Reps /\ Last(pending[c].promotion).structure \in Structures
      /\ CompiledRep(c) = Last(call.selection).rep
  BY <1>1, <1>2, CallTyped DEF CompiledRep
<1>5. /\ bound' \in [Reps -> Structures \cup {None}]
      /\ bound'[CompiledRep(c)] = Last(pending[c].promotion).structure
      /\ \A r \in Reps : bound[r] # None => bound'[r] = bound[r]
  <2>1. bound \in [Reps -> Structures \cup {None}]
    BY DEF TypeOK
  <2> QED BY <1>1, <1>4, <2>1 DEF Quotable
<1>6. TypeOK'
  BY <1>1, <1>3, <1>5 DEF TypeOK
<1>7. call.promotion \in promotions[Last(call.selection).rep]
  BY <1>1, <1>2, <1>4 DEF CompilationsOK
<1>8. CurationsOK' /\ PromotionsOK'
  BY <1>1, <1>2, <1>3, CurationsKept, PromotionsKept DEF Is
<1>9. CompilationsOK'
  BY <1>1, <1>2, <1>3, <1>4, <1>5, <1>7, CompilationsKept DEF Is
<1> QED BY <1>6, <1>8, <1>9 DEF IInv

\* Past its grounding, a compilation goes on with its quote bound.
LEMMA BoundQuote ==
  ASSUME CompilationsOK, NEW c \in Callers, In(c, "compile"), ~At(c, "quote")
  PROVE  /\ pending[c].promotion \in promotions[CompiledRep(c)]
         /\ bound[CompiledRep(c)] = Last(pending[c].promotion).structure
BY DEF CompilationsOK

LEMMA PutClaimKeeps == ASSUME IInv, NEW c \in Callers, PutClaim(c) PROVE IInv'
<1> USE Parts
<1>1. /\ In(c, "compile") /\ ~At(c, "quote") /\ Step(c, "curation")
      /\ records' = records \cup {Claim(c)}
      /\ UNCHANGED <<selections, structures, promotions, curations, bound, compilations>>
  BY DEF PutClaim, At
<1>2. PICK call \in Calls :
        /\ Enter(c, call) /\ call.op = "compile" /\ call.at = "curation"
        /\ call.selection = pending[c].selection
        /\ call.promotion = pending[c].promotion
  BY <1>1, Stepped
<1>3. /\ pending' \in [Callers -> Calls \cup {None}]
      /\ pending'[c] = call /\ \A d \in Callers : d # c => pending'[d] = pending[d]
  BY <1>2, Entered
<1>4. /\ CompiledRep(c) \in Reps /\ CompiledRep(c) = Last(call.selection).rep
  BY <1>1, <1>2, CallTyped DEF CompiledRep
<1>5. TypeOK'
  BY <1>1, <1>3, <1>4 DEF TypeOK, Claim, Records
<1>6. CurationsOK' /\ PromotionsOK'
  BY <1>1, <1>2, <1>3, CurationsKept, PromotionsKept DEF Is
<1>7. CompilationsOK'
  BY <1>1, <1>2, <1>3, <1>4, BoundQuote, CompilationsKept DEF Is
<1> QED BY <1>5, <1>6, <1>7 DEF IInv

LEMMA EnsureCurationKeeps == ASSUME IInv, NEW c \in Callers, EnsureCuration(c) PROVE IInv'
<1> USE Parts
<1>1. /\ In(c, "compile") /\ ~At(c, "quote") /\ Step(c, "compilation")
      /\ curations' = IF Paths(Claim(c)) # {} THEN curations
                      ELSE Add(Claim(c), MachineCuration)
      /\ UNCHANGED <<selections, structures, promotions, records, bound, compilations>>
  BY DEF EnsureCuration, At
<1>2. PICK call \in Calls :
        /\ Enter(c, call) /\ call.op = "compile" /\ call.at = "compilation"
        /\ call.selection = pending[c].selection
        /\ call.promotion = pending[c].promotion
  BY <1>1, Stepped
<1>3. /\ pending' \in [Callers -> Calls \cup {None}]
      /\ pending'[c] = call /\ \A d \in Callers : d # c => pending'[d] = pending[d]
  BY <1>2, Entered
<1>4. CompiledRep(c) = Last(call.selection).rep
  BY <1>2 DEF CompiledRep
<1>5. CurationsOK' /\ \A t \in DOMAIN curations' : curations'[t] \subseteq CurationPaths
  <2>1. CASE Paths(Claim(c)) # {}
    <3>1. UNCHANGED curations
      BY <1>1, <2>1
    <3>2. CurationsOK'
      BY <1>2, <1>3, <3>1, CurationsKept DEF Is
    <3> QED BY <3>1, <3>2 DEF TypeOK
  <2>2. CASE Paths(Claim(c)) = {}
    <3> DEFINE e == [status |-> "machine", by |-> Compiler]
    <3>1. /\ e \in [status : CurationStatus, by : Curators \cup {Compiler}]
          /\ e.status \in Transitions(StatusOf(Claim(c)))
          /\ MachineCuration = Append(Tip(Paths(Claim(c))), e)
      <4>1. Tip(Paths(Claim(c))) = << >> /\ StatusOf(Claim(c)) = "none"
        BY <2>2, CurationTip
      <4> QED BY <4>1 DEF Transitions, CurationStatus, MachineCuration
    <3> HIDE DEF e
    <3>2. /\ MachineCuration \in CurationPaths /\ Legal(MachineCuration)
          /\ Backed(MachineCuration, Len(MachineCuration) - 1, Paths(Claim(c)))
      BY <3>1, Decided
    <3>3. curations' = Add(Claim(c), MachineCuration)
      BY <1>1, <2>2
    <3> QED BY <1>2, <1>3, <3>2, <3>3, CurationPut DEF Is
  <2> QED BY <2>1, <2>2
<1>6. TypeOK'
  BY <1>1, <1>3, <1>5 DEF TypeOK
<1>7. PromotionsOK'
  BY <1>1, <1>2, <1>3, PromotionsKept DEF Is
<1>8. CompilationsOK'
  BY <1>1, <1>2, <1>3, <1>4, BoundQuote, CompilationsKept DEF Is
<1> QED BY <1>5, <1>6, <1>7, <1>8 DEF IInv

LEMMA PutCompilationKeeps == ASSUME IInv, NEW c \in Callers, PutCompilation(c) PROVE IInv'
<1> USE Parts
<1> DEFINE k == [selection |-> pending[c].selection, promotion |-> pending[c].promotion,
                 records |-> {Claim(c)}]
<1>1. /\ In(c, "compile") /\ ~At(c, "quote") /\ Enter(c, None)
      /\ compilations' = compilations \cup {k}
      /\ UNCHANGED <<selections, structures, promotions, records, curations, bound>>
  BY DEF PutCompilation, At, Leave
<1>2. /\ pending' \in [Callers -> Calls \cup {None}]
      /\ pending'[c] = None /\ \A d \in Callers : d # c => pending'[d] = pending[d]
  BY <1>1, Entered
<1>3. /\ CompiledRep(c) \in Reps /\ pending[c].selection \in SelectionPaths
      /\ pending[c].promotion \in PromotionPaths
  BY <1>1, CallTyped
<1>4. /\ k \in Compilations
      /\ k.records = {<<"claim", Last(k.selection).rep>>}
      /\ bound[Last(k.selection).rep] = Last(k.promotion).structure
      /\ k.promotion \in promotions[Last(k.selection).rep]
  <2>1. /\ k \in Compilations /\ k.selection = pending[c].selection
        /\ k.promotion = pending[c].promotion /\ k.records = {Claim(c)}
    BY <1>3 DEF Compilations, Claim, Records
  <2> HIDE DEF k
  <2> QED BY <1>1, <2>1, BoundQuote DEF Claim, CompiledRep
<1> HIDE DEF k
<1>5. TypeOK'
  BY <1>1, <1>2, <1>4 DEF TypeOK
<1>6. CurationsOK' /\ PromotionsOK'
  BY <1>1, <1>2, CurationsKept, PromotionsKept DEF Is
<1>7. CompilationsOK'
  <2>1. ASSUME NEW d \in Callers, In(d, "compile")'
        PROVE  /\ pending'[d].promotion \in promotions[Last(pending'[d].selection).rep]
               /\ pending'[d].at # "quote" =>
                    bound[Last(pending'[d].selection).rep]
                      = Last(pending'[d].promotion).structure
    <3>1. pending'[d] = pending[d] /\ In(d, "compile")
      BY <1>2, <2>1 DEF In, Idle
    <3> QED BY <3>1 DEF CompilationsOK, CompiledRep, At
  <2>2. \A j \in compilations' :
          /\ j.records = {<<"claim", Last(j.selection).rep>>}
          /\ bound[Last(j.selection).rep] = Last(j.promotion).structure
          /\ j.promotion \in promotions[Last(j.selection).rep]
    BY <1>1, <1>4 DEF CompilationsOK
  <2> QED BY <1>1, <2>1, <2>2 DEF CompilationsOK, CompiledRep, At
<1> QED BY <1>5, <1>6, <1>7 DEF IInv

-----------------------------------------------------------------------------
(* The theorems. *)

LEMMA InitInv == Init => IInv
<1> SUFFICES ASSUME Init PROVE IInv
  OBVIOUS
<1>1. PICK by \in Curators :
        LET first == <<[rep |-> FirstRep, by |-> by]>> IN
        /\ selections = {first}
        /\ curations = [t \in {SelectionTarget(first)} |->
                          {<<[status |-> "accepted", by |-> by]>>}]
        /\ structures = {}
        /\ promotions = [s \in Reps |-> {}]
        /\ records = {}
        /\ bound = [s \in Reps |-> None]
        /\ compilations = {}
        /\ pending = [d \in Callers |-> None]
  BY DEF Init
<1> DEFINE first == <<[rep |-> FirstRep, by |-> by]>>
           decision == <<[status |-> "accepted", by |-> by]>>
<1>2. first \in SelectionPaths
  <2> DEFINE S == [rep : Reps, by : Curators]
             e == [rep |-> FirstRep, by |-> by]
  <2>1. e \in S /\ first = <<e>> /\ SelectionPaths = BoundedPaths(S, MaxSelections)
    BY StructuresAssumption DEF Reps, SelectionPaths
  <2> HIDE DEF S, e, first
  <2>2. first \in Seq(S) /\ Len(first) = 1
    BY <2>1
  <2> QED BY <2>1, <2>2, BoundsAssumption DEF BoundedPaths
<1>3. decision \in CurationPaths /\ Len(decision) = 1
  <2> DEFINE S == [status : CurationStatus, by : Curators \cup {Compiler}]
             e == [status |-> "accepted", by |-> by]
  <2>1. e \in S /\ decision = <<e>> /\ CurationPaths = BoundedPaths(S, 3)
    BY DEF CurationStatus, CurationPaths
  <2> HIDE DEF S, e, decision
  <2>2. decision \in Seq(S) /\ Len(decision) = 1
    BY <2>1
  <2> QED BY <2>1, <2>2 DEF BoundedPaths
<1> HIDE DEF first, decision
<1>4. /\ selections = {first} /\ curations = [t \in {SelectionTarget(first)} |-> {decision}]
      /\ structures = {} /\ promotions = [s \in Reps |-> {}] /\ records = {}
      /\ bound = [s \in Reps |-> None] /\ compilations = {}
      /\ pending = [d \in Callers |-> None]
  BY <1>1 DEF first, decision
<1>5. TypeOK
  BY <1>2, <1>3, <1>4 DEF TypeOK
<1>6. \A c \in Callers : Idle(c)
  BY <1>4 DEF Idle
<1>7. Legal(decision) /\ Backed(decision, Len(decision), {decision})
  BY <1>3 DEF Legal, Backed
<1>8. CurationsOK
  BY <1>4, <1>6, <1>7 DEF CurationsOK, In
<1>9. PromotionsOK /\ CompilationsOK
  BY <1>4, <1>6 DEF PromotionsOK, CompilationsOK, In
<1> QED BY <1>5, <1>8, <1>9 DEF IInv

LEMMA Stuttered == IInv /\ UNCHANGED vars => IInv'
<1> SUFFICES ASSUME IInv, UNCHANGED vars PROVE IInv'
  OBVIOUS
<1> USE DEF vars
<1>1. TypeOK'
  BY DEF IInv, TypeOK
<1>2. CurationsOK'
  <2>1. /\ \A target \in DOMAIN curations : \A p \in curations[target] :
               (Legal(p) /\ Backed(p, Len(p), curations[target]))'
        /\ curations' = curations /\ pending' = pending
    BY DEF IInv, CurationsOK, Legal, Backed
  <2>2. ASSUME NEW c \in Callers, In(c, "curate")
        PROVE  (/\ Legal(pending[c].path)
                /\ Backed(pending[c].path, Len(pending[c].path) - 1,
                          Paths(pending[c].target)))'
    BY <2>2 DEF IInv, CurationsOK, Legal, Backed, Paths
  <2>3. \A c \in Callers : In(c, "curate")' = In(c, "curate")
    BY DEF In, Idle
  <2> QED BY <2>1, <2>2, <2>3 DEF CurationsOK
<1>3. PromotionsOK'
  BY DEF IInv, PromotionsOK, In, Idle, Advances
<1>4. CompilationsOK'
  BY DEF IInv, CompilationsOK, In, Idle, At, CompiledRep
<1> QED BY <1>1, <1>2, <1>3, <1>4 DEF IInv

LEMMA NextInv == IInv /\ [Next]_vars => IInv'
<1>1. ASSUME IInv, NEW c \in Callers, Curate(c) PROVE IInv'
  BY <1>1, CurateKeeps
<1>2. ASSUME IInv, NEW c \in Callers, PutCuration(c) PROVE IInv'
  BY <1>2, PutCurationKeeps
<1>3. ASSUME IInv, NEW c \in Callers, SelectRepresentation(c) PROVE IInv'
  BY <1>3, SelectRepresentationKeeps
<1>4. ASSUME IInv, NEW c \in Callers, PutSelection(c) PROVE IInv'
  BY <1>4, PutSelectionKeeps
<1>5. ASSUME IInv, NEW c \in Callers, NEW s \in Structures, Extract(c, s) PROVE IInv'
  BY <1>5, ExtractKeeps
<1>6. ASSUME IInv, NEW c \in Callers, NEW allow \in BOOLEAN, SelectStructure(c, allow)
      PROVE  IInv'
  BY <1>6, SelectStructureKeeps
<1>7. ASSUME IInv, NEW c \in Callers, PutPromotion(c) PROVE IInv'
  BY <1>7, PutPromotionKeeps
<1>8. ASSUME IInv, NEW c \in Callers, Compile(c) PROVE IInv'
  BY <1>8, CompileKeeps
<1>9. ASSUME IInv, NEW c \in Callers, Ground(c) PROVE IInv'
  BY <1>9, GroundKeeps
<1>10. ASSUME IInv, NEW c \in Callers, PutClaim(c) PROVE IInv'
  BY <1>10, PutClaimKeeps
<1>11. ASSUME IInv, NEW c \in Callers, EnsureCuration(c) PROVE IInv'
  BY <1>11, EnsureCurationKeeps
<1>12. ASSUME IInv, NEW c \in Callers, PutCompilation(c) PROVE IInv'
  BY <1>12, PutCompilationKeeps
<1>13. ASSUME IInv, NEW c \in Callers, FailGround(c) \/ FailCuration(c) \/ Kill(c)
       PROVE  IInv'
  BY <1>13, LeaveKeeps DEF FailGround, FailCuration, Kill
<1> QED
  BY <1>1, <1>2, <1>3, <1>4, <1>5, <1>6, <1>7, <1>8, <1>9, <1>10, <1>11, <1>12, <1>13,
     Stuttered DEF Next

\* The histories of the store, and what compilations say of the quotes they bind,
\* stay in order whatever the callers interleave (repositories.py, trust.py,
\* structure_selection.py, literature_knowledge).
THEOREM Invariant == Spec => []IInv
BY InitInv, NextInv, PTL DEF Spec

\* Each variable keeps its type: in particular no curation history grows past
\* three decisions (CURATION_TRANSITIONS).
THEOREM TypeCorrect == Spec => []TypeOK
<1>1. IInv => TypeOK
  BY DEF IInv
<1> QED BY <1>1, Invariant, PTL

\* Whatever is interleaved, a record that was once rejected is in no trusted
\* view: a history that resolves has one tip, its tip agrees with every path of
\* it, and no decision follows a rejection (resolve_current_curations).
THEOREM RejectionIsFinal == Spec => []RejectedIsNeverTrusted
<1>1. ASSUME IInv PROVE RejectedIsNeverTrusted
  <2> SUFFICES ASSUME NEW x \in Trusted, NEW p \in Paths(x), NEW i \in DOMAIN p,
                      p[i].status = "rejected"
               PROVE  FALSE
    BY DEF RejectedIsNeverTrusted
  <2> DEFINE tip == Tip(Paths(x))
  <2>1. CurationsResolve /\ StatusOf(x) = "accepted"
    BY DEF Trusted, ViewValid, Active, Accepted
  <2>2. /\ Paths(x) \in SUBSET CurationPaths /\ tip \in Paths(x)
        /\ Len(p) <= Len(tip) /\ Last(tip).status = "accepted"
    BY <1>1, <2>1, CurationTip, Parts
  <2> HIDE DEF tip
  <2>3. x \in DOMAIN curations /\ Paths(x) = curations[x]
    BY DEF Paths
  <2>4. OneChain(Paths(x)) /\ Legal(tip) /\ Backed(tip, Len(tip), Paths(x))
    BY <1>1, <2>1, <2>2, <2>3 DEF CurationsResolve, IInv, CurationsOK
  <2>5. /\ Len(tip) \in Nat /\ Last(tip) = tip[Len(tip)]
        /\ Len(p) \in 1 .. Len(tip) /\ i \in 1 .. Len(p)
    <3>1. 3 \in Nat /\ tip \in CurationPaths /\ p \in CurationPaths
      BY <2>2
    <3>2. Len(tip) \in Nat /\ Last(tip) = tip[Len(tip)]
      BY <3>1, PathFacts DEF CurationPaths
    <3>3. Len(p) \in 1 .. 3 /\ DOMAIN p = 1 .. Len(p)
      BY <3>1, PathFacts DEF CurationPaths
    <3> QED BY <2>2, <3>2, <3>3
  <2>6. PICK q \in Paths(x) : Len(q) = Len(p) /\ \A j \in 1 .. Len(p) : q[j] = tip[j]
    BY <2>4, <2>5 DEF Backed
  <2>7. q = p
    BY <2>4, <2>6 DEF OneChain
  <2>8. tip[i].status = "rejected"
    BY <2>5, <2>6, <2>7
  <2>9. CASE i = Len(tip)
    BY <2>2, <2>5, <2>8, <2>9
  <2>10. CASE i # Len(tip)
    <3>1. tip[i + 1].status \in Transitions(tip[i].status)
      BY <2>4, <2>5, <2>10 DEF Legal
    <3> QED BY <2>8, <3>1 DEF Transitions
  <2> QED BY <2>9, <2>10
<1> QED BY <1>1, Invariant, PTL

\* The quote behind a trusted record of the compiler names a block of the
\* structure that is selected now (_k1f_authority, the id of an evidence
\* span).
THEOREM TrustIsLocated == Spec => []TrustedQuoteIsCurrent
<1>1. ASSUME IInv PROVE TrustedQuoteIsCurrent
  <2> SUFFICES ASSUME NEW x \in Trusted, CompilationsOf(x) # {}
               PROVE  /\ StructureResolves(RepOf(x))
                      /\ bound[RepOf(x)] = CurrentStructure(RepOf(x))
    BY DEF TrustedQuoteIsCurrent
  <2>1. ~Stale(x)
    BY DEF Trusted, Active
  <2>2. PICK k \in CompilationsOf(x) : IsCurrent(k)
    BY <2>1 DEF Stale
  <2>3. k \in compilations /\ x \in k.records
    BY DEF CompilationsOf
  <2>4. /\ k.records = {<<"claim", Last(k.selection).rep>>}
        /\ bound[Last(k.selection).rep] = Last(k.promotion).structure
        /\ k.promotion \in promotions[Last(k.selection).rep]
    BY <1>1, <2>3 DEF IInv, CompilationsOK
  <2>5. RepOf(x) = CurrentRep /\ Last(k.selection).rep = CurrentRep
    BY <2>2, <2>3, <2>4 DEF RepOf, IsCurrent, CurrentRep
  <2>6. k.promotion = CurrentPromotion(CurrentRep) /\ OneChain(promotions[CurrentRep])
    BY <2>2 DEF IsCurrent
  <2> QED BY <2>4, <2>5, <2>6 DEF StructureResolves, CurrentStructure
<1> QED BY <1>1, Invariant, PTL

\* An automatic promotion never reduces the extraction quality and never returns
\* to an earlier structure (consider_auto_promotion).
THEOREM AutomaticAdvances == Spec => []AutoNeverRegresses
<1>1. IInv => AutoNeverRegresses
  BY DEF IInv, PromotionsOK, AutoNeverRegresses, Advances
<1> QED BY <1>1, Invariant, PTL

-----------------------------------------------------------------------------
(* LiteratureImport: the inductive invariant. *)

\* Pages that are not accounted for leave a reason behind; what a retrieved
\* page names is a resource, or the import has dropped resources.
TraversalOK ==
  /\ "limited" \notin walk.reasons =>
       /\ 1 \in KnownPages
       /\ \A p \in Pages : walk.page[p] # "failed"
       /\ walk.linked \subseteq KnownPages
  /\ \A r \in Resources, d \in {"unverified", "eligible"} :
       <<r, d>> \in walk.seen => walk.class[r] # "absent" \/ walk.dropped

\* Once resources are dropped there is no room left, so that a resource that
\* was dropped from one page is not taken from a later one.
Admitted == {r \in Resources : walk.class[r] # "absent"}
RoomOK ==
  /\ Cardinality(Admitted) <= job.policy.resources
  /\ walk.dropped => Cardinality(Admitted) = job.policy.resources

\* A resource that was admitted has its strongest decision so far.
DecisionsOK ==
  \A r \in Resources : walk.class[r] # "absent" =>
    (walk.class[r] = "eligible" <=> <<r, "eligible">> \in walk.seen)

\* discover, from its first page until it has returned.
DiscoveryOK ==
  /\ job.step \in {"walking", "snapshot"} =>
       /\ job.policy \in Policies
       /\ TraversalOK /\ RoomOK /\ DecisionsOK
  /\ JobAt("snapshot") => snapshot = [class |-> walk.class, status |-> Completeness]
  /\ job.step \in {"idle", "walking"} => snapshot = NoSnapshot
  /\ job.step \in {"idle", "walking", "snapshot"} =>
       job.todo = {} /\ results = NoResults /\ links = {}

\* The resource in hand waits for its answer as those still to do.
Waiting == job.todo \cup (IF Acquiring THEN {work.res} ELSE {})
Batch == job.step \in {"importing", "resolving", "attempting", "ingesting"}

AnswersOK ==
  /\ Batch =>
       /\ Waiting \subseteq Discovered
       /\ \A r \in Resources :
            /\ results[r] = "none" <=> r \in Waiting \/ snapshot.class[r] = "absent"
            /\ results[r] = "unverified" <=>
                 r \notin Waiting /\ snapshot.class[r] = "unverified"
  /\ Acquiring => /\ work.res \in Resources /\ work.res \notin job.todo
                 /\ snapshot.class[work.res] = "eligible"

\* The records of the representation in hand, as far as they are written, are
\* in the library.
WrittenOK ==
  IF JobAt("ingesting")
  THEN /\ work.lit \in Literature /\ work.medium \in Media
       /\ \A i \in 1 .. work.written :
            IF Chain[i] = "document" THEN document[work.lit] # "none"
            ELSE Chain[i] \in stored[work.lit][work.medium]
  ELSE work.written = 0

ImportInv ==
  /\ ImportTypeOK
  /\ DiscoveryOK /\ AnswersOK /\ WrittenOK
  /\ EveryResourceAnswered /\ IngestedIsBacked

-----------------------------------------------------------------------------
(* Types. *)

LEMMA ImportParts ==
  ImportInv => /\ ImportTypeOK /\ DiscoveryOK /\ AnswersOK /\ WrittenOK
               /\ EveryResourceAnswered /\ IngestedIsBacked
BY Zenon DEF ImportInv

LEMMA ImportTyped ==
  ASSUME ImportTypeOK
  PROVE  /\ job \in Jobs /\ walk \in Walks /\ snapshot \in Snapshots /\ work \in Works
         /\ results \in Results
         /\ links \subseteq [res : Resources, lit : Literature, medium : Media]
         /\ stored \in [Literature -> [Media -> SUBSET Artifacts]]
         /\ document \in [Literature -> Media \cup {"none"}]
         /\ record \in ImportRecords
BY Zenon DEF ImportTypeOK

\* The values a part of the state has while nothing is under way.
LEMMA NothingTyped ==
  /\ NoJob \in Jobs /\ NoWalk \in Walks /\ NoSnapshot \in Snapshots /\ NoWork \in Works
  /\ NoResults \in Results /\ NoRecord \in ImportRecords
<1>1. NoJob \in Jobs
  BY DEF NoJob, Jobs, Steps
<1>2. NoSnapshot \in Snapshots
  BY DEF NoSnapshot, Snapshots, Classes, Rank
<1>3. NoResults \in Results
  BY DEF NoResults, Results
<1>4. NoRecord \in ImportRecords
  BY <1>2, <1>3 DEF NoRecord, ImportRecords
<1>5. NoWork \in Works
  BY DEF NoWork, Works, Chain
<1>6. NoWalk \in Walks
  BY DEF NoWalk, Walks, Classes, Rank, Mentions
<1> QED BY <1>1, <1>2, <1>3, <1>4, <1>5, <1>6

LEMMA ClassTypes == Classes = {"absent", "unverified", "eligible"}
BY DEF Classes, Rank

LEMMA LimitTypes ==
  /\ \A policy \in Policies : /\ policy.pages \in Nat /\ policy.depth \in Nat
                              /\ policy.resources \in Nat
  /\ 1 \in Pages /\ Pages \subseteq Nat /\ Outside \notin Pages
<1>1. LastPage \in Nat /\ LastPage # 0
  BY ImportAssumption
<1>2. 1 \in Pages /\ Pages \subseteq Nat /\ Outside \notin Pages
  BY <1>1 DEF Pages, Outside
<1>3. PageLimits \subseteq Nat /\ DepthLimits \subseteq Nat /\ ResourceLimits \subseteq Nat
  BY ImportAssumption
<1> QED BY <1>2, <1>3 DEF Policies

\* What Goto leaves of a job.
LEMMA JobMoved ==
  ASSUME NEW j \in Jobs, NEW s \in Steps
  PROVE  /\ [j EXCEPT !.step = s] \in Jobs
         /\ [j EXCEPT !.step = s].step = s
         /\ [j EXCEPT !.step = s].policy = j.policy
         /\ [j EXCEPT !.step = s].todo = j.todo
BY DEF Jobs

-----------------------------------------------------------------------------
(* The queue. *)

\* Entries with a page and a depth have a first one in the order of the queue.
LEMMA QueueHasFirst ==
  ASSUME NEW Q \in SUBSET [page : Nat, depth : Nat], Q # {}
  PROVE  \E q \in Q : \A o \in Q :
           q.depth < o.depth \/ (q.depth = o.depth /\ q.page <= o.page)
<1> DEFINE R == OpToRel(<, Nat)
           D == {q.depth : q \in Q}
<1>1. IsWellFoundedOn(R, Nat)
  BY NatLessThanWellFounded
<1>2. D \subseteq Nat /\ D # {}
  OBVIOUS
<1>3. PICK d \in D : \A e \in D : <<e, d>> \notin R
  <2> HIDE DEF R, D
  <2> QED BY <1>1, <1>2, WFMin
<1> DEFINE P == {q.page : q \in {q \in Q : q.depth = d}}
<1>4. P \subseteq Nat /\ P # {}
  OBVIOUS
<1>5. PICK p \in P : \A e \in P : <<e, p>> \notin R
  <2> HIDE DEF R, P
  <2> QED BY <1>1, <1>4, WFMin
<1>6. PICK q \in Q : q.depth = d /\ q.page = p
  OBVIOUS
<1>7. ASSUME NEW o \in Q
      PROVE  q.depth < o.depth \/ (q.depth = o.depth /\ q.page <= o.page)
  <2>1. o.depth \in D /\ o.depth \in Nat /\ o.page \in Nat /\ d \in Nat /\ p \in Nat
    BY <1>2, <1>4
  <2>2. ~(o.depth < d)
    BY <1>3, <2>1 DEF OpToRel
  <2>3. o.depth = d => o.page \in P
    OBVIOUS
  <2>4. o.depth = d => ~(o.page < p)
    <3> HIDE DEF P
    <3> QED BY <1>5, <2>1, <2>3 DEF OpToRel
  <2> HIDE DEF D, P, R
  <2> QED BY <1>6, <2>1, <2>2, <2>4
<1> QED BY <1>7

LEMMA HeadOfQueue ==
  ASSUME ImportTypeOK, walk.queue # {}
  PROVE  QueueHead \in walk.queue /\ QueueHead.page \in Pages /\ QueueHead.depth \in Nat
<1>1. walk.queue \in SUBSET [page : Pages, depth : Nat]
  BY ImportTyped DEF Walks
<1>2. walk.queue \in SUBSET [page : Nat, depth : Nat]
  BY <1>1, LimitTypes
<1>3. \E q \in walk.queue : \A o \in walk.queue :
        q.depth < o.depth \/ (q.depth = o.depth /\ q.page <= o.page)
  BY <1>2, QueueHasFirst
<1>4. QueueHead \in walk.queue
  BY <1>3, Zenon DEF QueueHead
<1> QED BY <1>1, <1>4

-----------------------------------------------------------------------------
(* One page of the traversal. *)

\* What Strongest makes of a decision and the accepted mentions of a page.
LEMMA StrongestIs ==
  ASSUME NEW current \in Classes, NEW r, NEW mentions
  PROVE  /\ Strongest(current, r, mentions) \in Classes
         /\ Strongest(current, r, mentions) = "absent" <=>
              /\ current = "absent"
              /\ <<r, "eligible">> \notin mentions /\ <<r, "unverified">> \notin mentions
         /\ Strongest(current, r, mentions) = "eligible" <=>
              current = "eligible" \/ <<r, "eligible">> \in mentions
<1>1. \A c \in Classes : /\ Promote(c, "unverified") = IF c = "absent" THEN "unverified" ELSE c
                         /\ Promote(c, "eligible") = "eligible"
  BY ClassTypes DEF Promote, Rank
<1>2. CASE <<r, "eligible">> \in mentions
  BY <1>1, <1>2, ClassTypes DEF Strongest
<1>3. CASE <<r, "eligible">> \notin mentions /\ <<r, "unverified">> \in mentions
  BY <1>1, <1>3, ClassTypes DEF Strongest
<1>4. CASE <<r, "eligible">> \notin mentions /\ <<r, "unverified">> \notin mentions
  BY <1>4, ClassTypes DEF Strongest
<1> QED BY <1>2, <1>3, <1>4

\* What has been seen stays known: the page in hand leaves the queue for the
\* record of a page.
LEMMA KnownPagesGrow ==
  ASSUME ImportTypeOK, walk.queue # {}, NEW v \in {"ok", "failed"},
         walk'.page = [walk.page EXCEPT ![QueueHead.page] = v],
         QueueRest \subseteq walk'.queue
  PROVE  KnownPages \subseteq KnownPages'
<1>1. walk.page \in [Pages -> {"unseen", "ok", "failed"}]
      /\ walk.queue \in SUBSET [page : Pages, depth : Nat]
  BY ImportTyped DEF Walks
<1>2. ASSUME NEW p \in Pages, walk.page[p] # "unseen"
      PROVE  walk'.page[p] # "unseen"
  BY <1>1, <1>2, HeadOfQueue
<1>3. walk'.page[QueueHead.page] # "unseen"
  BY <1>1, HeadOfQueue
<1>4. ASSUME NEW q \in walk.queue
      PROVE  q \in walk'.queue \/ (q.page \in Pages /\ walk'.page[q.page] # "unseen")
  BY <1>3, HeadOfQueue DEF QueueRest
<1>5. Recorded \subseteq Recorded'
  BY <1>2 DEF Recorded
<1>6. \A q \in walk.queue : q \in walk'.queue \/ q.page \in Recorded'
  BY <1>4 DEF Recorded
<1> QED BY <1>5, <1>6 DEF KnownPages

\* The fields of walk after a page was retrieved.
Fetched(page, kept) ==
  /\ walk'.queue = QueueRest \cup Followed(page.next)
  /\ walk'.page = [walk.page EXCEPT ![QueueHead.page] = "ok"]
  /\ walk'.linked = walk.linked \cup page.next
  /\ walk'.class = [r \in Resources |->
       Strongest(walk.class[r], r, {mention \in page.mentions : mention[1] \in kept})]
  /\ walk'.seen = walk.seen \cup page.mentions
  /\ walk'.reasons = walk.reasons \cup page.trouble
                     \cup (IF LeftOut(page.next) THEN {"limited"} ELSE {})
  /\ walk'.paginated = (walk.paginated \/ page.next # {})
  /\ walk'.auth = walk.auth
  /\ walk'.dropped = (walk.dropped \/ kept # {mention[1] : mention \in page.mentions})

\* The resources of a page that are kept fit the room that is left.
Fits(named, kept) ==
  LET room == job.policy.resources - Cardinality(Admitted) IN
  /\ named \cap Admitted \subseteq kept
  /\ \/ kept = named /\ Cardinality(named \ Admitted) <= room
     \/ Cardinality(named \ Admitted) > room /\ Cardinality(kept \ Admitted) = room

LEMMA PageFetched ==
  ASSUME NEW page \in Contents, FetchPage(page)
  PROVE  /\ Walking
         /\ \E kept \in SUBSET {mention[1] : mention \in page.mentions} :
              /\ Fits({mention[1] : mention \in page.mentions}, kept)
              /\ Fetched(page, kept)
              /\ walk' = [queue |-> walk'.queue, page |-> walk'.page, linked |-> walk'.linked,
                          class |-> walk'.class, seen |-> walk'.seen,
                          reasons |-> walk'.reasons, paginated |-> walk'.paginated,
                          auth |-> walk'.auth, dropped |-> walk'.dropped]
         /\ UNCHANGED <<job, snapshot, work, results, links, stored, document, record>>
<1>1. Walking /\ UNCHANGED <<job, snapshot, work, results, links, stored, document, record>>
  BY DEF FetchPage, library
<1> DEFINE named == {mention[1] : mention \in page.mentions}
<1>2. PICK kept \in SUBSET named :
        /\ Fits(named, kept)
        /\ LET accepted == {mention \in page.mentions : mention[1] \in kept} IN
           walk' = [queue |-> QueueRest \cup Followed(page.next),
                    page |-> [walk.page EXCEPT ![QueueHead.page] = "ok"],
                    linked |-> walk.linked \cup page.next,
                    class |-> [r \in Resources |-> Strongest(walk.class[r], r, accepted)],
                    seen |-> walk.seen \cup page.mentions,
                    reasons |-> walk.reasons \cup page.trouble
                                \cup (IF LeftOut(page.next) THEN {"limited"} ELSE {}),
                    paginated |-> walk.paginated \/ page.next # {},
                    auth |-> walk.auth,
                    dropped |-> walk.dropped \/ kept # named]
  BY Zenon DEF FetchPage, Fits, Admitted
<1>3. Fetched(page, kept)
  BY <1>2 DEF Fetched
<1> QED BY <1>1, <1>2, <1>3

\* What a page names, as far as it is kept, is admitted with its decision.
LEMMA PageAdmits ==
  ASSUME ImportTypeOK, NEW page \in Contents,
         NEW kept \in SUBSET {mention[1] : mention \in page.mentions}, Fetched(page, kept)
  PROVE  /\ kept \in SUBSET Resources
         /\ walk'.class \in [Resources -> Classes]
         /\ Admitted' = Admitted \cup kept
         /\ \A r \in Resources : walk'.class[r] = "eligible" <=>
              walk.class[r] = "eligible" \/ (r \in kept /\ <<r, "eligible">> \in page.mentions)
<1>1. page.mentions \in SUBSET (Resources \X {"unverified", "eligible"})
  BY DEF Contents, Mentions
<1>2. walk.class \in [Resources -> Classes]
  BY ImportTyped DEF Walks
<1> DEFINE accepted == {mention \in page.mentions : mention[1] \in kept}
<1>3. \A r, d : <<r, d>> \in accepted <=> <<r, d>> \in page.mentions /\ r \in kept
  OBVIOUS
<1>4. ASSUME NEW r \in kept
      PROVE  r \in Resources /\ (<<r, "eligible">> \in accepted \/ <<r, "unverified">> \in accepted)
  <2>1. PICK mention \in page.mentions : mention[1] = r
    OBVIOUS
  <2>2. mention \in Resources \X {"unverified", "eligible"}
    BY <1>1
  <2>3. mention = <<r, mention[2]>> /\ mention[2] \in {"unverified", "eligible"} /\ r \in Resources
    BY <2>1, <2>2
  <2> QED BY <1>3, <2>1, <2>3
<1>5. walk'.class = [r \in Resources |-> Strongest(walk.class[r], r, accepted)]
  BY DEF Fetched
<1> HIDE DEF accepted
<1>6. ASSUME NEW r \in Resources
      PROVE  /\ walk'.class[r] \in Classes
             /\ walk'.class[r] = "absent" <=> walk.class[r] = "absent" /\ r \notin kept
             /\ walk'.class[r] = "eligible" <=>
                  walk.class[r] = "eligible" \/ <<r, "eligible">> \in accepted
  <2>1. walk'.class[r] = Strongest(walk.class[r], r, accepted) /\ walk.class[r] \in Classes
    BY <1>2, <1>5
  <2>2. /\ Strongest(walk.class[r], r, accepted) \in Classes
        /\ Strongest(walk.class[r], r, accepted) = "absent" <=>
             /\ walk.class[r] = "absent"
             /\ <<r, "eligible">> \notin accepted /\ <<r, "unverified">> \notin accepted
        /\ Strongest(walk.class[r], r, accepted) = "eligible" <=>
             walk.class[r] = "eligible" \/ <<r, "eligible">> \in accepted
    BY <2>1, StrongestIs
  <2>3. r \in kept <=> <<r, "eligible">> \in accepted \/ <<r, "unverified">> \in accepted
    BY <1>3, <1>4
  <2> QED BY <2>1, <2>2, <2>3
<1>7. walk'.class \in [Resources -> Classes]
  BY <1>5, <1>6
<1>8. kept \in SUBSET Resources
  BY <1>4
<1>9. Admitted' = Admitted \cup kept
  BY <1>6, <1>8 DEF Admitted
<1> QED BY <1>3, <1>6, <1>7, <1>8, <1>9

LEMMA AdmittedFinite ==
  /\ \A S \in SUBSET Resources : IsFiniteSet(S) /\ Cardinality(S) \in Nat
  /\ Admitted \in SUBSET Resources
<1>1. IsFiniteSet(Resources)
  BY ImportAssumption
<1>2. ASSUME NEW S \in SUBSET Resources
      PROVE  IsFiniteSet(S) /\ Cardinality(S) \in Nat
  <2>1. IsFiniteSet(S)
    BY <1>1, FS_Subset
  <2> QED BY <2>1, FS_CardinalityType
<1> QED BY <1>2 DEF Admitted

\* How many resources are admitted once kept is.
LEMMA AdmittedCount ==
  ASSUME NEW kept \in SUBSET Resources
  PROVE  /\ Cardinality(Admitted \cup kept) = Cardinality(Admitted) + Cardinality(kept \ Admitted)
         /\ Cardinality(kept \ Admitted) = 0 => kept \subseteq Admitted
<1> DEFINE extra == kept \ Admitted
<1>1. /\ IsFiniteSet(Admitted) /\ Cardinality(Admitted) \in Nat
      /\ IsFiniteSet(extra) /\ Cardinality(extra) \in Nat
  BY AdmittedFinite
<1>2. Admitted \cup kept = Admitted \cup extra /\ Admitted \cap extra = {}
  OBVIOUS
<1>3. Cardinality(Admitted \cup extra) =
        Cardinality(Admitted) + Cardinality(extra) - Cardinality(Admitted \cap extra)
  <2> HIDE DEF extra
  <2> QED BY <1>1, FS_Union
<1>4. Cardinality({}) = 0 /\ (Cardinality(extra) = 0 => extra = {})
  <2> HIDE DEF extra
  <2> QED BY <1>1, FS_EmptySet
<1>5. Cardinality(Admitted \cup extra) = Cardinality(Admitted) + Cardinality(extra)
  <2>1. Cardinality(Admitted \cap extra) = 0
    BY Zenon, <1>2, <1>4
  <2> HIDE DEF extra
  <2> QED BY <1>1, <1>3, <2>1
<1>6. extra = {} => kept \subseteq Admitted
  OBVIOUS
<1>7. Cardinality(Admitted \cup kept) = Cardinality(Admitted) + Cardinality(extra)
  BY <1>2, <1>5
<1> QED BY <1>4, <1>6, <1>7

\* Within the limit, and full from the first page of which something was
\* dropped: from then on nothing new is kept.
LEMMA PageFits ==
  ASSUME ImportTypeOK, job.policy \in Policies, RoomOK, NEW named \in SUBSET Resources,
         NEW kept \in SUBSET named, Fits(named, kept)
  PROVE  /\ Cardinality(Admitted \cup kept) <= job.policy.resources
         /\ walk.dropped => kept \subseteq Admitted
         /\ walk.dropped \/ kept # named =>
              Cardinality(Admitted \cup kept) = job.policy.resources
<1> DEFINE n == Cardinality(Admitted)
           limit == job.policy.resources
           k == Cardinality(kept \ Admitted)
<1>1. n \in Nat /\ limit \in Nat /\ k \in Nat
  <2>1. (kept \ Admitted) \in SUBSET Resources
    OBVIOUS
  <2> QED BY <2>1, AdmittedFinite, LimitTypes
<1>2. n <= limit /\ (walk.dropped => n = limit)
  BY DEF RoomOK
<1>3. k <= limit - n /\ (kept # named => k = limit - n)
  <2>1. \/ kept = named /\ Cardinality(named \ Admitted) <= limit - n
        \/ k = limit - n
    BY DEF Fits
  <2>2. CASE kept = named /\ Cardinality(named \ Admitted) <= limit - n
    BY <2>2
  <2>3. CASE k = limit - n
    <3> HIDE DEF n, limit, k
    <3> QED BY <1>1, <1>2, <2>3
  <2> QED BY <2>1, <2>2, <2>3
<1>4. Cardinality(Admitted \cup kept) = n + k /\ (k = 0 => kept \subseteq Admitted)
  BY AdmittedCount
<1>5. walk.dropped \in BOOLEAN
  BY ImportTyped DEF Walks
<1> HIDE DEF n, limit, k
<1>6. n + k <= limit
  BY <1>1, <1>2, <1>3
<1>7. n = limit => k = 0
  BY <1>1, <1>2, <1>3
<1>8. k = limit - n => n + k = limit
  BY <1>1, <1>2, <1>3
<1>9. Cardinality(Admitted \cup kept) <= limit
  BY <1>4, <1>6
<1>10. walk.dropped => kept \subseteq Admitted /\ Cardinality(Admitted \cup kept) = limit
  BY <1>1, <1>2, <1>4, <1>7, <1>8
<1>11. kept # named => Cardinality(Admitted \cup kept) = limit
  BY <1>3, <1>4, <1>8
<1> QED BY <1>9, <1>10, <1>11 DEF limit

LEMMA FollowedTyped ==
  ASSUME ImportTypeOK, walk.queue # {}, NEW page \in Contents
  PROVE  /\ Followed(page.next) \in SUBSET [page : Pages, depth : Nat]
         /\ ~LeftOut(page.next) =>
              /\ page.next \subseteq Pages
              /\ \A p \in page.next : \E q \in Followed(page.next) : q.page = p
<1>1. page.next \in SUBSET (Pages \cup {Outside})
  BY DEF Contents
<1>2. QueueHead.depth \in Nat /\ QueueHead.depth + 1 \in Nat
  BY HeadOfQueue
<1>3. Followed(page.next) \in SUBSET [page : Pages, depth : Nat]
  <2>1. page.next \ (KnownPages \cup {Outside}) \subseteq Pages
    BY <1>1
  <2>2. [page : page.next \ (KnownPages \cup {Outside}), depth : {QueueHead.depth + 1}]
          \in SUBSET [page : Pages, depth : Nat]
    BY <1>2, <2>1
  <2> QED BY <2>2 DEF Followed
<1>4. ASSUME ~LeftOut(page.next), NEW p \in page.next
      PROVE  p \in Pages /\ \E q \in Followed(page.next) : q.page = p
  <2>1. /\ Outside \notin page.next /\ page.next \cap KnownPages = {}
        /\ ~(QueueHead.depth >= job.policy.depth)
    BY <1>4 DEF LeftOut
  <2>2. p \in page.next \ (KnownPages \cup {Outside}) /\ p \in Pages
    BY <1>1, <1>4, <2>1
  <2>3. [page |-> p, depth |-> QueueHead.depth + 1] \in Followed(page.next)
    BY <2>1, <2>2 DEF Followed
  <2> QED BY <2>2, <2>3
<1> QED BY <1>3, <1>4

LEMMA FetchedTyped ==
  ASSUME ImportTypeOK, walk.queue # {}, NEW page \in Contents,
         NEW kept \in SUBSET {mention[1] : mention \in page.mentions}, Fetched(page, kept),
         walk' = [queue |-> walk'.queue, page |-> walk'.page, linked |-> walk'.linked,
                  class |-> walk'.class, seen |-> walk'.seen,
                  reasons |-> walk'.reasons, paginated |-> walk'.paginated,
                  auth |-> walk'.auth, dropped |-> walk'.dropped]
  PROVE  walk' \in Walks
<1>1. /\ walk.queue \in SUBSET [page : Pages, depth : Nat]
      /\ walk.page \in [Pages -> {"unseen", "ok", "failed"}]
      /\ walk.linked \in SUBSET (Pages \cup {Outside}) /\ walk.seen \in Mentions
      /\ walk.reasons \in SUBSET {"dynamic", "limited"} /\ walk.paginated \in BOOLEAN
      /\ walk.auth \in BOOLEAN /\ walk.dropped \in BOOLEAN
  BY ImportTyped DEF Walks
<1>2. /\ page.next \in SUBSET (Pages \cup {Outside}) /\ page.mentions \in Mentions
      /\ page.trouble \in SUBSET {"dynamic", "limited"}
  BY DEF Contents
<1>3. walk'.queue \in SUBSET [page : Pages, depth : Nat]
  <2>1. QueueRest \in SUBSET [page : Pages, depth : Nat]
    BY <1>1 DEF QueueRest
  <2> QED BY <2>1, FollowedTyped DEF Fetched
<1>4. walk'.page \in [Pages -> {"unseen", "ok", "failed"}]
  BY <1>1 DEF Fetched
<1>5. walk'.class \in [Resources -> Classes]
  BY PageAdmits
<1>6. walk'.linked \in SUBSET (Pages \cup {Outside}) /\ walk'.seen \in Mentions
  BY <1>1, <1>2 DEF Fetched, Mentions
<1>7. walk'.reasons \in SUBSET {"dynamic", "limited"}
  BY <1>1, <1>2 DEF Fetched
<1>8. walk'.paginated \in BOOLEAN /\ walk'.auth \in BOOLEAN /\ walk'.dropped \in BOOLEAN
  BY <1>1 DEF Fetched
<1> QED BY <1>3, <1>4, <1>5, <1>6, <1>7, <1>8 DEF Walks

LEMMA FetchedTraversal ==
  ASSUME ImportTypeOK, walk.queue # {}, NEW page \in Contents, TraversalOK,
         NEW kept \in SUBSET {mention[1] : mention \in page.mentions}, Fetched(page, kept)
  PROVE  TraversalOK'
<1>1. /\ walk.page \in [Pages -> {"unseen", "ok", "failed"}]
      /\ walk.seen \in Mentions /\ page.mentions \in Mentions
  BY ImportTyped DEF Walks, Contents
<1>2. KnownPages \subseteq KnownPages'
  BY KnownPagesGrow DEF Fetched
<1>3. ASSUME "limited" \notin walk'.reasons
      PROVE  /\ 1 \in KnownPages'
             /\ \A p \in Pages : walk'.page[p] # "failed"
             /\ walk'.linked \subseteq KnownPages'
  <2>1. "limited" \notin walk.reasons /\ ~LeftOut(page.next)
    BY <1>3 DEF Fetched
  <2>2. /\ 1 \in KnownPages /\ walk.linked \subseteq KnownPages
        /\ \A p \in Pages : walk.page[p] # "failed"
    BY <2>1 DEF TraversalOK
  <2>3. \A p \in Pages : walk'.page[p] # "failed"
    BY <1>1, <2>2, HeadOfQueue DEF Fetched
  <2>4. ASSUME NEW p \in page.next PROVE p \in KnownPages'
    <3>1. PICK q \in Followed(page.next) : q.page = p
      BY <2>1, <2>4, FollowedTyped
    <3>2. q \in walk'.queue
      BY DEF Fetched
    <3> QED BY <3>1, <3>2 DEF KnownPages
  <2> QED BY <1>2, <2>2, <2>3, <2>4 DEF Fetched
<1>4. ASSUME NEW r \in Resources, NEW d \in {"unverified", "eligible"}, <<r, d>> \in walk'.seen
      PROVE  walk'.class[r] # "absent" \/ walk'.dropped
  <2>1. walk'.dropped = (walk.dropped \/ kept # {mention[1] : mention \in page.mentions})
    BY DEF Fetched
  <2>2. Admitted' = Admitted \cup kept
    BY PageAdmits
  <2>3. CASE <<r, d>> \in walk.seen
    <3>1. walk.class[r] # "absent" \/ walk.dropped
      BY <2>3 DEF TraversalOK
    <3>2. r \in Admitted => r \in Admitted'
      BY <2>2
    <3> QED BY <2>1, <3>1, <3>2 DEF Admitted
  <2>4. CASE <<r, d>> \in page.mentions
    <3>1. r \in {mention[1] : mention \in page.mentions}
      BY <2>4
    <3>2. r \in kept => r \in Admitted'
      BY <2>2
    <3> QED BY <2>1, <3>1, <3>2 DEF Admitted
  <2> QED BY <1>4, <2>3, <2>4 DEF Fetched
<1> QED BY <1>3, <1>4 DEF TraversalOK

LEMMA FetchedDecisions ==
  ASSUME ImportTypeOK, job.policy \in Policies, UNCHANGED job, NEW page \in Contents,
         TraversalOK, RoomOK, DecisionsOK,
         NEW kept \in SUBSET {mention[1] : mention \in page.mentions}, Fetched(page, kept),
         Fits({mention[1] : mention \in page.mentions}, kept)
  PROVE  RoomOK' /\ DecisionsOK'
<1> DEFINE named == {mention[1] : mention \in page.mentions}
<1>1. page.mentions \in SUBSET (Resources \X {"unverified", "eligible"})
  BY DEF Contents, Mentions
<1>2. named \in SUBSET Resources
  BY <1>1
<1>3. /\ Cardinality(Admitted \cup kept) <= job.policy.resources
      /\ walk.dropped => kept \subseteq Admitted
      /\ walk.dropped \/ kept # named => Cardinality(Admitted \cup kept) = job.policy.resources
  <2>1. kept \in SUBSET named /\ Fits(named, kept)
    OBVIOUS
  <2> HIDE DEF named
  <2> QED BY <1>2, <2>1, PageFits
<1>4. walk'.dropped = (walk.dropped \/ kept # named)
  BY DEF Fetched
<1>5. Admitted' = Admitted \cup kept /\ job'.policy = job.policy
  BY PageAdmits
<1>6. RoomOK'
  BY <1>3, <1>4, <1>5 DEF RoomOK
<1>7. ASSUME NEW r \in Resources, walk'.class[r] # "absent"
      PROVE  walk'.class[r] = "eligible" <=> <<r, "eligible">> \in walk'.seen
  <2>1. walk'.class[r] = "eligible" <=>
          walk.class[r] = "eligible" \/ (r \in kept /\ <<r, "eligible">> \in page.mentions)
    BY PageAdmits
  <2>2. <<r, "eligible">> \in walk'.seen <=>
          <<r, "eligible">> \in walk.seen \/ <<r, "eligible">> \in page.mentions
    BY DEF Fetched
  <2>3. r \in Admitted \cup kept
    BY <1>5, <1>7 DEF Admitted
  <2>4. CASE r \in Admitted
    <3>1. walk.class[r] = "eligible" <=> <<r, "eligible">> \in walk.seen
      BY <2>4 DEF DecisionsOK, Admitted
    <3>2. <<r, "eligible">> \in page.mentions => r \in named
      OBVIOUS
    <3>3. <<r, "eligible">> \in page.mentions => r \in kept
      BY <2>4, <3>2 DEF Fits
    <3> QED BY <2>1, <2>2, <3>1, <3>3
  <2>5. CASE r \notin Admitted
    <3>1. r \in kept /\ ~walk.dropped /\ walk.class[r] = "absent"
      BY <1>3, <2>3, <2>5 DEF Admitted
    <3>2. <<r, "eligible">> \notin walk.seen
      BY <3>1 DEF TraversalOK
    <3> QED BY <2>1, <2>2, <3>1, <3>2
  <2> QED BY <2>4, <2>5
<1> QED BY <1>6, <1>7 DEF DecisionsOK

-----------------------------------------------------------------------------
(* What a step leaves alone. *)

\* The part of the invariant that speaks of the last record and the library.
Kept == EveryResourceAnswered /\ IngestedIsBacked

LEMMA LibraryKept ==
  ASSUME ImportInv, UNCHANGED <<stored, document>>, links' \subseteq links,
         record' = record \/ record' = NoRecord
  PROVE  Kept'
<1> USE ImportParts
<1>1. NoRecord.status = "none" /\ NoRecord.members = {}
  BY DEF NoRecord
<1>2. EveryResourceAnswered'
  BY <1>1 DEF EveryResourceAnswered
<1>3. \A l \in record'.members : l \in record.members
  BY <1>1
<1>4. IngestedIsBacked'
  BY <1>3 DEF IngestedIsBacked
<1> QED BY <1>2, <1>4 DEF Kept

\* Outside of the batch no answer is owed, outside of ingest no record.
LEMMA NoAnswersOwed ==
  ASSUME ImportInv, job'.step \in {"idle", "walking", "snapshot"},
         (~JobAt("ingesting") /\ UNCHANGED work) \/ work' = NoWork
  PROVE  AnswersOK' /\ WrittenOK'
<1>1. work'.written = 0
  BY ImportParts DEF WrittenOK, NoWork
<1> QED BY <1>1 DEF AnswersOK, WrittenOK, Batch, Acquiring, JobAt

\* The discovery is over.
LEMMA DiscoveryOver ==
  ASSUME job'.step \in {"importing", "resolving", "attempting", "ingesting"}
  PROVE  DiscoveryOK'
BY DEF DiscoveryOK, JobAt

LEMMA Assembled ==
  ASSUME ImportTypeOK', DiscoveryOK', AnswersOK', WrittenOK', Kept'
  PROVE  ImportInv'
BY Zenon DEF ImportInv, Kept

\* The parts of DiscoveryOK while the traversal goes on.
LEMMA WhileWalking ==
  ASSUME ImportInv, JobAt("walking")
  PROVE  /\ job.policy \in Policies /\ TraversalOK /\ RoomOK /\ DecisionsOK
         /\ snapshot = NoSnapshot /\ job.todo = {} /\ results = NoResults /\ links = {}
BY ImportParts DEF DiscoveryOK, JobAt

LEMMA StillWalking ==
  ASSUME ImportInv, JobAt("walking"), UNCHANGED <<job, snapshot, results, links>>,
         TraversalOK', RoomOK', DecisionsOK'
  PROVE  DiscoveryOK'
<1>1. job'.step = "walking" /\ job'.policy \in Policies
  BY WhileWalking DEF JobAt
<1> QED BY <1>1, WhileWalking DEF DiscoveryOK, JobAt

-----------------------------------------------------------------------------
(* discover. *)

LEMMA StartKeeps ==
  ASSUME ImportInv, NEW policy \in Policies, Start(policy)
  PROVE  ImportInv'
<1> USE ImportParts
<1> DEFINE first == [page |-> 1, depth |-> 0]
<1>1. /\ JobAt("idle") /\ job' = [step |-> "walking", policy |-> policy, todo |-> {}]
      /\ walk' = [NoWalk EXCEPT !.queue = {first}] /\ record' = NoRecord
      /\ UNCHANGED <<snapshot, work, results, links, stored, document>>
  BY DEF Start, library
<1>2. first \in [page : Pages, depth : Nat]
  BY LimitTypes
<1>3. /\ walk'.queue = {first} /\ walk'.reasons = {} /\ walk'.linked = {} /\ walk'.seen = {}
      /\ walk'.page = [p \in Pages |-> "unseen"] /\ walk'.dropped = FALSE
      /\ walk'.class = [r \in Resources |-> "absent"]
  BY <1>1 DEF NoWalk
<1>4. walk' \in Walks
  BY <1>1, <1>2, NothingTyped DEF Walks
<1>5. job' \in Jobs
  BY <1>1 DEF Jobs, Steps
<1>6. ImportTypeOK'
  <2>1. record' \in ImportRecords
    BY <1>1, NothingTyped
  <2> QED BY <1>1, <1>4, <1>5, <2>1 DEF ImportTypeOK
<1>7. TraversalOK'
  <2>1. first \in walk'.queue /\ first.page = 1
    BY <1>3
  <2>2. 1 \in KnownPages'
    BY <2>1 DEF KnownPages
  <2> QED BY <1>3, <2>2 DEF TraversalOK
<1>8. RoomOK' /\ DecisionsOK'
  <2>1. Admitted' = {}
    BY <1>3 DEF Admitted
  <2>2. Cardinality(Admitted') = 0
    BY <2>1, FS_EmptySet
  <2>3. job'.policy.resources \in Nat
    BY <1>1, LimitTypes
  <2> QED BY <1>3, <2>2, <2>3 DEF RoomOK, DecisionsOK
<1>9. DiscoveryOK'
  <2>1. snapshot = NoSnapshot /\ results = NoResults /\ links = {}
    BY <1>1 DEF DiscoveryOK, JobAt
  <2> QED BY <1>1, <1>7, <1>8, <2>1 DEF DiscoveryOK, JobAt
<1>10. Kept'
  BY <1>1, LibraryKept
<1> QED BY <1>1, <1>6, <1>9, <1>10, NoAnswersOwed, Assembled DEF JobAt

LEMMA EntryOutsideKeeps == ASSUME ImportInv, EntryOutside PROVE ImportInv'
<1> USE ImportParts
<1>1. /\ JobAt("walking") /\ walk' = [walk EXCEPT !.queue = {}, !.reasons = {"limited"}]
      /\ UNCHANGED <<job, snapshot, work, results, links, stored, document, record>>
  BY DEF EntryOutside, Walking, library
<1>2. walk \in Walks
  BY ImportTyped
<1>3. /\ walk' \in Walks /\ walk'.reasons = {"limited"} /\ walk'.class = walk.class
      /\ walk'.seen = walk.seen /\ walk'.dropped = walk.dropped
  BY <1>1, <1>2 DEF Walks
<1>4. TraversalOK' /\ RoomOK' /\ DecisionsOK'
  <2>1. TraversalOK'
    BY <1>1, <1>3, WhileWalking DEF TraversalOK
  <2>2. Admitted' = Admitted
    BY <1>3 DEF Admitted
  <2>3. RoomOK'
    BY <1>1, <1>3, <2>2, WhileWalking DEF RoomOK
  <2> QED BY <1>1, <1>3, <2>1, <2>3, WhileWalking DEF DecisionsOK
<1>5. ImportTypeOK'
  BY <1>1, <1>3 DEF ImportTypeOK
<1>6. DiscoveryOK'
  BY <1>1, <1>4, StillWalking
<1> QED BY <1>1, <1>5, <1>6, LibraryKept, NoAnswersOwed, Assembled DEF JobAt

LEMMA FetchFailsKeeps ==
  ASSUME ImportInv, NEW auth \in BOOLEAN, FetchFails(auth)
  PROVE  ImportInv'
<1> USE ImportParts
<1>1. /\ JobAt("walking") /\ walk.queue # {}
      /\ walk' = [walk EXCEPT !.queue = QueueRest, !.page[QueueHead.page] = "failed",
                              !.auth = auth, !.reasons = @ \cup {"limited"}]
      /\ UNCHANGED <<job, snapshot, work, results, links, stored, document, record>>
  BY DEF FetchFails, Walking, library
<1>2. walk \in Walks
  BY ImportTyped
<1>3. /\ walk'.queue = QueueRest /\ walk'.page = [walk.page EXCEPT ![QueueHead.page] = "failed"]
      /\ walk'.reasons = walk.reasons \cup {"limited"} /\ walk'.class = walk.class
      /\ walk'.seen = walk.seen /\ walk'.dropped = walk.dropped
  BY <1>1, <1>2 DEF Walks
<1>4. walk' \in Walks
  <2>1. QueueRest \in SUBSET [page : Pages, depth : Nat]
    BY <1>2 DEF Walks, QueueRest
  <2>2. [walk.page EXCEPT ![QueueHead.page] = "failed"] \in [Pages -> {"unseen", "ok", "failed"}]
    BY <1>2 DEF Walks
  <2> QED BY <1>1, <1>2, <2>1, <2>2 DEF Walks
<1>5. TraversalOK' /\ RoomOK' /\ DecisionsOK'
  <2>1. TraversalOK'
    BY <1>1, <1>3, WhileWalking DEF TraversalOK
  <2>2. Admitted' = Admitted
    BY <1>3 DEF Admitted
  <2>3. RoomOK'
    BY <1>1, <1>3, <2>2, WhileWalking DEF RoomOK
  <2> QED BY <1>1, <1>3, <2>1, <2>3, WhileWalking DEF DecisionsOK
<1>6. ImportTypeOK'
  BY <1>1, <1>4 DEF ImportTypeOK
<1>7. DiscoveryOK'
  BY <1>1, <1>5, StillWalking
<1> QED BY <1>1, <1>6, <1>7, LibraryKept, NoAnswersOwed, Assembled DEF JobAt

LEMMA FetchPageKeeps ==
  ASSUME ImportInv, NEW page \in Contents, FetchPage(page)
  PROVE  ImportInv'
<1> USE ImportParts
<1>1. /\ JobAt("walking") /\ walk.queue # {}
      /\ UNCHANGED <<job, snapshot, work, results, links, stored, document, record>>
  BY PageFetched DEF Walking
<1>2. PICK kept \in SUBSET {mention[1] : mention \in page.mentions} :
        /\ Fits({mention[1] : mention \in page.mentions}, kept)
        /\ Fetched(page, kept)
        /\ walk' = [queue |-> walk'.queue, page |-> walk'.page, linked |-> walk'.linked,
                    class |-> walk'.class, seen |-> walk'.seen,
                    reasons |-> walk'.reasons, paginated |-> walk'.paginated,
                    auth |-> walk'.auth, dropped |-> walk'.dropped]
  BY Zenon, PageFetched
<1>3. walk' \in Walks
  BY <1>1, <1>2, FetchedTyped
<1>4. TraversalOK'
  BY <1>1, <1>2, WhileWalking, FetchedTraversal
<1>5. RoomOK' /\ DecisionsOK'
  BY <1>1, <1>2, WhileWalking, FetchedDecisions
<1>6. ImportTypeOK'
  BY <1>1, <1>3 DEF ImportTypeOK
<1>7. DiscoveryOK'
  BY <1>1, <1>4, <1>5, StillWalking
<1> QED BY <1>1, <1>6, <1>7, LibraryKept, NoAnswersOwed, Assembled DEF JobAt

LEMMA ClassifyKeeps == ASSUME ImportInv, Classify PROVE ImportInv'
<1> USE ImportParts
<1>1. /\ JobAt("walking") /\ snapshot' = [class |-> walk.class, status |-> Completeness]
      /\ job' = [job EXCEPT !.step = "snapshot"]
      /\ UNCHANGED <<walk, work, results, links, stored, document, record>>
  BY DEF Classify, Goto, library
<1>2. /\ job' \in Jobs /\ job'.step = "snapshot" /\ job'.policy = job.policy
      /\ job'.todo = job.todo
  <2>1. job \in Jobs /\ "snapshot" \in Steps
    BY ImportTyped DEF Steps
  <2> QED BY <1>1, <2>1, JobMoved
<1>3. Completeness \in {"auth", "failed", "dynamic", "partial", "proven_complete", "unverified"}
  BY DEF Completeness
<1>4. snapshot' \in Snapshots
  <2>1. walk.class \in [Resources -> Classes]
    BY ImportTyped DEF Walks
  <2> QED BY <1>1, <1>3, <2>1 DEF Snapshots
<1>5. ImportTypeOK'
  BY <1>1, <1>2, <1>4 DEF ImportTypeOK
<1>6. TraversalOK' /\ RoomOK' /\ DecisionsOK'
  <2>1. KnownPages' = KnownPages /\ Admitted' = Admitted
    BY <1>1 DEF KnownPages, Recorded, Admitted
  <2> QED BY <1>1, <1>2, <2>1, WhileWalking DEF TraversalOK, RoomOK, DecisionsOK
<1>7. Completeness' = Completeness
  BY <1>1 DEF Completeness, AllReasons, Retrieved
<1>8. DiscoveryOK'
  BY <1>1, <1>2, <1>6, <1>7, WhileWalking DEF DiscoveryOK, JobAt
<1> QED BY <1>1, <1>2, <1>5, <1>8, LibraryKept, NoAnswersOwed, Assembled DEF JobAt

LEMMA ReleaseKeeps == ASSUME ImportInv, Release PROVE ImportInv'
<1> USE ImportParts
<1>1. /\ JobAt("snapshot") /\ walk' = NoWalk
      /\ job' = [NoJob EXCEPT !.step = "importing", !.todo = Discovered]
      /\ UNCHANGED <<snapshot, work, results, links, stored, document, record>>
  BY DEF Release, library
<1>2. job'.step = "importing" /\ job'.todo = Discovered /\ job' \in Jobs
  BY <1>1 DEF NoJob, Jobs, Steps, Discovered
<1>3. ImportTypeOK'
  BY <1>1, <1>2, NothingTyped DEF ImportTypeOK
<1>4. results = NoResults /\ snapshot.class = walk.class
  BY <1>1 DEF DiscoveryOK, JobAt
<1>5. AnswersOK'
  <2>1. Waiting' = Discovered /\ Discovered' = Discovered
    BY <1>1, <1>2 DEF Waiting, Acquiring, Discovered
  <2>2. \A r \in Resources : results'[r] = "none" /\ snapshot'.class[r] = snapshot.class[r]
    BY <1>1, <1>4 DEF NoResults
  <2>3. \A r \in Resources : r \in Discovered <=> snapshot.class[r] # "absent"
    BY DEF Discovered
  <2>4. ~Acquiring'
    BY <1>2 DEF Acquiring
  <2> QED BY <2>1, <2>2, <2>3, <2>4 DEF AnswersOK
<1>6. WrittenOK'
  BY <1>1, <1>2 DEF WrittenOK, JobAt
<1> QED BY <1>1, <1>2, <1>3, <1>5, <1>6, LibraryKept, DiscoveryOver, Assembled

-----------------------------------------------------------------------------
(* add and ingest. *)

LEMMA InHand ==
  ASSUME ImportInv, Acquiring
  PROVE  /\ job.step \in {"resolving", "attempting", "ingesting"} /\ Batch
         /\ work.res \in Resources /\ work.res \notin job.todo
         /\ snapshot.class[work.res] = "eligible"
         /\ Waiting = job.todo \cup {work.res} /\ Waiting \subseteq Discovered
         /\ \A r \in Resources :
              /\ results[r] = "none" <=> r \in Waiting \/ snapshot.class[r] = "absent"
              /\ results[r] = "unverified" <=>
                   r \notin Waiting /\ snapshot.class[r] = "unverified"
BY ImportParts DEF AnswersOK, Acquiring, Batch, Waiting

\* The resource in hand stays in hand.
LEMMA StillInHand ==
  ASSUME ImportInv, Acquiring, job'.step \in {"resolving", "attempting", "ingesting"},
         job'.todo = job.todo, work'.res = work.res, UNCHANGED <<snapshot, results>>
  PROVE  AnswersOK' /\ DiscoveryOK'
<1>1. Acquiring' /\ Waiting' = Waiting /\ Discovered' = Discovered
  BY InHand DEF Acquiring, Waiting, Discovered
<1>2. AnswersOK'
  BY <1>1, InHand DEF AnswersOK
<1> QED BY <1>2, DiscoveryOver

\* The resource in hand has its result, and nothing is in hand.
LEMMA AnswerGiven ==
  ASSUME ImportInv, Acquiring, NEW outcome \in Outcomes \ {"unverified"}, NEW made,
         Answer(outcome, made), UNCHANGED snapshot
  PROVE  /\ job' \in Jobs /\ work' \in Works /\ results' \in Results
         /\ AnswersOK' /\ DiscoveryOK' /\ WrittenOK'
<1>1. /\ results' = [results EXCEPT ![work.res] = outcome] /\ work' = NoWork
      /\ job' = [job EXCEPT !.step = "importing"]
  BY DEF Answer, Goto
<1>2. job \in Jobs /\ "importing" \in Steps /\ results \in Results
  BY ImportParts, ImportTyped DEF Steps
<1>3. job' \in Jobs /\ job'.step = "importing" /\ job'.todo = job.todo
  BY <1>1, <1>2, JobMoved
<1>4. results' \in Results
  BY <1>1, <1>2 DEF Results
<1>5. Waiting' = job.todo /\ Discovered' = Discovered /\ ~Acquiring'
  BY <1>3 DEF Waiting, Acquiring, Discovered
<1>6. ASSUME NEW r \in Resources
      PROVE  /\ results'[r] = "none" <=> r \in Waiting' \/ snapshot'.class[r] = "absent"
             /\ results'[r] = "unverified" <=>
                  r \notin Waiting' /\ snapshot'.class[r] = "unverified"
  <2>1. outcome # "none" /\ outcome # "unverified"
    BY DEF Outcomes
  <2>2. CASE r = work.res
    <3>1. results'[r] = outcome
      BY <1>1, <1>2, <2>2 DEF Results
    <3> QED BY <1>5, <2>1, <2>2, <3>1, InHand
  <2>3. CASE r # work.res
    <3>1. results'[r] = results[r]
      BY <1>1, <1>2, <2>3 DEF Results
    <3>2. r \in Waiting' <=> r \in Waiting
      BY <1>5, <2>3, InHand
    <3> QED BY <3>1, <3>2, InHand
  <2> QED BY <2>2, <2>3
<1>7. Waiting' \subseteq Discovered'
  BY <1>5, InHand
<1>8. AnswersOK'
  BY <1>5, <1>6, <1>7 DEF AnswersOK
<1>9. DiscoveryOK' /\ WrittenOK'
  BY <1>1, <1>3, DiscoveryOver DEF WrittenOK, JobAt, NoWork
<1> QED BY <1>1, <1>3, <1>4, <1>8, <1>9, NothingTyped

LEMMA AnswerKeeps ==
  ASSUME ImportInv, Acquiring, NEW outcome \in Outcomes \ {"unverified"}, Answer(outcome, {}),
         UNCHANGED <<stored, document>>, Others
  PROVE  ImportInv'
<1> USE ImportParts
<1>1. UNCHANGED <<walk, snapshot, record, stored, document>> /\ links' = links
  BY DEF Others, Answer
<1>2. ImportTypeOK'
  BY <1>1, AnswerGiven DEF ImportTypeOK
<1> QED BY <1>1, <1>2, AnswerGiven, LibraryKept, Assembled

LEMMA TakeKeeps == ASSUME ImportInv, NEW r \in Resources, Take(r) PROVE ImportInv'
<1> USE ImportParts
<1>1. /\ JobAt("importing") /\ r \in job.todo
      /\ UNCHANGED <<links, stored, document, walk, snapshot, record>>
  BY DEF Take, library, Others
<1>2. job \in Jobs /\ work \in Works /\ results \in Results
  BY ImportTyped
<1>3. /\ Batch /\ Waiting = job.todo /\ Discovered' = Discovered
      /\ job.todo \subseteq Discovered /\ job.todo \in SUBSET Resources
  <2>1. Batch /\ Waiting = job.todo
    BY <1>1 DEF Batch, Waiting, Acquiring, JobAt
  <2>2. Waiting \subseteq Discovered
    BY <2>1 DEF AnswersOK
  <2> QED BY <1>1, <1>2, <2>1, <2>2 DEF Discovered, Jobs
<1>4. ASSUME NEW q \in Resources
      PROVE  /\ results[q] = "none" <=> q \in job.todo \/ snapshot.class[q] = "absent"
             /\ results[q] = "unverified" <=>
                  q \notin job.todo /\ snapshot.class[q] = "unverified"
  BY <1>3 DEF AnswersOK
<1>5. CASE snapshot.class[r] = "eligible"
  <2>1. /\ work' = [NoWork EXCEPT !.res = r]
        /\ job' = [job EXCEPT !.step = "resolving", !.todo = job.todo \ {r}]
        /\ UNCHANGED results
    BY <1>5 DEF Take
  <2>2. work' \in Works /\ work'.res = r
    BY <2>1, NothingTyped DEF Works, NoWork
  <2>3. job' \in Jobs /\ job'.step = "resolving" /\ job'.todo = job.todo \ {r}
    BY <1>2, <2>1 DEF Jobs, Steps
  <2>4. Waiting' = job.todo /\ Acquiring'
    BY <1>1, <2>2, <2>3 DEF Waiting, Acquiring
  <2>5. AnswersOK'
    BY <1>1, <1>3, <1>4, <1>5, <2>1, <2>2, <2>3, <2>4 DEF AnswersOK
  <2>6. ImportTypeOK'
    BY <1>1, <2>1, <2>2, <2>3 DEF ImportTypeOK
  <2>7. WrittenOK' /\ DiscoveryOK'
    BY <2>1, <2>3, DiscoveryOver DEF WrittenOK, JobAt, NoWork
  <2> QED BY <1>1, <2>5, <2>6, <2>7, LibraryKept, Assembled
<1>6. CASE snapshot.class[r] # "eligible"
  <2>1. /\ results' = [results EXCEPT ![r] = "unverified"]
        /\ job' = [job EXCEPT !.todo = job.todo \ {r}]
        /\ UNCHANGED work
    BY <1>6 DEF Take
  <2>2. /\ job' \in Jobs /\ job'.step = "importing" /\ job'.todo = job.todo \ {r}
    BY <1>1, <1>2, <2>1 DEF Jobs, JobAt
  <2>3. results' \in Results
    BY <1>2, <2>1 DEF Results, Outcomes
  <2>4. Waiting' = job.todo \ {r} /\ ~Acquiring'
    BY <2>2 DEF Waiting, Acquiring
  <2>5. snapshot.class[r] = "unverified"
    <3>1. snapshot.class[r] \in Classes /\ snapshot.class[r] # "absent"
      BY <1>1, <1>3, ImportTyped DEF Snapshots, Discovered
    <3> QED BY <1>6, <3>1, ClassTypes
  <2>6. ASSUME NEW q \in Resources
        PROVE  /\ results'[q] = "none" <=> q \in Waiting' \/ snapshot'.class[q] = "absent"
               /\ results'[q] = "unverified" <=>
                    q \notin Waiting' /\ snapshot'.class[q] = "unverified"
    <3>1. results'[q] = IF q = r THEN "unverified" ELSE results[q]
      BY <1>2, <2>1 DEF Results
    <3> QED BY <1>1, <1>4, <2>4, <2>5, <3>1
  <2>7. AnswersOK'
    BY <1>3, <2>4, <2>6 DEF AnswersOK
  <2>8. ImportTypeOK'
    BY <1>1, <2>1, <2>2, <2>3 DEF ImportTypeOK
  <2>9. WrittenOK' /\ DiscoveryOK'
    BY <1>1, <2>1, <2>2, DiscoveryOver DEF WrittenOK, JobAt
  <2> QED BY <1>1, <2>7, <2>8, <2>9, LibraryKept, Assembled
<1> QED BY <1>5, <1>6

\* A step of add that neither answers nor writes, and goes on attempting.
LEMMA AttemptKeeps ==
  ASSUME ImportInv, Acquiring, ~JobAt("ingesting"),
         job' = [job EXCEPT !.step = "attempting"], work' \in Works,
         work'.res = work.res, work'.written = work.written, UNCHANGED <<results, links, stored, document>>, Others
  PROVE  ImportInv'
<1> USE ImportParts
<1>1. UNCHANGED <<walk, snapshot, record>>
  BY DEF Others
<1>2. job' \in Jobs /\ job'.step = "attempting" /\ job'.todo = job.todo
  <2>1. job \in Jobs /\ "attempting" \in Steps
    BY ImportTyped DEF Steps
  <2> QED BY <2>1, JobMoved
<1>3. ImportTypeOK'
  BY <1>1, <1>2 DEF ImportTypeOK
<1>4. WrittenOK'
  BY <1>1, <1>2 DEF WrittenOK, JobAt
<1>5. AnswersOK' /\ DiscoveryOK'
  BY <1>1, <1>2, StillInHand
<1> QED BY <1>1, <1>3, <1>4, <1>5, LibraryKept, Assembled

\* A job that is at a step already does not change by going there.
LEMMA AtStep ==
  ASSUME ImportTypeOK, NEW s \in Steps, JobAt(s), UNCHANGED job
  PROVE  job' = [job EXCEPT !.step = s]
BY ImportTyped DEF JobAt, Jobs

LEMMA WorkTyped ==
  ASSUME NEW w \in Works
  PROVE  /\ \A S \in SUBSET Media : [w EXCEPT !.open = S] \in Works
                                    /\ [w EXCEPT !.open = S].res = w.res
                                    /\ [w EXCEPT !.open = S].written = w.written
         /\ \A c \in {"none", "found"} \cup Failures :
              /\ [w EXCEPT !.landing = c] \in Works /\ [w EXCEPT !.landing = c].res = w.res
              /\ [w EXCEPT !.landing = c].written = w.written
         /\ w.open \in SUBSET Media /\ w.tried \in SUBSET Media /\ w.failed \in SUBSET Failures
BY DEF Works

LEMMA CandidateTried ==
  ASSUME work \in Works, NEW m \in Media, NEW why \in Failures,
         work' = [work EXCEPT !.open = work.open \ {m}, !.tried = work.tried \cup {m},
                              !.failed = work.failed \cup {why}]
  PROVE  work' \in Works /\ work'.res = work.res /\ work'.written = work.written
<1>1. /\ work.open \ {m} \in SUBSET Media /\ work.tried \cup {m} \in SUBSET Media
      /\ work.failed \cup {why} \in SUBSET Failures
  BY DEF Works
<1> QED BY <1>1 DEF Works

LEMMA ResolveFailsKeeps ==
  ASSUME ImportInv, NEW outcome \in {"failed", "auth", "unavailable"}, ResolveFails(outcome)
  PROVE  ImportInv'
<1>1. /\ Acquiring /\ Answer(outcome, {}) /\ UNCHANGED <<stored, document>> /\ Others
  BY DEF ResolveFails, library, Acquiring, JobAt
<1>2. outcome \in Outcomes \ {"unverified"}
  BY DEF Outcomes
<1> QED BY <1>1, <1>2, AnswerKeeps

LEMMA RaisesKeeps == ASSUME ImportInv, Raises PROVE ImportInv'
<1>1. /\ Acquiring /\ Answer("failed", {}) /\ UNCHANGED <<stored, document>> /\ Others
  BY DEF Raises, library
<1>2. "failed" \in Outcomes \ {"unverified"}
  BY DEF Outcomes
<1> QED BY <1>1, <1>2, AnswerKeeps

LEMMA GiveUpKeeps == ASSUME ImportInv, GiveUp PROVE ImportInv'
<1> DEFINE outcome == FinalStatus(work.failed, work.landing)
<1>1. /\ Acquiring /\ Answer(outcome, {}) /\ UNCHANGED <<stored, document>> /\ Others
  BY DEF GiveUp, library, Acquiring, JobAt
<1>2. outcome \in {"metadata_only", "auth", "unavailable", "failed"}
  BY DEF FinalStatus
<1>3. outcome \in Outcomes \ {"unverified"}
  BY <1>2 DEF Outcomes
<1> HIDE DEF outcome
<1> QED BY <1>1, <1>3, AnswerKeeps

LEMMA ResolveKeeps ==
  ASSUME ImportInv, NEW found \in Candidates, Resolve(found)
  PROVE  ImportInv'
<1>1. /\ Acquiring /\ ~JobAt("ingesting") /\ job' = [job EXCEPT !.step = "attempting"]
      /\ work' = [work EXCEPT !.open = found]
      /\ UNCHANGED <<results, links, stored, document>> /\ Others
  BY DEF Resolve, library, Acquiring, JobAt, Goto
<1>2. work' \in Works /\ work'.res = work.res /\ work'.written = work.written
  BY <1>1, ImportParts, ImportTyped, WorkTyped DEF Candidates
<1> QED BY <1>1, <1>2, AttemptKeeps

LEMMA CandidateFailsKeeps ==
  ASSUME ImportInv, NEW m \in Media, NEW why \in Failures, CandidateFails(m, why)
  PROVE  ImportInv'
<1>1. /\ JobAt("attempting") /\ UNCHANGED job
      /\ work' = [work EXCEPT !.open = work.open \ {m}, !.tried = work.tried \cup {m},
                              !.failed = work.failed \cup {why}]
      /\ UNCHANGED <<results, links, stored, document>> /\ Others
  BY DEF CandidateFails, library
<1>2. work' \in Works /\ work'.res = work.res /\ work'.written = work.written
  <2>1. work \in Works
    BY ImportParts, ImportTyped
  <2> QED BY <1>1, <2>1, CandidateTried
<1>3. job' = [job EXCEPT !.step = "attempting"]
  BY <1>1, ImportParts, AtStep DEF Steps
<1>4. Acquiring /\ ~JobAt("ingesting")
  BY <1>1 DEF Acquiring, JobAt
<1> QED BY <1>1, <1>2, <1>3, <1>4, AttemptKeeps

LEMMA DiscoverLandingKeeps ==
  ASSUME ImportInv, NEW found \in Candidates, DiscoverLanding(found)
  PROVE  ImportInv'
<1>1. /\ JobAt("attempting") /\ UNCHANGED job
      /\ work' = [work EXCEPT !.landing = "found", !.open = found \ work.tried]
      /\ UNCHANGED <<results, links, stored, document>> /\ Others
  BY DEF DiscoverLanding, library
<1>2. work' \in Works /\ work'.res = work.res /\ work'.written = work.written
  <2>1. work \in Works
    BY ImportParts, ImportTyped
  <2>2. found \ work.tried \in SUBSET Media
    BY DEF Candidates
  <2> QED BY <1>1, <2>1, <2>2 DEF Works
<1>3. job' = [job EXCEPT !.step = "attempting"]
  BY <1>1, ImportParts, AtStep DEF Steps
<1>4. Acquiring /\ ~JobAt("ingesting")
  BY <1>1 DEF Acquiring, JobAt
<1> QED BY <1>1, <1>2, <1>3, <1>4, AttemptKeeps

LEMMA LandingFailsKeeps ==
  ASSUME ImportInv, NEW code \in {"auth", "hard", "soft"}, LandingFails(code)
  PROVE  ImportInv'
<1>1. /\ JobAt("attempting") /\ UNCHANGED job /\ work' = [work EXCEPT !.landing = code]
      /\ UNCHANGED <<results, links, stored, document>> /\ Others
  BY DEF LandingFails, library
<1>2. work' \in Works /\ work'.res = work.res /\ work'.written = work.written
  <2>1. work \in Works /\ code \in {"none", "found"} \cup Failures
    BY ImportParts, ImportTyped DEF Failures
  <2> QED BY <1>1, <2>1, WorkTyped
<1>3. job' = [job EXCEPT !.step = "attempting"]
  BY <1>1, ImportParts, AtStep DEF Steps
<1>4. Acquiring /\ ~JobAt("ingesting")
  BY <1>1 DEF Acquiring, JobAt
<1> QED BY <1>1, <1>2, <1>3, <1>4, AttemptKeeps

\* The library only grows.
LEMMA ArtifactStored ==
  ASSUME ImportTypeOK, NEW l \in Literature, NEW m \in Media, NEW a \in Artifacts,
         stored' = [stored EXCEPT ![l][m] = @ \cup {a}]
  PROVE  /\ stored' \in [Literature -> [Media -> SUBSET Artifacts]]
         /\ a \in stored'[l][m]
         /\ \A k \in Literature, n \in Media : stored[k][n] \subseteq stored'[k][n]
<1>1. stored \in [Literature -> [Media -> SUBSET Artifacts]]
  BY ImportTyped
<1>2. \A k \in Literature, n \in Media :
        stored'[k][n] = IF k = l /\ n = m THEN stored[k][n] \cup {a} ELSE stored[k][n]
  BY <1>1
<1>3. stored' \in [Literature -> [Media -> SUBSET Artifacts]]
  BY <1>1
<1> QED BY <1>2, <1>3

LEMMA LibraryGrows ==
  ASSUME ImportInv, UNCHANGED <<links, record>>,
         stored' \in [Literature -> [Media -> SUBSET Artifacts]],
         \A k \in Literature, n \in Media : stored[k][n] \subseteq stored'[k][n],
         \A k \in Literature : document[k] # "none" => document'[k] # "none"
  PROVE  Kept'
<1> USE ImportParts
<1>1. EveryResourceAnswered'
  BY DEF EveryResourceAnswered
<1>2. ASSUME NEW k \in Literature, NEW n \in Media, stored[k][n] = Artifacts
      PROVE  stored'[k][n] = Artifacts
  <2>1. stored'[k][n] \in SUBSET Artifacts
    OBVIOUS
  <2> QED BY <1>2, <2>1
<1>3. ASSUME NEW link \in links'
      PROVE  stored'[link.lit][link.medium] = Artifacts /\ document'[link.lit] # "none"
  <2>1. link \in links /\ link.lit \in Literature /\ link.medium \in Media
    BY ImportTyped
  <2> QED BY <1>2, <2>1 DEF IngestedIsBacked
<1>4. ASSUME NEW k \in record'.members
      PROVE  \E n \in Media : stored'[k][n] = Artifacts
  <2>1. k \in record.members /\ k \in Literature
    BY ImportTyped DEF ImportRecords
  <2>2. PICK n \in Media : stored[k][n] = Artifacts
    BY <2>1 DEF IngestedIsBacked
  <2> QED BY <1>2, <2>1, <2>2
<1> QED BY <1>1, <1>3, <1>4 DEF IngestedIsBacked, Kept

LEMMA ExtractionFailsKeeps ==
  ASSUME ImportInv, NEW l \in Literature, ExtractionFails(l)
  PROVE  ImportInv'
<1> USE ImportParts
<1>1. /\ JobAt("attempting") /\ "pdf" \in Media /\ "hard" \in Failures /\ "raw" \in Artifacts
      /\ work' = [work EXCEPT !.open = work.open \ {"pdf"}, !.tried = work.tried \cup {"pdf"},
                              !.failed = work.failed \cup {"hard"}]
      /\ stored' = [stored EXCEPT ![l]["pdf"] = @ \cup {"raw"}]
      /\ UNCHANGED <<job, results, links, document, walk, snapshot, record>>
  BY DEF ExtractionFails, Others, Media, Failures, Artifacts
<1>2. work' \in Works /\ work'.res = work.res /\ work'.written = work.written
  <2>1. work \in Works
    BY ImportTyped
  <2> QED BY <1>1, <2>1, CandidateTried
<1>3. /\ stored' \in [Literature -> [Media -> SUBSET Artifacts]]
      /\ \A k \in Literature, n \in Media : stored[k][n] \subseteq stored'[k][n]
  BY <1>1, ArtifactStored
<1>4. ImportTypeOK'
  BY <1>1, <1>2, <1>3 DEF ImportTypeOK
<1>5. AnswersOK' /\ DiscoveryOK'
  BY <1>1, <1>2, StillInHand DEF Acquiring, JobAt
<1>6. WrittenOK'
  BY <1>1, <1>2 DEF WrittenOK, JobAt
<1> QED BY <1>1, <1>3, <1>4, <1>5, <1>6, LibraryGrows, Assembled

LEMMA IngestKeeps ==
  ASSUME ImportInv, NEW m \in Media, NEW l \in Literature, Ingest(m, l)
  PROVE  ImportInv'
<1> USE ImportParts
<1>1. /\ JobAt("attempting") /\ work' = [work EXCEPT !.lit = l, !.medium = m]
      /\ job' = [job EXCEPT !.step = "ingesting"]
      /\ UNCHANGED <<results, links, stored, document, walk, snapshot, record>>
  BY DEF Ingest, Goto, library, Others
<1>2. /\ work' \in Works /\ work'.res = work.res /\ work'.lit = l /\ work'.medium = m
      /\ work'.written = work.written
  BY <1>1, ImportTyped DEF Works
<1>3. job' \in Jobs /\ job'.step = "ingesting" /\ job'.todo = job.todo
  <2>1. job \in Jobs /\ "ingesting" \in Steps
    BY ImportTyped DEF Steps
  <2> QED BY <1>1, <2>1, JobMoved
<1>4. ImportTypeOK'
  BY <1>1, <1>2, <1>3 DEF ImportTypeOK
<1>5. AnswersOK' /\ DiscoveryOK'
  BY <1>1, <1>2, <1>3, StillInHand DEF Acquiring, JobAt
<1>6. WrittenOK'
  <2>1. work'.written = 0
    BY <1>1, <1>2 DEF WrittenOK, JobAt
  <2>2. 1 .. work'.written = {}
    BY <2>1
  <2> QED BY <1>2, <1>3, <2>2 DEF WrittenOK, JobAt
<1> QED BY <1>1, <1>4, <1>5, <1>6, LibraryKept, Assembled

LEMMA ChainIs ==
  /\ Len(Chain) = 6
  /\ \A i \in 1 .. 6 : Chain[i] = "document" \/ Chain[i] \in Artifacts
  /\ \A a \in Artifacts : \E i \in 1 .. 6 : Chain[i] = a
  /\ Chain[5] = "document" /\ "document" \notin Artifacts
<1>1. Len(Chain) = 6 /\ Chain[5] = "document" /\ "document" \notin Artifacts
  BY DEF Chain, Artifacts
<1>2. /\ Chain[1] = "raw" /\ Chain[2] = "canonical" /\ Chain[3] = "source"
      /\ Chain[4] = "ingestion" /\ Chain[6] = "representation"
  BY DEF Chain
<1>3. \A i \in 1 .. 6 : i = 1 \/ i = 2 \/ i = 3 \/ i = 4 \/ i = 5 \/ i = 6
  OBVIOUS
<1>4. \A i \in 1 .. 6 : Chain[i] = "document" \/ Chain[i] \in Artifacts
  BY <1>1, <1>2, <1>3 DEF Artifacts
<1>5. 1 \in 1 .. 6 /\ 2 \in 1 .. 6 /\ 3 \in 1 .. 6 /\ 4 \in 1 .. 6 /\ 6 \in 1 .. 6
  OBVIOUS
<1>6. \A a \in Artifacts : \E i \in 1 .. 6 : Chain[i] = a
  BY <1>2, <1>5 DEF Artifacts
<1> QED BY <1>1, <1>4, <1>6

LEMMA WriteKeeps == ASSUME ImportInv, Write PROVE ImportInv'
<1> USE ImportParts
<1> DEFINE n == work.written + 1
<1>1. /\ JobAt("ingesting") /\ work.written < Len(Chain)
      /\ work' = [work EXCEPT !.written = work.written + 1]
      /\ UNCHANGED <<job, results, links, walk, snapshot, record>>
  BY DEF Write, Others
<1>2. work \in Works /\ work.written \in 0 .. 6 /\ n \in 1 .. 6
  <2>1. work \in Works /\ work.written \in 0 .. Len(Chain)
    BY ImportTyped DEF Works
  <2>2. work.written \in 0 .. 6 /\ work.written < 6
    BY <1>1, <2>1, ChainIs
  <2> QED BY <2>1, <2>2
<1>3. /\ work' \in Works /\ work'.written = n /\ work'.res = work.res
      /\ work'.lit = work.lit /\ work'.medium = work.medium
  <2>1. n \in 0 .. Len(Chain)
    BY <1>2, ChainIs
  <2> HIDE DEF n
  <2>2. work' = [work EXCEPT !.written = n]
    BY <1>1 DEF n
  <2> QED BY <1>2, <2>1, <2>2 DEF Works
<1>4. /\ work.lit \in Literature /\ work.medium \in Media
      /\ \A i \in 1 .. work.written :
           IF Chain[i] = "document" THEN document[work.lit] # "none"
           ELSE Chain[i] \in stored[work.lit][work.medium]
  BY <1>1 DEF WrittenOK
<1>5. /\ stored' \in [Literature -> [Media -> SUBSET Artifacts]]
      /\ document' \in [Literature -> Media \cup {"none"}]
      /\ \A k \in Literature, m \in Media : stored[k][m] \subseteq stored'[k][m]
      /\ \A k \in Literature : document[k] # "none" => document'[k] # "none"
      /\ IF Chain[n] = "document" THEN document'[work.lit] # "none"
         ELSE Chain[n] \in stored'[work.lit][work.medium]
  <2>1. CASE Chain[n] = "document"
    <3>1. /\ document' = [document EXCEPT ![work.lit] = Finalized(work.lit, work.medium)]
          /\ UNCHANGED stored
      BY <2>1 DEF Write
    <3>2. /\ document \in [Literature -> Media \cup {"none"}]
          /\ stored \in [Literature -> [Media -> SUBSET Artifacts]]
      BY ImportTyped
    <3>3. Finalized(work.lit, work.medium) \in Media
      BY <1>4, <3>2 DEF Finalized
    <3>4. "none" \notin Media
      BY DEF Media
    <3> QED BY <1>4, <2>1, <3>1, <3>2, <3>3, <3>4
  <2>2. CASE Chain[n] # "document"
    <3>1. /\ stored' = [stored EXCEPT ![work.lit][work.medium] = @ \cup {Chain[n]}]
          /\ UNCHANGED document
      BY <2>2 DEF Write
    <3>2. Chain[n] \in Artifacts
      BY <1>2, <2>2, ChainIs
    <3> HIDE DEF n
    <3>3. /\ stored' \in [Literature -> [Media -> SUBSET Artifacts]]
          /\ Chain[n] \in stored'[work.lit][work.medium]
          /\ \A k \in Literature, m \in Media : stored[k][m] \subseteq stored'[k][m]
      BY <1>4, <3>1, <3>2, ArtifactStored
    <3> QED BY <2>2, <3>1, <3>3, ImportTyped
  <2> QED BY <2>1, <2>2
<1>6. ImportTypeOK'
  BY <1>1, <1>3, <1>5 DEF ImportTypeOK
<1>7. AnswersOK' /\ DiscoveryOK'
  BY <1>1, <1>3, StillInHand DEF Acquiring, JobAt
<1>8. WrittenOK'
  <2>1. ASSUME NEW i \in 1 .. n
        PROVE  IF Chain[i] = "document" THEN document'[work.lit] # "none"
               ELSE Chain[i] \in stored'[work.lit][work.medium]
    <3>1. i = n \/ i \in 1 .. work.written
      BY <1>2
    <3>2. CASE i = n
      BY <1>5, <3>2
    <3>3. CASE i \in 1 .. work.written
      <4> HIDE DEF n
      <4> QED BY <1>4, <1>5, <3>3
    <3> QED BY <3>1, <3>2, <3>3
  <2> HIDE DEF n
  <2> QED BY <1>1, <1>3, <1>4, <2>1 DEF WrittenOK, JobAt
<1> QED BY <1>1, <1>5, <1>6, <1>7, <1>8, LibraryGrows, Assembled

LEMMA IngestedKeeps == ASSUME ImportInv, Ingested PROVE ImportInv'
<1> USE ImportParts
<1> DEFINE link == [res |-> work.res, lit |-> work.lit, medium |-> work.medium]
<1>1. /\ JobAt("ingesting") /\ work.written = Len(Chain) /\ Acquiring
      /\ Answer("ingested", {link}) /\ links' = links \cup {link}
      /\ UNCHANGED <<stored, document, walk, snapshot, record>>
  BY DEF Ingested, library, Others, Acquiring, JobAt, Answer
<1>2. "ingested" \in Outcomes \ {"unverified"}
  BY DEF Outcomes
<1>3. work.lit \in Literature /\ work.medium \in Media /\ work.res \in Resources
  BY <1>1, InHand DEF WrittenOK
<1>4. stored[work.lit][work.medium] = Artifacts /\ document[work.lit] # "none"
  <2>1. \A i \in 1 .. 6 :
          IF Chain[i] = "document" THEN document[work.lit] # "none"
          ELSE Chain[i] \in stored[work.lit][work.medium]
    BY <1>1, ChainIs DEF WrittenOK
  <2>2. Artifacts \subseteq stored[work.lit][work.medium]
    BY <2>1, ChainIs
  <2>3. stored[work.lit][work.medium] \in SUBSET Artifacts
    BY <1>3, ImportTyped
  <2>4. 5 \in 1 .. 6
    OBVIOUS
  <2>5. document[work.lit] # "none"
    BY <2>1, <2>4, ChainIs
  <2> QED BY <2>2, <2>3, <2>5
<1>5. ImportTypeOK' /\ AnswersOK' /\ DiscoveryOK' /\ WrittenOK'
  <2>1. /\ job' \in Jobs /\ work' \in Works /\ results' \in Results
        /\ AnswersOK' /\ DiscoveryOK' /\ WrittenOK'
    <3> HIDE DEF link
    <3> QED BY <1>1, <1>2, AnswerGiven
  <2>2. links' \subseteq [res : Resources, lit : Literature, medium : Media]
    BY <1>1, <1>3, ImportTyped
  <2> QED BY <1>1, <2>1, <2>2 DEF ImportTypeOK
<1>6. Kept'
  <2>1. EveryResourceAnswered'
    BY <1>1 DEF EveryResourceAnswered
  <2>2. \A k \in links' : stored'[k.lit][k.medium] = Artifacts /\ document'[k.lit] # "none"
    BY <1>1, <1>4 DEF IngestedIsBacked
  <2> QED BY <1>1, <2>1, <2>2 DEF IngestedIsBacked, Kept
<1> QED BY <1>5, <1>6, Assembled

-----------------------------------------------------------------------------
(* run. *)

\* An import that is over, or was killed, leaves nothing behind.
LEMMA NothingLeft ==
  ASSUME job' = NoJob, snapshot' = NoSnapshot, results' = NoResults, links' = {}
  PROVE  DiscoveryOK' /\ job'.step = "idle"
BY DEF DiscoveryOK, JobAt, NoJob

LEMMA CloseKeeps == ASSUME ImportInv, Close PROVE ImportInv'
<1> USE ImportParts
<1>1. /\ JobAt("importing") /\ job.todo = {}
      /\ record' = [status |-> ImportStatus, snapshot |-> snapshot, results |-> results,
                    members |-> Members]
      /\ job' = NoJob /\ snapshot' = NoSnapshot /\ results' = NoResults /\ links' = {}
      /\ UNCHANGED <<walk, work, stored, document>>
  BY DEF Close, library
<1>2. Members \subseteq Literature
  BY ImportTyped DEF Members
<1>3. ImportStatus \in {"auth", "failed", "complete", "partial"}
  BY DEF ImportStatus
<1>4. ImportTypeOK'
  <2>1. record' \in ImportRecords
    BY <1>1, <1>2, <1>3, ImportTyped DEF ImportRecords
  <2> QED BY <1>1, <2>1, NothingTyped DEF ImportTypeOK
<1>5. EveryResourceAnswered'
  <2>1. Waiting = {} /\ Batch
    BY <1>1 DEF Waiting, Acquiring, Batch, JobAt
  <2>2. \A r \in Resources :
          /\ results[r] = "none" <=> snapshot.class[r] = "absent"
          /\ results[r] = "unverified" <=> snapshot.class[r] = "unverified"
    BY <2>1 DEF AnswersOK
  <2>3. ImportStatus = "complete" => snapshot.status = "proven_complete"
    BY DEF ImportStatus
  <2> QED BY <1>1, <2>2, <2>3 DEF EveryResourceAnswered
<1>6. IngestedIsBacked'
  <2>1. ASSUME NEW l \in record'.members
        PROVE  \E m \in Media : stored'[l][m] = Artifacts
    <3>1. PICK link \in links : link.lit = l
      BY <1>1 DEF Members
    <3>2. link.medium \in Media
      BY ImportTyped
    <3> QED BY <1>1, <3>1, <3>2 DEF IngestedIsBacked
  <2> QED BY <1>1, <2>1 DEF IngestedIsBacked
<1>7. Kept'
  BY <1>5, <1>6 DEF Kept
<1> QED BY <1>1, <1>4, <1>7, NothingLeft, NoAnswersOwed, Assembled DEF JobAt

LEMMA KillImportKeeps == ASSUME ImportInv, KillImport PROVE ImportInv'
<1> USE ImportParts
<1>1. /\ job' = NoJob /\ walk' = NoWalk /\ snapshot' = NoSnapshot /\ work' = NoWork
      /\ results' = NoResults /\ links' = {}
      /\ UNCHANGED <<stored, document, record>>
  BY DEF KillImport, library
<1>2. ImportTypeOK'
  BY <1>1, NothingTyped DEF ImportTypeOK
<1> QED BY <1>1, <1>2, NothingLeft, LibraryKept, NoAnswersOwed, Assembled

-----------------------------------------------------------------------------
(* The theorems. *)

LEMMA ImportInitInv == ImportInit => ImportInv
<1> SUFFICES ASSUME ImportInit PROVE ImportInv
  OBVIOUS
<1>1. /\ job = NoJob /\ walk = NoWalk /\ snapshot = NoSnapshot /\ work = NoWork
      /\ results = NoResults /\ links = {} /\ record = NoRecord
      /\ stored = [l \in Literature |-> [m \in Media |-> {}]]
      /\ document = [l \in Literature |-> "none"]
  BY DEF ImportInit
<1>2. ImportTypeOK
  BY <1>1, NothingTyped DEF ImportTypeOK
<1>3. job.step = "idle" /\ job.todo = {} /\ work.written = 0
  BY <1>1 DEF NoJob, NoWork
<1>4. DiscoveryOK
  BY <1>1, <1>3 DEF DiscoveryOK, JobAt
<1>5. AnswersOK /\ WrittenOK
  BY <1>3 DEF AnswersOK, WrittenOK, Batch, Acquiring, JobAt
<1>6. record.status = "none" /\ record.members = {}
  BY <1>1 DEF NoRecord
<1>7. EveryResourceAnswered /\ IngestedIsBacked
  BY <1>1, <1>6 DEF EveryResourceAnswered, IngestedIsBacked
<1> QED BY <1>2, <1>4, <1>5, <1>7 DEF ImportInv

LEMMA TraverseKeeps == ASSUME ImportInv, Traverse PROVE ImportInv'
<1>1. CASE \E auth \in BOOLEAN : FetchFails(auth)
  BY <1>1, FetchFailsKeeps
<1>2. CASE \E page \in Contents : FetchPage(page)
  BY <1>2, FetchPageKeeps
<1>3. CASE EntryOutside \/ Classify \/ Release
  BY <1>3, EntryOutsideKeeps, ClassifyKeeps, ReleaseKeeps
<1> QED BY <1>1, <1>2, <1>3 DEF Traverse

LEMMA AcquireKeeps == ASSUME ImportInv, Acquire PROVE ImportInv'
<1>1. CASE \E r \in Resources : Take(r)
  BY <1>1, TakeKeeps
<1>2. CASE \E outcome \in {"failed", "auth", "unavailable"} : ResolveFails(outcome)
  BY <1>2, ResolveFailsKeeps
<1>3. CASE \E found \in Candidates : Resolve(found) \/ DiscoverLanding(found)
  BY <1>3, ResolveKeeps, DiscoverLandingKeeps
<1>4. CASE \E m \in Media, why \in Failures : CandidateFails(m, why)
  BY <1>4, CandidateFailsKeeps
<1>5. CASE \E l \in Literature : ExtractionFails(l) \/ \E m \in Media : Ingest(m, l)
  BY <1>5, ExtractionFailsKeeps, IngestKeeps
<1>6. CASE \E code \in {"auth", "hard", "soft"} : LandingFails(code)
  BY <1>6, LandingFailsKeeps
<1>7. CASE GiveUp \/ Write \/ Ingested \/ Raises
  BY <1>7, GiveUpKeeps, WriteKeeps, IngestedKeeps, RaisesKeeps
<1> QED BY <1>1, <1>2, <1>3, <1>4, <1>5, <1>6, <1>7 DEF Acquire

LEMMA ImportStuttered == ImportInv /\ UNCHANGED importVars => ImportInv'
<1> SUFFICES ASSUME ImportInv, UNCHANGED importVars PROVE ImportInv'
  OBVIOUS
<1> USE ImportParts
<1>1. UNCHANGED <<job, walk, snapshot, work, results, links, stored, document, record>>
  BY DEF importVars
<1>2. ImportTypeOK'
  BY <1>1 DEF ImportTypeOK
<1>3. KnownPages' = KnownPages /\ Admitted' = Admitted /\ Completeness' = Completeness
  BY <1>1 DEF KnownPages, Recorded, Admitted, Completeness, AllReasons, Retrieved
<1>4. TraversalOK' = TraversalOK /\ RoomOK' = RoomOK /\ DecisionsOK' = DecisionsOK
  BY <1>1, <1>3 DEF TraversalOK, RoomOK, DecisionsOK
<1>5. DiscoveryOK'
  BY <1>1, <1>3, <1>4 DEF DiscoveryOK, JobAt
<1>6. Waiting' = Waiting /\ Discovered' = Discovered /\ Batch' = Batch /\ Acquiring' = Acquiring
  BY <1>1 DEF Waiting, Discovered, Batch, Acquiring
<1>7. AnswersOK'
  BY <1>1, <1>6 DEF AnswersOK
<1>8. WrittenOK'
  BY <1>1 DEF WrittenOK, JobAt
<1>9. Kept'
  BY <1>1, LibraryKept
<1> QED BY <1>2, <1>5, <1>7, <1>8, <1>9, Assembled

LEMMA ImportNextInv == ImportInv /\ [ImportNext]_importVars => ImportInv'
<1> SUFFICES ASSUME ImportInv, [ImportNext]_importVars PROVE ImportInv'
  OBVIOUS
<1>1. CASE \E policy \in Policies : Start(policy)
  BY <1>1, StartKeeps
<1>2. CASE Traverse \/ Acquire \/ Close \/ KillImport
  BY <1>2, TraverseKeeps, AcquireKeeps, CloseKeeps, KillImportKeeps
<1>3. CASE UNCHANGED importVars
  BY <1>3, ImportStuttered
<1> QED BY <1>1, <1>2, <1>3 DEF ImportNext

\* The inductive invariant holds in every import, for any number of pages and
\* resources, whatever the limits, the answers of the web and the kills.
THEOREM ImportInvariant == ImportSpec => []ImportInv
<1>1. ImportInit => ImportInv
  BY ImportInitInv
<1>2. ImportInv /\ [ImportNext]_importVars => ImportInv'
  BY ImportNextInv
<1> QED BY <1>1, <1>2, PTL DEF ImportSpec

\* The locals of discover and add, the results and the library keep their types.
THEOREM ImportTypeCorrect == ImportSpec => []ImportTypeOK
<1>1. ImportInv => ImportTypeOK
  BY ImportParts
<1> QED BY <1>1, ImportInvariant, PTL

\* A proven complete collection was retrieved completely: the entry page and
\* every link of a page were retrieved, every resource a page names is in the
\* snapshot (discover, _extract_page and the limits of the scope policy).
THEOREM ProvenHolds == ImportSpec => []ProvenIsExhaustive
<1>1. ImportInv => ProvenIsExhaustive
  <2> SUFFICES ASSUME ImportInv, JobAt("snapshot"), snapshot.status = "proven_complete"
               PROVE  /\ 1 \in Retrieved /\ walk.linked \subseteq Retrieved
                      /\ \A mention \in walk.seen : mention[1] \in Discovered
    BY DEF ProvenIsExhaustive
  <2> USE ImportParts
  <2>1. TraversalOK /\ snapshot.class = walk.class /\ snapshot.status = Completeness
    BY DEF DiscoveryOK, JobAt
  <2>2. AllReasons = {}
    BY <2>1 DEF Completeness
  <2>3. walk.reasons = {} /\ walk.queue = {} /\ ~walk.dropped
    BY <2>2 DEF AllReasons
  <2>4. KnownPages = Recorded
    BY <2>3 DEF KnownPages
  <2>5. walk.page \in [Pages -> {"unseen", "ok", "failed"}] /\ walk.seen \in Mentions
    BY ImportTyped DEF Walks
  <2>6. 1 \in Recorded /\ walk.linked \subseteq Recorded /\ \A p \in Pages : walk.page[p] # "failed"
    BY <2>1, <2>3, <2>4 DEF TraversalOK
  <2>7. Recorded = Retrieved
    BY <2>5, <2>6 DEF Recorded, Retrieved
  <2>8. ASSUME NEW mention \in walk.seen PROVE mention[1] \in Discovered
    <3>1. mention \in Resources \X {"unverified", "eligible"}
      BY <2>5 DEF Mentions
    <3>2. mention = <<mention[1], mention[2]>> /\ mention[1] \in Resources
          /\ mention[2] \in {"unverified", "eligible"}
      BY <3>1
    <3>3. walk.class[mention[1]] # "absent"
      BY <2>1, <2>3, <3>2 DEF TraversalOK
    <3> QED BY <2>1, <3>2, <3>3 DEF Discovered
  <2> QED BY <2>6, <2>7, <2>8
<1> QED BY <1>1, ImportInvariant, PTL

\* A resource of the snapshot is a member exactly when some page it was found
\* on makes it one, in whatever order the pages come and whatever the limit
\* on resources dropped.
THEOREM StrongestHolds == ImportSpec => []StrongestDecision
<1>1. ImportInv => StrongestDecision
  <2> SUFFICES ASSUME ImportInv, JobAt("snapshot"), NEW r \in Discovered
               PROVE  snapshot.class[r] = "eligible" <=> <<r, "eligible">> \in walk.seen
    BY DEF StrongestDecision
  <2>1. DecisionsOK /\ snapshot.class = walk.class
    BY ImportParts DEF DiscoveryOK, JobAt
  <2> QED BY <2>1 DEF DecisionsOK, Discovered
<1> QED BY <1>1, ImportInvariant, PTL

\* An import record has one result for every discovered resource, and says
\* complete only of a proven complete collection.
THEOREM ResourcesAnswered == ImportSpec => []EveryResourceAnswered
<1>1. ImportInv => EveryResourceAnswered
  BY ImportParts
<1> QED BY <1>1, ImportInvariant, PTL

\* What an import calls ingested has its whole chain in the library, whatever
\* earlier imports left half done.
THEOREM IngestedBacked == ImportSpec => []IngestedIsBacked
<1>1. ImportInv => IngestedIsBacked
  BY ImportParts
<1> QED BY <1>1, ImportInvariant, PTL
=============================================================================
