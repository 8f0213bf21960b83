--------------------------- MODULE RunStore_proofs ---------------------------
(***************************************************************************)
(* Proofs about RunStore.                                                  *)
(***************************************************************************)
EXTENDS RunStore, TLAPS

-----------------------------------------------------------------------------
(* The inductive invariant. *)

Saving == {"saving", "checked", "opening", "history", "replacing"}
Working == {"advancing", "creating", "writing", "binding", "claiming"}

\* Where a call is says which call it is and what follows its save.
Control(c) ==
  /\ c.op = "none" <=> c.pc = "idle"
  /\ c.then = "none" <=> c.pc \notin Saving
  /\ c.then = "return" => c.op = "export"
  /\ c.then = "locking" => c.op = "start" /\ c.copy = 1
  /\ c.then = "advancing" => c.op \in {"start", "resume"}
  /\ c.op = "export" => c.pc \in Saving \cup {"advancing"}
  /\ c.pc = "reading" => c.op = "resume"

\* What HistoryComplete says of one of the contents it names.
HistoryOK(v) ==
  /\ history[v] # Unwritten
  /\ ~broken /\ MadeInside(v) => history[v] = "complete"

\* A call that has read or made contents of run.json holds a copy of them.
\* What it works from was stored; what it saves, it made inside the lock, or as
\* a new run, or as an export.
Copy(c) ==
  /\ c.pc \in Saving \cup Working \/ (c.pc = "locking" /\ c.op = "start") =>
       c.copy \in DOMAIN made
  /\ c.pc \in Working \/ (c.pc = "locking" /\ c.op = "start") => HistoryOK(c.copy)
  /\ c.pc \in Saving =>
       /\ MadeInside(c.copy) => c.then = "advancing"
       /\ c.then = "return" => made[c.copy].kind = "exported"

\* What the save knows of the history file: inside the lock, that it is still
\* not there when the look said so.
Saves(c) ==
  /\ c.pc \in {"checked", "opening"} /\ ~broken /\ MadeInside(c.copy) =>
       history[c.copy] = Unwritten
  /\ c.pc = "history" => history[c.copy] # Unwritten
  /\ c.pc = "replacing" => HistoryOK(c.copy)

\* The same of the artifact, which only a call inside the lock writes.
Writes(c) ==
  ~broken =>
    /\ c.pc = "creating" => artifact = Unwritten
    /\ c.pc = "writing" => artifact = Partial
    /\ c.pc = "binding" => artifact = c.content

\* The contents a resume works from: those it read or saved last.
Base(c) == IF c.pc \in Saving THEN made[c.copy].from ELSE c.copy

\* While the lock holds, a resume works from what is stored, or an export or a
\* start that found no run has stored something over it.
FromStored(c) ==
  c.op = "resume" /\ c.pc \in Saving \cup Working =>
    /\ runFile # 0
    /\ ~broken => Base(c) = runFile \/ made[runFile].kind = "exported" \/ runFile = 1

CallOK(c) ==
  /\ Control(c)
  /\ Copy(c)
  /\ Saves(c)
  /\ Writes(c)
  /\ FromStored(c)

\* The lock has one holder, until somebody takes it away.
LockHeld == ~broken => \A p \in Procs : Inside(p) => lock = p

IInv ==
  /\ TypeOK
  /\ made[1] = Created
  /\ Named \subseteq DOMAIN made
  /\ HistoryComplete
  /\ BindingsHold
  /\ \A p \in Procs : CallOK(proc[p])
  /\ LockHeld

-----------------------------------------------------------------------------
(* What a step does to the calls. *)

PCs == {"idle", "locking", "reading", "saving", "checked", "opening", "history", "replacing",
        "advancing", "creating", "writing", "binding", "claiming"}
Thens == {"none", "locking", "advancing", "return"}

\* The step leaves p in this state and the other calls alone.
Now(p, op, pc, then, copy, content) ==
  /\ proc' \in [Procs -> Call]
  /\ proc'[p].op = op /\ proc'[p].pc = pc /\ proc'[p].then = then
  /\ proc'[p].copy = copy /\ proc'[p].content = content
  /\ \A q \in Procs : q # p => proc'[q] = proc[q]

LEMMA Becomes ==
  ASSUME TypeOK, NEW p \in Procs, NEW c \in Call, proc' = [proc EXCEPT ![p] = c]
  PROVE  Now(p, c.op, c.pc, c.then, c.copy, c.content)
BY DEF TypeOK, Now

LEMMA Fields ==
  ASSUME NEW c \in Call
  PROVE  /\ c.op \in {"none", "start", "resume", "export"} /\ c.pc \in PCs
         /\ c.then \in Thens /\ c.copy \in 0 .. MaxVersions /\ c.index \in 0 .. MaxClaims
         /\ c.content \in Contents \cup {Unwritten}
BY DEF Call, PCs, Thens

LEMMA Called ==
  /\ Idle \in Call /\ Idle.op = "none" /\ Idle.pc = "idle"
  /\ Idle.then = "none" /\ Idle.copy = 0 /\ Idle.content = Unwritten
BY StoreAssumption DEF Idle, Call

\* A call that moves, perhaps with an answer for the artifact.
LEMMA AnswerMoves ==
  ASSUME TypeOK, NEW p \in Procs, NEW pc \in PCs, NEW content \in Contents \cup {Unwritten},
         Answer(p, pc, content)
  PROVE  Now(p, proc[p].op, pc, proc[p].then, proc[p].copy, content)
<1> DEFINE d == [proc[p] EXCEPT !.pc = pc, !.content = content]
<1>1. proc' = [proc EXCEPT ![p] = d]
  BY DEF Answer
<1>2. proc[p] \in Call
  BY DEF TypeOK
<1>3. /\ d \in Call /\ d.op = proc[p].op /\ d.pc = pc /\ d.then = proc[p].then
      /\ d.copy = proc[p].copy /\ d.content = content
  BY <1>2 DEF Call, PCs
<1> HIDE DEF d
<1> QED BY <1>1, <1>3, Becomes

LEMMA GotoMoves ==
  ASSUME TypeOK, NEW p \in Procs, NEW pc \in PCs, Goto(p, pc)
  PROVE  Now(p, proc[p].op, pc, proc[p].then, proc[p].copy, proc[p].content)
<1> DEFINE d == [proc[p] EXCEPT !.pc = pc]
<1>1. proc' = [proc EXCEPT ![p] = d]
  BY DEF Goto
<1>2. proc[p] \in Call
  BY DEF TypeOK
<1>3. /\ d \in Call /\ d.op = proc[p].op /\ d.pc = pc /\ d.then = proc[p].then
      /\ d.copy = proc[p].copy /\ d.content = proc[p].content
  BY <1>2 DEF Call, PCs
<1> HIDE DEF d
<1> QED BY <1>1, <1>3, Becomes

LEMMA LeaveMoves ==
  ASSUME TypeOK, NEW p \in Procs, proc' = [proc EXCEPT ![p] = Idle]
  PROVE  Now(p, "none", "idle", "none", 0, Unwritten)
BY Called, Becomes

LEMMA StartMoves ==
  ASSUME TypeOK, NEW p \in Procs, Start(p)
  PROVE  \/ runFile = 0 /\ Now(p, "start", "saving", "locking", 1, Unwritten)
         \/ runFile # 0 /\ Now(p, "start", "locking", "none", runFile, Unwritten)
<1> USE DEF PCs, Thens
<1>1. 1 \in 0 .. MaxVersions /\ runFile \in 0 .. MaxVersions
  BY StoreAssumption DEF TypeOK
<1>2. CASE runFile = 0
  <2> DEFINE d == [Idle EXCEPT !.op = "start", !.pc = "saving", !.then = "locking", !.copy = 1]
  <2>1. proc' = [proc EXCEPT ![p] = d]
    BY <1>2 DEF Start
  <2>2. /\ d \in Call /\ d.op = "start" /\ d.pc = "saving" /\ d.then = "locking"
        /\ d.copy = 1 /\ d.content = Unwritten
    BY <1>1, Called DEF Call
  <2> HIDE DEF d
  <2> QED BY <1>2, <2>1, <2>2, Becomes
<1>3. CASE runFile # 0
  <2> DEFINE d == [Idle EXCEPT !.op = "start", !.pc = "locking", !.copy = runFile]
  <2>1. proc' = [proc EXCEPT ![p] = d]
    BY <1>3 DEF Start
  <2>2. /\ d \in Call /\ d.op = "start" /\ d.pc = "locking" /\ d.then = "none"
        /\ d.copy = runFile /\ d.content = Unwritten
    BY <1>1, Called DEF Call
  <2> HIDE DEF d
  <2> QED BY <1>3, <2>1, <2>2, Becomes
<1> QED
  BY <1>2, <1>3

LEMMA ResumeMoves ==
  ASSUME TypeOK, NEW p \in Procs, Resume(p)
  PROVE  Now(p, "resume", "locking", "none", 0, Unwritten)
<1> DEFINE d == [Idle EXCEPT !.op = "resume", !.pc = "locking"]
<1>1. proc' = [proc EXCEPT ![p] = d]
  BY DEF Resume
<1>2. /\ d \in Call /\ d.op = "resume" /\ d.pc = "locking" /\ d.then = "none"
      /\ d.copy = 0 /\ d.content = Unwritten
  BY Called DEF Call
<1> HIDE DEF d
<1> QED BY <1>1, <1>2, Becomes

LEMMA ExportMoves ==
  ASSUME TypeOK, NEW p \in Procs, Export(p)
  PROVE  Now(p, "export", "advancing", "none", runFile, Unwritten)
<1> DEFINE d == [Idle EXCEPT !.op = "export", !.pc = "advancing", !.copy = runFile]
<1>1. proc' = [proc EXCEPT ![p] = d]
  BY DEF Export
<1>2. runFile \in 0 .. MaxVersions
  BY StoreAssumption DEF TypeOK
<1>3. /\ d \in Call /\ d.op = "export" /\ d.pc = "advancing" /\ d.then = "none"
      /\ d.copy = runFile /\ d.content = Unwritten
  BY <1>2, Called DEF Call
<1> HIDE DEF d
<1> QED BY <1>1, <1>3, Becomes

LEMMA ReadMoves ==
  ASSUME TypeOK, NEW p \in Procs, proc' = [proc EXCEPT ![p].pc = "advancing", ![p].copy = runFile]
  PROVE  Now(p, proc[p].op, "advancing", proc[p].then, runFile, proc[p].content)
<1> DEFINE d == [proc[p] EXCEPT !.pc = "advancing", !.copy = runFile]
<1>1. proc' = [proc EXCEPT ![p] = d]
  OBVIOUS
<1>2. proc[p] \in Call /\ runFile \in 0 .. MaxVersions
  BY StoreAssumption DEF TypeOK
<1>3. /\ d \in Call /\ d.op = proc[p].op /\ d.pc = "advancing" /\ d.then = proc[p].then
      /\ d.copy = runFile /\ d.content = proc[p].content
  BY <1>2 DEF Call
<1> HIDE DEF d
<1> QED BY <1>1, <1>3, Becomes

LEMMA ReplaceMoves ==
  ASSUME TypeOK, NEW p \in Procs, proc[p].then \in PCs,
         proc' = [proc EXCEPT ![p].pc = proc[p].then, ![p].then = "none"]
  PROVE  Now(p, proc[p].op, proc[p].then, "none", proc[p].copy, proc[p].content)
<1> DEFINE d == [proc[p] EXCEPT !.pc = proc[p].then, !.then = "none"]
<1>1. proc' = [proc EXCEPT ![p] = d]
  OBVIOUS
<1>2. proc[p] \in Call
  BY DEF TypeOK
<1>3. /\ d \in Call /\ d.op = proc[p].op /\ d.pc = proc[p].then /\ d.then = "none"
      /\ d.copy = proc[p].copy /\ d.content = proc[p].content
  BY <1>2 DEF Call, PCs
<1> HIDE DEF d
<1> QED BY <1>1, <1>3, Becomes

LEMMA CountMoves ==
  ASSUME TypeOK, NEW p \in Procs, CountClaims(p)
  PROVE  Now(p, proc[p].op, "claiming", proc[p].then, proc[p].copy, proc[p].content)
<1> DEFINE d == [proc[p] EXCEPT !.pc = "claiming", !.index = Len(claims) + 1]
<1>1. proc' = [proc EXCEPT ![p] = d]
  BY DEF CountClaims
<1>2. proc[p] \in Call /\ Len(claims) + 1 \in 0 .. MaxClaims
  BY StoreAssumption DEF TypeOK, CountClaims
<1>3. /\ d \in Call /\ d.op = proc[p].op /\ d.pc = "claiming" /\ d.then = proc[p].then
      /\ d.copy = proc[p].copy /\ d.content = proc[p].content
  BY <1>2 DEF Call
<1> HIDE DEF d
<1> QED BY <1>1, <1>3, Becomes

LEMMA SaveMoves ==
  ASSUME TypeOK, NEW p \in Procs, NEW v \in 0 .. MaxVersions, NEW then \in Thens,
         SaveNext(p, v, then)
  PROVE  Now(p, proc[p].op, "saving", then, v, Unwritten)
<1> DEFINE d == [proc[p] EXCEPT !.pc = "saving", !.then = then, !.copy = v,
                                !.content = Unwritten]
<1>1. proc' = [proc EXCEPT ![p] = d]
  BY DEF SaveNext
<1>2. proc[p] \in Call
  BY DEF TypeOK
<1>3. /\ d \in Call /\ d.op = proc[p].op /\ d.pc = "saving" /\ d.then = then
      /\ d.copy = v /\ d.content = Unwritten
  BY <1>2 DEF Call, Thens
<1> HIDE DEF d
<1> QED BY <1>1, <1>3, Becomes

\* Making contents adds them at the end, unless they were made before, leaves
\* the earlier ones as they are, and goes on to save them.
MadeNow(p, kind, then, bound) ==
  /\ made' \in Seq(Version) /\ Len(made') \in 1 .. MaxVersions /\ Len(made) <= Len(made')
  /\ DOMAIN made \subseteq DOMAIN made'
  /\ \A u \in DOMAIN made : made'[u] = made[u]
  /\ \E v \in DOMAIN made' :
       /\ Now(p, proc[p].op, "saving", then, v, Unwritten)
       /\ made'[v] = [from |-> proc[p].copy, kind |-> kind, bound |-> bound]
       /\ \A u \in DOMAIN made' : u \in DOMAIN made \/ u = v

LEMMA MakeMoves ==
  ASSUME TypeOK, NEW p \in Procs, NEW kind \in Kinds, NEW then \in Thens,
         NEW bound \in Contents \cup {Unwritten}, Make(p, kind, then, bound)
  PROVE  MadeNow(p, kind, then, bound)
<1> DEFINE new == [from |-> proc[p].copy, kind |-> kind, bound |-> bound]
<1>1. /\ made \in Seq(Version) /\ Len(made) \in 1 .. MaxVersions /\ MaxVersions \in Nat
      /\ DOMAIN made = 1 .. Len(made) /\ proc[p] \in Call
  BY StoreAssumption DEF TypeOK
<1>2. new \in Version
  BY <1>1, Fields DEF Version
<1>3. CASE \E v \in DOMAIN made : made[v] = new /\ SaveNext(p, v, then) /\ UNCHANGED made
  <2>1. PICK v \in DOMAIN made : made[v] = new /\ SaveNext(p, v, then) /\ UNCHANGED made
    BY <1>3
  <2>2. v \in 0 .. MaxVersions
    BY <1>1, <2>1
  <2>3. Now(p, proc[p].op, "saving", then, v, Unwritten)
    BY <2>1, <2>2, SaveMoves
  <2> QED BY <1>1, <2>1, <2>3 DEF MadeNow
<1>4. CASE Len(made) < MaxVersions /\ made' = Append(made, new) /\ SaveNext(p, Len(made) + 1, then)
  <2>1. Now(p, proc[p].op, "saving", then, Len(made) + 1, Unwritten)
    <3>1. Len(made) + 1 \in 0 .. MaxVersions
      BY <1>1, <1>4
    <3> QED BY <1>4, <3>1, SaveMoves
  <2> HIDE DEF new
  <2>2. /\ made' \in Seq(Version) /\ Len(made') = Len(made) + 1
        /\ DOMAIN made' = DOMAIN made \cup {Len(made) + 1}
        /\ \A u \in DOMAIN made : made'[u] = made[u]
        /\ made'[Len(made) + 1] = new
    BY <1>1, <1>2, <1>4
  <2> QED BY <1>1, <1>4, <2>1, <2>2 DEF new, MadeNow
<1> QED
  BY <1>3, <1>4 DEF Make

-----------------------------------------------------------------------------
(* Type correctness. *)

\* run.json is replaced by the copy of a call, so that it stays a position in
\* made takes the invariant.
LEMMA TypeNext == IInv /\ [Next]_vars => TypeOK'
<1> SUFFICES ASSUME IInv, [Next]_vars PROVE TypeOK'
  OBVIOUS
<1> USE DEF IInv
<1>1. CASE UNCHANGED vars
  BY <1>1 DEF vars, TypeOK
<1>2. CASE RemoveLock
  BY <1>2 DEF RemoveLock, TypeOK
<1>3. ASSUME NEW p \in Procs,
             \/ Start(p) \/ Resume(p) \/ Export(p) \/ Refused(p) \/ Lock(p) \/ Read(p)
             \/ CompareHistory(p) \/ LookAgain(p) \/ OpenHistory(p) \/ EndHistory(p)
             \/ \E content \in Contents : CompareArtifact(p, content)
             \/ OpenArtifact(p) \/ EndArtifact(p)
             \/ CountClaims(p) \/ Claim(p) \/ Finish(p) \/ Kill(p)
      PROVE  TypeOK'
  <2> USE DEF Start, Resume, Export, Refused, Lock, Read, CompareHistory, LookAgain,
              OpenHistory, EndHistory, CompareArtifact, OpenArtifact, EndArtifact,
              CountClaims, Claim, Finish, Kill
  <2>1. proc' \in [Procs -> Call]
    <3>1. CASE Start(p) \/ Resume(p) \/ Export(p) \/ CountClaims(p)
      BY <3>1, StartMoves, ResumeMoves, ExportMoves, CountMoves DEF Now
    <3>2. CASE \/ Refused(p) \/ Read(p) \/ CompareHistory(p) \/ Claim(p) \/ Finish(p) \/ Kill(p)
               \/ \E content \in Contents : CompareArtifact(p, content)
      <4>1. \/ proc' = [proc EXCEPT ![p] = Idle]
            \/ proc' = [proc EXCEPT ![p].pc = "advancing", ![p].copy = runFile]
            \/ \E pc \in PCs : Goto(p, pc)
            \/ \E pc \in PCs : \E content \in Contents : Answer(p, pc, content)
        BY <3>2 DEF Leave, PCs
      <4> QED BY <4>1, LeaveMoves, ReadMoves, GotoMoves, AnswerMoves DEF Now
    <3>3. CASE \/ Lock(p) \/ LookAgain(p) \/ OpenHistory(p) \/ EndHistory(p)
               \/ OpenArtifact(p) \/ EndArtifact(p)
      <4>1. \E pc \in PCs : Goto(p, pc)
        BY <3>3 DEF PCs
      <4> QED BY <4>1, GotoMoves DEF Now
    <3> QED BY <1>3, <3>1, <3>2, <3>3
  <2>2. UNCHANGED <<made, runFile, broken>>
    BY <1>3
  <2>3. lock' \in Procs \cup {"free", "stale"}
    BY <1>3 DEF TypeOK, Leave
  <2>4. history' \in [1 .. MaxVersions -> {Unwritten, Partial, "complete"}]
    BY <1>3 DEF TypeOK
  <2>5. artifact' \in Contents \cup {Unwritten, Partial}
    <3>1. proc[p] \in Call
      BY DEF TypeOK
    <3> QED BY <1>3, <3>1, Fields DEF TypeOK
  <2>6. claims' \in Seq(SUBSET Procs)
    <3>1. claims' = claims \/ claims' = Append(claims, {p})
      BY <1>3
    <3>2. claims \in Seq(SUBSET Procs) /\ {p} \in SUBSET Procs
      BY DEF TypeOK
    <3> QED BY <3>1, <3>2
  <2> QED BY <2>1, <2>2, <2>3, <2>4, <2>5, <2>6 DEF TypeOK
<1>4. ASSUME NEW p \in Procs, ReplaceRun(p) PROVE TypeOK'
  <2>1. proc[p].copy \in DOMAIN made /\ Control(proc[p]) /\ At(p, "replacing")
    BY <1>4 DEF ReplaceRun, CallOK, Copy, At, Saving
  <2>2. proc[p].then \in {"locking", "advancing", "return"}
    BY <2>1, Fields DEF Control, TypeOK, Thens, At, Saving
  <2>3. proc' \in [Procs -> Call]
    BY <1>4, <2>2, LeaveMoves, ReplaceMoves DEF ReplaceRun, Leave, Now, PCs
  <2>4. lock' \in Procs \cup {"free", "stale"}
    BY <1>4 DEF ReplaceRun, Leave, TypeOK
  <2>5. UNCHANGED <<made, history, artifact, claims, broken>> /\ runFile' = proc[p].copy
    BY <1>4 DEF ReplaceRun
  <2>6. runFile' \in 0 .. Len(made')
    BY <2>1, <2>5 DEF TypeOK
  <2> QED BY <2>3, <2>4, <2>5, <2>6 DEF TypeOK
<1>5. ASSUME NEW p \in Procs, NEW kind \in Kinds, NEW then \in Thens,
             NEW bound \in Contents \cup {Unwritten}, Make(p, kind, then, bound)
      PROVE  TypeOK'
  <2>1. /\ proc' \in [Procs -> Call] /\ made' \in Seq(Version) /\ Len(made) <= Len(made')
        /\ Len(made') \in 1 .. MaxVersions
    BY <1>5, MakeMoves DEF MadeNow, Now
  <2>2. UNCHANGED <<runFile, history, artifact, claims, lock, broken>>
    BY <1>5 DEF Make
  <2>3. runFile' \in 0 .. Len(made')
    BY <2>1, <2>2 DEF TypeOK
  <2> QED BY <2>1, <2>2, <2>3 DEF TypeOK
<1>6. ASSUME NEW p \in Procs,
             \/ \E kind \in {"working", "approved"} : Advance(p, kind)
             \/ SaveExported(p) \/ BindArtifact(p)
      PROVE  TypeOK'
  <2>1. proc[p].copy \in DOMAIN made /\ proc[p] \in Call
    BY <1>6 DEF Advance, SaveExported, BindArtifact, At, CallOK, Copy, Working, TypeOK
  <2>2. made[proc[p].copy].bound \in Contents \cup {Unwritten}
    <3>1. made[proc[p].copy] \in Version
      BY <2>1 DEF TypeOK
    <3> QED BY <3>1 DEF Version
  <2> QED BY <1>5, <1>6, <2>1, <2>2, Fields DEF Advance, SaveExported, BindArtifact, Kinds, Thens
<1> QED
  BY <1>1, <1>2, <1>3, <1>4, <1>6 DEF Next

-----------------------------------------------------------------------------
(* The invariant. *)

\* A step that leaves the contents, run.json, the history and the artifact as
\* they are keeps the invariant when it leaves its own call in order.
LEMMA QuietStep ==
  ASSUME IInv, TypeOK', UNCHANGED <<made, runFile, history, artifact, broken>>, LockHeld',
         NEW p \in Procs, NEW op, NEW pc, NEW then, NEW copy, NEW content,
         Now(p, op, pc, then, copy, content), CallOK(proc'[p])
  PROVE  IInv'
<1>1. \A q \in Procs : CallOK(proc[q])'
  BY DEF IInv, Now, CallOK, Copy, HistoryOK, MadeInside, Saves, Writes, FromStored, Base
<1>2. HistoryComplete' /\ BindingsHold' /\ made'[1] = Created /\ Named' \subseteq DOMAIN made'
  BY DEF IInv, HistoryComplete, MadeInside, Named, BindingsHold
<1> QED
  BY <1>1, <1>2 DEF IInv, Created

\* A call outside the lock, or one that goes on inside, keeps the lock as it is.
LEMMA LockStays ==
  ASSUME IInv, NEW p \in Procs, NEW op, NEW pc, NEW then, NEW copy, NEW content,
         Now(p, op, pc, then, copy, content), UNCHANGED <<lock, broken>>,
         Inside(p)' => Inside(p)
  PROVE  LockHeld'
BY DEF IInv, LockHeld, Inside, Now

\* A call that returns from inside the lock frees it, and one that was killed
\* leaves it: while the lock holds, no other call is inside.
LEMMA LockLeft ==
  ASSUME IInv, NEW p \in Procs, Now(p, "none", "idle", "none", 0, Unwritten), UNCHANGED broken,
         \/ lock' = IF Inside(p) THEN "free" ELSE lock
         \/ lock' = IF lock = p THEN "stale" ELSE lock
  PROVE  LockHeld'
BY DEF IInv, LockHeld, Inside, Now

\* While the lock holds, one call saves what is made inside it or writes the
\* artifact.
LEMMA OneInside ==
  ASSUME IInv, ~broken, NEW p \in Procs, NEW q \in Procs, Inside(p), Inside(q)
  PROVE  p = q
BY DEF IInv, LockHeld

LEMMA SaverInside ==
  ASSUME IInv, NEW p \in Procs, proc[p].pc \in Saving, MadeInside(proc[p].copy)
  PROVE  Inside(p)
BY DEF IInv, CallOK, Control, Copy, Saving, Inside

LEMMA WriterInside ==
  ASSUME IInv, NEW p \in Procs, proc[p].pc \in {"creating", "writing", "binding", "claiming"}
  PROVE  Inside(p)
<1>1. proc[p] \in Call /\ Control(proc[p])
  BY DEF IInv, TypeOK, CallOK
<1> QED
  BY <1>1, Fields DEF Control, Saving, Inside

\* A call that returns or is killed.
LEMMA LeaveStep ==
  ASSUME IInv, TypeOK', NEW p \in Procs, proc' = [proc EXCEPT ![p] = Idle],
         UNCHANGED <<made, runFile, history, artifact, broken>>,
         \/ lock' = IF Inside(p) THEN "free" ELSE lock
         \/ lock' = IF lock = p THEN "stale" ELSE lock
  PROVE  IInv'
<1>1. Now(p, "none", "idle", "none", 0, Unwritten)
  BY LeaveMoves DEF IInv
<1>2. CallOK(proc'[p])
  BY <1>1 DEF Now, CallOK, Control, Copy, Saves, Writes, FromStored, Saving, Working
<1> QED
  BY <1>1, <1>2, LockLeft, QuietStep

\* A call begins outside the lock, with the contents it read or those it creates.
LEMMA CallStep ==
  ASSUME IInv, TypeOK', NEW p \in Procs, Start(p) \/ Resume(p) \/ Export(p)
  PROVE  IInv'
<1> USE DEF Now, CallOK, Control, Copy, HistoryOK, Saves, Writes, FromStored, Saving, Working
<1>1. UNCHANGED <<made, runFile, history, artifact, lock, broken>>
  BY DEF Start, Resume, Export
<1>2. 1 \in DOMAIN made /\ made[1] = Created /\ ~MadeInside(1)
  BY DEF IInv, TypeOK, MadeInside, Created
<1>3. runFile # 0 => runFile \in DOMAIN made /\ HistoryOK(runFile)
  BY DEF IInv, HistoryComplete, Named
<1>4. ~Inside(p)' => LockHeld'
  BY <1>1, StartMoves, ResumeMoves, ExportMoves, LockStays DEF IInv
<1>5. CASE Start(p)
  <2>1. CASE runFile = 0 /\ Now(p, "start", "saving", "locking", 1, Unwritten)
    <3>1. CallOK(proc'[p])
      BY <1>2, <2>1
    <3>2. LockHeld'
      BY <1>4, <2>1 DEF Inside
    <3> QED BY <1>1, <2>1, <3>1, <3>2, QuietStep
  <2>2. CASE runFile # 0 /\ Now(p, "start", "locking", "none", runFile, Unwritten)
    <3>1. CallOK(proc'[p])
      BY <1>3, <2>2
    <3>2. LockHeld'
      BY <1>4, <2>2 DEF Inside
    <3> QED BY <1>1, <2>2, <3>1, <3>2, QuietStep
  <2> QED BY <1>5, <2>1, <2>2, StartMoves DEF IInv
<1>6. CASE Resume(p)
  <2>1. Now(p, "resume", "locking", "none", 0, Unwritten)
    BY <1>6, ResumeMoves DEF IInv
  <2>2. CallOK(proc'[p])
    BY <2>1
  <2>3. LockHeld'
    BY <1>4, <2>1 DEF Inside
  <2> QED BY <1>1, <2>1, <2>2, <2>3, QuietStep
<1>7. CASE Export(p)
  <2>1. Now(p, "export", "advancing", "none", runFile, Unwritten) /\ runFile # 0
    BY <1>7, ExportMoves DEF IInv, Export
  <2>2. CallOK(proc'[p])
    BY <1>3, <2>1
  <2>3. LockHeld'
    BY <1>4, <2>1 DEF Inside
  <2> QED BY <1>1, <2>1, <2>2, <2>3, QuietStep
<1> QED
  BY <1>5, <1>6, <1>7

\* The lock is taken when it is free: while it holds, nobody else is inside.
\* What a start read before it waited is still a position of made.
LEMMA LockStep ==
  ASSUME IInv, TypeOK', NEW p \in Procs, Lock(p)
  PROVE  IInv'
<1>1. /\ At(p, "locking") /\ lock = "free" /\ lock' = p
      /\ UNCHANGED <<made, runFile, history, artifact, broken>>
  BY DEF Lock
<1>2. PICK pc \in {"advancing", "reading"} :
        /\ pc = IF proc[p].op = "start" THEN "advancing" ELSE "reading"
        /\ Now(p, proc[p].op, pc, proc[p].then, proc[p].copy, proc[p].content)
  BY GotoMoves DEF Lock, IInv, PCs
<1>3. proc[p] \in Call /\ CallOK(proc[p])
  BY DEF IInv, TypeOK
<1>4. CallOK(proc'[p])
  BY <1>1, <1>2, <1>3, Fields
     DEF Now, At, CallOK, Control, Copy, Saves, Writes, FromStored, Saving, Working
<1>5. LockHeld'
  BY <1>1, <1>2, StoreAssumption DEF IInv, LockHeld, Inside, Now
<1> QED
  BY <1>1, <1>2, <1>4, <1>5, QuietStep

\* A resume takes what is stored.
LEMMA ReadStep ==
  ASSUME IInv, TypeOK', NEW p \in Procs, Read(p)
  PROVE  IInv'
<1>1. At(p, "reading") /\ UNCHANGED <<made, runFile, history, artifact, broken>>
  BY DEF Read
<1>2. CASE runFile = 0
  BY <1>1, <1>2, LeaveStep DEF Read, Leave
<1>3. CASE runFile # 0
  <2>1. Now(p, proc[p].op, "advancing", proc[p].then, runFile, proc[p].content) /\ UNCHANGED lock
    BY <1>3, ReadMoves DEF Read, IInv
  <2>2. CallOK(proc[p]) /\ runFile \in DOMAIN made /\ HistoryOK(runFile)
    BY <1>3 DEF IInv, HistoryComplete, HistoryOK, Named
  <2>3. CallOK(proc'[p])
    BY <1>1, <1>3, <2>1, <2>2
       DEF Now, At, CallOK, Control, Copy, Saves, Writes, FromStored, Base, Saving, Working
  <2>4. LockHeld'
    BY <1>1, <2>1, <2>2, LockStays DEF Now, Inside, At, CallOK, Control, Saving
  <2> QED BY <1>1, <2>1, <2>3, <2>4, QuietStep
<1> QED
  BY <1>2, <1>3

\* The two looks at the history file, and the look at the artifact.
LEMMA LookStep ==
  ASSUME IInv, TypeOK', NEW p \in Procs,
         \/ CompareHistory(p) \/ LookAgain(p)
         \/ \E content \in Contents : CompareArtifact(p, content)
  PROVE  IInv'
<1> USE DEF CompareHistory, LookAgain, CompareArtifact
<1>1. UNCHANGED <<made, runFile, history, artifact, broken>>
  OBVIOUS
<1>2. proc[p] \in Call /\ CallOK(proc[p]) /\ TypeOK
  BY DEF IInv, TypeOK
<1>3. CASE Leave(p)
  BY <1>1, <1>3, LeaveStep DEF Leave
<1>4. ASSUME NEW pc \in {"checked", "opening", "replacing"}, Goto(p, pc), UNCHANGED lock,
             proc[p].pc \in {"saving", "checked"},
             pc = "replacing" => HistoryOK(proc[p].copy),
             pc # "replacing" => history[proc[p].copy] = Unwritten
      PROVE  IInv'
  <2>1. Now(p, proc[p].op, pc, proc[p].then, proc[p].copy, proc[p].content)
    BY <1>2, <1>4, GotoMoves DEF PCs
  <2>2. CallOK(proc'[p])
    BY <1>2, <1>4, <2>1
       DEF Now, CallOK, Control, Copy, Saves, Writes, FromStored, Base, Saving, Working
  <2>3. LockHeld'
    BY <1>1, <1>4, <2>1, LockStays DEF Now, Inside
  <2> QED BY <1>1, <2>1, <2>2, <2>3, QuietStep
<1>5. CASE CompareHistory(p) /\ ~Leave(p)
  <2>1. \/ history[proc[p].copy] = Unwritten /\ Goto(p, "checked") /\ UNCHANGED lock
        \/ history[proc[p].copy] = "complete" /\ Goto(p, "replacing") /\ UNCHANGED lock
    BY <1>5
  <2>2. history[proc[p].copy] = "complete" => HistoryOK(proc[p].copy)
    BY DEF HistoryOK, Unwritten
  <2> QED BY <1>4, <1>5, <2>1, <2>2 DEF At
<1>6. CASE LookAgain(p)
  <2>1. history[proc[p].copy] # Unwritten => HistoryOK(proc[p].copy)
    BY <1>2, <1>6 DEF HistoryOK, CallOK, Saves, At
  <2> QED BY <1>4, <1>6, <2>1 DEF At
<1>7. ASSUME NEW pc \in {"creating", "binding"}, NEW content \in Contents,
             Answer(p, pc, content), UNCHANGED lock, At(p, "advancing"), Inside(p),
             pc = "creating" => artifact = Unwritten,
             pc = "binding" => artifact = content
      PROVE  IInv'
  <2>1. Now(p, proc[p].op, pc, proc[p].then, proc[p].copy, content)
    BY <1>2, <1>7, AnswerMoves DEF PCs
  <2>2. CallOK(proc'[p])
    BY <1>2, <1>7, <2>1
       DEF Now, At, Inside, CallOK, Control, Copy, Saves, Writes, FromStored, Base, Saving, Working
  <2>3. LockHeld'
    BY <1>1, <1>7, <2>1, LockStays
  <2> QED BY <1>1, <2>1, <2>2, <2>3, QuietStep
<1>8. CASE (\E content \in Contents : CompareArtifact(p, content)) /\ ~Leave(p)
  BY <1>7, <1>8
<1> QED
  BY <1>3, <1>5, <1>6, <1>8 DEF Goto, Leave

\* Opening the history file empties it.  Inside the lock it was not there; what
\* other calls name or save outside is never said to be complete.
LEMMA HistoryStep ==
  ASSUME IInv, TypeOK', NEW p \in Procs, OpenHistory(p) \/ EndHistory(p)
  PROVE  IInv'
<1>1. UNCHANGED <<made, runFile, artifact, lock, broken>>
  BY DEF OpenHistory, EndHistory
<1>2. /\ proc[p] \in Call /\ CallOK(proc[p]) /\ TypeOK
      /\ proc[p].pc \in {"opening", "history"} /\ proc[p].copy \in 1 .. MaxVersions
  BY StoreAssumption DEF IInv, TypeOK, OpenHistory, EndHistory, CallOK, Copy, At, Saving
<1>3. PICK pc \in {"history", "replacing"}, mark \in {Partial, "complete"} :
        /\ Goto(p, pc) /\ history' = [history EXCEPT ![proc[p].copy] = mark]
        /\ pc = "history" => At(p, "opening") /\ mark = Partial
        /\ pc = "replacing" => mark = "complete"
  BY DEF OpenHistory, EndHistory
<1>4. Now(p, proc[p].op, pc, proc[p].then, proc[p].copy, proc[p].content)
  BY <1>2, <1>3, GotoMoves DEF PCs
<1>5. /\ history'[proc[p].copy] = mark /\ mark # Unwritten
      /\ \A v \in 1 .. MaxVersions : v # proc[p].copy => history'[v] = history[v]
  BY <1>2, <1>3 DEF TypeOK, Partial, Unwritten
<1>6. \A v : MadeInside(v)' <=> MadeInside(v)
  BY <1>1 DEF MadeInside
<1>7. ASSUME NEW v \in 1 .. MaxVersions, HistoryOK(v) PROVE HistoryOK(v)'
  <2>1. CASE v # proc[p].copy
    BY <1>1, <1>5, <1>6, <1>7, <2>1 DEF HistoryOK
  <2>2. CASE v = proc[p].copy
    <3>1. pc = "history" /\ ~broken /\ MadeInside(v) => FALSE
      BY <1>2, <1>3, <1>7, <2>2 DEF CallOK, Saves, At, HistoryOK, Unwritten
    <3> QED BY <1>1, <1>3, <1>5, <1>6, <2>2, <3>1 DEF HistoryOK
  <2> QED BY <2>1, <2>2
<1>8. CallOK(proc[p])'
  <2>1. /\ proc'[p].op = proc[p].op /\ proc'[p].pc = pc /\ proc'[p].then = proc[p].then
        /\ proc'[p].copy = proc[p].copy
    BY <1>4 DEF Now
  <2>2. HistoryOK(proc[p].copy)' \/ pc = "history"
    BY <1>3, <1>4, <1>5 DEF HistoryOK, Now
  <2>3. Control(proc[p])' /\ Copy(proc[p])'
    BY <1>1, <1>2, <1>3, <1>6, <2>1 DEF CallOK, Control, Copy, Saving, Working
  <2>4. Saves(proc[p])' /\ Writes(proc[p])'
    BY <1>1, <1>3, <1>5, <2>1, <2>2 DEF Saves, Writes
  <2>5. FromStored(proc[p])'
    BY <1>1, <1>2, <1>3, <2>1 DEF CallOK, FromStored, Base, Saving, Working
  <2> QED BY <2>3, <2>4, <2>5 DEF CallOK
<1>9. ASSUME NEW q \in Procs, q # p PROVE CallOK(proc[q])'
  <2>1. CallOK(proc[q]) /\ proc'[q] = proc[q] /\ proc[q] \in Call
    BY <1>4, <1>9 DEF IInv, Now, TypeOK
  <2>2. proc[q].copy \in DOMAIN made => proc[q].copy \in 1 .. MaxVersions
    BY <1>2, StoreAssumption DEF TypeOK
  <2>3. Copy(proc[q])'
    BY <1>1, <1>6, <1>7, <2>1, <2>2 DEF CallOK, Copy
  <2>4. Saves(proc[q])'
    <3>1. CASE proc[q].pc \in {"checked", "opening"} /\ ~broken /\ MadeInside(proc[q].copy)
      <4>1. Inside(q) /\ ~Inside(p)
        BY <1>9, <3>1, SaverInside, OneInside DEF Saving
      <4>2. proc[q].copy # proc[p].copy
        BY <1>2, <3>1, <4>1, SaverInside DEF Saving
      <4> QED BY <1>5, <2>1, <2>2, <3>1, <4>2 DEF CallOK, Copy, Saves, Saving
    <3>2. CASE ~(proc[q].pc \in {"checked", "opening"} /\ ~broken /\ MadeInside(proc[q].copy))
      <4>1. proc[q].pc = "history" => history'[proc[q].copy] # Unwritten
        BY <1>5, <2>1, <2>2 DEF CallOK, Copy, Saves, Saving
      <4> QED BY <1>1, <1>6, <1>7, <2>1, <2>2, <3>2, <4>1 DEF CallOK, Copy, Saves, Saving
    <3> QED BY <3>1, <3>2
  <2> QED BY <1>1, <2>1, <2>3, <2>4 DEF CallOK, Writes, FromStored, Base
<1>10. HistoryComplete' /\ Named' \subseteq DOMAIN made'
  <2>1. Named' = Named
    BY <1>1 DEF Named
  <2>2. DOMAIN made \subseteq 1 .. MaxVersions
    BY <1>2, StoreAssumption DEF TypeOK
  <2>3. Named \subseteq 1 .. MaxVersions
    BY <2>2 DEF IInv
  <2> QED BY <1>1, <1>7, <2>1, <2>3 DEF IInv, HistoryComplete, HistoryOK
<1>11. LockHeld'
  <2>1. Inside(p)' => Inside(p)
    BY <1>2, <1>3, <1>4 DEF Inside, Now
  <2> QED BY <1>1, <1>4, <2>1, LockStays
<1>12. BindingsHold' /\ made'[1] = Created
  BY <1>1 DEF IInv, BindingsHold
<1> QED
  BY <1>8, <1>9, <1>10, <1>11, <1>12 DEF IInv, Created

\* run.json is replaced by contents that have their history.  Inside the lock
\* only its holder replaces it; outside, an export or a new run does.
LEMMA ReplaceStep ==
  ASSUME IInv, TypeOK', NEW p \in Procs, ReplaceRun(p)
  PROVE  IInv'
<1>1. /\ At(p, "replacing") /\ runFile' = proc[p].copy
      /\ UNCHANGED <<made, history, artifact, broken>>
  BY DEF ReplaceRun
<1>2. /\ proc[p] \in Call /\ CallOK(proc[p]) /\ proc[p].copy \in DOMAIN made /\ TypeOK
      /\ HistoryOK(proc[p].copy) /\ proc[p].copy # 0
  BY <1>1 DEF IInv, TypeOK, CallOK, Copy, Saves, At, Saving
<1>3. HistoryComplete' /\ BindingsHold' /\ made'[1] = Created /\ Named' \subseteq DOMAIN made'
  <2>1. Named' \subseteq Named \cup {proc[p].copy}
    BY <1>1 DEF Named
  <2> QED BY <1>1, <1>2, <2>1 DEF IInv, HistoryComplete, HistoryOK, MadeInside, BindingsHold
<1>4. PICK op, pc, then, copy, content :
        /\ Now(p, op, pc, then, copy, content)
        /\ \/ /\ proc[p].then = "return" /\ Leave(p)
              /\ op = "none" /\ pc = "idle" /\ then = "none" /\ copy = 0
           \/ /\ proc[p].then \in {"locking", "advancing"} /\ UNCHANGED lock
              /\ op = proc[p].op /\ pc = proc[p].then /\ then = "none" /\ copy = proc[p].copy
  <2>1. CASE proc[p].then = "return"
    BY <1>2, <2>1, LeaveMoves DEF ReplaceRun, Leave
  <2>2. CASE proc[p].then # "return"
    <3>1. proc[p].then \in {"locking", "advancing"}
      BY <1>1, <1>2, <2>2, Fields DEF CallOK, Control, At, Saving, Thens
    <3>2. /\ Now(p, proc[p].op, proc[p].then, "none", proc[p].copy, proc[p].content)
          /\ UNCHANGED lock
      BY <1>2, <2>2, <3>1, ReplaceMoves DEF ReplaceRun, PCs
    <3> QED BY <3>1, <3>2
  <2> QED BY <2>1, <2>2
<1>5. \A v : (MadeInside(v)' <=> MadeInside(v)) /\ (HistoryOK(v)' <=> HistoryOK(v))
  BY <1>1 DEF MadeInside, HistoryOK
<1>6. CallOK(proc[p])'
  BY <1>1, <1>2, <1>4, <1>5
     DEF Now, At, CallOK, Control, Copy, Saves, Writes, FromStored, Base, Saving, Working
<1>7. LockHeld'
  <2>1. CASE proc[p].then = "return" /\ Leave(p)
    <3>1. Now(p, "none", "idle", "none", 0, Unwritten)
      BY <1>2, <2>1, LeaveMoves DEF Leave
    <3> QED BY <1>1, <2>1, <3>1, LockLeft DEF Leave
  <2>2. CASE proc[p].then \in {"locking", "advancing"} /\ UNCHANGED lock /\ proc'[p].op = proc[p].op
             /\ proc'[p].pc = proc[p].then
    <3>1. Inside(p)' => Inside(p)
      BY <1>1, <2>2 DEF Inside, At
    <3> QED BY <1>1, <1>4, <2>2, <3>1, LockStays
  <2> QED BY <1>4, <2>1, <2>2 DEF Now
<1>8. ASSUME NEW q \in Procs, q # p PROVE CallOK(proc[q])'
  <2>1. CallOK(proc[q]) /\ proc'[q] = proc[q]
    BY <1>4, <1>8 DEF IInv, Now
  <2>2. FromStored(proc[q])'
    <3> SUFFICES ASSUME proc[q].op = "resume", proc[q].pc \in Saving \cup Working, ~broken,
                        Base(proc[q]) # proc[p].copy
                 PROVE  made[proc[p].copy].kind = "exported" \/ proc[p].copy = 1
      BY <1>1, <1>2, <2>1 DEF FromStored, Base
    <3>1. Inside(q)
      BY <2>1 DEF Inside, CallOK, Control, Saving, Working
    <3>2. ~Inside(p)
      BY <1>8, <3>1, OneInside
    <3>3. proc[p].then = "return" \/ proc[p].then = "locking"
      BY <1>1, <1>2, <3>2, Fields DEF Inside, At, CallOK, Control, Saving, Thens
    <3> QED BY <1>1, <1>2, <3>3 DEF CallOK, Control, Copy, At, Saving
  <2> QED BY <1>1, <1>5, <2>1, <2>2 DEF CallOK, Copy, Saves, Writes
<1> QED
  BY <1>3, <1>6, <1>7, <1>8 DEF IInv, Created

\* Contents are made from the copy, and bound to what it was bound to or to the
\* artifact that has the contents this call computed.
LEMMA MakeStep ==
  ASSUME IInv, TypeOK', NEW p \in Procs, NEW kind \in Kinds, NEW then \in {"advancing", "return"},
         NEW bound \in Contents \cup {Unwritten}, Make(p, kind, then, bound),
         proc[p].pc \in {"advancing", "binding"}, proc[p].op = "export" <=> then = "return",
         kind \in {"working", "approved"} => then = "advancing",
         then = "return" => kind = "exported",
         ~broken => bound \in {Unwritten, artifact}
  PROVE  IInv'
<1>1. /\ proc[p] \in Call /\ CallOK(proc[p]) /\ proc[p].copy \in DOMAIN made /\ TypeOK
      /\ HistoryOK(proc[p].copy) /\ proc[p].op \in {"start", "resume", "export"}
  BY Fields DEF IInv, TypeOK, CallOK, Control, Copy, Working
<1>2. UNCHANGED <<runFile, history, artifact, claims, lock, broken>>
  BY DEF Make
<1>3. then \in Thens
  BY DEF Thens
<1>4. MadeNow(p, kind, then, bound)
  <2>1. TypeOK
    BY <1>1
  <2> QED BY <1>3, <2>1, MakeMoves
<1> USE DEF MadeNow
<1>5. PICK v \in DOMAIN made' :
        /\ Now(p, proc[p].op, "saving", then, v, Unwritten)
        /\ made'[v].from = proc[p].copy /\ made'[v].kind = kind /\ made'[v].bound = bound
        /\ \A u \in DOMAIN made' : u \in DOMAIN made \/ u = v
  BY <1>4
<1>6. \A u \in DOMAIN made : /\ MadeInside(u)' <=> MadeInside(u)
                             /\ HistoryOK(u)' <=> HistoryOK(u)
  BY <1>2, <1>4 DEF MadeInside, HistoryOK
<1>7. made'[1] = Created
  BY <1>1, <1>4 DEF IInv, TypeOK
<1>8. Named' \subseteq DOMAIN made' /\ HistoryComplete'
  <2>1. Named' \subseteq Named \cup {proc[p].copy}
    BY <1>2, <1>4, <1>5 DEF Named
  <2>2. Named \subseteq DOMAIN made /\ \A u \in Named : HistoryOK(u)
    BY DEF IInv, HistoryComplete, HistoryOK
  <2> QED BY <1>1, <1>4, <1>6, <2>1, <2>2 DEF HistoryComplete, HistoryOK
<1>9. BindingsHold'
  BY <1>2, <1>4, <1>5 DEF IInv, BindingsHold
<1>10. CallOK(proc[p])'
  <2>1. /\ proc'[p].op = proc[p].op /\ proc'[p].pc = "saving" /\ proc'[p].then = then
        /\ proc'[p].copy = v
    BY <1>5 DEF Now
  <2>2. Control(proc[p])'
    BY <1>1, <2>1 DEF CallOK, Control, Saving
  <2>3. Copy(proc[p])'
    BY <1>5, <2>1 DEF Copy, MadeInside, Saving, Working
  <2>4. Saves(proc[p])' /\ Writes(proc[p])'
    BY <2>1 DEF Saves, Writes
  <2>5. FromStored(proc[p])'
    <3> SUFFICES ASSUME proc[p].op = "resume"
                 PROVE  /\ runFile # 0
                        /\ ~broken => \/ proc[p].copy = runFile
                                      \/ made'[runFile].kind = "exported" \/ runFile = 1
      BY <1>2, <1>5, <2>1 DEF FromStored, Base, Saving
    <3>1. FromStored(proc[p]) /\ Base(proc[p]) = proc[p].copy
      BY <1>1 DEF CallOK, Base, Saving
    <3>2. runFile # 0 => runFile \in DOMAIN made
      BY DEF IInv, Named
    <3> QED BY <1>4, <3>1, <3>2 DEF FromStored, Working
  <2> QED BY <2>2, <2>3, <2>4, <2>5 DEF CallOK
<1>11. ASSUME NEW q \in Procs, q # p PROVE CallOK(proc[q])'
  <2>1. CallOK(proc[q]) /\ proc'[q] = proc[q]
    BY <1>5, <1>11 DEF IInv, Now
  <2>2. Control(proc[q])' /\ Copy(proc[q])'
    BY <1>2, <1>4, <1>6, <2>1 DEF CallOK, Control, Copy, Saving, Working
  <2>3. Saves(proc[q])' /\ Writes(proc[q])'
    BY <1>2, <1>6, <2>1 DEF CallOK, Copy, Saves, Writes, Saving
  <2>4. FromStored(proc[q])'
    <3>1. runFile # 0 => runFile \in DOMAIN made
      BY DEF IInv, Named
    <3> QED BY <1>2, <1>4, <2>1, <3>1 DEF CallOK, Copy, FromStored, Base, Saving, Working
  <2> QED BY <2>1, <2>2, <2>3, <2>4 DEF CallOK
<1>12. LockHeld'
  <2>1. Inside(p)' => Inside(p)
    BY <1>1, <1>5 DEF Inside, Now, CallOK, Control, Saving
  <2> QED BY <1>2, <1>5, <2>1, LockStays
<1> QED
  BY <1>7, <1>8, <1>9, <1>10, <1>11, <1>12 DEF IInv, Created

\* While the lock holds, the artifact is opened by its one writer when it is
\* not there, so that nothing is bound to it before it is complete.
LEMMA ArtifactStep ==
  ASSUME IInv, TypeOK', NEW p \in Procs, OpenArtifact(p) \/ EndArtifact(p)
  PROVE  IInv'
<1>1. UNCHANGED <<made, runFile, history, lock, broken>>
  BY DEF OpenArtifact, EndArtifact
<1>2. /\ proc[p] \in Call /\ CallOK(proc[p]) /\ TypeOK /\ Inside(p)
      /\ proc[p].pc \in {"creating", "writing"}
  BY WriterInside DEF IInv, TypeOK, OpenArtifact, EndArtifact, At
<1>3. PICK pc \in {"writing", "binding"} :
        /\ Goto(p, pc)
        /\ pc = "writing" => At(p, "creating") /\ artifact' = Partial
        /\ pc = "binding" =>
             /\ At(p, "writing")
             /\ artifact' = proc[p].content \/ artifact \notin {Partial, proc[p].content}
  BY DEF OpenArtifact, EndArtifact
<1>4. Now(p, proc[p].op, pc, proc[p].then, proc[p].copy, proc[p].content)
  BY <1>2, <1>3, GotoMoves DEF PCs
<1>5. ~broken => /\ artifact \in {Unwritten, Partial}
                 /\ pc = "binding" => artifact' = proc[p].content
  BY <1>2, <1>3 DEF CallOK, Writes, At
<1>6. BindingsHold'
  <2> SUFFICES ASSUME ~broken, NEW v \in DOMAIN made PROVE made[v].bound = Unwritten
    BY <1>1 DEF BindingsHold
  <2>1. made[v] \in Version
    BY <1>2 DEF TypeOK
  <2>2. made[v].bound \in Contents \cup {Unwritten}
    BY <2>1 DEF Version
  <2> QED BY <1>5, <2>2, StoreAssumption DEF IInv, BindingsHold
<1>7. \A v : (MadeInside(v)' <=> MadeInside(v)) /\ (HistoryOK(v)' <=> HistoryOK(v))
  BY <1>1 DEF MadeInside, HistoryOK
<1>8. CallOK(proc[p])'
  <2>1. /\ proc'[p].op = proc[p].op /\ proc'[p].pc = pc /\ proc'[p].then = proc[p].then
        /\ proc'[p].copy = proc[p].copy /\ proc'[p].content = proc[p].content
    BY <1>4 DEF Now
  <2>2. Control(proc[p])' /\ Copy(proc[p])' /\ Saves(proc[p])'
    BY <1>1, <1>2, <1>7, <2>1 DEF CallOK, Control, Copy, Saves, Saving, Working
  <2>3. Writes(proc[p])'
    BY <1>1, <1>3, <1>5, <2>1 DEF Writes
  <2>4. FromStored(proc[p])'
    BY <1>1, <1>2, <2>1 DEF CallOK, FromStored, Base, Saving, Working
  <2> QED BY <2>2, <2>3, <2>4 DEF CallOK
<1>9. ASSUME NEW q \in Procs, q # p PROVE CallOK(proc[q])'
  <2>1. CallOK(proc[q]) /\ proc'[q] = proc[q]
    BY <1>4, <1>9 DEF IInv, Now
  <2>2. Writes(proc[q])'
    <3>1. ~broken => proc[q].pc \notin {"creating", "writing", "binding"}
      BY <1>2, <1>9, WriterInside, OneInside
    <3> QED BY <1>1, <2>1, <3>1 DEF Writes
  <2> QED BY <1>1, <1>7, <2>1, <2>2 DEF CallOK, Copy, Saves, FromStored, Base
<1>10. HistoryComplete' /\ Named' \subseteq DOMAIN made' /\ made'[1] = Created
  BY <1>1 DEF IInv, HistoryComplete, MadeInside, Named
<1>11. LockHeld'
  BY <1>1, <1>2, <1>4, LockStays
<1> QED
  BY <1>6, <1>8, <1>9, <1>10, <1>11 DEF IInv, Created

\* Removing the lock of a live call only weakens what is said.
LEMMA RemoveStep ==
  ASSUME IInv, TypeOK', RemoveLock
  PROVE  IInv'
<1>1. UNCHANGED <<made, runFile, history, artifact, proc>> /\ broken' \in BOOLEAN
      /\ (broken => broken') /\ (~broken' => lock = "stale" /\ ~broken)
  BY DEF RemoveLock, IInv, TypeOK
<1>2. \A v : (MadeInside(v)' <=> MadeInside(v)) /\ (HistoryOK(v) => HistoryOK(v)')
  BY <1>1 DEF MadeInside, HistoryOK
<1>3. \A p \in Procs : CallOK(proc[p])'
  BY <1>1, <1>2 DEF IInv, CallOK, Copy, Saves, Writes, FromStored, Base
<1>4. LockHeld'
  BY <1>1, StoreAssumption DEF IInv, LockHeld, Inside
<1>5. HistoryComplete' /\ Named' \subseteq DOMAIN made' /\ BindingsHold' /\ made'[1] = Created
  BY <1>1 DEF IInv, HistoryComplete, MadeInside, Named, BindingsHold
<1> QED
  BY <1>3, <1>4, <1>5 DEF IInv, Created

\* Every step keeps the invariant.
LEMMA InvariantNext == IInv /\ [Next]_vars => IInv'
<1> SUFFICES ASSUME IInv, [Next]_vars PROVE IInv'
  OBVIOUS
<1>1. TypeOK'
  BY TypeNext
<1>2. CASE UNCHANGED vars
  BY <1>2 DEF vars, IInv, TypeOK, HistoryComplete, HistoryOK, MadeInside, Named, BindingsHold,
     CallOK, Copy, Saves, Writes, FromStored, Base, LockHeld, Inside
<1>3. CASE RemoveLock
  BY <1>1, <1>3, RemoveStep
<1>4. ASSUME NEW p \in Procs,
             \/ Refused(p) \/ Finish(p) \/ Kill(p) \/ (Claim(p) /\ Leave(p))
      PROVE  IInv'
  BY <1>1, <1>4, LeaveStep DEF Refused, Finish, Kill, Claim, Leave
<1>5. ASSUME NEW p \in Procs, NEW pc \in {"claiming", "advancing"},
             Now(p, proc[p].op, pc, proc[p].then, proc[p].copy, proc[p].content), Inside(p),
             At(p, "claiming") \/ At(p, "advancing"),
             UNCHANGED <<made, runFile, history, artifact, lock, broken>>
      PROVE  IInv'
  <2>1. CallOK(proc[p])
    BY DEF IInv
  <2>2. CallOK(proc'[p])
    BY <1>5, <2>1
       DEF Now, At, Inside, CallOK, Control, Copy, Saves, Writes, FromStored, Base, Saving, Working
  <2> QED BY <1>1, <1>5, <2>2, LockStays, QuietStep
<1>6. ASSUME NEW p \in Procs, CountClaims(p) \/ (Claim(p) /\ Goto(p, "advancing") /\ UNCHANGED lock)
      PROVE  IInv'
  <2>1. TypeOK
    BY DEF IInv
  <2>2. CASE CountClaims(p)
    BY <1>5, <2>1, <2>2, CountMoves DEF CountClaims
  <2>3. CASE Claim(p) /\ Goto(p, "advancing") /\ UNCHANGED lock
    <3>1. Now(p, proc[p].op, "advancing", proc[p].then, proc[p].copy, proc[p].content)
      BY <2>1, <2>3, GotoMoves DEF PCs
    <3>2. Inside(p)
      BY <2>3, WriterInside DEF Claim, At
    <3> QED BY <1>5, <2>3, <3>1, <3>2 DEF Claim
  <2> QED BY <1>6, <2>2, <2>3
<1>7. ASSUME NEW p \in Procs,
             \/ \E kind \in {"working", "approved"} : Advance(p, kind)
             \/ SaveExported(p) \/ BindArtifact(p)
      PROVE  IInv'
  <2>1. /\ proc[p].copy \in DOMAIN made /\ CallOK(proc[p]) /\ proc[p] \in Call
        /\ proc[p].pc \in {"advancing", "binding"}
    BY <1>7 DEF Advance, SaveExported, BindArtifact, At, IInv, TypeOK, CallOK, Copy, Working
  <2>2. /\ made[proc[p].copy].bound \in Contents \cup {Unwritten}
        /\ proc[p].content \in Contents \cup {Unwritten}
    <3>1. made[proc[p].copy] \in Version
      BY <2>1 DEF IInv, TypeOK
    <3> QED BY <2>1, <3>1, Fields DEF Version
  <2>3. CASE \E kind \in {"working", "approved"} : Advance(p, kind)
    <3>1. ~broken => made[proc[p].copy].bound \in {Unwritten, artifact}
      BY <2>1 DEF IInv, BindingsHold
    <3> QED BY <1>1, <2>1, <2>2, <2>3, <3>1, MakeStep DEF Advance, Inside, Kinds
  <2>4. CASE SaveExported(p)
    <3>1. ~broken => made[proc[p].copy].bound \in {Unwritten, artifact}
      BY <2>1 DEF IInv, BindingsHold
    <3> QED BY <1>1, <2>1, <2>2, <2>4, <3>1, MakeStep DEF SaveExported, Kinds
  <2>5. CASE BindArtifact(p)
    <3>1. ~broken => proc[p].content = artifact
      BY <2>1, <2>5 DEF BindArtifact, At, CallOK, Writes
    <3>2. proc[p].op # "export"
      BY <2>5, WriterInside DEF BindArtifact, At, Inside
    <3> QED BY <1>1, <2>1, <2>2, <2>5, <3>1, <3>2, MakeStep DEF BindArtifact, Kinds
  <2> QED BY <1>7, <2>3, <2>4, <2>5
<1>8. ASSUME NEW p \in Procs, Claim(p) PROVE IInv'
  BY <1>4, <1>6, <1>8 DEF Claim
<1>9. ASSUME NEW p \in Procs,
             \/ Start(p) \/ Resume(p) \/ Export(p) \/ Lock(p) \/ Read(p)
             \/ CompareHistory(p) \/ LookAgain(p) \/ OpenHistory(p) \/ EndHistory(p)
             \/ ReplaceRun(p)
             \/ \E content \in Contents : CompareArtifact(p, content)
             \/ OpenArtifact(p) \/ EndArtifact(p)
      PROVE  IInv'
  BY <1>1, <1>9, CallStep, LockStep, ReadStep, LookStep, HistoryStep, ReplaceStep, ArtifactStep
<1> QED
  BY <1>2, <1>3, <1>4, <1>6, <1>7, <1>8, <1>9 DEF Next

LEMMA InvariantInit == Init => IInv
<1> SUFFICES ASSUME Init PROVE IInv
  OBVIOUS
<1>1. Created \in Version /\ Created.from = 0 /\ Created.bound = Unwritten
  BY StoreAssumption DEF Created, Version, Kinds
<1>2. TypeOK /\ DOMAIN made = {1} /\ made[1] = Created
  <2>1. made \in Seq(Version) /\ Len(made) = 1 /\ Len(made) \in 1 .. MaxVersions
        /\ DOMAIN made = {1} /\ made[1] = Created
    BY <1>1, StoreAssumption DEF Init
  <2>2. history \in [1 .. MaxVersions -> {Unwritten, Partial, "complete"}]
    BY DEF Init
  <2>3. claims \in Seq(SUBSET Procs) /\ proc \in [Procs -> Call]
    BY Called DEF Init
  <2>4. runFile \in 0 .. Len(made)
    BY <2>1 DEF Init
  <2>5. /\ artifact \in Contents \cup {Unwritten, Partial} /\ broken \in BOOLEAN
        /\ lock \in Procs \cup {"free", "stale"}
    BY DEF Init
  <2> QED BY <2>1, <2>2, <2>3, <2>4, <2>5 DEF TypeOK
<1>3. Named = {} /\ HistoryComplete /\ BindingsHold
  BY <1>1, <1>2 DEF Init, Named, HistoryComplete, BindingsHold
<1>4. \A p \in Procs : proc[p].pc = "idle" /\ proc[p].op = "none" /\ proc[p].then = "none"
  BY Called DEF Init
<1>5. \A p \in Procs : CallOK(proc[p])
  BY <1>4 DEF CallOK, Control, Copy, Saves, Writes, FromStored, Saving, Working
<1> QED
  BY <1>2, <1>3, <1>4, <1>5 DEF IInv, LockHeld, Inside

\* The inductive invariant holds in every reachable state.
THEOREM Invariant == Spec => []IInv
BY InvariantInit, InvariantNext, PTL DEF Spec

\* Every file of a run and every local of a call has its shape, whatever number
\* of processes call the service and however they are killed.
THEOREM TypeCorrect == Spec => []TypeOK
<1>1. IInv => TypeOK
  BY DEF IInv
<1> QED
  BY <1>1, Invariant, PTL

\* What run.json holds and all it descends from is in the history, and complete
\* there when it was made under a lock that nobody took away (save: a look, the
\* history file, the replacement), with any number of savers that look, open
\* and write in any order and are killed anywhere.
THEOREM HistoryIsComplete == Spec => []HistoryComplete
<1>1. IInv => HistoryComplete
  BY DEF IInv
<1> QED
  BY <1>1, Invariant, PTL

\* Until somebody takes a live lock away, what run.json binds is a complete file
\* with the bound contents, although write_immutable_artifact looks, opens and
\* writes in place and binds what it computed without reading it again.
THEOREM BindingsAreHeld == Spec => []BindingsHold
<1>1. IInv => BindingsHold
  BY DEF IInv
<1> QED
  BY <1>1, Invariant, PTL

\* acquire_run_lock admits one call at a time, until somebody removes the lock
\* directory of a call that still runs.
THEOREM OneCallInside ==
  Spec => [](~broken => \A p, q \in Procs : Inside(p) /\ Inside(q) => p = q)
<1>1. IInv => (~broken => \A p, q \in Procs : Inside(p) /\ Inside(q) => p = q)
  BY DEF IInv, LockHeld
<1> QED
  BY <1>1, Invariant, PTL

\* Under a lock that nobody removed, what a resume stores was made from what was
\* stored, or over a save that does not wait for the lock.
THEOREM ResumesKeepWork == Spec => ResumeKeepsWork
<1> DEFINE Keeps ==
      \A p \in Procs :
        At(p, "replacing") /\ proc'[p] # proc[p] /\ runFile' # runFile
          /\ proc[p].op = "resume" /\ ~broken =>
            \/ made[runFile'].from = runFile
            \/ made[runFile].kind = "exported" \/ runFile = 1
<1>1. IInv /\ [Next]_vars => [Keeps]_vars
  <2> SUFFICES ASSUME IInv, Next, NEW q \in Procs, At(q, "replacing"), proc'[q] # proc[q],
                      runFile' # runFile, proc[q].op = "resume", ~broken
               PROVE  \/ made[runFile'].from = runFile
                      \/ made[runFile].kind = "exported" \/ runFile = 1
    OBVIOUS
  <2>1. PICK p \in Procs : ReplaceRun(p)
    BY DEF Next, Start, Resume, Export, Refused, Lock, Read, CompareHistory, LookAgain,
       OpenHistory, EndHistory, Advance, SaveExported, CompareArtifact, OpenArtifact,
       EndArtifact, BindArtifact, Make, CountClaims, Claim, Finish, Kill, RemoveLock
  <2>2. p = q
    BY <2>1 DEF ReplaceRun, Leave, IInv, TypeOK
  <2>3. At(q, "replacing") /\ runFile' = proc[q].copy
    BY <2>1, <2>2 DEF ReplaceRun
  <2>4. CallOK(proc[q])
    BY DEF IInv
  <2> QED BY <2>3, <2>4 DEF CallOK, FromStored, Base, At, Saving
<1> QED
  BY <1>1, Invariant, PTL DEF Spec, ResumeKeepsWork

=============================================================================
