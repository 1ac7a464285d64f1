------------------------------ MODULE VppProofs ------------------------------
(***************************************************************************)
(* Two starts of the platform profiler, for any number of invocations.     *)
(* The inductive invariant says what the check of one start has excluded   *)
(* about every other start that it has not met: first its dstat, then its  *)
(* whole collection, until its own is running.                             *)
(***************************************************************************)
EXTENDS VppCollect, FiniteSetTheorems, WellFoundedInduction, TLAPS

\* The types the argument needs; the range of dir is not among them.
BaseType ==
  /\ DOMAIN pc = Starters /\ DOMAIN dir = Starters /\ DOMAIN found = Starters
  /\ proc \in [Profilers -> SUBSET Starters]
  /\ DOMAIN out = {"dstat", "emon"}
  /\ met \in [Starters -> SUBSET Starters]

\* A start collects nothing before it launches.
NotYet(s) ==
  /\ pc[s] \in {"prepare", "finddstat", "findemon", "clear", "mkdir", "record",
                "configure", "pmwatch", "dstat"} => s \notin proc["dstat"]
  /\ pc[s] \in {"prepare", "finddstat", "findemon", "clear", "mkdir", "record",
                "configure", "pmwatch", "dstat", "emon"} => s \notin proc["emon"]

\* The kills of an abort, one after the other.
KillInv(s) ==
  /\ pc[s] = "killemon" => s \notin proc["dstat"]
  /\ pc[s] = "aborted" => ~Collecting(s)

\* Meeting is mutual, and happens when both are inside.
MetInv ==
  /\ \A s \in Starters : pc[s] \in {"prepare", "finddstat"} => met[s] = {}
  /\ \A s, t \in Starters : t \in met[s] => s \in met[t]
  /\ \A s, t \in Starters : s # t /\ Inside(s) /\ Inside(t) => t \in met[s]

\* What t knows about s when they have not met.
Alone(s, t) ==
  /\ pc[t] = "findemon" /\ ~found[t] => s \notin proc["dstat"]
  /\ Inside(t) /\ pc[t] # "findemon" => ~Collecting(s)
  /\ Collecting(t) => ~Collecting(s)

AloneInv == \A s, t \in Starters : s # t /\ s \notin met[t] => Alone(s, t)

\* What a start that met nobody has written is still there.
Undisturbed(s) ==
  met[s] = {} =>
    /\ pc[s] \in {"configure", "pmwatch", "dstat", "emon"} \/ Collecting(s) => location = dir[s]
    /\ s \in proc["dstat"] => out["dstat"] = s
    /\ s \in proc["emon"] => out["emon"] = s

IInv ==
  /\ BaseType /\ MetInv /\ AloneInv
  /\ \A s \in Starters : NotYet(s) /\ KillInv(s) /\ Undisturbed(s)

LEMMA InitIInv == Init => IInv
BY DEF Init, IInv, BaseType, MetInv, AloneInv, NotYet, KillInv, Undisturbed, Alone, Inside,
   Collecting, Profilers

\* Steps that end profilers, or move invocations to a place behind the launches.
LEMMA ShrinkKeeps ==
  ASSUME IInv, DOMAIN pc' = Starters, UNCHANGED <<dir, found, out, location, met>>,
         proc' \in [Profilers -> SUBSET Starters],
         proc'["dstat"] \subseteq proc["dstat"], proc'["emon"] \subseteq proc["emon"],
         \A t \in Starters :
           \/ pc'[t] = pc[t]
           \/ pc'[t] \in {"exited", "interrupted", "judgeemon", "gathering", "kill"}
           \/ pc'[t] = "killemon" /\ t \notin proc'["dstat"]
           \/ pc'[t] = "aborted" /\ t \notin proc'["dstat"] /\ t \notin proc'["emon"]
  PROVE  IInv'
<1>1. \A t \in Starters : Collecting(t)' => Collecting(t)
  BY DEF Collecting
<1>2. \A t \in Starters : Inside(t)' => Inside(t) /\ pc'[t] = pc[t]
  BY DEF Inside
<1>3. BaseType'
  BY DEF IInv, BaseType
<1>4. MetInv'
  BY <1>2 DEF IInv, MetInv
<1>5. AloneInv'
  <2> SUFFICES ASSUME NEW s \in Starters, NEW t \in Starters, s # t, s \notin met'[t]
               PROVE  Alone(s, t)'
    BY DEF AloneInv
  <2>1. Alone(s, t)
    BY DEF IInv, AloneInv
  <2>2. pc'[t] = "findemon" => pc[t] = "findemon"
    OBVIOUS
  <2> QED BY <1>1, <1>2, <2>1, <2>2 DEF Alone
<1>6. ASSUME NEW t \in Starters PROVE NotYet(t)' /\ KillInv(t)' /\ Undisturbed(t)'
  <2>1. NotYet(t) /\ KillInv(t) /\ Undisturbed(t)
    BY DEF IInv
  <2>2. NotYet(t)'
    BY <2>1 DEF NotYet
  <2>3. KillInv(t)'
    BY <1>1, <2>1 DEF KillInv, Collecting
  <2>4. Undisturbed(t)'
    BY <1>1, <2>1 DEF Undisturbed
  <2> QED BY <2>2, <2>3, <2>4
<1> QED BY <1>3, <1>4, <1>5, <1>6 DEF IInv

\* Only s moves when Go does.
LEMMA GoMoves ==
  ASSUME IInv, NEW s \in Starters, NEW to, Go(s, to)
  PROVE  /\ pc' = [pc EXCEPT ![s] = to] /\ pc'[s] = to /\ DOMAIN pc' = Starters
         /\ \A t \in Starters : t # s => pc'[t] = pc[t]
BY DEF Go, IInv, BaseType

LEMMA PrepareKeeps ==
  ASSUME IInv, NEW s \in Starters, PrepareResultLocation(s) PROVE IInv'
<1>1. /\ pc[s] = "prepare" /\ pc'[s] = "finddstat" /\ DOMAIN pc' = Starters
      /\ \A t \in Starters : t # s => pc'[t] = pc[t] /\ dir'[t] = dir[t]
      /\ DOMAIN dir' = Starters
      /\ UNCHANGED <<found, proc, out, location, met>>
  BY GoMoves DEF PrepareResultLocation, files, IInv, BaseType
<1>2. BaseType' /\ MetInv'
  BY <1>1 DEF IInv, BaseType, MetInv, Inside
<1>3. AloneInv'
  BY <1>1 DEF IInv, AloneInv, Alone, Inside, Collecting
<1>4. ASSUME NEW t \in Starters PROVE NotYet(t)' /\ KillInv(t)' /\ Undisturbed(t)'
  <2>1. NotYet(t) /\ KillInv(t) /\ Undisturbed(t)
    BY DEF IInv
  <2>2. CASE t = s
    BY <1>1, <2>1, <2>2 DEF NotYet, KillInv, Undisturbed, Collecting
  <2>3. CASE t # s
    BY <1>1, <2>1, <2>3 DEF NotYet, KillInv, Undisturbed, Collecting
  <2> QED BY <2>2, <2>3
<1> QED BY <1>2, <1>3, <1>4 DEF IInv

LEMMA FindDstatKeeps ==
  ASSUME IInv, NEW s \in Starters, FindDstat(s) PROVE IInv'
<1>1. /\ pc[s] = "finddstat" /\ pc'[s] = "findemon" /\ DOMAIN pc' = Starters
      /\ \A t \in Starters : t # s => pc'[t] = pc[t] /\ found'[t] = found[t]
      /\ found'[s] = (proc["dstat"] # {}) /\ DOMAIN found' = Starters
      /\ UNCHANGED <<dir, proc, out, location>>
  BY GoMoves DEF FindDstat, files, IInv, BaseType
<1>2. /\ met' \in [Starters -> SUBSET Starters]
      /\ met'[s] = {u \in Starters : Inside(u)}
      /\ \A t \in Starters : t # s =>
           met'[t] = IF Inside(t) THEN met[t] \cup {s} ELSE met[t]
  BY DEF FindDstat, IInv, BaseType
<1>3. met[s] = {} /\ ~Inside(s) /\ \A t \in Starters : s \notin met[t]
  BY <1>1 DEF IInv, MetInv, Inside
<1>4. /\ Inside(s)' /\ \A t \in Starters : t # s => (Inside(t)' <=> Inside(t))
      /\ \A t \in Starters : Collecting(t)' <=> Collecting(t)
  BY <1>1 DEF Inside, Collecting
<1>5. BaseType'
  BY <1>1, <1>2 DEF IInv, BaseType
<1>6. MetInv'
  BY <1>1, <1>2, <1>3, <1>4 DEF IInv, MetInv, Inside
<1>7. AloneInv'
  <2> SUFFICES ASSUME NEW t \in Starters, NEW u \in Starters, t # u, t \notin met'[u]
               PROVE  Alone(t, u)'
    BY DEF AloneInv
  <2>1. CASE u = s
    BY <1>1, <1>3, <1>4, <2>1 DEF Alone, IInv, NotYet, Collecting
  <2>2. CASE u # s
    <3>1. Alone(t, u)
      BY <1>2, <2>2 DEF IInv, AloneInv
    <3> QED BY <1>1, <1>4, <2>2, <3>1 DEF Alone
  <2> QED BY <2>1, <2>2
<1>8. ASSUME NEW t \in Starters PROVE NotYet(t)' /\ KillInv(t)' /\ Undisturbed(t)'
  <2>1. NotYet(t) /\ KillInv(t) /\ Undisturbed(t)
    BY DEF IInv
  <2>2. CASE t = s
    BY <1>1, <2>1, <2>2 DEF NotYet, KillInv, Undisturbed, Collecting
  <2>3. CASE t # s
    BY <1>1, <1>2, <2>1, <2>3 DEF NotYet, KillInv, Undisturbed, Collecting
  <2> QED BY <2>2, <2>3
<1> QED BY <1>5, <1>6, <1>7, <1>8 DEF IInv

\* The steps inside: what s writes there nobody else collecting has to lose.
LEMMA InsideKeeps ==
  ASSUME IInv, NEW s \in Starters, NEW to, Go(s, to),
         UNCHANGED <<dir, found, met>>,
         Inside(s), pc[s] # "findemon",
         to \in {"mkdir", "record", "configure", "pmwatch", "dstat"},
         to \in {"pmwatch", "dstat"} => pc[s] \in {"configure", "pmwatch"} /\ location' = location,
         pc[s] \in {"clear", "mkdir", "record", "configure", "pmwatch"},
         to = "configure" => location' = dir[s],
         proc' \in [Profilers -> SUBSET Starters],
         proc'["dstat"] = proc["dstat"], proc'["emon"] = proc["emon"],
         out' = out
  PROVE  IInv'
<1>1. /\ pc'[s] = to /\ DOMAIN pc' = Starters
      /\ \A t \in Starters : t # s => pc'[t] = pc[t]
  BY GoMoves
<1>2. /\ \A t \in Starters : Inside(t)' <=> Inside(t)
      /\ \A t \in Starters : Collecting(t)' <=> Collecting(t)
  BY <1>1 DEF Inside, Collecting
<1>3. BaseType' /\ MetInv'
  BY <1>1, <1>2 DEF IInv, BaseType, MetInv
<1>4. AloneInv'
  <2> SUFFICES ASSUME NEW t \in Starters, NEW u \in Starters, t # u, t \notin met'[u]
               PROVE  Alone(t, u)'
    BY DEF AloneInv
  <2>1. Alone(t, u)
    BY DEF IInv, AloneInv
  <2> QED BY <1>1, <1>2, <2>1 DEF Alone
<1>5. ASSUME NEW t \in Starters PROVE NotYet(t)' /\ KillInv(t)' /\ Undisturbed(t)'
  <2>1. NotYet(t) /\ KillInv(t) /\ Undisturbed(t)
    BY DEF IInv
  <2>2. CASE t = s
    BY <1>1, <1>2, <2>1, <2>2 DEF NotYet, KillInv, Undisturbed, Collecting
  <2>3. CASE t # s
    <3>1. met[t] = {} => ~Inside(t) /\ ~Collecting(t)
      BY <2>3 DEF IInv, MetInv, AloneInv, Alone
    <3> QED BY <1>1, <1>2, <2>1, <2>3, <3>1 DEF NotYet, KillInv, Undisturbed, Inside, Collecting
  <2> QED BY <2>2, <2>3
<1> QED BY <1>3, <1>4, <1>5 DEF IInv

\* The verdict of the check, when it lets s through.
LEMMA FindEmonKeeps ==
  ASSUME IInv, NEW s \in Starters, FindEmon(s), ~AnotherIsRunning(s) PROVE IInv'
<1>1. /\ pc[s] = "findemon" /\ pc'[s] = "clear" /\ DOMAIN pc' = Starters
      /\ \A t \in Starters : t # s => pc'[t] = pc[t]
      /\ UNCHANGED <<dir, found, proc, out, location, met>>
  BY GoMoves DEF FindEmon, files
<1>2. /\ \A t \in Starters : Inside(t)' <=> Inside(t)
      /\ \A t \in Starters : Collecting(t)' <=> Collecting(t)
      /\ ~found[s] /\ proc["emon"] = {}
  BY <1>1 DEF Inside, Collecting, AnotherIsRunning
<1>3. BaseType' /\ MetInv'
  BY <1>1, <1>2 DEF IInv, BaseType, MetInv
<1>4. AloneInv'
  <2> SUFFICES ASSUME NEW t \in Starters, NEW u \in Starters, t # u, t \notin met'[u]
               PROVE  Alone(t, u)'
    BY DEF AloneInv
  <2>1. Alone(t, u)
    BY <1>1 DEF IInv, AloneInv
  <2>2. CASE u = s
    BY <1>1, <1>2, <2>1, <2>2 DEF Alone, Collecting
  <2>3. CASE u # s
    BY <1>1, <1>2, <2>1, <2>3 DEF Alone
  <2> QED BY <2>2, <2>3
<1>5. ASSUME NEW t \in Starters PROVE NotYet(t)' /\ KillInv(t)' /\ Undisturbed(t)'
  <2>1. NotYet(t) /\ KillInv(t) /\ Undisturbed(t)
    BY DEF IInv
  <2>2. CASE t = s
    BY <1>1, <1>2, <2>1, <2>2 DEF NotYet, KillInv, Undisturbed
  <2>3. CASE t # s
    BY <1>1, <1>2, <2>1, <2>3 DEF NotYet, KillInv, Undisturbed
  <2> QED BY <2>2, <2>3
<1> QED BY <1>3, <1>4, <1>5 DEF IInv

\* The launches: whoever s has not met is not collecting.
LEMMA LaunchKeeps ==
  ASSUME IInv, NEW s \in Starters, NEW p \in {"dstat", "emon"}, NEW to,
         StartProfiler(s, p, to),
         p = "dstat" => to = "emon", p = "emon" => to = "judge"
  PROVE  IInv'
<1>1. /\ pc[s] = p /\ pc'[s] = to /\ DOMAIN pc' = Starters
      /\ \A t \in Starters : t # s => pc'[t] = pc[t]
      /\ UNCHANGED <<dir, found, location, met>>
      /\ out' = [out EXCEPT ![p] = s]
      /\ proc' = [proc EXCEPT ![p] = @ \cup {s}]
  BY GoMoves DEF StartProfiler
<1>2. /\ proc' \in [Profilers -> SUBSET Starters] /\ DOMAIN out' = {"dstat", "emon"}
      /\ proc'[p] = proc[p] \cup {s} /\ out'[p] = s
      /\ \A q \in {"dstat", "emon"} : q # p => proc'[q] = proc[q] /\ out'[q] = out[q]
  BY <1>1 DEF IInv, BaseType, Profilers
<1>3. /\ Inside(s) /\ pc[s] # "findemon"
      /\ \A t \in Starters : Inside(t)' => Inside(t)
      /\ \A t \in Starters : t # s => (Collecting(t)' <=> Collecting(t))
  BY <1>1, <1>2 DEF Inside, Collecting
<1>4. BaseType'
  BY <1>1, <1>2 DEF IInv, BaseType
<1>5. MetInv'
  BY <1>1, <1>3 DEF IInv, MetInv
<1>6. \A t \in Starters : t # s /\ t \notin met[s] => s \notin met[t] /\ ~Inside(t) /\ ~Collecting(t)
  BY <1>3 DEF IInv, MetInv, AloneInv, Alone
<1>7. AloneInv'
  <2> SUFFICES ASSUME NEW t \in Starters, NEW u \in Starters, t # u, t \notin met'[u]
               PROVE  Alone(t, u)'
    BY DEF AloneInv
  <2>1. Alone(t, u)
    BY <1>1 DEF IInv, AloneInv
  <2>2. CASE u = s
    BY <1>1, <1>3, <1>6, <2>2 DEF Alone, Collecting
  <2>3. CASE t = s
    <3>1. s \notin met[u] /\ u \notin met[s]
      BY <1>1, <2>3 DEF IInv, MetInv
    <3>2. ~Inside(u) /\ ~Collecting(u) /\ ~Inside(u)' /\ ~Collecting(u)'
      BY <1>3, <1>6, <2>3, <3>1
    <3> QED BY <3>2 DEF Alone, Inside
  <2>4. CASE u # s /\ t # s
    BY <1>1, <1>2, <1>3, <2>1, <2>4 DEF Alone, Collecting
  <2> QED BY <2>2, <2>3, <2>4
<1>8. ASSUME NEW t \in Starters PROVE NotYet(t)' /\ KillInv(t)' /\ Undisturbed(t)'
  <2>1. NotYet(t) /\ KillInv(t) /\ Undisturbed(t)
    BY DEF IInv
  <2>2. CASE t = s
    BY <1>1, <1>2, <2>1, <2>2 DEF NotYet, KillInv, Undisturbed, Collecting
  <2>3. CASE t # s
    <3>1. met[t] = {} => ~Collecting(t)
      BY <1>6, <2>3 DEF IInv, MetInv
    <3> QED BY <1>1, <1>2, <1>3, <2>1, <2>3, <3>1 DEF NotYet, KillInv, Undisturbed, Collecting
  <2> QED BY <2>2, <2>3
<1> QED BY <1>4, <1>5, <1>7, <1>8 DEF IInv

LEMMA NextIInv == IInv /\ [Next]_vars => IInv'
<1> SUFFICES ASSUME IInv, [Next]_vars PROVE IInv'
  OBVIOUS
<1>0. proc \in [Profilers -> SUBSET Starters] /\ DOMAIN pc = Starters
  BY DEF IInv, BaseType
<1>1. ASSUME NEW s \in Starters, Starter(s) PROVE IInv'
  <2>1. CASE \/ Exit(s) \/ Interrupt(s) \/ JudgeDstat(s) \/ JudgeEmon(s)
             \/ FindEmon(s) /\ AnotherIsRunning(s)
    <3>1. \E to \in {"exited", "interrupted", "judgeemon", "gathering", "kill"} : Go(s, to)
      BY <2>1 DEF Exit, Interrupt, JudgeDstat, JudgeEmon, Judge, FindEmon
    <3>2. UNCHANGED <<dir, found, proc, out, location, met>>
      BY <2>1 DEF Exit, Interrupt, JudgeDstat, JudgeEmon, Judge, FindEmon, files
    <3> QED BY <1>0, <3>1, <3>2, GoMoves, ShrinkKeeps
  <2>2. CASE KillDstat(s)
    <3>1. /\ proc' = [proc EXCEPT !["dstat"] = @ \ {s}] /\ Go(s, "killemon")
          /\ UNCHANGED <<dir, found, out, location, met>>
      BY <2>2 DEF KillDstat, Kill, Killed, files
    <3>2. /\ proc' \in [Profilers -> SUBSET Starters]
          /\ proc'["dstat"] = proc["dstat"] \ {s} /\ proc'["emon"] = proc["emon"]
      BY <1>0, <3>1 DEF Profilers
    <3> QED BY <3>1, <3>2, GoMoves, ShrinkKeeps
  <2>3. CASE KillEmon(s)
    <3>1. /\ proc' = [proc EXCEPT !["emon"] = @ \ {s}] /\ Go(s, "aborted")
          /\ pc[s] = "killemon"
          /\ UNCHANGED <<dir, found, out, location, met>>
      BY <2>3 DEF KillEmon, Kill, Killed, files
    <3>2. /\ proc' \in [Profilers -> SUBSET Starters]
          /\ proc'["dstat"] = proc["dstat"] /\ proc'["emon"] = proc["emon"] \ {s}
          /\ s \notin proc["dstat"]
      BY <1>0, <3>1 DEF Profilers, IInv, KillInv
    <3> QED BY <3>1, <3>2, GoMoves, ShrinkKeeps
  <2>4. CASE ClearLocation(s) \/ MakeDirectory(s) \/ RecordLocation(s)
    BY <1>0, <2>4, InsideKeeps DEF ClearLocation, MakeDirectory, RecordLocation, Inside
  <2>5. CASE WriteConfiguration(s)
    BY <1>0, <2>5, InsideKeeps DEF WriteConfiguration, Inside, files
  <2>6. CASE TryToStartPmwatch(s)
    <3>1. /\ proc' \in [Profilers -> SUBSET Starters]
          /\ proc'["dstat"] = proc["dstat"] /\ proc'["emon"] = proc["emon"]
      BY <1>0, <2>6 DEF TryToStartPmwatch, Profilers
    <3> QED BY <2>6, <3>1, InsideKeeps DEF TryToStartPmwatch, Inside, files
  <2>7. CASE StartDstat(s) \/ StartEmon(s)
    BY <2>7, LaunchKeeps DEF StartDstat, StartEmon
  <2> QED BY <1>1, <2>1, <2>2, <2>3, <2>4, <2>5, <2>6, <2>7, PrepareKeeps, FindDstatKeeps,
             FindEmonKeeps DEF Starter
<1>2. ASSUME NEW s \in Starters, NEW p \in Profilers, ProfilerExits(s, p) PROVE IInv'
  <2>1. /\ proc' = [proc EXCEPT ![p] = @ \ {s}]
        /\ UNCHANGED <<pc, dir, found, out, location, met>>
    BY <1>2 DEF ProfilerExits, local, files
  <2>2. /\ proc' \in [Profilers -> SUBSET Starters]
        /\ proc'["dstat"] \subseteq proc["dstat"] /\ proc'["emon"] \subseteq proc["emon"]
    BY <1>0, <2>1 DEF Profilers
  <2> QED BY <1>0, <2>1, <2>2, ShrinkKeeps
<1>3. CASE Stop
  BY <1>0, <1>3, ShrinkKeeps DEF Stop, local, files, Profilers
<1>4. CASE UNCHANGED vars
  BY <1>0, <1>4, ShrinkKeeps DEF vars
<1> QED BY <1>1, <1>2, <1>3, <1>4 DEF Next, Done

THEOREM Invariant == Spec => []IInv
BY InitIInv, NextIInv, PTL DEF Spec

\* Two collections run together only if their starts were inside together, for
\* any number of starts, exits, interrupts and stops.
THEOREM OneAtATime == Spec => []OneCollection
<1>1. IInv => OneCollection
  BY DEF IInv, MetInv, AloneInv, Alone, OneCollection
<1> QED BY <1>1, Invariant, PTL

\* An aborted start has left neither dstat nor emon behind.
THEOREM AbortCleansUp == Spec => []AbortedLeavesNoHalf
<1>1. IInv => AbortedLeavesNoHalf
  BY DEF IInv, KillInv, AbortedLeavesNoHalf
<1> QED BY <1>1, Invariant, PTL

\* Nobody renames or truncates what a collection that met no other start writes.
THEOREM CollectionIsUndisturbed == Spec => []RunningIsUndisturbed
<1>1. IInv => RunningIsUndisturbed
  BY DEF IInv, Undisturbed, RunningIsUndisturbed
<1> QED BY <1>1, Invariant, PTL

-----------------------------------------------------------------------------
(***************************************************************************)
(* Types.  A start that looks for a name finds one among as many names as  *)
(* there are starts: a directory is made by a start that is past looking.  *)
(***************************************************************************)
Early == {"prepare", "finddstat", "findemon", "clear", "mkdir"}
Past == {s \in Starters : pc[s] \notin Early}

NamesInv == IsFiniteSet(dirs) /\ Cardinality(dirs) <= Cardinality(Past)

LEMMA Counts ==
  /\ IsFiniteSet(Starters) /\ Cardinality(Starters) \in Nat
  /\ \A T \in SUBSET Starters : IsFiniteSet(T) /\ Cardinality(T) \in Nat
  /\ \A T \in SUBSET Starters : \A U \in SUBSET T : Cardinality(U) <= Cardinality(T)
<1>1. \A T \in SUBSET Starters : IsFiniteSet(T)
  BY StartersAssumption, FS_Subset
<1> QED
  BY <1>1, StartersAssumption, FS_Subset, FS_CardinalityType

\* The starts that are not s are one less.
LEMMA OthersCount ==
  ASSUME NEW s \in Starters, NEW T \in SUBSET (Starters \ {s})
  PROVE  Cardinality(T) <= Cardinality(Starters) - 1
<1>1. Cardinality(Starters \ {s}) = Cardinality(Starters) - 1
  BY Counts, FS_RemoveElement
<1>2. T \in SUBSET (Starters \ {s}) /\ Starters \ {s} \in SUBSET Starters
  OBVIOUS
<1> QED
  BY <1>1, <1>2, Counts

\* The loop of prepare_result_location ends at a name that is free.
LEMMA NameIsFree ==
  ASSUME TypeOK, NamesInv, NEW s \in Starters, pc[s] = "prepare"
  PROVE  FreeName \in Names /\ FreeName \notin dirs
<1> DEFINE n == Cardinality(Starters)
           free == Names \ dirs
           R == OpToRel(<, Nat)
<1>1. n \in Nat /\ n >= 1
  <2>1. Cardinality({}) = 0
    BY FS_EmptySet
  <2> QED
    BY <2>1, Counts, OthersCount
<1>2. IsFiniteSet(Names) /\ Cardinality(Names) = n /\ Names \subseteq Nat
  BY <1>1, FS_Interval DEF Names
<1>3. Cardinality(dirs) \in Nat /\ Cardinality(dirs) <= n - 1
  <2>1. Past \in SUBSET (Starters \ {s})
    BY DEF Past, Early
  <2>2. Cardinality(Past) \in Nat /\ Cardinality(Past) <= n - 1
    BY <2>1, Counts, OthersCount
  <2> QED
    BY <1>1, <2>2, FS_CardinalityType DEF NamesInv
<1>4. free # {}
  <2>1. free = {} => dirs = Names
    BY DEF TypeOK
  <2> HIDE DEF free
  <2> QED
    BY <1>1, <1>2, <1>3, <2>1
<1>5. \E m \in free : \A k \in free : ~ (<<k, m>> \in R)
  <2>1. free \subseteq Nat
    BY <1>2
  <2> HIDE DEF free
  <2> QED
    BY <1>4, <2>1, NatLessThanWellFounded, WFMin
<1>6. \E m \in Names : m \notin dirs /\ \A k \in Names : k < m => k \in dirs
  BY <1>2, <1>5 DEF OpToRel
<1> QED
  BY <1>6 DEF FreeName

\* A move leaves the early labels, or stays among them on the way.
LEMMA PastGrows ==
  ASSUME TypeOK, NEW s \in Starters, NEW to, Go(s, to), pc[s] \notin Early => to \notin Early
  PROVE  Past' \in SUBSET Starters /\ Past \subseteq Past'
         /\ (to \notin Early => s \in Past')
  BY DEF TypeOK, Go, Past

LEMMA NamesKept ==
  ASSUME NamesInv, dirs' = dirs, Past \subseteq Past', Past' \in SUBSET Starters
  PROVE  NamesInv'
<1>1. Cardinality(Past) <= Cardinality(Past') /\ Cardinality(Past) \in Nat
      /\ Cardinality(Past') \in Nat
  BY Counts DEF Past
<1>2. Cardinality(dirs) \in Nat
  BY FS_CardinalityType DEF NamesInv
<1> QED
  BY <1>1, <1>2 DEF NamesInv

LEMMA MakeKeepsNames ==
  ASSUME TypeOK, NamesInv, NEW s \in Starters, MakeDirectory(s)
  PROVE  NamesInv'
<1>1. Go(s, "record") /\ pc[s] = "mkdir" /\ dirs' = dirs \cup {dir[s]}
  BY DEF MakeDirectory
<1>2. Past' = Past \cup {s} /\ s \notin Past
  BY <1>1 DEF Past, Early, Go, TypeOK
<1>3. Cardinality(Past') = Cardinality(Past) + 1
  BY <1>2, Counts, FS_AddElement DEF Past
<1>4. IsFiniteSet(dirs') /\ Cardinality(dirs') <= Cardinality(dirs) + 1
      /\ Cardinality(dirs) \in Nat /\ Cardinality(dirs') \in Nat
  <2>1. IsFiniteSet(dirs) /\ IsFiniteSet(dirs')
    BY <1>1, FS_AddElement DEF NamesInv
  <2>2. Cardinality(dirs) \in Nat /\ Cardinality(dirs') \in Nat
    BY <2>1, FS_CardinalityType
  <2>3. Cardinality(dirs') = IF dir[s] \in dirs THEN Cardinality(dirs) ELSE Cardinality(dirs) + 1
    BY <1>1, <2>1, FS_AddElement
  <2> QED
    BY <2>1, <2>2, <2>3
<1>5. Cardinality(Past) \in Nat
  BY Counts DEF Past
<1> QED
  BY <1>3, <1>4, <1>5 DEF NamesInv

\* What the actions other than the first and mkdir do to the names.
LEMMA TypeStep == TypeOK /\ NamesInv /\ [Next]_vars => (TypeOK /\ NamesInv)'
<1> SUFFICES ASSUME TypeOK, NamesInv, [Next]_vars PROVE TypeOK' /\ NamesInv'
  OBVIOUS
<1> USE DEF Go
<1>1. ASSUME NEW s \in Starters, Starter(s) PROVE TypeOK'
  <2>1. CASE PrepareResultLocation(s)
    BY <2>1, NameIsFree DEF PrepareResultLocation, files, TypeOK
  <2>2. CASE Exit(s) \/ Interrupt(s) \/ FindEmon(s)
    BY <2>2 DEF Exit, Interrupt, FindEmon, files, TypeOK, Ended
  <2>7. CASE FindDstat(s)
    <3>1. met' \in [Starters -> SUBSET Starters]
      BY <2>7 DEF FindDstat, TypeOK
    <3>2. found' \in [Starters -> BOOLEAN]
      BY <2>7 DEF FindDstat, TypeOK
    <3> QED
      BY <2>7, <3>1, <3>2 DEF FindDstat, files, TypeOK
  <2>3. CASE ClearLocation(s) \/ MakeDirectory(s) \/ RecordLocation(s) \/ WriteConfiguration(s)
    BY <2>3 DEF ClearLocation, MakeDirectory, RecordLocation, WriteConfiguration, files,
       TypeOK
  <2>4. CASE TryToStartPmwatch(s) \/ StartDstat(s) \/ StartEmon(s)
    BY <2>4 DEF TryToStartPmwatch, StartDstat, StartEmon, StartProfiler, files, TypeOK,
       Profilers
  <2>5. CASE JudgeDstat(s) \/ JudgeEmon(s)
    BY <2>5 DEF JudgeDstat, JudgeEmon, Judge, files, TypeOK, Ended
  <2>6. CASE KillDstat(s) \/ KillEmon(s)
    BY <2>6 DEF KillDstat, KillEmon, Kill, Killed, files, TypeOK, Ended, Profilers
  <2> QED
    BY <1>1, <2>1, <2>2, <2>3, <2>4, <2>5, <2>6, <2>7 DEF Starter
<1>2. ASSUME NEW s \in Starters, Starter(s) PROVE NamesInv'
  <2>1. CASE MakeDirectory(s)
    BY <2>1, MakeKeepsNames
  <2>2. CASE ~MakeDirectory(s)
    <3>1. dirs' = dirs
      BY <1>2, <2>2 DEF Starter, Exit, PrepareResultLocation, FindDstat, FindEmon,
         ClearLocation, RecordLocation, WriteConfiguration, TryToStartPmwatch, StartDstat,
         StartEmon, StartProfiler, JudgeDstat, JudgeEmon, Judge, KillDstat, KillEmon, Kill,
         Interrupt, files
    <3>2. Past' \in SUBSET Starters /\ Past \subseteq Past'
      <4>1. \E to : Go(s, to) /\ (pc[s] \notin Early => to \notin Early)
        <5> HIDE DEF Go
        <5>1. CASE Exit(s) \/ Interrupt(s) \/ WriteConfiguration(s) \/ TryToStartPmwatch(s)
                   \/ RecordLocation(s)
          BY <5>1 DEF Exit, Interrupt, WriteConfiguration, TryToStartPmwatch, RecordLocation,
             Early
        <5>2. CASE PrepareResultLocation(s) \/ FindDstat(s) \/ FindEmon(s) \/ ClearLocation(s)
          BY <5>2 DEF PrepareResultLocation, FindDstat, FindEmon, ClearLocation, Early
        <5>3. CASE StartDstat(s) \/ StartEmon(s)
          BY <5>3 DEF StartDstat, StartEmon, StartProfiler, Early
        <5>4. CASE JudgeDstat(s) \/ JudgeEmon(s) \/ KillDstat(s) \/ KillEmon(s)
          BY <5>4 DEF JudgeDstat, JudgeEmon, Judge, KillDstat, KillEmon, Kill, Early
        <5> QED
          BY <1>2, <2>2, <5>1, <5>2, <5>3, <5>4 DEF Starter
      <4> HIDE DEF Go
      <4> QED
        BY <4>1, PastGrows
    <3> QED
      BY <3>1, <3>2, NamesKept
  <2> QED
    BY <2>1, <2>2
<1>3. ASSUME NEW s \in Starters, NEW p \in Profilers, ProfilerExits(s, p)
      PROVE  TypeOK' /\ UNCHANGED <<pc, dirs>>
  BY <1>3 DEF ProfilerExits, local, files, TypeOK, Profilers
<1>4. CASE Stop
  BY <1>4 DEF Stop, local, files, TypeOK, Profilers, NamesInv, Past
<1>5. CASE UNCHANGED vars
  BY <1>5 DEF vars, TypeOK, NamesInv, Past
<1>6. UNCHANGED <<pc, dirs>> => NamesInv'
  BY DEF NamesInv, Past
<1> QED
  BY <1>1, <1>2, <1>3, <1>4, <1>5, <1>6 DEF Next, Done

LEMMA TypeInit == Init => TypeOK /\ NamesInv
<1> SUFFICES ASSUME Init PROVE TypeOK /\ NamesInv
  OBVIOUS
<1>1. \A s \in Starters : 0 \in Names
  <2> SUFFICES ASSUME NEW s \in Starters PROVE 0 \in Names
    OBVIOUS
  <2>1. Cardinality({}) <= Cardinality(Starters) - 1 /\ Cardinality({}) = 0
    BY OthersCount, FS_EmptySet
  <2> QED
    BY <2>1, Counts DEF Names
<1>2. TypeOK
  BY <1>1 DEF Init, TypeOK, Ended, Profilers
<1>3. Past = {}
  BY DEF Init, Past, Early
<1> QED
  BY <1>2, <1>3, FS_EmptySet DEF Init, NamesInv

\* Every variable has its type; above all a start always finds a free name.
THEOREM TypeCorrect == Spec => []TypeOK
BY TypeInit, TypeStep, PTL DEF Spec
=============================================================================
