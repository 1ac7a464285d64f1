----------------------------- MODULE VppCollect -----------------------------
(***************************************************************************)
(* files/start, the script behind "vpp-collect start": several invocations *)
(* of it (another user, a driver script restarted by hand) share one       *)
(* temporary directory and one set of profilers.  Each picks a name for    *)
(* its results, looks for a running collection, creates the result         *)
(* directory, starts ipmwatch, dstat and emon in the background, and looks *)
(* two seconds later whether they live.  A profiler may exit at any time,  *)
(* which includes never having started; a start may be interrupted between *)
(* any two commands, and its background children live on.                  *)
(***************************************************************************)
EXTENDS Integers, FiniteSets

CONSTANTS Starters,  \* the invocations of the script
          None       \* no invocation, no name

ASSUME StartersAssumption == IsFiniteSet(Starters) /\ None \notin Starters

Profilers == {"ipmwatch", "dstat", "emon"}

\* Result directories of one minute: the plain name, then suffixes 1, 2, ...; the
\* other invocations cannot have taken more.
Names == 0 .. Cardinality(Starters) - 1

VARIABLES pc,        \* where invocation s is
          dir,       \* result_location of s
          found,     \* DSTAT_PID of s is not empty
          proc,      \* proc[p]: the invocations whose profiler p is running
          out,       \* whose data the file at DSTAT_TMP_DEST, EMON_TMP_DEST is
          dirs,      \* the result directories that exist
          location,  \* what the file .result_location names
          met        \* history: the invocations that were between their check
                     \* and their launches at the same time as s

local == <<pc, dir, found>>
files == <<out, dirs, location>>
vars == <<pc, dir, found, proc, out, dirs, location, met>>

Init ==
  /\ pc = [s \in Starters |-> "prepare"]
  /\ dir = [s \in Starters |-> 0]
  /\ found = [s \in Starters |-> FALSE]
  /\ proc = [p \in Profilers |-> {}]
  /\ out = [p \in {"dstat", "emon"} |-> None]
  /\ dirs = {}
  /\ location = None
  /\ met = [s \in Starters |-> {}]

Go(s, to) == pc' = [pc EXCEPT ![s] = to]

\* From the first look for another collection to the last launch.
Inside(s) ==
  pc[s] \in {"findemon", "clear", "mkdir", "record", "configure", "pmwatch", "dstat", "emon"}

\* What the script names "a collection": it is what the check looks for.
Collecting(s) == s \in proc["dstat"] \/ s \in proc["emon"]

\* The script prints a usage or an error and exits, having started nothing yet.
Exit(s) ==
  /\ pc[s] \in {"prepare", "finddstat", "mkdir", "configure"}
  /\ Go(s, "exited")
  /\ UNCHANGED <<dir, found, proc, files, met>>

\* The first name whose directory does not exist: the while loop's result.
FreeName == CHOOSE n \in Names : n \notin dirs /\ \A m \in Names : m < n => m \in dirs

\* Mutated: the name is recorded as soon as it is known.
PrepareAndRecord(s) ==
  /\ pc[s] = "prepare"
  /\ dir' = [dir EXCEPT ![s] = FreeName] /\ location' = FreeName
  /\ Go(s, "finddstat")
  /\ UNCHANGED <<found, proc, out, dirs, met>>

\* Options, temporary directory, and a name for the results.
PrepareResultLocation(s) ==
  /\ pc[s] = "prepare"
  /\ dir' = [dir EXCEPT ![s] = FreeName]
  /\ Go(s, "finddstat")
  /\ UNCHANGED <<found, proc, files, met>>

\* find_pid dstat, after the other preconditions held.
FindDstat(s) ==
  /\ pc[s] = "finddstat"
  /\ found' = [found EXCEPT ![s] = proc["dstat"] # {}]
  /\ Go(s, "findemon")
  /\ met' = [t \in Starters |->
               IF t = s THEN {u \in Starters : Inside(u)}
               ELSE IF Inside(t) THEN met[t] \cup {s} ELSE met[t]]
  /\ UNCHANGED <<dir, proc, files>>

\* Mutated: only a complete collection counts.
AnotherIsRunningWhole(s) == found[s] /\ proc["emon"] # {}

\* One pid is enough to refuse.
AnotherIsRunning(s) == found[s] \/ proc["emon"] # {}

\* find_pid emon, and the verdict.
FindEmon(s) ==
  /\ pc[s] = "findemon"
  /\ Go(s, IF AnotherIsRunning(s) THEN "exited" ELSE "clear")
  /\ UNCHANGED <<dir, found, proc, files, met>>

\* create_result_location: the old .result_location goes first, ...
ClearLocation(s) ==
  /\ pc[s] = "clear"
  /\ location' = None
  /\ Go(s, "mkdir")
  /\ UNCHANGED <<dir, found, proc, out, dirs, met>>

\* ... mkdir -p does not mind a directory that exists, ...
MakeDirectory(s) ==
  /\ pc[s] = "mkdir"
  /\ dirs' = dirs \cup {dir[s]}
  /\ Go(s, "record")
  /\ UNCHANGED <<dir, found, proc, out, location, met>>

\* ... and the new name is recorded for vpp-collect stop.
RecordLocation(s) ==
  /\ pc[s] = "record"
  /\ location' = dir[s]
  /\ Go(s, "configure")
  /\ UNCHANGED <<dir, found, proc, out, dirs, met>>

\* The configuration is written to the result file, under set -e.
WriteConfiguration(s) ==
  /\ pc[s] = "configure"
  /\ Go(s, "pmwatch")
  /\ UNCHANGED <<dir, found, proc, files, met>>

\* ipmwatch starts if it is installed and finds a device.
TryToStartPmwatch(s) ==
  /\ pc[s] = "pmwatch"
  /\ \/ proc' = [proc EXCEPT !["ipmwatch"] = @ \cup {s}]
     \/ UNCHANGED proc
  /\ Go(s, "dstat")
  /\ UNCHANGED <<dir, found, files, met>>

\* rm -f of the common output file, and a new profiler that writes to it.
StartProfiler(s, p, to) ==
  /\ pc[s] = p
  /\ out' = [out EXCEPT ![p] = s]
  /\ proc' = [proc EXCEPT ![p] = @ \cup {s}]
  /\ Go(s, to)
  /\ UNCHANGED <<dir, found, dirs, location, met>>

StartDstat(s) == StartProfiler(s, "dstat", "emon")
StartEmon(s) == StartProfiler(s, "emon", "judge")

\* ps -A | grep pid: a running profiler is found; the digits of a dead one may
\* still be found in some other line.
Judge(s, p, here, next) ==
  /\ pc[s] = here
  /\ \/ Go(s, next)
     \/ s \notin proc[p] /\ Go(s, "kill")
  /\ UNCHANGED <<dir, found, proc, files, met>>

JudgeDstat(s) == Judge(s, "dstat", "judge", "judgeemon")
JudgeEmon(s) == Judge(s, "emon", "judgeemon", "gathering")

\* Mutated: the second kill names the first process again.
KilledAgain(p) == "dstat"

\* The process that each kill -9 names.
Killed(p) == p

Kill(s, p, here, next) ==
  /\ pc[s] = here
  /\ proc' = [proc EXCEPT ![Killed(p)] = @ \ {s}]
  /\ Go(s, next)
  /\ UNCHANGED <<dir, found, files, met>>

KillDstat(s) == Kill(s, "dstat", "kill", "killemon")
KillEmon(s) == Kill(s, "emon", "killemon", "aborted")

Ended == {"exited", "interrupted", "gathering", "aborted"}

\* The script is interrupted; what it started in the background is not.
Interrupt(s) ==
  /\ pc[s] \notin Ended
  /\ Go(s, "interrupted")
  /\ UNCHANGED <<dir, found, proc, files, met>>

\* A profiler exits by itself, or has failed to start.
ProfilerExits(s, p) ==
  /\ s \in proc[p]
  /\ proc' = [proc EXCEPT ![p] = @ \ {s}]
  /\ UNCHANGED <<local, files, met>>

\* vpp-collect stop ends what is running, at any time.  Its script is not in the
\* repository; start expects to find an old .result_location, so stop leaves it.
Stop ==
  /\ \E s \in Starters : Collecting(s)
  /\ proc' = [p \in Profilers |-> {}]
  /\ UNCHANGED <<local, files, met>>

Starter(s) ==
  \/ Exit(s) \/ PrepareResultLocation(s) \/ FindDstat(s) \/ FindEmon(s) \/ ClearLocation(s)
  \/ MakeDirectory(s) \/ RecordLocation(s) \/ WriteConfiguration(s) \/ TryToStartPmwatch(s)
  \/ StartDstat(s) \/ StartEmon(s) \/ JudgeDstat(s) \/ JudgeEmon(s)
  \/ KillDstat(s) \/ KillEmon(s) \/ Interrupt(s)

Done == (\A s \in Starters : pc[s] \in Ended) /\ UNCHANGED vars

Next ==
  \/ \E s \in Starters : Starter(s)
  \/ \E s \in Starters, p \in Profilers : ProfilerExits(s, p)
  \/ Stop
  \/ Done

Spec == Init /\ [][Next]_vars

-----------------------------------------------------------------------------
\* Every variable has its type.
TypeOK ==
  /\ pc \in [Starters -> Ended \cup {"prepare", "finddstat", "findemon", "clear", "mkdir",
       "record", "configure", "pmwatch", "dstat", "emon", "judge", "judgeemon", "kill", "killemon"}]
  /\ dir \in [Starters -> Names]
  /\ found \in [Starters -> BOOLEAN]
  /\ proc \in [Profilers -> SUBSET Starters]
  /\ out \in [{"dstat", "emon"} -> Starters \cup {None}]
  /\ dirs \in SUBSET Names
  /\ location \in Names \cup {None}
  /\ met \in [Starters -> SUBSET Starters]

\* "Only one collection can run at a time" (files/start:198) holds of two starts
\* unless both were between their check and their launches at once: neither a
\* half-dead nor a half-launched nor a half-killed collection slips past the check.
OneCollection ==
  \A s, t \in Starters : s # t /\ Collecting(s) /\ Collecting(t) => t \in met[s]

\* A start that says "Collection aborted" leaves neither dstat nor emon behind,
\* whichever of them had failed (files/start:543-546).
AbortedLeavesNoHalf == \A s \in Starters : pc[s] = "aborted" => ~Collecting(s)

\* A running collection that met no other start can be stopped into its own
\* directory: a refused or failed later start has not renamed or removed
\* .result_location, and its output files are still the ones being written.
RunningIsUndisturbed ==
  \A s \in Starters :
    Collecting(s) /\ met[s] = {} =>
      /\ location = dir[s]
      /\ s \in proc["dstat"] => out["dstat"] = s
      /\ s \in proc["emon"] => out["emon"] = s

\* "make sure we don't leave half a collection running" (files/start:543).
NothingLeftRunning ==
  \A s \in Starters, p \in Profilers : pc[s] = "aborted" => s \notin proc[p]
=============================================================================
