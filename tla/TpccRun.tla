------------------------------- MODULE TpccRun -------------------------------
(***************************************************************************)
(* The TPC-C driver scripts tpcc/mysql/mysql.sh and                        *)
(* tpcc/postgres/postgresql.sh with tpcc/constants.sh.  "build" creates a  *)
(* database once and puts its directory aside; "benchmark" copies the      *)
(* initial data back, starts the server on the copy, warms it up, and for  *)
(* every number of users starts a profiler collection, runs HammerDB,      *)
(* stops the collection and files its archive.  No command's failure stops *)
(* a script.  A script may be interrupted between any two commands, and    *)
(* while it waits; a server and a collection that it started in the        *)
(* background live on, also a server that only starts or that has no       *)
(* password yet, which a later stop_mysql does not reach.                  *)
(***************************************************************************)
EXTENDS Integers, LoopOrder

CONSTANTS Engines,         \* "mysql", "postgres"
          Configs,         \* the configurations a benchmark is called with
          MaxUsers,        \* numbers of users: 8 16 32 64 128, so 5
          MaxInvocations,  \* bound: calls of the script
          None

\* A configuration says where the copy goes ("data" itself, or "pmem" with data
\* a link to it), whether the WAL is a link to /mnt/local, and if it is known;
\* mysql knows no configuration with a WAL.
ConfigType == [place : {"data", "pmem"}, wal : BOOLEAN, known : BOOLEAN]

\* Directories: data, /mnt/pmem*/...-tpcc-sf*, data${sf}w and data-${sf}w.
Places == {"data", "pmem", "saved", "pristine"}

ASSUME TpccAssumption ==
  /\ Engines \subseteq {"mysql", "postgres"} /\ Configs \subseteq ConfigType
  /\ MaxUsers \in Nat /\ MaxUsers >= 1
  /\ MaxInvocations \in Nat /\ MaxInvocations >= 1
  /\ None \notin Places \cup {"gone"}

\* A directory is absent, partly copied, or a database: how far its schema was
\* built ("bare": root has no password yet), and what has run on it since.
absent == [schema |-> "none", use |-> "fresh"]
partial == [schema |-> "copying", use |-> "fresh"]
Databases == [schema : {"bare", "empty", "half", "full"}, use : {"fresh", "warm", "used"}]
Contents == Databases \cup {absent, partial}

VARIABLES engine,    \* which of the two scripts
          config,    \* $config of the current call
          pc,        \* where the script is; "idle": no script runs
          inv,       \* calls so far
          users,     \* the index of the loop over the numbers of users
          met,       \* history: the call, or the last one that was not refused,
                     \* found a server that it does not stop
          store,     \* store[p]: the contents of directory p
          link,      \* what the name data is: None, a directory, or a link to pmem
          server,    \* "down", "starting" or "up"
          on,        \* the directory the server has open; "gone" if it was removed
          keyed,     \* the server asks root for the password mysql
          coll,      \* the runs the active collection has sampled, or None
          archive    \* archive[u]: call and samples of the result file of users u

call == <<inv, users, config, met>>
script == <<pc, call>>
disk == <<store, link>>
daemon == <<server, on, keyed>>
results == <<coll, archive>>
vars == <<engine, script, disk, daemon, results>>

Users == 1 .. MaxUsers

Archives == [by : 1 .. MaxInvocations, runs : SUBSET ((1 .. MaxInvocations) \X Users)]

Init ==
  /\ engine \in Engines /\ config \in Configs
  /\ pc = "idle" /\ inv = 0 /\ users = 1 /\ met = FALSE
  /\ \E p \in {absent, [schema |-> "full", use |-> "fresh"]} :
       store = [q \in Places |-> IF q = "pristine" THEN p ELSE absent]
  /\ link = None
  /\ server = "down" /\ on = None /\ keyed = FALSE
  /\ coll = None
  /\ archive = [u \in Users |-> None]

-----------------------------------------------------------------------------
\* The server and its commands.

\* Files removed under a server that starts may fail it, and so may a WAL at
\* /mnt/local that is not the copied one.
MayFail ==
  \/ on = "gone"
  \/ engine = "postgres" /\ config.wal /\ pc # "buildwait"

ComesUp ==
  /\ server = "starting"
  /\ server' = "up"
  /\ UNCHANGED <<engine, script, disk, on, keyed, results>>

NoServer == server' = "down" /\ on' = None /\ keyed' = FALSE

FailsToStart ==
  /\ server = "starting" /\ MayFail
  /\ NoServer
  /\ UNCHANGED <<engine, script, disk, results>>

\* Mutated: the server is not started.
LaunchNothing == UNCHANGED daemon

\* mysqld in the background or pg_ctl start, on data: without a database it gives
\* up at once, and of two servers the one that opens the port first stays.
Launch ==
  LET found == link # None /\ store[link] \in Databases
  IN  \/ /\ found /\ server # "up"
         /\ server' = "starting" /\ on' = link
         /\ keyed' = (store[link].schema # "bare")
      \/ /\ ~found \/ server # "down"
         /\ UNCHANGED daemon

\* A client that logs on as root, or as postgres, with the password.
Admitted == server = "up" /\ (engine = "mysql" => keyed)

\* stop_mysql shuts down a server that answers to the password; pg_ctl stop ends
\* the one whose pid file is in data.
Reached == IF engine = "mysql" THEN Admitted ELSE on = link

OutOfReach == server # "down" /\ ~Reached

\* Both return when the server has ended.
StopServer == IF Reached THEN NoServer ELSE UNCHANGED daemon

\* initialise_mysql pings without a password, start_mysql with it; pg_ctl start
\* returns when the server is up or has failed.
Waited ==
  IF engine = "mysql" THEN server = "up" /\ keyed = (pc = "wait")
  ELSE server # "starting"

\* HammerDB runs on the server's database, if it is let in.
RunOn(schema, use) ==
  IF Admitted /\ on \in Places
  THEN store' = [store EXCEPT ![on] =
         [schema |-> IF schema = None THEN @.schema ELSE schema, use |-> use]]
  ELSE UNCHANGED store

\* The server loses its files when their directory goes.
Lost(p) == on' = (IF on = p THEN "gone" ELSE on) /\ UNCHANGED <<server, keyed>>

-----------------------------------------------------------------------------
\* build

CallBuild ==
  /\ pc = "idle" /\ inv < MaxInvocations
  /\ inv' = inv + 1
  /\ pc' = "initialise"
  /\ UNCHANGED <<engine, users, config, met, disk, daemon, results>>

\* initdb sets the password, mysqld --initialize-insecure none.
NewDatabase == [schema |-> IF engine = "mysql" THEN "bare" ELSE "empty", use |-> "fresh"]

\* -d data follows a link.
Refused == link # None /\ store[link] # absent

\* Through a link to nothing no database can be made.
MakeData ==
  IF link = None THEN link' = "data" /\ store' = [store EXCEPT !["data"] = NewDatabase]
  ELSE UNCHANGED disk

\* initialise_*
Initialise ==
  /\ pc = "initialise"
  /\ IF Refused THEN pc' = "idle" /\ UNCHANGED <<disk, met>>
     ELSE MakeData /\ met' = (server # "down") /\ pc' = "buildlaunch"
  /\ UNCHANGED <<engine, inv, users, config, daemon, results>>

BuildLaunch ==
  /\ pc = "buildlaunch"
  /\ Launch
  /\ pc' = "buildwait"
  /\ UNCHANGED <<engine, call, disk, results>>

BuildWait ==
  /\ pc = "buildwait" /\ Waited
  /\ pc' = IF engine = "mysql" THEN "password" ELSE "load"
  /\ UNCHANGED <<engine, call, disk, daemon, results>>

\* mysqladmin -u root password mysql: in the database that the server has open.
SetPassword ==
  /\ pc = "password"
  /\ keyed' = (server = "up")
  /\ store' = IF server = "up" /\ on \in Places
              THEN [store EXCEPT ![on].schema = IF @ = "bare" THEN "empty" ELSE @]
              ELSE store
  /\ pc' = "load"
  /\ UNCHANGED <<engine, call, link, server, on, results>>

\* build.tcl; the schema may stay half built.
Load ==
  /\ pc = "load"
  /\ \E s \in {"half", "full"} : RunOn(s, "fresh")
  /\ pc' = "buildstop"
  /\ UNCHANGED <<engine, call, link, daemon, results>>

BuildStop ==
  /\ pc = "buildstop"
  /\ StopServer
  /\ pc' = "putaside"
  /\ UNCHANGED <<engine, call, disk, results>>

\* mv data data${sf}w: into that directory, if it exists.  No server has it open,
\* BuildStop was before.
PutAside ==
  /\ pc = "putaside"
  /\ store' = [store EXCEPT !["data"] = absent,
                            !["saved"] = IF @ = absent THEN store["data"] ELSE @]
  /\ link' = None
  /\ pc' = "idle"
  /\ UNCHANGED <<engine, call, daemon, results>>

\* What build calls data${sf}w has to be named data-${sf}w for benchmark.
OperatorRename ==
  /\ pc = "idle" /\ store["saved"] # absent /\ store["pristine"] = absent
  /\ store' = [store EXCEPT !["pristine"] = store["saved"], !["saved"] = absent]
  /\ UNCHANGED <<engine, script, link, daemon, results>>

-----------------------------------------------------------------------------
\* benchmark: set

CallBenchmark ==
  /\ pc = "idle" /\ inv < MaxInvocations
  /\ inv' = inv + 1 /\ users' = 1
  /\ config' \in Configs
  /\ pc' = "stop"
  /\ UNCHANGED <<engine, met, disk, daemon, results>>

\* Mutated: set goes on without stopping the server.
StopNothing ==
  /\ pc = "stop"
  /\ met' = OutOfReach
  /\ pc' = "remove"
  /\ UNCHANGED <<engine, inv, users, config, disk, daemon, results>>

Stop ==
  /\ pc = "stop"
  /\ StopServer /\ met' = OutOfReach
  /\ pc' = "remove"
  /\ UNCHANGED <<engine, inv, users, config, disk, results>>

Supported == config.known /\ (engine = "postgres" \/ ~config.wal)

\* Mutated: the old data is left in place, and the copy goes into it.
RemoveNothing ==
  /\ pc = "remove"
  /\ pc' = IF link = None THEN "copy" ELSE "start"
  /\ UNCHANGED <<engine, call, disk, daemon, results>>

\* rm -rf data, a directory or a link; an unknown configuration ends the script.
Remove ==
  /\ pc = "remove"
  /\ link' = None
  /\ store' = [store EXCEPT !["data"] = absent]
  /\ Lost("data")
  /\ pc' = IF Supported THEN "copy" ELSE "idle"
  /\ UNCHANGED <<engine, call, results>>

\* cp -r data-${sf}w, to data or to /mnt/pmem* once that is removed; without a
\* source it fails, and only the link is made.
Copy ==
  /\ pc = "copy"
  /\ IF store["pristine"] = absent
     THEN /\ store' = [store EXCEPT ![config.place] = absent]
          /\ link' = IF config.place = "pmem" THEN "pmem" ELSE None
          /\ pc' = "start"
     ELSE /\ store' = [store EXCEPT ![config.place] = partial]
          /\ link' = IF config.place = "pmem" THEN None ELSE "data"
          /\ pc' = "copying"
  /\ Lost(config.place)
  /\ UNCHANGED <<engine, call, results>>

\* Mutated: a link to the initial data instead of a copy, as tpch/constants.sh has it.
CopiedAsLink == link' = "pristine" /\ UNCHANGED store

Copied ==
  /\ store' = [store EXCEPT ![config.place] = store["pristine"]]
  /\ link' = config.place

CopyEnds ==
  /\ pc = "copying"
  /\ Copied
  /\ pc' = "start"
  /\ UNCHANGED <<engine, call, daemon, results>>

Start ==
  /\ pc = "start"
  /\ Launch
  /\ pc' = "wait"
  /\ UNCHANGED <<engine, call, disk, results>>

Wait ==
  /\ pc = "wait" /\ Waited
  /\ pc' = "warmup"
  /\ UNCHANGED <<engine, call, disk, daemon, results>>

\* warmup.tcl, once for all numbers of users.
WarmUp ==
  /\ pc = "warmup"
  /\ RunOn(None, "warm")
  /\ pc' = "remove result"
  /\ UNCHANGED <<engine, call, link, daemon, results>>

-----------------------------------------------------------------------------
\* benchmark: the loop

RemoveResult ==
  /\ pc = "remove result"
  /\ archive' = [archive EXCEPT ![users] = None]
  /\ pc' = "collect"
  /\ UNCHANGED <<engine, call, disk, daemon, coll>>

\* vpp-collect start: refused while a collection is active, and may abort.
StartCollection ==
  /\ pc = "collect"
  /\ IF coll = None THEN coll' \in {{}, None} ELSE UNCHANGED coll
  /\ pc' = "measure"
  /\ UNCHANGED <<engine, call, disk, daemon, archive>>

\* benchmark.tcl with this number of users; the collection samples it.
Measure ==
  /\ pc = "measure"
  /\ RunOn(None, "used")
  /\ coll' = IF coll = None THEN None ELSE coll \cup {<<inv, users>>}
  /\ pc' = "stop collection"
  /\ UNCHANGED <<engine, call, link, daemon, archive>>

\* Mutated: the collection goes on.
CollAfterStopRunning == coll

CollAfterStop == None

MoreUsers == users < MaxUsers

\* vpp-collect stop, and mv of the archive it names, if it names one.
FileArchive ==
  /\ pc = "stop collection"
  /\ archive' = IF coll = None THEN archive
                ELSE [archive EXCEPT ![users] = [by |-> inv, runs |-> coll]]
  /\ coll' = CollAfterStop
  /\ IF MoreUsers THEN users' = users + 1 /\ pc' = "remove result"
     ELSE pc' = "idle" /\ UNCHANGED users
  /\ UNCHANGED <<engine, inv, config, met, disk, daemon>>

\* Between any two commands, and while one waits.
Interrupt ==
  /\ pc # "idle"
  /\ pc' = "idle"
  /\ UNCHANGED <<engine, call, disk, daemon, results>>

Command ==
  \/ Initialise \/ BuildLaunch \/ BuildWait \/ SetPassword \/ Load \/ BuildStop \/ PutAside
  \/ Stop \/ Remove \/ Copy \/ CopyEnds \/ Start \/ Wait \/ WarmUp
  \/ RemoveResult \/ StartCollection \/ Measure \/ FileArchive

Server == ComesUp \/ FailsToStart

Rest == pc = "idle" /\ UNCHANGED vars

Next ==
  \/ CallBuild \/ CallBenchmark \/ Command \/ Server \/ Interrupt \/ OperatorRename \/ Rest

\* The commands of a script return; a server that starts comes up or fails.
Spec == Init /\ [][Next]_vars /\ WF_vars(Command) /\ WF_vars(Server)

-----------------------------------------------------------------------------
\* Every variable has its type.
TypeOK ==
  /\ engine \in Engines /\ config \in Configs /\ inv \in 0 .. MaxInvocations
  /\ pc \in {"idle", "initialise", "buildlaunch", "buildwait", "password", "load", "buildstop",
       "putaside", "stop", "remove", "copy", "copying", "start", "wait", "warmup",
       "remove result", "collect", "measure", "stop collection"}
  /\ users \in Users /\ met \in BOOLEAN
  /\ store \in [Places -> Contents]
  /\ link \in Places \cup {None}
  /\ server \in {"down", "starting", "up"} /\ on \in Places \cup {"gone", None}
  /\ keyed \in BOOLEAN
  /\ coll = None \/ coll \subseteq (1 .. MaxInvocations) \X Users
  /\ archive \in [Users -> Archives \cup {None}]

\* No command writes to the initial data: every later benchmark, also after an
\* interrupted one, starts from what build made (README.md:101-102).
PristineKept ==
  [][store["pristine"] # absent => store'["pristine"] = store["pristine"]]_vars

\* In a call that found no server out of its reach, no server has its directory
\* removed or replaced under it (constants.sh:133-147: stop_mysql before rm -rf data).
ServerKeepsItsFiles == ~met /\ server # "down" => on # "gone"

\* The first run of such a call measures the initial data, warmed up and nothing
\* else, whatever earlier calls have left in data and on /mnt/pmem*, and whether or
\* not a server of theirs was to be stopped.
FirstRunFromInitial ==
  ~met /\ pc = "measure" /\ users = 1 /\ server = "up" =>
    /\ on = link
    /\ store[on] = [schema |-> store["pristine"].schema, use |-> "warm"]

\* A result file beyond the first of a call holds the samples of its own run: a
\* collection that an interrupted call left behind reaches into one file only.
LaterFilesAreTheirOwn ==
  \A u \in Users : u > 1 /\ archive[u] # None =>
    archive[u].runs = {<<archive[u].by, u>>}

\* What is to be copied is a database, with the password that start_mysql pings with.
Copyable == store["pristine"] \in Databases /\ store["pristine"].schema # "bare"

\* With initial data to copy and no server out of its reach, a benchmark gets through
\* its ping loop and ends.
BenchmarkEnds ==
  (pc = "copy" /\ Copyable /\ ~met) ~> pc = "idle"

(***************************************************************************)
(* What a call has left to do: its stage, the numbers of users and the     *)
(* place in the round, and the server that is still to answer or to fail.  *)
(***************************************************************************)
StagesLeft ==
  CASE pc = "stop" -> 8 [] pc \in {"remove", "initialise"} -> 7
    [] pc \in {"copy", "buildlaunch"} -> 6 [] pc \in {"copying", "buildwait"} -> 5
    [] pc \in {"start", "password"} -> 4 [] pc \in {"wait", "load"} -> 3
    [] pc \in {"warmup", "buildstop"} -> 2 [] pc = "idle" -> 0 [] OTHER -> 1

RoundLeft ==
  CASE pc = "remove result" -> 4 [] pc = "collect" -> 3 [] pc = "measure" -> 2
    [] pc = "stop collection" -> 1 [] OTHER -> 0

Left == << StagesLeft, MaxUsers - users, RoundLeft, IF server = "starting" THEN 1 ELSE 0 >>

(***************************************************************************)
(* A call never goes round in a circle, and only a call gives the script   *)
(* more to do: each command, each answer or failure of a server, and an    *)
(* interrupt leaves less (mysql.sh:6-51, tpcc/constants.sh:102-129).       *)
(***************************************************************************)
EveryStepMovesOn ==
  [][/\ Left \in [1 .. 4 -> Nat]
     /\ Command \/ Server \/ Interrupt => Descends(Left, Left')
     /\ inv' = inv => Left' = Left \/ Descends(Left, Left')]_vars

(***************************************************************************)
(* In a call that found no server out of its reach, the ping loop of       *)
(* benchmark, with initial data to copy, and that of a build that has made *)
(* a database are not in vain: they end now, or the server that is         *)
(* starting is asked for the password that it has, and is no mysqld that   *)
(* can fail, for which the loop would run for ever (tpcc/constants.sh:     *)
(* 100-106, 119-129, 143-167).                                             *)
(***************************************************************************)
NobodyWaitsInVain ==
  ~met /\ \/ pc = "wait" /\ Copyable
          \/ pc = "buildwait" /\ store["data"] # absent
  => \/ Waited
     \/ /\ server = "starting"
        /\ engine = "mysql" => ~MayFail /\ keyed = (pc = "wait")

(***************************************************************************)
(* A server out of reach is the work of an interruption, of a mysqld that  *)
(* starts or has no password yet: a call that found none and ends by       *)
(* itself leaves none (tpcc/constants.sh:99-109, 119-129, 133-141).        *)
(***************************************************************************)
OnlyInterruptsLeaveStrays ==
  [][pc \notin {"idle", "initialise"} /\ pc' = "idle" /\ ~met /\ ~Interrupt
       => ~OutOfReach']_vars

\* "we reattach to the initial data before every experiment run" (README.md:101).
EveryRunFromInitial ==
  pc = "measure" /\ server = "up" /\ on \in Places => store[on].use = "warm"
=============================================================================
