------------------------------- MODULE TpchRun -------------------------------
(***************************************************************************)
(* The TPC-H driver scripts tpch/setup.sh and tpch/benchmark.sh with       *)
(* tpch/constants.sh.  setup.sh initialises a data directory, loads it     *)
(* slice by slice and puts it aside as data${SCALE_FACTOR}; benchmark.sh   *)
(* makes the name data stand for that directory, for a copy of it on       *)
(* persistent memory, or for a tree of links of which the indexes lead to  *)
(* persistent memory, and then, for every query, restarts the server,      *)
(* starts a collection, runs the query and files the archive.              *)
(*                                                                         *)
(* No command's failure stops a script.  A script may be interrupted       *)
(* between any two commands; server and collection live on.  Between the   *)
(* calls the TPC-C drivers may run in the same installation.               *)
(***************************************************************************)
EXTENDS Integers, LoopOrder

CONSTANTS Engines,         \* "mysql", "postgres"
          Configs,         \* what $config may be
          MaxQueries,      \* queries of a benchmark: 22
          ViewQuery,       \* the query that makes a view and drops it: 15
          Chunks,          \* slices of the data: SCALE_FACTOR, or 2
          MaxInvocations,  \* bound: calls of the scripts
          None

(***************************************************************************)
(* Directories: data, data${SCALE_FACTOR}, the directory data inside that, *)
(* /mnt/pmem0/*-tpch-sf*, and the one a TPC-C call may have linked to.     *)
(***************************************************************************)
Places == {"data", "built", "nested", "pmem", "tpcc"}

Queries == 1 .. MaxQueries
Slices == 1 .. Chunks

ASSUME TpchAssumption ==
  /\ Engines \subseteq {"mysql", "postgres"}
  /\ Configs \subseteq {"ssd", "pmemasdram", "pmemasdisk", "pmemforindex", "other"}
  /\ MaxQueries \in Nat /\ MaxQueries >= 1 /\ ViewQuery \in Nat
  /\ Chunks \in Nat /\ Chunks >= 1
  /\ MaxInvocations \in Nat /\ MaxInvocations >= 1
  /\ None \notin Places \cup {"gone"}

\* A TPC-H database, one of TPC-C, a tree of links to the built database with its
\* indexes there or on pmem, a symbolic link that leads nowhere, or nothing.
Kinds == {"tpch", "tpcc", "tree", "split", "broken", "none"}

\* Of a TPC-H database: the slices loaded, and whether the parameters for loading,
\* the indexes and the view of the view query are in it.
Contents == [kind : Kinds, rows : SUBSET Slices, has : SUBSET {"tuning", "indexes", "view"}]

New(k) == [kind |-> k, rows |-> {}, has |-> {}]

VARIABLES engine,    \* the argument of the scripts
          config,    \* $config of the current call
          pc,        \* where the script is; "idle": no script runs
          after,     \* where restart_* returns to
          inv,       \* calls so far
          i,         \* the index of the loop over slices or queries
          store,     \* store[p]: the contents of directory p
          link,      \* what the name data is: None, the directory, or a link's target
          server,    \* "down", "starting", "up", or "locked": up, with a password
          on,        \* the directory the server has open; "gone" if it was removed
          coll,      \* the samples of the active collection, or None
          archive,   \* archive[<<c, q>>]: the result file of query q under configuration c
          met,       \* history: what server the current call met, one that it can stop or not
          cut        \* history: databases whose view query was cut short

script == <<pc, after, inv, i, config, met>>
disk == <<store, link>>
daemon == <<server, on>>
results == <<coll, archive>>
vars == <<engine, script, disk, daemon, results, cut>>

Samples == [by : 0 .. MaxInvocations, q : 0 .. MaxQueries, at : Places \cup Kinds \cup {"gone"}]

Init ==
  /\ engine \in Engines /\ config \in Configs
  /\ pc = "idle" /\ after = "idle" /\ inv = 0 /\ i = 1 /\ met = "none or stoppable"
  /\ store = [p \in Places |-> New("none")]
  /\ link = None
  /\ server = "down" /\ on = None
  /\ coll = None
  /\ archive = [f \in Configs \X Queries |-> None]
  /\ cut = {}

-----------------------------------------------------------------------------
\* The server and its commands.

\* Whose files a server on directory p reads and writes: those of the built
\* database through the links of a tree.
Holder(p) == IF store[p].kind \in {"tree", "split"} THEN "built" ELSE p

Serving == server = "up" /\ on \in Places /\ store[Holder(on)].kind = "tpch"

\* The client's statements leave the database as d, if there is one to talk to.
Served(d) ==
  IF Serving THEN store' = [store EXCEPT ![Holder(on)] = d] ELSE UNCHANGED store

Database == store[Holder(on)]

\* Where a query is measured.
Measured == IF on = "data" THEN store["data"].kind ELSE on

MayComeUp == on \in Places /\ store[Holder(on)].kind \in {"tpch", "tpcc"}

ComesUp ==
  /\ server = "starting" /\ MayComeUp
  /\ server' = "up"
  /\ UNCHANGED <<engine, script, disk, on, results, cut>>

FailsToStart ==
  /\ server = "starting" /\ ~MayComeUp
  /\ server' = "down" /\ on' = None
  /\ UNCHANGED <<engine, script, disk, results, cut>>

\* mysqladmin shutdown reaches a server that is up and wants no password; pg_ctl
\* stop any whose directory is what data is.  Both return when it has ended.
Stoppable ==
  IF engine = "mysql" THEN server = "up" ELSE server # "down" /\ on = link

StopServer ==
  IF Stoppable THEN server' = "down" /\ on' = None ELSE UNCHANGED daemon

-----------------------------------------------------------------------------
(***************************************************************************)
(* restart_mysql, restart_postgres: stop, start on data, wait.             *)
(***************************************************************************)
\* The script goes from one label to the next.
Step(from, to) ==
  pc = from /\ pc' = to /\ UNCHANGED <<engine, after, inv, config, met>>

Restart(from, label) ==
  pc = from /\ pc' = "restart" /\ after' = label /\ UNCHANGED <<engine, inv, config, met>>

Shutdown ==
  /\ Step("restart", "launch")
  /\ StopServer
  /\ UNCHANGED <<i, disk, results, cut>>

\* Mutated: the server is not started.
LaunchNothing == Step("launch", "wait") /\ UNCHANGED <<i, disk, daemon, results, cut>>

\* pg_ctl start returns at once when there is no directory.
Nowhere == engine = "postgres" /\ link = None

\* A server beside one that is up gives up; of two that start, one does.
Launch ==
  /\ Step("launch", "wait")
  /\ \/ server = "down" /\ ~Nowhere /\ server' = "starting" /\ on' = link
     \/ server = "down" /\ Nowhere /\ UNCHANGED daemon
     \/ server = "starting" /\ on' \in {on, link} /\ UNCHANGED server
     \/ server \in {"up", "locked"} /\ UNCHANGED daemon
  /\ UNCHANGED <<i, disk, results, cut>>

\* The loop of mysql pings until a server answers; pg_ctl start returns when the
\* server is up or has failed.
Wait ==
  /\ Step("wait", after)
  /\ server = "up" \/ (engine = "postgres" /\ server # "starting")
  /\ UNCHANGED <<i, disk, daemon, results, cut>>

-----------------------------------------------------------------------------
(***************************************************************************)
(* setup.sh                                                                *)
(***************************************************************************)

\* Whether the server that is there at the call is one that the call can stop.
Healthy ==
  \/ server = "down"
  \/ on \in Places /\ on = link
     /\ (server = "up" \/ (server = "starting" /\ engine = "postgres"))

CallSetup ==
  /\ pc = "idle" /\ inv < MaxInvocations
  /\ inv' = inv + 1
  /\ met' = IF Healthy THEN "none or stoppable" ELSE "stray"
  /\ pc' = "initialise"
  /\ UNCHANGED <<engine, after, i, config, disk, daemon, results, cut>>

\* [[ -d data ]] follows a link.
DirectoryExists == link # None /\ store[link].kind \notin {"none", "broken"}

\* initialise_*: through a link to nothing no database can be made.
Refuse ==
  /\ DirectoryExists /\ Step("initialise", "idle")
  /\ UNCHANGED <<i, disk, daemon, results, cut>>

Initialise ==
  /\ ~DirectoryExists /\ Restart("initialise", "create")
  /\ IF link # None THEN UNCHANGED disk
     ELSE link' = "data" /\ store' = [store EXCEPT !["data"] = New("tpch")]
  /\ UNCHANGED <<i, daemon, results, cut>>

\* create.sql drops what is there; it has the keys for mysql.
CreateTables ==
  /\ Step("create", IF engine = "mysql" THEN "load" ELSE "tune")
  /\ Served([New("tpch") EXCEPT !.has = IF engine = "mysql" THEN {"indexes"} ELSE {}])
  /\ i' = 1
  /\ UNCHANGED <<link, daemon, results, cut>>

\* config.sql, and pg_ctl restart.
Tune ==
  /\ Restart("tune", "load")
  /\ Served([Database EXCEPT !.has = @ \cup {"tuning"}])
  /\ UNCHANGED <<i, link, daemon, results, cut>>

\* One slice, of which the client may report an error into the log.
LoadSlice ==
  /\ Step("load", "load") /\ i <= Chunks
  /\ Served([Database EXCEPT !.rows = @ \cup {i}]) \/ UNCHANGED store
  /\ i' = i + 1
  /\ UNCHANGED <<link, daemon, results, cut>>

\* The postgres script goes on with the indexes, the mysql script ends.
LoadEnds ==
  /\ Step("load", IF engine = "mysql" THEN "unload" ELSE "index") /\ i > Chunks
  /\ UNCHANGED <<i, disk, daemon, results, cut>>

AddIndexes ==
  /\ Step("index", "reset")
  /\ Served([Database EXCEPT !.has = @ \cup {"indexes"}])
  /\ UNCHANGED <<i, link, daemon, results, cut>>

\* Mutated: the loading parameters stay.
ResetNothing == Step("reset", "unload") /\ UNCHANGED <<i, disk, daemon, results, cut>>

\* ALTER SYSTEM RESET ALL; ANALYZE
ResetParameters ==
  /\ Step("reset", "unload")
  /\ Served([Database EXCEPT !.has = @ \ {"tuning"}])
  /\ UNCHANGED <<i, link, daemon, results, cut>>

\* Where stop_* stand, and what comes after them.
AfterStop == [unload |-> "putaside", stop |-> "prepare", prepare |-> "remove", finish |-> "idle"]

\* Mutated: setup puts data aside while the server still has it open.
StopUnlessLoaded ==
  /\ pc \in DOMAIN AfterStop /\ Step(pc, AfterStop[pc])
  /\ IF pc = "unload" THEN UNCHANGED daemon ELSE StopServer
  /\ UNCHANGED <<i, disk, results, cut>>

Stop ==
  /\ pc \in DOMAIN AfterStop /\ Step(pc, AfterStop[pc])
  /\ StopServer
  /\ UNCHANGED <<i, disk, results, cut>>

(***************************************************************************)
(* mv data data${SCALE_FACTOR}: into that directory if it exists, unless   *)
(* there is a data in it already; not over a link that leads nowhere.  A   *)
(* link to nothing is moved as well, onto another such link unless that    *)
(* leads to itself.  A server goes with the directory it has open.         *)
(***************************************************************************)
Aside == IF store["built"].kind = "tpch" THEN "nested" ELSE "built"

Movable ==
  /\ link # None
  /\ store[Aside].kind = "none" \/ (link # "data" /\ store[Aside].kind = "broken")

PutAside ==
  /\ Step("putaside", "idle")
  /\ \/ /\ Movable
        /\ store' = [store EXCEPT
             ![Aside] = IF link = "data" THEN store["data"] ELSE New("broken"),
             !["data"] = New("none")]
        /\ link' = None
        /\ on' = IF on = "data" THEN Aside ELSE on
     \/ /\ ~Movable \/ store[Aside].kind = "broken"
        /\ UNCHANGED <<disk, on>>
  /\ UNCHANGED <<i, server, results, cut>>

-----------------------------------------------------------------------------
(***************************************************************************)
(* benchmark.sh: stop_everything and prepare_*_data                        *)
(***************************************************************************)
CallBenchmark ==
  /\ pc = "idle" /\ inv < MaxInvocations
  /\ inv' = inv + 1 /\ i' = 1
  /\ config' \in Configs
  /\ met' = IF Healthy THEN "none or stoppable" ELSE "stray"
  /\ pc' = "stop"
  /\ UNCHANGED <<engine, after, disk, daemon, results, cut>>

\* Mutated: rm -rf data/, which empties what a link leads to.
RemovedThroughLink ==
  [store EXCEPT !["data"] = New("none"),
                !["built"] = IF link = "built" THEN New("none") ELSE @]

\* rm -rf data: the directory, or the link and not what it leads to.
Removed == [store EXCEPT !["data"] = New("none")]

Supported ==
  IF engine = "mysql" THEN config \in {"ssd", "pmemasdisk"} ELSE config # "other"

\* What data is to be linked to.
LinkFor == IF config = "pmemasdisk" THEN "pmem" ELSE "built"

RemoveData ==
  /\ Step("remove", IF ~Supported THEN "idle"
                    ELSE IF config = "pmemforindex" THEN "tree" ELSE "link")
  /\ store' = Removed
  /\ link' = None
  /\ on' = IF on = "data" THEN "gone" ELSE on
  /\ UNCHANGED <<i, server, results, cut>>

LinkData ==
  /\ Step("link", "query")
  /\ link' = LinkFor
  /\ UNCHANGED <<i, store, daemon, results, cut>>

\* setup_postgres_pmemforindex: cp -rs, which finds nothing to link to unless setup
\* has run; restart to ask for the files of the indexes.
CopyTree ==
  /\ Restart("tree", "list")
  /\ IF store["built"].kind # "tpch" THEN UNCHANGED disk
     ELSE link' = "data" /\ store' = [store EXCEPT !["data"] = New("tree")]
  /\ UNCHANGED <<i, daemon, results, cut>>

\* Without an answer there is no file to relink.
ListIndexes ==
  /\ Step("list", IF Serving THEN "relink" ELSE "query")
  /\ StopServer
  /\ UNCHANGED <<i, disk, results, cut>>

\* rm and ln -s for every file of an index.
RelinkIndexes ==
  /\ Step("relink", "query")
  /\ store' = [store EXCEPT !["data"] = New("split")]
  /\ UNCHANGED <<i, link, daemon, results, cut>>

-----------------------------------------------------------------------------
(***************************************************************************)
(* benchmark.sh: the loop over the queries                                 *)
(***************************************************************************)

\* Mutated: one server for all queries, and one that may be left over.
QueryWithoutRestart ==
  /\ pc = "query" /\ pc' = "launch" /\ after' = "clear"
  /\ UNCHANGED <<engine, inv, config, met, i, disk, daemon, results, cut>>

\* Every query begins with a restart.
BeginQuery == Restart("query", "clear") /\ UNCHANGED <<i, disk, daemon, results, cut>>

\* sudo rm $result_file
RemoveResult ==
  /\ Step("clear", "collect")
  /\ archive' = [archive EXCEPT ![<<config, i>>] = None]
  /\ UNCHANGED <<i, disk, daemon, coll, cut>>

\* vpp-collect start: refused while a collection is active, and may abort.
StartCollection ==
  /\ Step("collect", IF i = ViewQuery THEN "view" ELSE "select")
  /\ IF coll = None THEN coll' \in {{}, None} ELSE UNCHANGED coll
  /\ UNCHANGED <<i, disk, daemon, archive, cut>>

\* create view, in autocommit.  mysql gives up a batch at the first error, psql
\* goes on.
CreateView ==
  /\ Step("view", IF Serving /\ "view" \in Database.has /\ engine = "mysql"
                  THEN "file" ELSE "select")
  /\ Served([Database EXCEPT !.has = @ \cup {"view"}])
  /\ UNCHANGED <<i, link, daemon, results, cut>>

\* The collection samples the query.
Select ==
  /\ Step("select", IF i = ViewQuery THEN "drop" ELSE "file")
  /\ coll' = IF coll # None /\ Serving
             THEN coll \cup {[by |-> inv, q |-> i, at |-> Measured]} ELSE coll
  /\ UNCHANGED <<i, disk, daemon, archive, cut>>

\* Mutated: the view is not dropped.
DropNothing == Step("drop", "file") /\ UNCHANGED <<i, disk, daemon, results, cut>>

DropView ==
  /\ Step("drop", "file")
  /\ Served([Database EXCEPT !.has = @ \ {"view"}])
  /\ cut' = IF Serving THEN cut \ {Holder(on)} ELSE cut
  /\ UNCHANGED <<i, link, daemon, results>>

MoreQueries == i < MaxQueries

\* vpp-collect stop, and mv of the archive it names, if it names one.
FileArchive ==
  /\ Step("file", IF MoreQueries THEN "query" ELSE "finish")
  /\ archive' = IF coll = None THEN archive
                ELSE [archive EXCEPT ![<<config, i>>] = [by |-> inv, runs |-> coll]]
  /\ coll' = None
  /\ i' = IF MoreQueries THEN i + 1 ELSE i
  /\ UNCHANGED <<disk, daemon, cut>>

-----------------------------------------------------------------------------
(***************************************************************************)
(* What happens to the scripts and between them.                           *)
(***************************************************************************)
CutShort ==
  cut' = IF pc \in {"select", "drop"} /\ i = ViewQuery /\ Serving
         THEN cut \cup {Holder(on)} ELSE cut

Interrupt ==
  /\ pc # "idle"
  /\ pc' = "idle"
  /\ CutShort
  /\ UNCHANGED <<engine, after, inv, i, config, met, disk, daemon, results>>

\* The modes of the persistent memory are changed by a reboot; what is in the
\* directories outlives it.
Reboot ==
  /\ pc' = "idle"
  /\ server' = "down" /\ on' = None /\ coll' = None
  /\ CutShort
  /\ UNCHANGED <<engine, after, inv, i, config, met, disk, archive>>

\* The README does not say how the database gets to /mnt/pmem0.
OperatorCopies ==
  /\ pc = "idle" /\ server = "down"
  /\ store["built"].kind = "tpch" /\ store["pmem"].kind = "none"
  /\ store' = [store EXCEPT !["pmem"] = store["built"]]
  /\ cut' = IF "built" \in cut THEN cut \cup {"pmem"} ELSE cut
  /\ UNCHANGED <<engine, script, link, daemon, results>>

(***************************************************************************)
(* What a TPC-C benchmark leaves (module TpccRun): its copy in data or on  *)
(* pmem, the server up on it, under mysql with a password, and maybe a     *)
(* collection.  Under mysql it gets through only if no server was up.      *)
(***************************************************************************)
TpccRan ==
  /\ pc = "idle"
  /\ server = "down" \/ (engine = "postgres" /\ on = link)
  /\ \E p \in {"data", "tpcc"} :
       /\ link' = p /\ on' = p
       /\ store' = [store EXCEPT !["data"] = IF p = "data" THEN New("tpcc") ELSE New("none"),
                                 !["tpcc"] = IF p = "tpcc" THEN New("tpcc") ELSE @]
  /\ server' = IF engine = "mysql" THEN "locked" ELSE "up"
  /\ coll' \in {coll, {[by |-> 0, q |-> 0, at |-> "tpcc"]}}
  /\ UNCHANGED <<engine, script, archive, cut>>

Command ==
  \/ Shutdown \/ Launch \/ Wait \/ Stop
  \/ Refuse \/ Initialise \/ CreateTables \/ Tune \/ LoadSlice \/ LoadEnds \/ AddIndexes
  \/ ResetParameters \/ PutAside
  \/ RemoveData \/ LinkData \/ CopyTree \/ ListIndexes \/ RelinkIndexes
  \/ BeginQuery \/ RemoveResult \/ StartCollection \/ CreateView \/ Select \/ DropView
  \/ FileArchive

Server == ComesUp \/ FailsToStart

Rest == pc = "idle" /\ UNCHANGED vars

Next ==
  \/ CallSetup \/ CallBenchmark \/ Command \/ Server
  \/ Interrupt \/ Reboot \/ OperatorCopies \/ TpccRan \/ Rest

\* The commands of a script return, and a server that starts answers or fails.
Spec == Init /\ [][Next]_vars /\ WF_vars(Command) /\ WF_vars(Server)

-----------------------------------------------------------------------------
Clean == met = "none or stoppable"

Archives == [by : 1 .. MaxInvocations, runs : SUBSET Samples]

Labels == {"idle", "restart", "launch", "wait", "initialise", "create", "tune", "load",
  "index", "reset", "unload", "putaside", "stop", "prepare", "remove", "link", "tree",
  "list", "relink", "query", "clear", "collect", "view", "select", "drop", "file", "finish"}

\* Every variable has its type.
TypeOK ==
  /\ engine \in Engines /\ config \in Configs /\ met \in {"none or stoppable", "stray"}
  /\ pc \in Labels /\ after \in {"idle", "create", "load", "list", "clear"}
  /\ inv \in 0 .. MaxInvocations /\ i \in 1 .. Chunks + 1 \cup Queries
  /\ store \in [Places -> Contents]
  /\ link \in Places \cup {None}
  /\ server \in {"down", "starting", "up", "locked"}
  /\ on \in Places \cup {"gone", None}
  /\ coll = None \/ coll \in SUBSET Samples
  /\ archive \in [Configs \X Queries -> Archives \cup {None}]
  /\ cut \subseteq Places

(***************************************************************************)
(* In a call that met no server out of its reach, a server that runs has   *)
(* open what the name data means: nothing is removed, linked or put aside  *)
(* under it (setup.sh:56, constants.sh:57-59, 102-104).                    *)
(***************************************************************************)
ServerOnData == Clean /\ server # "down" => on = link

(***************************************************************************)
(* A result file beyond the first of a call holds samples of its query, by *)
(* that call, on the place its name says, or of nothing: whatever server,  *)
(* collection, link or tree earlier calls have left (benchmark.sh:14-28).  *)
(***************************************************************************)
MeasuredFor(c) ==
  IF c = "pmemforindex" THEN "split" ELSE IF c = "pmemasdisk" THEN "pmem" ELSE "built"

FilesTellTheTruth ==
  \A c \in Configs : \A q \in Queries :
    q > 1 /\ archive[<<c, q>>] # None =>
      archive[<<c, q>>].runs \subseteq {[by |-> archive[<<c, q>>].by, q |-> q, at |-> MeasuredFor(c)]}

(***************************************************************************)
(* The view of query 15 is in a database only while that query runs, or    *)
(* because a call was interrupted in it since (sql-for-*/15modified.sql).  *)
(***************************************************************************)
NoViewLeft ==
  \A p \in Places :
    "view" \in store[p].has => p \in cut \/ (Serving /\ Holder(on) = p /\ pc \in {"select", "drop"})

(***************************************************************************)
(* What setup has put aside keeps its rows, indexes and parameters, also   *)
(* through a second setup, rm -rf data and a tree of links into it.        *)
(***************************************************************************)
Same(d, e) ==
  e.kind = d.kind /\ e.rows = d.rows /\ e.has \ {"view"} = d.has \ {"view"}

BuiltIsKept ==
  [][Clean /\ store["built"].kind = "tpch" => Same(store["built"], store'["built"])]_vars

(***************************************************************************)
(* What setup puts aside is indexed, and free of the parameters it was     *)
(* loaded with: no interrupted setup is ever taken for a finished one.     *)
(***************************************************************************)
PutAsideIsFinished ==
  [][Clean /\ store["built"].kind # "tpch" /\ store'["built"].kind = "tpch" =>
       store'["built"].has = {"indexes"}]_vars

(***************************************************************************)
(* A call that met no server out of its reach ends: a benchmark of a       *)
(* database that is there, and a setup that finds no link to nothing.      *)
(***************************************************************************)
Startable ==
  /\ Clean
  /\ \/ pc = "initialise" /\ (link = None \/ DirectoryExists)
     \/ pc = "remove" /\ store[LinkFor].kind = "tpch"

CallsEnd == Startable ~> pc = "idle"

(***************************************************************************)
(* What a call has left to do: the label it goes to, a restart before it   *)
(* left aside, the slices or queries, the place in the round of a query,   *)
(* the place in the restart, and a server that is to answer or to fail.    *)
(***************************************************************************)
Goal == IF pc \in {"restart", "launch", "wait"} THEN after ELSE pc

Loop == {"query", "clear", "collect", "view", "select", "drop", "file", "finish"}

StagesLeft ==
  CASE Goal = "stop" -> 9 [] Goal \in {"prepare", "initialise"} -> 8
    [] Goal \in {"remove", "create"} -> 7 [] Goal \in {"link", "tree", "tune"} -> 6
    [] Goal \in {"list", "load"} -> 5 [] Goal \in {"relink", "index"} -> 4
    [] Goal = "reset" -> 3 [] Goal = "unload" -> 2 [] Goal \in {"putaside", "finish"} -> 1
    [] Goal = "idle" -> 0 [] OTHER -> 2

RoundsLeft ==
  CASE Goal = "load" /\ i <= Chunks -> Chunks + 1 - i
    [] Goal \in Loop -> MaxQueries - i [] OTHER -> 0

RoundLeft ==
  CASE Goal = "query" -> 6 [] Goal = "clear" -> 5 [] Goal = "collect" -> 4
    [] Goal = "view" -> 3 [] Goal = "select" -> 2 [] Goal = "drop" -> 1 [] OTHER -> 0

RestartLeft ==
  CASE pc = "restart" -> 3 [] pc = "launch" -> 2 [] pc = "wait" -> 1 [] OTHER -> 0

Left ==
  << StagesLeft, RoundsLeft, RoundLeft, RestartLeft, IF server = "starting" THEN 1 ELSE 0 >>

(***************************************************************************)
(* A call never goes round in a circle, and only a call gives the scripts  *)
(* more to do: each command, each answer or failure of a server, and an    *)
(* interrupt leaves less (setup.sh:43-57, 81-100, benchmark.sh:11-32,      *)
(* 39-58, constants.sh:34-50).                                             *)
(***************************************************************************)
EveryStepMovesOn ==
  [][/\ Left \in [1 .. 5 -> Nat]
     /\ Command \/ Server \/ Interrupt => Descends(Left, Left')
     /\ inv' = inv => Left' = Left \/ Descends(Left, Left')]_vars

(***************************************************************************)
(* With a database behind the name data, a call that met no server out of  *)
(* its reach does not ping in vain: the server answers already, pg_ctl has *)
(* given up, or the server that is starting can come up                    *)
(* (constants.sh:34-50, 70-75).                                            *)
(***************************************************************************)
NobodyWaitsInVain ==
  Clean /\ pc = "wait" /\ link # None /\ store[Holder(link)].kind = "tpch" =>
    \/ server = "up" \/ (engine = "postgres" /\ server # "starting")
    \/ server = "starting" /\ MayComeUp
=============================================================================
