------------------------------ MODULE TpchProofs ------------------------------
(***************************************************************************)
(* Proofs about the TPC-H drivers, for every set of configurations and any *)
(* numbers of queries, slices and calls.                                   *)
(***************************************************************************)
EXTENDS TpchRun, LoopOrderProofs, TLAPS

Setting == {"create", "tune", "load", "index", "reset", "unload", "putaside"}

Preparing == {"stop", "prepare", "remove", "link", "tree", "list", "relink"}

\* The labels a script reaches only after waiting for its server.
Talking == {"create", "tune", "load", "index", "reset", "unload", "list",
            "clear", "collect", "view", "select", "drop", "file", "finish"}

\* Which labels belong to which script.
LabelInv ==
  /\ pc # "idle" => inv >= 1
  /\ Goal \in Preparing => i = 1
  /\ Goal \in Loop => i \in Queries
  /\ pc \in {"restart", "launch", "wait"} => after # "idle"
  /\ Goal \in {"tune", "index", "reset"} => engine = "postgres"
  /\ pc \in {"restart", "launch", "wait"} /\ after = "load" => engine = "postgres"
  /\ Goal \in {"tree", "list", "relink"} => engine = "postgres" /\ config = "pmemforindex"
  /\ pc \in {"view", "drop"} => i = ViewQuery
  /\ Goal = "link" => config # "pmemforindex"

\* Which server there can be, and on which directory.
DaemonInv ==
  /\ server = "down" => on = None
  /\ server = "up" => on # None
  /\ ServerOnData
  /\ engine = "postgres" =>
       Clean /\ server # "locked" /\ (server # "down" => on \in Places)
  /\ Clean /\ pc \in {"initialise", "stop", "prepare"} => Healthy
  /\ Clean /\ pc \in {"remove", "link", "tree", "relink", "putaside", "launch"} =>
       server = "down"
  /\ Clean /\ pc \in {"restart", "query"} /\ engine = "mysql" => server \in {"down", "up"}
  /\ engine = "mysql" /\ pc \in Talking => server = "up"

\* From the second query on there is no stray server any more.
StrayInv ==
  i > 1 /\ Goal \in Loop =>
    /\ engine = "mysql" /\ pc \in {"query", "restart"} => server = "up"
    /\ pc = "launch" => server = "down"
    /\ pc \notin {"query", "restart"} /\ server # "down" => on = link

\* What the name data stands for.
PlaceInv ==
  /\ link = "data" => store["data"].kind \notin {"none", "broken"}
  /\ Clean /\ Goal \in Setting =>
       \/ link = "data" /\ store["data"].kind = "tpch"
       \/ link \in Places /\ store[link].kind \in {"none", "broken"}
  /\ Goal \in Loop \cup {"link", "tree", "list", "relink"} =>
       store["data"].kind \in {"none", "tree", "split"}
  /\ pc = "tree" => link = None
  /\ Goal \in Loop =>
       IF config = "pmemforindex"
       THEN link = None \/ (link = "data" /\ store["data"].kind = "split")
       ELSE link = LinkFor
  /\ Goal \in {"list", "relink"} =>
       \/ link = None /\ Goal = "list"
       \/ link = "data" /\ store["data"].kind = "tree" /\ store["built"].kind = "tpch"

\* A database that is there lets its server come up.
UpInv ==
  Clean /\ link = "data" /\ Goal \in Setting \cup {"list"} =>
    /\ pc = "wait" => server \in {"starting", "up"}
    /\ pc \in Talking => server = "up"

\* What setup has done to the database so far.
MarksInv ==
  Clean /\ link = "data" =>
    /\ Goal = "tune" => store["data"].has = {}
    /\ Goal = "load" =>
         store["data"].has = IF engine = "mysql" THEN {"indexes"} ELSE {"tuning"}
    /\ Goal = "index" => store["data"].has = {"tuning"}
    /\ Goal = "reset" => store["data"].has = {"tuning", "indexes"}
    /\ Goal \in {"unload", "putaside"} => store["data"].has = {"indexes"}

\* Where the view can be.
ViewInv ==
  /\ "view" \notin store["data"].has
  /\ \A p \in Places :
       "view" \in store[p].has =>
         p \in cut \/ (Serving /\ Holder(on) = p /\ pc \in {"select", "drop"} /\ i = ViewQuery)

\* What the collection can have sampled from the second query on.
Own == {[by |-> inv, q |-> i, at |-> MeasuredFor(config)]}

CollInv ==
  i > 1 /\ Goal \in Loop =>
    /\ pc \notin {"view", "select", "drop", "file"} => coll = None
    /\ pc \in {"view", "select"} => coll \in {None, {}}
    /\ pc \in {"drop", "file"} => coll = None \/ coll \subseteq Own

IInv ==
  /\ TypeOK /\ LabelInv /\ DaemonInv /\ StrayInv /\ PlaceInv /\ UpInv /\ MarksInv
  /\ ViewInv /\ CollInv /\ FilesTellTheTruth

-----------------------------------------------------------------------------
(***************************************************************************)
(* What the data operators return.                                         *)
(***************************************************************************)
LEMMA PlaceNames == \A p \in {"data", "built", "nested", "pmem", "tpcc"} : p \in Places
  BY DEF Places

LEMMA NewType ==
  ASSUME NEW k \in Kinds
  PROVE  New(k) \in Contents /\ New(k).kind = k /\ New(k).rows = {} /\ New(k).has = {}
  BY DEF New, Contents

LEMMA NewTypes ==
  \A k \in {"tpch", "tpcc", "tree", "split", "broken", "none"} : New(k) \in Contents
  BY NewType DEF Kinds

LEMMA MarksType ==
  ASSUME NEW d \in Contents, NEW h \in SUBSET {"tuning", "indexes", "view"}
  PROVE  LET e == [d EXCEPT !.has = h]
         IN  e \in Contents /\ e.kind = d.kind /\ e.rows = d.rows /\ e.has = h
  BY DEF Contents

LEMMA RowsType ==
  ASSUME NEW d \in Contents, NEW r \in SUBSET Slices
  PROVE  LET e == [d EXCEPT !.rows = r]
         IN  e \in Contents /\ e.kind = d.kind /\ e.rows = r /\ e.has = d.has
  BY DEF Contents

LEMMA ContentsFields ==
  ASSUME NEW d \in Contents
  PROVE  d.kind \in Kinds /\ d.rows \in SUBSET Slices
         /\ d.has \in SUBSET {"tuning", "indexes", "view"}
  BY DEF Contents

LEMMA ServedEffect ==
  ASSUME TypeOK, NEW d \in Contents, Served(d)
  PROVE  /\ store' \in [Places -> Contents]
         /\ Serving => Holder(on) \in Places
         /\ \A p \in Places :
              store'[p] = IF Serving /\ p = Holder(on) THEN d ELSE store[p]
  BY DEF TypeOK, Served, Serving, Holder, Places

LEMMA DatabaseType ==
  ASSUME TypeOK, Serving
  PROVE  Database \in Contents /\ Database.kind = "tpch"
  BY DEF TypeOK, Serving, Database, Holder, Places

-----------------------------------------------------------------------------
(***************************************************************************)
(* Types, in four parts.                                                   *)
(***************************************************************************)
ControlType ==
  /\ engine \in Engines /\ config \in Configs /\ met \in {"none or stoppable", "stray"}
  /\ pc \in Labels /\ after \in {"idle", "create", "load", "list", "clear"}
  /\ inv \in 0 .. MaxInvocations /\ i \in 1 .. Chunks + 1 \cup Queries

DiskType == store \in [Places -> Contents] /\ link \in Places \cup {None} /\ cut \subseteq Places

DaemonType ==
  server \in {"down", "starting", "up", "locked"} /\ on \in Places \cup {"gone", None}

ResultType ==
  /\ coll = None \/ coll \in SUBSET Samples
  /\ archive \in [Configs \X Queries -> Archives \cup {None}]

LEMMA TypeParts == TypeOK <=> ControlType /\ DiskType /\ DaemonType /\ ResultType
  BY DEF TypeOK, ControlType, DiskType, DaemonType, ResultType

LEMMA TypePartsNext == TypeOK' <=> (ControlType /\ DiskType /\ DaemonType /\ ResultType)'
  BY DEF TypeOK, ControlType, DiskType, DaemonType, ResultType

LEMMA Sizes ==
  /\ MaxQueries \in Nat /\ MaxQueries >= 1 /\ Chunks \in Nat /\ Chunks >= 1
  /\ MaxInvocations \in Nat /\ ViewQuery \in Nat
  BY TpchAssumption

\* The index of a loop.
Indices == 1 .. Chunks + 1 \cup Queries

LEMMA IndexType ==
  ASSUME ControlType
  PROVE  /\ i \in Indices /\ 1 \in Indices /\ i \in Nat /\ i >= 1
         /\ i <= Chunks => i + 1 \in Indices
         /\ i < MaxQueries => i + 1 \in Indices
         /\ inv \in Nat
         /\ inv < MaxInvocations => inv + 1 \in 0 .. MaxInvocations /\ inv + 1 >= 1
<1>1. i \in Indices /\ inv \in 0 .. MaxInvocations
  BY DEF ControlType, Indices
<1>2. \A n \in Indices : n \in Nat /\ n >= 1 /\ (n <= Chunks \/ n < MaxQueries => n + 1 \in Indices)
  BY Sizes DEF Indices, Queries
<1>3. 1 \in Indices
  BY Sizes DEF Indices, Queries
<1> QED
  BY <1>1, <1>2, <1>3, Sizes

LEMMA ServedTypes ==
  ASSUME DiskType, NEW d, Served(d), Serving => d \in Contents
  PROVE  store' \in [Places -> Contents]
  BY DEF DiskType, Served

LEMMA HolderType ==
  ASSUME NEW p \in Places
  PROVE  Holder(p) \in Places
  BY DEF Holder, Places

LEMMA MeasuredType ==
  ASSUME TypeOK, Serving
  PROVE  Measured \in Places \cup Kinds \cup {"gone"}
<1>1. on \in Places /\ store["data"] \in Contents
  BY PlaceNames DEF TypeOK, Serving
<1> QED
  BY <1>1, ContentsFields DEF Measured

\* The first query, and the next.
LEMMA LabelFacts ==
  ASSUME TypeOK
  PROVE  /\ engine \in {"mysql", "postgres"} /\ inv \in Nat /\ inv + 1 >= 1
         /\ after \in {"idle", "create", "load", "list", "clear"}
         /\ 1 \in Queries /\ \A q \in Queries : q < MaxQueries => q + 1 \in Queries
<1>1. engine \in {"mysql", "postgres"} /\ after \in {"idle", "create", "load", "list", "clear"}
  BY TypeParts, TpchAssumption DEF ControlType
<1>2. inv \in Nat
  BY TypeParts, IndexType
<1>3. 1 \in Queries /\ \A q \in Queries : q < MaxQueries => q + 1 \in Queries
  BY Sizes DEF Queries
<1> QED
  BY <1>1, <1>2, <1>3

LEMMA NoPlace == None \notin Places /\ None # "gone" /\ "gone" \notin Places
  BY TpchAssumption DEF Places

LEMMA NewFields ==
  \A k \in {"tpch", "tpcc", "tree", "split", "broken", "none"} :
    New(k) \in Contents /\ New(k).kind = k /\ New(k).has = {}
  BY NewType DEF Kinds

LEMMA StopEffect ==
  ASSUME Stop
  PROVE  /\ <<pc, pc'>> \in {<<"unload", "putaside">>, <<"stop", "prepare">>,
                             <<"prepare", "remove">>, <<"finish", "idle">>}
         /\ UNCHANGED <<engine, after, inv, config, met, i, store, link, coll, archive, cut>>
         /\ IF Stoppable THEN server' = "down" /\ on' = None ELSE UNCHANGED <<server, on>>
  BY DEF Stop, Step, AfterStop, StopServer, disk, daemon, results

(***************************************************************************)
(* What the statements of a client change in the database it talks to.     *)
(***************************************************************************)
MarksChange(add, del) ==
  \A p \in Places :
    /\ store'[p].kind = store[p].kind /\ store'[p].rows = store[p].rows
    /\ store'[p].has = IF Serving /\ p = Holder(on) THEN (store[p].has \cup add) \ del
                       ELSE store[p].has

LEMMA ServedMarks ==
  ASSUME TypeOK, NEW h \in SUBSET {"tuning", "indexes", "view"},
         Served([Database EXCEPT !.has = h])
  PROVE  \A p \in Places :
           /\ store'[p].kind = store[p].kind /\ store'[p].rows = store[p].rows
           /\ store'[p].has = IF Serving /\ p = Holder(on) THEN h ELSE store[p].has
<1>1. CASE Serving
  <2> DEFINE d == [Database EXCEPT !.has = h]
  <2>1. Database \in Contents /\ Database = store[Holder(on)] /\ Holder(on) \in Places
    BY <1>1, DatabaseType, HolderType DEF Database, Serving
  <2>2. d \in Contents /\ d.kind = Database.kind /\ d.rows = Database.rows /\ d.has = h
    BY <2>1, MarksType
  <2>3. store' = [store EXCEPT ![Holder(on)] = d]
    BY <1>1 DEF Served
  <2> HIDE DEF d
  <2> QED
    BY <1>1, <2>1, <2>2, <2>3 DEF TypeOK
<1>2. CASE ~Serving
  BY <1>2 DEF Served
<1> QED
  BY <1>1, <1>2

LEMMA Marks ==
  ASSUME TypeOK
  PROVE  /\ Tune => MarksChange({"tuning"}, {})
         /\ AddIndexes => MarksChange({"indexes"}, {})
         /\ ResetParameters => MarksChange({}, {"tuning"})
         /\ CreateView => MarksChange({"view"}, {})
         /\ DropView => MarksChange({}, {"view"})
<1> DEFINE All == SUBSET {"tuning", "indexes", "view"}
<1>1. Serving => Database.has \in All
  BY DatabaseType, ContentsFields
<1>2. \A h \in All : Served([Database EXCEPT !.has = h]) =>
        \A p \in Places :
          /\ store'[p].kind = store[p].kind /\ store'[p].rows = store[p].rows
          /\ store'[p].has = IF Serving /\ p = Holder(on) THEN h ELSE store[p].has
  BY ServedMarks
<1>3. ~Serving => \A d : Served(d) => store' = store
  BY DEF Served
<1>4. Serving => Database = store[Holder(on)]
  BY DEF Database
<1>5. \A a, d \in All : Serving /\ Served([Database EXCEPT !.has = (Database.has \cup a) \ d])
        => MarksChange(a, d)
  <2> SUFFICES ASSUME NEW a \in All, NEW d \in All, Serving,
                      Served([Database EXCEPT !.has = (Database.has \cup a) \ d])
               PROVE  MarksChange(a, d)
    OBVIOUS
  <2>1. (Database.has \cup a) \ d \in All
    BY <1>1
  <2>2. \A p \in Places :
          /\ store'[p].kind = store[p].kind /\ store'[p].rows = store[p].rows
          /\ store'[p].has = IF Serving /\ p = Holder(on) THEN (Database.has \cup a) \ d
                             ELSE store[p].has
    BY <1>2, <2>1
  <2> QED
    BY <1>4, <2>2 DEF MarksChange
<1>6. \A a, d \in All : ~Serving /\ store' = store => MarksChange(a, d)
  BY DEF MarksChange
<1>7. /\ (Database.has \cup {"tuning"}) \ {} = Database.has \cup {"tuning"}
      /\ (Database.has \cup {"indexes"}) \ {} = Database.has \cup {"indexes"}
      /\ (Database.has \cup {"view"}) \ {} = Database.has \cup {"view"}
      /\ (Database.has \cup {}) \ {"tuning"} = Database.has \ {"tuning"}
      /\ (Database.has \cup {}) \ {"view"} = Database.has \ {"view"}
  OBVIOUS
<1> HIDE DEF All
<1>8. {} \in All /\ {"tuning"} \in All /\ {"indexes"} \in All /\ {"view"} \in All
  BY DEF All
<1> QED
  BY <1>3, <1>5, <1>6, <1>7, <1>8 DEF Tune, AddIndexes, ResetParameters, CreateView, DropView

LEMMA Loaded ==
  ASSUME TypeOK, LoadSlice
  PROVE  \A p \in Places : store'[p].kind = store[p].kind /\ store'[p].has = store[p].has
<1>1. CASE UNCHANGED store
  BY <1>1
<1>2. CASE ~Serving
  BY <1>2 DEF LoadSlice, Served
<1>3. CASE Serving /\ Served([Database EXCEPT !.rows = Database.rows \cup {i}])
  <2> DEFINE d == [Database EXCEPT !.rows = Database.rows \cup {i}]
  <2>1. Database \in Contents /\ Database = store[Holder(on)] /\ Holder(on) \in Places
    BY <1>3, DatabaseType, HolderType DEF Database, Serving
  <2>2. d.kind = Database.kind /\ d.has = Database.has
    BY <2>1 DEF Contents
  <2>3. store' = [store EXCEPT ![Holder(on)] = d]
    BY <1>3 DEF Served
  <2> HIDE DEF d
  <2> QED
    BY <2>1, <2>2, <2>3 DEF TypeOK
<1> QED
  BY <1>1, <1>2, <1>3 DEF LoadSlice

LEMMA Created ==
  ASSUME TypeOK, CreateTables
  PROVE  \A p \in Places :
           /\ store'[p].kind = store[p].kind
           /\ store'[p].has = IF Serving /\ p = Holder(on)
                              THEN IF engine = "mysql" THEN {"indexes"} ELSE {}
                              ELSE store[p].has
<1> DEFINE h == IF engine = "mysql" THEN {"indexes"} ELSE {}
           d == [New("tpch") EXCEPT !.has = h]
<1>1. Served(d)
  BY DEF CreateTables
<1>2. d.kind = "tpch" /\ d.has = h
  BY NewFields, MarksType
<1> HIDE DEF h, d
<1>3. CASE Serving
  <2>1. Database = store[Holder(on)] /\ Holder(on) \in Places /\ Database.kind = "tpch"
    BY <1>3, DatabaseType, HolderType DEF Database, Serving
  <2> QED
    BY <1>1, <1>2, <1>3, <2>1 DEF TypeOK, Served, h
<1>4. CASE ~Serving
  BY <1>1, <1>4 DEF Served
<1> QED
  BY <1>3, <1>4

LEMMA ServingData ==
  ASSUME DaemonInv, PlaceInv, UpInv, Clean, link = "data",
         pc \in {"create", "tune", "load", "index", "reset"}
  PROVE  Serving /\ Holder(on) = "data"
<1>1. pc \in Setting /\ pc \in Talking /\ Goal = pc
  BY DEF Setting, Talking, Goal
<1>2. server = "up" /\ on = "data"
  BY <1>1 DEF UpInv, DaemonInv, ServerOnData
<1>3. store["data"].kind = "tpch"
  BY <1>1, NoPlace, PlaceNames DEF PlaceInv
<1> QED
  BY <1>2, <1>3, PlaceNames DEF Serving, Holder

\* From the second query on a server that answers is where the name of the file says.
LEMMA MeasuredWhere ==
  ASSUME StrayInv, PlaceInv, Serving, i > 1, pc = "select"
  PROVE  Measured = MeasuredFor(config)
<1>1. on = link /\ link \in Places
  BY DEF StrayInv, Goal, Loop, Serving
<1>2. IF config = "pmemforindex" THEN link = "data" /\ store["data"].kind = "split"
      ELSE link = LinkFor
  BY <1>1, NoPlace DEF PlaceInv, Goal, Loop
<1> QED
  BY <1>1, <1>2, PlaceNames DEF Measured, MeasuredFor, LinkFor

LEMMA SettingOnData ==
  ASSUME DaemonInv, PlaceInv, Clean, Serving, pc \in Setting
  PROVE  Holder(on) = "data"
<1>1. on = link /\ Goal \in Setting
  BY DEF Serving, DaemonInv, ServerOnData, Goal, Setting
<1>2. \/ link = "data" /\ store["data"].kind = "tpch"
      \/ link \in Places /\ store[link].kind \in {"none", "broken"}
  BY <1>1 DEF PlaceInv
<1> QED
  BY <1>1, <1>2, PlaceNames DEF Serving, Holder

-----------------------------------------------------------------------------
(***************************************************************************)
(* What a step preserves.                                                  *)
(***************************************************************************)
\* The script.
LEMMA ControlStep ==
  ASSUME TypeOK, [Next]_vars
  PROVE  ControlType'
<1>1. CASE Shutdown
  BY <1>1, TypeParts, IndexType DEF Shutdown, Step, ControlType, Labels, Indices
<1>2. CASE Launch
  BY <1>2, TypeParts, IndexType DEF Launch, Step, Nowhere, ControlType, Labels, Indices
<1>3. CASE Wait
  BY <1>3, TypeParts, IndexType DEF Wait, Step, ControlType, Labels, Indices
<1>4. CASE Stop
  <2>1. pc \in {"unload", "stop", "prepare", "finish"} /\ pc' \in Labels
    BY <1>4 DEF Stop, Step, AfterStop, Labels
  <2> QED
    BY <1>4, <2>1, TypeParts DEF Stop, Step, ControlType
<1>5. CASE Refuse
  BY <1>5, TypeParts, IndexType DEF Refuse, Step, DirectoryExists, ControlType,
     Labels, Indices
<1>6. CASE Initialise
  BY <1>6, TypeParts, IndexType DEF Initialise, Restart, DirectoryExists, ControlType,
     Labels, Indices
<1>7. CASE CreateTables
  BY <1>7, TypeParts, IndexType DEF CreateTables, Step, ControlType, Labels, Indices
<1>8. CASE Tune
  BY <1>8, TypeParts, IndexType DEF Tune, Restart, ControlType, Labels, Indices
<1>9. CASE LoadSlice
  BY <1>9, TypeParts, IndexType DEF LoadSlice, Step, ControlType, Labels, Indices
<1>10. CASE LoadEnds
  BY <1>10, TypeParts, IndexType DEF LoadEnds, Step, ControlType, Labels, Indices
<1>11. CASE AddIndexes
  BY <1>11, TypeParts, IndexType DEF AddIndexes, Step, ControlType, Labels, Indices
<1>12. CASE ResetParameters
  BY <1>12, TypeParts, IndexType DEF ResetParameters, Step, ControlType, Labels, Indices
<1>13. CASE PutAside
  BY <1>13, TypeParts, IndexType DEF PutAside, Step, ControlType, Labels, Indices
<1>14. CASE RemoveData
  BY <1>14, TypeParts, IndexType DEF RemoveData, Step, Supported, ControlType, Labels,
     Indices
<1>15. CASE LinkData
  BY <1>15, TypeParts, IndexType DEF LinkData, Step, ControlType, Labels, Indices
<1>16. CASE CopyTree
  BY <1>16, TypeParts, IndexType DEF CopyTree, Restart, ControlType, Labels, Indices
<1>17. CASE ListIndexes
  BY <1>17, TypeParts, IndexType DEF ListIndexes, Step, ControlType, Labels, Indices
<1>18. CASE RelinkIndexes
  BY <1>18, TypeParts, IndexType DEF RelinkIndexes, Step, ControlType, Labels, Indices
<1>19. CASE BeginQuery
  BY <1>19, TypeParts, IndexType DEF BeginQuery, Restart, ControlType, Labels, Indices
<1>20. CASE RemoveResult
  BY <1>20, TypeParts, IndexType DEF RemoveResult, Step, ControlType, Labels, Indices
<1>21. CASE StartCollection
  BY <1>21, TypeParts, IndexType DEF StartCollection, Step, ControlType, Labels, Indices
<1>22. CASE CreateView
  BY <1>22, TypeParts, IndexType DEF CreateView, Step, ControlType, Labels, Indices
<1>23. CASE Select
  BY <1>23, TypeParts, IndexType DEF Select, Step, ControlType, Labels, Indices
<1>24. CASE DropView
  BY <1>24, TypeParts, IndexType DEF DropView, Step, ControlType, Labels, Indices
<1>25. CASE FileArchive
  BY <1>25, TypeParts, IndexType DEF FileArchive, Step, MoreQueries, ControlType,
     Labels, Indices
<1>26. CASE CallSetup
  BY <1>26, TypeParts, IndexType DEF CallSetup, ControlType, Labels, Indices
<1>27. CASE CallBenchmark
  BY <1>27, TypeParts, IndexType DEF CallBenchmark, ControlType, Labels, Indices
<1>28. CASE ComesUp
  BY <1>28, TypeParts, IndexType DEF ComesUp, script, ControlType, Labels, Indices
<1>29. CASE FailsToStart
  BY <1>29, TypeParts, IndexType DEF FailsToStart, script, ControlType, Labels, Indices
<1>30. CASE Interrupt
  BY <1>30, TypeParts, IndexType DEF Interrupt, CutShort, ControlType, Labels, Indices
<1>31. CASE Reboot
  BY <1>31, TypeParts, IndexType DEF Reboot, CutShort, ControlType, Labels, Indices
<1>32. CASE OperatorCopies
  BY <1>32, TypeParts, IndexType DEF OperatorCopies, script, ControlType, Labels,
     Indices
<1>33. CASE TpccRan
  BY <1>33, TypeParts, IndexType DEF TpccRan, script, ControlType, Labels, Indices
<1>34. CASE UNCHANGED vars
  BY <1>34, TypeParts, IndexType DEF vars, script, disk, daemon, results, ControlType,
     Labels, Indices
<1> QED
  BY <1>1, <1>2, <1>3, <1>4, <1>5, <1>6, <1>7, <1>8, <1>9, <1>10, <1>11, <1>12, <1>13,
     <1>14, <1>15, <1>16, <1>17, <1>18, <1>19, <1>20, <1>21, <1>22, <1>23, <1>24,
     <1>25, <1>26, <1>27, <1>28, <1>29, <1>30, <1>31, <1>32, <1>33, <1>34 DEF Next,
     Command, Server, Rest

\* The directories.
LEMMA DiskStep ==
  ASSUME TypeOK, [Next]_vars
  PROVE  DiskType'
<1>1. CASE Shutdown
  BY <1>1, TypeParts DEF Shutdown, disk, DiskType
<1>2. CASE Launch
  BY <1>2, TypeParts DEF Launch, disk, DiskType
<1>3. CASE Wait
  BY <1>3, TypeParts DEF Wait, disk, DiskType
<1>4. CASE Stop
  BY <1>4, TypeParts DEF Stop, disk, DiskType
<1>5. CASE Refuse
  BY <1>5, TypeParts DEF Refuse, disk, DiskType
<1>6. CASE Initialise
  BY <1>6, TypeParts, PlaceNames, NewTypes DEF Initialise, disk, DiskType
<1>7. CASE CreateTables
  <2>1. [New("tpch") EXCEPT !.has = IF engine = "mysql" THEN {"indexes"} ELSE {}] \in Contents
    BY NewTypes, MarksType
  <2> QED
    BY <1>7, <2>1, ServedTypes, TypeParts DEF CreateTables, DiskType
<1>8. CASE Tune
  <2>1. Serving => [Database EXCEPT !.has = Database.has \cup {"tuning"}] \in Contents
    BY DatabaseType, ContentsFields, MarksType
  <2> QED
    BY <1>8, <2>1, ServedTypes, TypeParts DEF Tune, DiskType
<1>9. CASE LoadSlice
  <2>1. Serving => [Database EXCEPT !.rows = Database.rows \cup {i}] \in Contents
    <3>1. i \in Slices
      BY <1>9, IndexType, TypeParts, Sizes DEF LoadSlice, Slices
    <3>2. Serving => Database.rows \cup {i} \in SUBSET Slices
      BY <3>1, DatabaseType, ContentsFields
    <3> QED
      BY <3>2, DatabaseType, RowsType
  <2> QED
    BY <1>9, <2>1, ServedTypes, TypeParts DEF LoadSlice, DiskType
<1>10. CASE LoadEnds
  BY <1>10, TypeParts DEF LoadEnds, disk, DiskType
<1>11. CASE AddIndexes
  <2>1. Serving => [Database EXCEPT !.has = Database.has \cup {"indexes"}] \in Contents
    BY DatabaseType, ContentsFields, MarksType
  <2> QED
    BY <1>11, <2>1, ServedTypes, TypeParts DEF AddIndexes, DiskType
<1>12. CASE ResetParameters
  <2>1. Serving => [Database EXCEPT !.has = Database.has \ {"tuning"}] \in Contents
    BY DatabaseType, ContentsFields, MarksType
  <2> QED
    BY <1>12, <2>1, ServedTypes, TypeParts DEF ResetParameters, DiskType
<1>13. CASE PutAside
  BY <1>13, TypeParts, PlaceNames, NewTypes DEF PutAside, disk, DiskType
<1>14. CASE RemoveData
  BY <1>14, TypeParts, PlaceNames, NewTypes DEF RemoveData, Removed, DiskType
<1>15. CASE LinkData
  BY <1>15, TypeParts, PlaceNames, NewTypes DEF LinkData, LinkFor, DiskType
<1>16. CASE CopyTree
  BY <1>16, TypeParts, PlaceNames, NewTypes DEF CopyTree, disk, DiskType
<1>17. CASE ListIndexes
  BY <1>17, TypeParts DEF ListIndexes, disk, DiskType
<1>18. CASE RelinkIndexes
  BY <1>18, TypeParts, PlaceNames, NewTypes DEF RelinkIndexes, DiskType
<1>19. CASE BeginQuery
  BY <1>19, TypeParts DEF BeginQuery, disk, DiskType
<1>20. CASE RemoveResult
  BY <1>20, TypeParts DEF RemoveResult, disk, DiskType
<1>21. CASE StartCollection
  BY <1>21, TypeParts DEF StartCollection, disk, DiskType
<1>22. CASE CreateView
  <2>1. Serving => [Database EXCEPT !.has = Database.has \cup {"view"}] \in Contents
    BY DatabaseType, ContentsFields, MarksType
  <2> QED
    BY <1>22, <2>1, ServedTypes, TypeParts DEF CreateView, DiskType
<1>23. CASE Select
  BY <1>23, TypeParts DEF Select, disk, DiskType
<1>24. CASE DropView
  <2>1. Serving => [Database EXCEPT !.has = Database.has \ {"view"}] \in Contents
    BY DatabaseType, ContentsFields, MarksType
  <2> QED
    BY <1>24, <2>1, ServedTypes, TypeParts DEF DropView, DiskType
<1>25. CASE FileArchive
  BY <1>25, TypeParts DEF FileArchive, disk, DiskType
<1>26. CASE CallSetup
  BY <1>26, TypeParts DEF CallSetup, disk, DiskType
<1>27. CASE CallBenchmark
  BY <1>27, TypeParts DEF CallBenchmark, disk, DiskType
<1>28. CASE ComesUp
  BY <1>28, TypeParts DEF ComesUp, script, disk, DiskType
<1>29. CASE FailsToStart
  BY <1>29, TypeParts DEF FailsToStart, script, disk, DiskType
<1>30. CASE Interrupt
  <2>1. Serving => Holder(on) \in Places
    BY HolderType DEF Serving
  <2> QED
    BY <1>30, <2>1, TypeParts DEF Interrupt, disk, CutShort, DiskType
<1>31. CASE Reboot
  <2>1. Serving => Holder(on) \in Places
    BY HolderType DEF Serving
  <2> QED
    BY <1>31, <2>1, TypeParts DEF Reboot, disk, CutShort, DiskType
<1>32. CASE OperatorCopies
  BY <1>32, TypeParts, PlaceNames, NewTypes DEF OperatorCopies, script, DiskType
<1>33. CASE TpccRan
  BY <1>33, TypeParts, PlaceNames, NewTypes DEF TpccRan, script, DiskType
<1>34. CASE UNCHANGED vars
  BY <1>34, TypeParts DEF vars, script, disk, daemon, results, DiskType
<1> QED
  BY <1>1, <1>2, <1>3, <1>4, <1>5, <1>6, <1>7, <1>8, <1>9, <1>10, <1>11, <1>12, <1>13,
     <1>14, <1>15, <1>16, <1>17, <1>18, <1>19, <1>20, <1>21, <1>22, <1>23, <1>24,
     <1>25, <1>26, <1>27, <1>28, <1>29, <1>30, <1>31, <1>32, <1>33, <1>34 DEF Next,
     Command, Server, Rest

\* The server.
LEMMA DaemonStep ==
  ASSUME TypeOK, [Next]_vars
  PROVE  DaemonType'
<1>1. CASE Shutdown
  BY <1>1, TypeParts DEF Shutdown, daemon, StopServer, Stoppable, DaemonType, DiskType
<1>2. CASE Launch
  BY <1>2, TypeParts DEF Launch, daemon, Nowhere, DaemonType, DiskType
<1>3. CASE Wait
  BY <1>3, TypeParts DEF Wait, daemon, DaemonType, DiskType
<1>4. CASE Stop
  BY <1>4, TypeParts DEF Stop, daemon, StopServer, Stoppable, DaemonType, DiskType
<1>5. CASE Refuse
  BY <1>5, TypeParts DEF Refuse, daemon, DaemonType, DiskType
<1>6. CASE Initialise
  BY <1>6, TypeParts DEF Initialise, daemon, DaemonType, DiskType
<1>7. CASE CreateTables
  BY <1>7, TypeParts DEF CreateTables, daemon, DaemonType, DiskType
<1>8. CASE Tune
  BY <1>8, TypeParts DEF Tune, daemon, DaemonType, DiskType
<1>9. CASE LoadSlice
  BY <1>9, TypeParts DEF LoadSlice, daemon, DaemonType, DiskType
<1>10. CASE LoadEnds
  BY <1>10, TypeParts DEF LoadEnds, daemon, DaemonType, DiskType
<1>11. CASE AddIndexes
  BY <1>11, TypeParts DEF AddIndexes, daemon, DaemonType, DiskType
<1>12. CASE ResetParameters
  BY <1>12, TypeParts DEF ResetParameters, daemon, DaemonType, DiskType
<1>13. CASE PutAside
  BY <1>13, TypeParts, PlaceNames DEF PutAside, Aside, DaemonType, DiskType
<1>14. CASE RemoveData
  BY <1>14, TypeParts DEF RemoveData, Removed, DaemonType, DiskType
<1>15. CASE LinkData
  BY <1>15, TypeParts DEF LinkData, daemon, DaemonType, DiskType
<1>16. CASE CopyTree
  BY <1>16, TypeParts DEF CopyTree, daemon, DaemonType, DiskType
<1>17. CASE ListIndexes
  BY <1>17, TypeParts DEF ListIndexes, daemon, StopServer, Stoppable, DaemonType,
     DiskType
<1>18. CASE RelinkIndexes
  BY <1>18, TypeParts DEF RelinkIndexes, daemon, DaemonType, DiskType
<1>19. CASE BeginQuery
  BY <1>19, TypeParts DEF BeginQuery, daemon, DaemonType, DiskType
<1>20. CASE RemoveResult
  BY <1>20, TypeParts DEF RemoveResult, daemon, DaemonType, DiskType
<1>21. CASE StartCollection
  BY <1>21, TypeParts DEF StartCollection, daemon, DaemonType, DiskType
<1>22. CASE CreateView
  BY <1>22, TypeParts DEF CreateView, daemon, DaemonType, DiskType
<1>23. CASE Select
  BY <1>23, TypeParts DEF Select, daemon, DaemonType, DiskType
<1>24. CASE DropView
  BY <1>24, TypeParts DEF DropView, daemon, DaemonType, DiskType
<1>25. CASE FileArchive
  BY <1>25, TypeParts DEF FileArchive, daemon, DaemonType, DiskType
<1>26. CASE CallSetup
  BY <1>26, TypeParts DEF CallSetup, daemon, DaemonType, DiskType
<1>27. CASE CallBenchmark
  BY <1>27, TypeParts DEF CallBenchmark, daemon, DaemonType, DiskType
<1>28. CASE ComesUp
  BY <1>28, TypeParts DEF ComesUp, script, DaemonType, DiskType
<1>29. CASE FailsToStart
  BY <1>29, TypeParts DEF FailsToStart, script, DaemonType, DiskType
<1>30. CASE Interrupt
  BY <1>30, TypeParts DEF Interrupt, daemon, CutShort, DaemonType, DiskType
<1>31. CASE Reboot
  BY <1>31, TypeParts DEF Reboot, CutShort, DaemonType, DiskType
<1>32. CASE OperatorCopies
  BY <1>32, TypeParts DEF OperatorCopies, script, daemon, DaemonType, DiskType
<1>33. CASE TpccRan
  BY <1>33, TypeParts, PlaceNames DEF TpccRan, script, DaemonType, DiskType
<1>34. CASE UNCHANGED vars
  BY <1>34, TypeParts DEF vars, script, disk, daemon, results, DaemonType, DiskType
<1> QED
  BY <1>1, <1>2, <1>3, <1>4, <1>5, <1>6, <1>7, <1>8, <1>9, <1>10, <1>11, <1>12, <1>13,
     <1>14, <1>15, <1>16, <1>17, <1>18, <1>19, <1>20, <1>21, <1>22, <1>23, <1>24,
     <1>25, <1>26, <1>27, <1>28, <1>29, <1>30, <1>31, <1>32, <1>33, <1>34 DEF Next,
     Command, Server, Rest

\* The collection and the result files.
LEMMA ResultStep ==
  ASSUME TypeOK, LabelInv, [Next]_vars
  PROVE  ResultType'
<1>1. CASE Shutdown
  BY <1>1, TypeParts DEF Shutdown, results, ResultType
<1>2. CASE Launch
  BY <1>2, TypeParts DEF Launch, results, Nowhere, ResultType
<1>3. CASE Wait
  BY <1>3, TypeParts DEF Wait, results, ResultType
<1>4. CASE Stop
  BY <1>4, TypeParts DEF Stop, results, ResultType
<1>5. CASE Refuse
  BY <1>5, TypeParts DEF Refuse, results, ResultType
<1>6. CASE Initialise
  BY <1>6, TypeParts DEF Initialise, results, ResultType
<1>7. CASE CreateTables
  BY <1>7, TypeParts DEF CreateTables, results, ResultType
<1>8. CASE Tune
  BY <1>8, TypeParts DEF Tune, results, ResultType
<1>9. CASE LoadSlice
  BY <1>9, TypeParts DEF LoadSlice, results, ResultType
<1>10. CASE LoadEnds
  BY <1>10, TypeParts DEF LoadEnds, results, ResultType
<1>11. CASE AddIndexes
  BY <1>11, TypeParts DEF AddIndexes, results, ResultType
<1>12. CASE ResetParameters
  BY <1>12, TypeParts DEF ResetParameters, results, ResultType
<1>13. CASE PutAside
  BY <1>13, TypeParts DEF PutAside, results, Aside, ResultType
<1>14. CASE RemoveData
  BY <1>14, TypeParts DEF RemoveData, results, Removed, ResultType
<1>15. CASE LinkData
  BY <1>15, TypeParts DEF LinkData, results, ResultType
<1>16. CASE CopyTree
  BY <1>16, TypeParts DEF CopyTree, results, ResultType
<1>17. CASE ListIndexes
  BY <1>17, TypeParts DEF ListIndexes, results, ResultType
<1>18. CASE RelinkIndexes
  BY <1>18, TypeParts DEF RelinkIndexes, results, ResultType
<1>19. CASE BeginQuery
  BY <1>19, TypeParts DEF BeginQuery, results, ResultType
<1>20. CASE RemoveResult
  BY <1>20, TypeParts DEF RemoveResult, ResultType
<1>21. CASE StartCollection
  BY <1>21, TypeParts DEF StartCollection, ResultType
<1>22. CASE CreateView
  BY <1>22, TypeParts DEF CreateView, results, ResultType
<1>23. CASE Select
  <2> DEFINE s == [by |-> inv, q |-> i, at |-> Measured]
  <2>1. Serving => s \in Samples
    <3>1. i \in Queries
      BY <1>23 DEF Select, Step, LabelInv, Goal, Preparing, Loop
    <3>2. i \in 0 .. MaxQueries
      BY <3>1, Sizes DEF Queries
    <3>3. inv \in 0 .. MaxInvocations
      BY TypeParts DEF ControlType
    <3> QED
      BY <3>2, <3>3, MeasuredType DEF Samples
  <2>2. coll' = IF coll # None /\ Serving THEN coll \cup {s} ELSE coll
    BY <1>23 DEF Select
  <2> HIDE DEF s
  <2> QED
    BY <1>23, <2>1, <2>2, TypeParts DEF Select, ResultType
<1>24. CASE DropView
  BY <1>24, TypeParts DEF DropView, results, ResultType
<1>25. CASE FileArchive
  <2> DEFINE f == [by |-> inv, runs |-> coll]
  <2>1. coll # None => f \in Archives
    <3>1. inv >= 1 /\ inv \in 0 .. MaxInvocations
      BY <1>25, TypeParts DEF FileArchive, Step, LabelInv, ControlType
    <3>2. inv \in 1 .. MaxInvocations
      BY <3>1, Sizes
    <3> QED
      BY <3>2, TypeParts DEF ResultType, Archives
  <2>2. coll' = None /\ archive' = IF coll = None THEN archive ELSE [archive EXCEPT ![<<config, i>>] = f]
    BY <1>25 DEF FileArchive
  <2> HIDE DEF f
  <2> QED
    BY <2>1, <2>2, TypeParts DEF ResultType
<1>26. CASE CallSetup
  BY <1>26, TypeParts DEF CallSetup, results, ResultType
<1>27. CASE CallBenchmark
  BY <1>27, TypeParts DEF CallBenchmark, results, ResultType
<1>28. CASE ComesUp
  BY <1>28, TypeParts DEF ComesUp, script, results, MayComeUp, ResultType
<1>29. CASE FailsToStart
  BY <1>29, TypeParts DEF FailsToStart, script, results, MayComeUp, ResultType
<1>30. CASE Interrupt
  BY <1>30, TypeParts DEF Interrupt, results, CutShort, ResultType
<1>31. CASE Reboot
  BY <1>31, TypeParts DEF Reboot, CutShort, ResultType
<1>32. CASE OperatorCopies
  BY <1>32, TypeParts DEF OperatorCopies, script, results, ResultType
<1>33. CASE TpccRan
  <2>1. {[by |-> 0, q |-> 0, at |-> "tpcc"]} \in SUBSET Samples
    BY PlaceNames, Sizes DEF Samples
  <2> QED
    BY <1>33, <2>1, TypeParts DEF TpccRan, ResultType
<1>34. CASE UNCHANGED vars
  BY <1>34, TypeParts DEF vars, script, disk, daemon, results, ResultType
<1> QED
  BY <1>1, <1>2, <1>3, <1>4, <1>5, <1>6, <1>7, <1>8, <1>9, <1>10, <1>11, <1>12, <1>13,
     <1>14, <1>15, <1>16, <1>17, <1>18, <1>19, <1>20, <1>21, <1>22, <1>23, <1>24,
     <1>25, <1>26, <1>27, <1>28, <1>29, <1>30, <1>31, <1>32, <1>33, <1>34 DEF Next,
     Command, Server, Rest

\* The labels.
LEMMA LabelStep ==
  ASSUME TypeOK, LabelInv, [Next]_vars
  PROVE  LabelInv'
<1>1. CASE Shutdown
  BY <1>1, LabelFacts DEF Shutdown, Step, LabelInv, Goal, Preparing, Loop
<1>2. CASE Launch
  BY <1>2, LabelFacts DEF Launch, Step, Nowhere, LabelInv, Goal, Preparing, Loop
<1>3. CASE Wait
  BY <1>3, LabelFacts DEF Wait, Step, LabelInv, Goal, Preparing, Loop
<1>4. CASE Stop
  BY <1>4, LabelFacts DEF Stop, Step, AfterStop, LabelInv, Goal, Preparing, Loop
<1>5. CASE Refuse
  BY <1>5, LabelFacts DEF Refuse, Step, LabelInv, Goal, Preparing, Loop
<1>6. CASE Initialise
  BY <1>6, LabelFacts DEF Initialise, Restart, LabelInv, Goal, Preparing, Loop
<1>7. CASE CreateTables
  BY <1>7, LabelFacts DEF CreateTables, Step, LabelInv, Goal, Preparing, Loop
<1>8. CASE Tune
  BY <1>8, LabelFacts DEF Tune, Restart, LabelInv, Goal, Preparing, Loop
<1>9. CASE LoadSlice
  BY <1>9, LabelFacts DEF LoadSlice, Step, LabelInv, Goal, Preparing, Loop
<1>10. CASE LoadEnds
  BY <1>10, LabelFacts DEF LoadEnds, Step, LabelInv, Goal, Preparing, Loop
<1>11. CASE AddIndexes
  BY <1>11, LabelFacts DEF AddIndexes, Step, LabelInv, Goal, Preparing, Loop
<1>12. CASE ResetParameters
  BY <1>12, LabelFacts DEF ResetParameters, Step, LabelInv, Goal, Preparing, Loop
<1>13. CASE PutAside
  BY <1>13, LabelFacts DEF PutAside, Step, LabelInv, Goal, Preparing, Loop
<1>14. CASE RemoveData
  BY <1>14, LabelFacts DEF RemoveData, Step, Supported, LabelInv, Goal, Preparing, Loop
<1>15. CASE LinkData
  BY <1>15, LabelFacts DEF LinkData, Step, LabelInv, Goal, Preparing, Loop
<1>16. CASE CopyTree
  BY <1>16, LabelFacts DEF CopyTree, Restart, LabelInv, Goal, Preparing, Loop
<1>17. CASE ListIndexes
  BY <1>17, LabelFacts DEF ListIndexes, Step, LabelInv, Goal, Preparing, Loop
<1>18. CASE RelinkIndexes
  BY <1>18, LabelFacts DEF RelinkIndexes, Step, LabelInv, Goal, Preparing, Loop
<1>19. CASE BeginQuery
  BY <1>19, LabelFacts DEF BeginQuery, Restart, LabelInv, Goal, Preparing, Loop
<1>20. CASE RemoveResult
  BY <1>20, LabelFacts DEF RemoveResult, Step, LabelInv, Goal, Preparing, Loop
<1>21. CASE StartCollection
  BY <1>21, LabelFacts DEF StartCollection, Step, LabelInv, Goal, Preparing, Loop
<1>22. CASE CreateView
  BY <1>22, LabelFacts DEF CreateView, Step, LabelInv, Goal, Preparing, Loop
<1>23. CASE Select
  BY <1>23, LabelFacts DEF Select, Step, LabelInv, Goal, Preparing, Loop
<1>24. CASE DropView
  BY <1>24, LabelFacts DEF DropView, Step, LabelInv, Goal, Preparing, Loop
<1>25. CASE FileArchive
  BY <1>25, LabelFacts DEF FileArchive, Step, MoreQueries, LabelInv, Goal, Preparing,
     Loop
<1>26. CASE CallSetup
  <2>1. inv' >= 1 /\ pc' = "initialise" /\ (pc' = "stop" => i' = 1) /\ engine' = engine
    BY <1>26, LabelFacts DEF CallSetup
  <2> QED
    BY <2>1, LabelFacts DEF LabelInv, Goal, Preparing, Loop
<1>27. CASE CallBenchmark
  <2>1. inv' >= 1 /\ pc' = "stop" /\ (pc' = "stop" => i' = 1) /\ engine' = engine
    BY <1>27, LabelFacts DEF CallBenchmark
  <2> QED
    BY <2>1, LabelFacts DEF LabelInv, Goal, Preparing, Loop
<1>28. CASE ComesUp
  BY <1>28, LabelFacts DEF ComesUp, script, LabelInv, Goal, Preparing, Loop
<1>29. CASE FailsToStart
  BY <1>29, LabelFacts DEF FailsToStart, script, LabelInv, Goal, Preparing, Loop
<1>30. CASE Interrupt
  BY <1>30, LabelFacts DEF Interrupt, LabelInv, Goal, Preparing, Loop
<1>31. CASE Reboot
  BY <1>31, LabelFacts DEF Reboot, LabelInv, Goal, Preparing, Loop
<1>32. CASE OperatorCopies
  BY <1>32, LabelFacts DEF OperatorCopies, script, LabelInv, Goal, Preparing, Loop
<1>33. CASE TpccRan
  BY <1>33, LabelFacts DEF TpccRan, script, LabelInv, Goal, Preparing, Loop
<1>34. CASE UNCHANGED vars
  BY <1>34, LabelFacts DEF vars, script, disk, daemon, results, LabelInv, Goal,
     Preparing, Loop
<1> QED
  BY <1>1, <1>2, <1>3, <1>4, <1>5, <1>6, <1>7, <1>8, <1>9, <1>10, <1>11, <1>12, <1>13,
     <1>14, <1>15, <1>16, <1>17, <1>18, <1>19, <1>20, <1>21, <1>22, <1>23, <1>24,
     <1>25, <1>26, <1>27, <1>28, <1>29, <1>30, <1>31, <1>32, <1>33, <1>34 DEF Next,
     Command, Server, Rest

\* The server.
LEMMA DaemonInvStep ==
  ASSUME TypeOK, LabelInv, DaemonInv, PlaceInv, [Next]_vars
  PROVE  DaemonInv'
<1>1. CASE Shutdown
  BY <1>1, LabelFacts, TypeParts, PlaceNames, NoPlace DEF Shutdown, disk, daemon,
     Step, StopServer, Stoppable, LinkFor, Healthy, LabelInv, DaemonInv, PlaceInv,
     Goal, ServerOnData, Clean, Setting, Loop, Talking, DaemonType, DiskType
<1>2. CASE Launch
  BY <1>2, LabelFacts, TypeParts, PlaceNames, NoPlace DEF Launch, disk, daemon, Step,
     Nowhere, LinkFor, Healthy, LabelInv, DaemonInv, PlaceInv, Goal, ServerOnData,
     Clean, Setting, Loop, Talking, DaemonType, DiskType
<1>3. CASE Wait
  BY <1>3, LabelFacts, TypeParts, PlaceNames, NoPlace DEF Wait, disk, daemon, Step,
     LinkFor, Healthy, LabelInv, DaemonInv, PlaceInv, Goal, ServerOnData, Clean,
     Setting, Loop, Talking, DaemonType, DiskType
<1>4. CASE Stop
  <2>1. <<pc, pc'>> \in {<<"unload", "putaside">>, <<"stop", "prepare">>,
                       <<"prepare", "remove">>, <<"finish", "idle">>}
    BY <1>4 DEF Stop, Step, AfterStop
  <2>2. UNCHANGED <<engine, after, met, link>>
    BY <1>4 DEF Stop, Step, disk
  <2>3. IF Stoppable THEN server' = "down" /\ on' = None ELSE UNCHANGED <<server, on>>
    BY <1>4 DEF Stop, StopServer, daemon
  <2> QED
    BY <2>1, <2>2, <2>3, LabelFacts, TypeParts, NoPlace DEF DaemonInv, PlaceInv,
       Stoppable, Goal, ServerOnData, Clean,
       Healthy, Setting, Talking, DaemonType, DiskType
<1>5. CASE Refuse
  BY <1>5, LabelFacts, TypeParts, PlaceNames, NoPlace DEF Refuse, disk, daemon, Step,
     DirectoryExists, LinkFor, Healthy, LabelInv, DaemonInv, PlaceInv, Goal,
     ServerOnData, Clean, Setting, Loop, Talking, DaemonType, DiskType
<1>6. CASE Initialise
  BY <1>6, LabelFacts, TypeParts, PlaceNames, NoPlace DEF Initialise, disk, daemon,
     Restart, DirectoryExists, LinkFor, Healthy, LabelInv, DaemonInv, PlaceInv, Goal,
     ServerOnData, Clean, Setting, Loop, Talking, DaemonType, DiskType
<1>7. CASE CreateTables
  BY <1>7, LabelFacts, TypeParts, PlaceNames, NoPlace DEF CreateTables, daemon, Step,
     LinkFor, Healthy, LabelInv, DaemonInv, PlaceInv, Goal, ServerOnData, Clean,
     Setting, Loop, Talking, DaemonType, DiskType
<1>8. CASE Tune
  BY <1>8, LabelFacts, TypeParts, PlaceNames, NoPlace DEF Tune, daemon, Restart,
     LinkFor, Healthy, LabelInv, DaemonInv, PlaceInv, Goal, ServerOnData, Clean,
     Setting, Loop, Talking, DaemonType, DiskType
<1>9. CASE LoadSlice
  BY <1>9, LabelFacts, TypeParts, PlaceNames, NoPlace DEF LoadSlice, daemon, Step,
     LinkFor, Healthy, LabelInv, DaemonInv, PlaceInv, Goal, ServerOnData, Clean,
     Setting, Loop, Talking, DaemonType, DiskType
<1>10. CASE LoadEnds
  BY <1>10, LabelFacts, TypeParts, PlaceNames, NoPlace DEF LoadEnds, disk, daemon,
     Step, LinkFor, Healthy, LabelInv, DaemonInv, PlaceInv, Goal, ServerOnData, Clean,
     Setting, Loop, Talking, DaemonType, DiskType
<1>11. CASE AddIndexes
  BY <1>11, LabelFacts, TypeParts, PlaceNames, NoPlace DEF AddIndexes, daemon, Step,
     LinkFor, Healthy, LabelInv, DaemonInv, PlaceInv, Goal, ServerOnData, Clean,
     Setting, Loop, Talking, DaemonType, DiskType
<1>12. CASE ResetParameters
  BY <1>12, LabelFacts, TypeParts, PlaceNames, NoPlace DEF ResetParameters, daemon,
     Step, LinkFor, Healthy, LabelInv, DaemonInv, PlaceInv, Goal, ServerOnData, Clean,
     Setting, Loop, Talking, DaemonType, DiskType
<1>13. CASE PutAside
  <2>1. /\ pc = "putaside" /\ pc' = "idle" /\ UNCHANGED <<engine, met, server>>
        /\ on' = on \/ (on = "data" /\ on' = Aside)
    BY <1>13 DEF PutAside, Step
  <2>2. Aside \in Places /\ None # Aside /\ None # "data"
    BY PlaceNames, NoPlace DEF Aside
  <2>3. Clean' = Clean /\ (Clean => server = "down" /\ on = None)
    BY <2>1 DEF Clean, DaemonInv
  <2>4. pc' \notin Talking
    BY <2>1 DEF Talking
  <2> QED
    BY <2>1, <2>2, <2>3, <2>4 DEF DaemonInv, ServerOnData
<1>14. CASE RemoveData
  BY <1>14, LabelFacts, TypeParts, PlaceNames, NoPlace DEF RemoveData, Step, Removed,
     Supported, LinkFor, Healthy, LabelInv, DaemonInv, PlaceInv, Goal, ServerOnData,
     Clean, Setting, Loop, Talking, DaemonType, DiskType
<1>15. CASE LinkData
  BY <1>15, LabelFacts, TypeParts, PlaceNames, NoPlace DEF LinkData, daemon, Step,
     LinkFor, Healthy, LabelInv, DaemonInv, PlaceInv, Goal, ServerOnData, Clean,
     Setting, Loop, Talking, DaemonType, DiskType
<1>16. CASE CopyTree
  BY <1>16, LabelFacts, TypeParts, PlaceNames, NoPlace DEF CopyTree, disk, daemon,
     Restart, LinkFor, Healthy, LabelInv, DaemonInv, PlaceInv, Goal, ServerOnData,
     Clean, Setting, Loop, Talking, DaemonType, DiskType
<1>17. CASE ListIndexes
  BY <1>17, LabelFacts, TypeParts, PlaceNames, NoPlace DEF ListIndexes, disk, daemon,
     Step, StopServer, Stoppable, LinkFor, Healthy, LabelInv, DaemonInv, PlaceInv,
     Goal, ServerOnData, Clean, Setting, Loop, Talking, DaemonType, DiskType
<1>18. CASE RelinkIndexes
  BY <1>18, LabelFacts, TypeParts, PlaceNames, NoPlace DEF RelinkIndexes, daemon,
     Step, LinkFor, Healthy, LabelInv, DaemonInv, PlaceInv, Goal, ServerOnData, Clean,
     Setting, Loop, Talking, DaemonType, DiskType
<1>19. CASE BeginQuery
  BY <1>19, LabelFacts, TypeParts, PlaceNames, NoPlace DEF BeginQuery, disk, daemon,
     Restart, LinkFor, Healthy, LabelInv, DaemonInv, PlaceInv, Goal, ServerOnData,
     Clean, Setting, Loop, Talking, DaemonType, DiskType
<1>20. CASE RemoveResult
  BY <1>20, LabelFacts, TypeParts, PlaceNames, NoPlace DEF RemoveResult, disk, daemon,
     Step, LinkFor, Healthy, LabelInv, DaemonInv, PlaceInv, Goal, ServerOnData, Clean,
     Setting, Loop, Talking, DaemonType, DiskType
<1>21. CASE StartCollection
  BY <1>21, LabelFacts, TypeParts, PlaceNames, NoPlace DEF StartCollection, disk,
     daemon, Step, LinkFor, Healthy, LabelInv, DaemonInv, PlaceInv, Goal,
     ServerOnData, Clean, Setting, Loop, Talking, DaemonType, DiskType
<1>22. CASE CreateView
  BY <1>22, LabelFacts, TypeParts, PlaceNames, NoPlace DEF CreateView, daemon, Step,
     LinkFor, Healthy, LabelInv, DaemonInv, PlaceInv, Goal, ServerOnData, Clean,
     Setting, Loop, Talking, DaemonType, DiskType
<1>23. CASE Select
  BY <1>23, LabelFacts, TypeParts, PlaceNames, NoPlace DEF Select, disk, daemon, Step,
     LinkFor, Healthy, LabelInv, DaemonInv, PlaceInv, Goal, ServerOnData, Clean,
     Setting, Loop, Talking, DaemonType, DiskType
<1>24. CASE DropView
  BY <1>24, LabelFacts, TypeParts, PlaceNames, NoPlace DEF DropView, daemon, Step,
     LinkFor, Healthy, LabelInv, DaemonInv, PlaceInv, Goal, ServerOnData, Clean,
     Setting, Loop, Talking, DaemonType, DiskType
<1>25. CASE FileArchive
  BY <1>25, LabelFacts, TypeParts, PlaceNames, NoPlace DEF FileArchive, disk, daemon,
     Step, LinkFor, MoreQueries, Healthy, LabelInv, DaemonInv, PlaceInv, Goal,
     ServerOnData, Clean, Setting, Loop, Talking, DaemonType, DiskType
<1>26. CASE CallSetup
  BY <1>26, LabelFacts, TypeParts, PlaceNames, NoPlace DEF CallSetup, disk, daemon,
     LinkFor, Healthy, LabelInv, DaemonInv, PlaceInv, Goal, ServerOnData, Clean,
     Setting, Loop, Talking, DaemonType, DiskType
<1>27. CASE CallBenchmark
  BY <1>27, LabelFacts, TypeParts, PlaceNames, NoPlace DEF CallBenchmark, disk,
     daemon, LinkFor, Healthy, LabelInv, DaemonInv, PlaceInv, Goal, ServerOnData,
     Clean, Setting, Loop, Talking, DaemonType, DiskType
<1>28. CASE ComesUp
  BY <1>28, LabelFacts, TypeParts, PlaceNames, NoPlace DEF ComesUp, script, disk,
     LinkFor, Healthy, MayComeUp, LabelInv, DaemonInv, Goal, ServerOnData, Clean,
     Setting, Loop, Talking, DaemonType
<1>29. CASE FailsToStart
  BY <1>29, LabelFacts, TypeParts, PlaceNames, NoPlace DEF FailsToStart, script, disk,
     LinkFor, Healthy, LabelInv, DaemonInv, PlaceInv, Goal, ServerOnData, Clean,
     Setting, Loop, Talking, DaemonType, DiskType
<1>30. CASE Interrupt
  BY <1>30, LabelFacts, TypeParts, PlaceNames, NoPlace DEF Interrupt, disk, daemon,
     LinkFor, Healthy, LabelInv, DaemonInv, PlaceInv, Goal, ServerOnData, Clean,
     Setting, Loop, Talking, DaemonType, DiskType
<1>31. CASE Reboot
  BY <1>31, LabelFacts, TypeParts, PlaceNames, NoPlace DEF Reboot, disk, LinkFor,
     Healthy, LabelInv, DaemonInv, PlaceInv, Goal, ServerOnData, Clean, Setting, Loop,
     Talking, DaemonType, DiskType
<1>32. CASE OperatorCopies
  BY <1>32, LabelFacts, TypeParts, PlaceNames, NoPlace DEF OperatorCopies, script,
     daemon, LinkFor, Healthy, LabelInv, DaemonInv, PlaceInv, Goal, ServerOnData,
     Clean, Setting, Loop, Talking, DaemonType, DiskType
<1>33. CASE TpccRan
  <2>1. on' = link' /\ on' \in Places /\ UNCHANGED <<engine, pc, after, met>> /\ pc = "idle"
    BY <1>33, PlaceNames DEF TpccRan, script
  <2>2. server' = IF engine = "mysql" THEN "locked" ELSE "up"
    BY <1>33 DEF TpccRan
  <2> QED
    BY <2>1, <2>2, LabelFacts, NoPlace DEF DaemonInv, ServerOnData, Clean, Talking
<1>34. CASE UNCHANGED vars
  BY <1>34, LabelFacts, TypeParts, PlaceNames, NoPlace DEF vars, script, disk, daemon,
     results, LabelInv, DaemonInv, PlaceInv, Goal, ServerOnData, Clean, Healthy,
     Setting, Loop, Talking, DaemonType, DiskType, LinkFor
<1> QED
  BY <1>1, <1>2, <1>3, <1>4, <1>5, <1>6, <1>7, <1>8, <1>9, <1>10, <1>11, <1>12, <1>13,
     <1>14, <1>15, <1>16, <1>17, <1>18, <1>19, <1>20, <1>21, <1>22, <1>23, <1>24,
     <1>25, <1>26, <1>27, <1>28, <1>29, <1>30, <1>31, <1>32, <1>33, <1>34 DEF Next,
     Command, Server, Rest

\* The server of the later queries.
LEMMA StrayStep ==
  ASSUME TypeOK, LabelInv, DaemonInv, StrayInv, PlaceInv, [Next]_vars
  PROVE  StrayInv'
<1>1. CASE Shutdown
  BY <1>1, LabelFacts, TypeParts, NoPlace, Sizes DEF Shutdown, disk, daemon, Step,
     StopServer, Stoppable, LinkFor, Healthy, Preparing, LabelInv, DaemonInv,
     StrayInv, PlaceInv, Goal, ServerOnData, Clean, Setting, Loop, Talking,
     DaemonType, Queries
<1>2. CASE Launch
  BY <1>2, LabelFacts, TypeParts, NoPlace, Sizes DEF Launch, disk, daemon, Step,
     Nowhere, LinkFor, Healthy, Preparing, LabelInv, DaemonInv, StrayInv, PlaceInv,
     Goal, ServerOnData, Clean, Setting, Loop, Talking, DaemonType, Queries
<1>3. CASE Wait
  BY <1>3, LabelFacts, TypeParts, NoPlace, Sizes DEF Wait, disk, daemon, Step,
     LinkFor, Healthy, Preparing, LabelInv, DaemonInv, StrayInv, PlaceInv, Goal,
     ServerOnData, Clean, Setting, Loop, Talking, DaemonType, Queries
<1>4. CASE Stop
  BY <1>4, StopEffect, LabelFacts, TypeParts, NoPlace DEF Stoppable, Preparing,
     LabelInv, DaemonInv, StrayInv, PlaceInv, Goal, ServerOnData, Clean, Setting,
     Loop, Talking, DaemonType, Queries
<1>5. CASE Refuse
  BY <1>5, LabelFacts, TypeParts, NoPlace, Sizes DEF Refuse, disk, daemon, Step,
     DirectoryExists, LinkFor, Healthy, Preparing, LabelInv, DaemonInv, StrayInv,
     PlaceInv, Goal, ServerOnData, Clean, Setting, Loop, Talking, DaemonType, Queries
<1>6. CASE Initialise
  BY <1>6, LabelFacts, TypeParts, NoPlace, Sizes DEF Initialise, disk, daemon,
     Restart, DirectoryExists, LinkFor, Healthy, Preparing, LabelInv, DaemonInv,
     StrayInv, PlaceInv, Goal, ServerOnData, Clean, Setting, Loop, Talking,
     DaemonType, Queries
<1>7. CASE CreateTables
  BY <1>7, LabelFacts, TypeParts, NoPlace, Sizes DEF CreateTables, daemon, Step,
     LinkFor, Healthy, Preparing, LabelInv, DaemonInv, StrayInv, PlaceInv, Goal,
     ServerOnData, Clean, Setting, Loop, Talking, DaemonType, Queries
<1>8. CASE Tune
  BY <1>8, LabelFacts, TypeParts, NoPlace, Sizes DEF Tune, daemon, Restart, LinkFor,
     Healthy, Preparing, LabelInv, DaemonInv, StrayInv, PlaceInv, Goal, ServerOnData,
     Clean, Setting, Loop, Talking, DaemonType, Queries
<1>9. CASE LoadSlice
  BY <1>9, LabelFacts, TypeParts, NoPlace, Sizes DEF LoadSlice, daemon, Step, LinkFor,
     Healthy, Preparing, LabelInv, DaemonInv, StrayInv, PlaceInv, Goal, ServerOnData,
     Clean, Setting, Loop, Talking, DaemonType, Queries
<1>10. CASE LoadEnds
  BY <1>10, LabelFacts, TypeParts, NoPlace, Sizes DEF LoadEnds, disk, daemon, Step,
     LinkFor, Healthy, Preparing, LabelInv, DaemonInv, StrayInv, PlaceInv, Goal,
     ServerOnData, Clean, Setting, Loop, Talking, DaemonType, Queries
<1>11. CASE AddIndexes
  BY <1>11, LabelFacts, TypeParts, NoPlace, Sizes DEF AddIndexes, daemon, Step,
     LinkFor, Healthy, Preparing, LabelInv, DaemonInv, StrayInv, PlaceInv, Goal,
     ServerOnData, Clean, Setting, Loop, Talking, DaemonType, Queries
<1>12. CASE ResetParameters
  BY <1>12, LabelFacts, TypeParts, NoPlace, Sizes DEF ResetParameters, daemon, Step,
     LinkFor, Healthy, Preparing, LabelInv, DaemonInv, StrayInv, PlaceInv, Goal,
     ServerOnData, Clean, Setting, Loop, Talking, DaemonType, Queries
<1>13. CASE PutAside
  BY <1>13, LabelFacts, TypeParts, NoPlace, Sizes DEF PutAside, disk, Step, Movable,
     Aside, LinkFor, Healthy, Preparing, LabelInv, DaemonInv, StrayInv, PlaceInv,
     Goal, ServerOnData, Clean, Setting, Loop, Talking, DaemonType, Queries
<1>14. CASE RemoveData
  BY <1>14, LabelFacts, TypeParts, NoPlace, Sizes DEF RemoveData, Step, Supported,
     LinkFor, Healthy, Preparing, LabelInv, DaemonInv, StrayInv, PlaceInv, Goal,
     ServerOnData, Clean, Setting, Loop, Talking, DaemonType, Queries
<1>15. CASE LinkData
  <2>1. i' = 1
    BY <1>15 DEF LinkData, Step, LabelInv, Goal, Preparing
  <2> QED
    BY <2>1 DEF StrayInv
<1>16. CASE CopyTree
  BY <1>16, LabelFacts, TypeParts, NoPlace, Sizes DEF CopyTree, disk, daemon, Restart,
     LinkFor, Healthy, Preparing, LabelInv, DaemonInv, StrayInv, PlaceInv, Goal,
     ServerOnData, Clean, Setting, Loop, Talking, DaemonType, Queries
<1>17. CASE ListIndexes
  BY <1>17, LabelFacts, TypeParts, NoPlace, Sizes DEF ListIndexes, disk, daemon, Step,
     StopServer, Stoppable, LinkFor, Healthy, Preparing, LabelInv, DaemonInv,
     StrayInv, PlaceInv, Goal, ServerOnData, Clean, Setting, Loop, Talking,
     DaemonType, Queries
<1>18. CASE RelinkIndexes
  BY <1>18, LabelFacts, TypeParts, NoPlace, Sizes DEF RelinkIndexes, daemon, Step,
     LinkFor, Healthy, Preparing, LabelInv, DaemonInv, StrayInv, PlaceInv, Goal,
     ServerOnData, Clean, Setting, Loop, Talking, DaemonType, Queries
<1>19. CASE BeginQuery
  BY <1>19, LabelFacts, TypeParts, NoPlace, Sizes DEF BeginQuery, disk, daemon,
     Restart, LinkFor, Healthy, Preparing, LabelInv, DaemonInv, StrayInv, PlaceInv,
     Goal, ServerOnData, Clean, Setting, Loop, Talking, DaemonType, Queries
<1>20. CASE RemoveResult
  BY <1>20, LabelFacts, TypeParts, NoPlace, Sizes DEF RemoveResult, disk, daemon,
     Step, LinkFor, Healthy, Preparing, LabelInv, DaemonInv, StrayInv, PlaceInv, Goal,
     ServerOnData, Clean, Setting, Loop, Talking, DaemonType, Queries
<1>21. CASE StartCollection
  BY <1>21, LabelFacts, TypeParts, NoPlace, Sizes DEF StartCollection, disk, daemon,
     Step, LinkFor, Healthy, Preparing, LabelInv, DaemonInv, StrayInv, PlaceInv, Goal,
     ServerOnData, Clean, Setting, Loop, Talking, DaemonType, Queries
<1>22. CASE CreateView
  BY <1>22, LabelFacts, TypeParts, NoPlace, Sizes DEF CreateView, daemon, Step,
     LinkFor, Healthy, Preparing, LabelInv, DaemonInv, StrayInv, PlaceInv, Goal,
     ServerOnData, Clean, Setting, Loop, Talking, DaemonType, Queries
<1>23. CASE Select
  BY <1>23, LabelFacts, TypeParts, NoPlace, Sizes DEF Select, disk, daemon, Step,
     LinkFor, Healthy, Preparing, LabelInv, DaemonInv, StrayInv, PlaceInv, Goal,
     ServerOnData, Clean, Setting, Loop, Talking, DaemonType, Queries
<1>24. CASE DropView
  BY <1>24, LabelFacts, TypeParts, NoPlace, Sizes DEF DropView, daemon, Step, LinkFor,
     Healthy, Preparing, LabelInv, DaemonInv, StrayInv, PlaceInv, Goal, ServerOnData,
     Clean, Setting, Loop, Talking, DaemonType, Queries
<1>25. CASE FileArchive
  BY <1>25, LabelFacts, TypeParts, NoPlace, Sizes DEF FileArchive, disk, daemon, Step,
     LinkFor, MoreQueries, Healthy, Preparing, LabelInv, DaemonInv, StrayInv,
     PlaceInv, Goal, ServerOnData, Clean, Setting, Loop, Talking, DaemonType, Queries
<1>26. CASE CallSetup
  BY <1>26, LabelFacts, TypeParts, NoPlace, Sizes DEF CallSetup, disk, daemon,
     LinkFor, Healthy, Preparing, LabelInv, DaemonInv, StrayInv, PlaceInv, Goal,
     ServerOnData, Clean, Setting, Loop, Talking, DaemonType, Queries
<1>27. CASE CallBenchmark
  BY <1>27, LabelFacts, TypeParts, NoPlace, Sizes DEF CallBenchmark, disk, daemon,
     LinkFor, Healthy, Preparing, LabelInv, DaemonInv, StrayInv, PlaceInv, Goal,
     ServerOnData, Clean, Setting, Loop, Talking, DaemonType, Queries
<1>28. CASE ComesUp
  BY <1>28, LabelFacts, TypeParts, NoPlace, Sizes DEF ComesUp, script, disk, LinkFor,
     Healthy, Preparing, LabelInv, DaemonInv, StrayInv, PlaceInv, Goal, ServerOnData,
     Clean, Setting, Loop, Talking, DaemonType, Queries
<1>29. CASE FailsToStart
  BY <1>29, LabelFacts, TypeParts, NoPlace, Sizes DEF FailsToStart, script, disk,
     LinkFor, Healthy, Preparing, LabelInv, DaemonInv, StrayInv, PlaceInv, Goal,
     ServerOnData, Clean, Setting, Loop, Talking, DaemonType, Queries
<1>30. CASE Interrupt
  BY <1>30, LabelFacts, TypeParts, NoPlace, Sizes DEF Interrupt, disk, daemon,
     LinkFor, Healthy, Preparing, LabelInv, DaemonInv, StrayInv, PlaceInv, Goal,
     ServerOnData, Clean, Setting, Loop, Talking, DaemonType, Queries
<1>31. CASE Reboot
  BY <1>31, LabelFacts, TypeParts, NoPlace, Sizes DEF Reboot, disk, LinkFor, Healthy,
     Preparing, LabelInv, DaemonInv, StrayInv, PlaceInv, Goal, ServerOnData, Clean,
     Setting, Loop, Talking, DaemonType, Queries
<1>32. CASE OperatorCopies
  BY <1>32, LabelFacts, TypeParts, NoPlace, Sizes DEF OperatorCopies, script, daemon,
     LinkFor, Healthy, Preparing, LabelInv, DaemonInv, StrayInv, PlaceInv, Goal,
     ServerOnData, Clean, Setting, Loop, Talking, DaemonType, Queries
<1>33. CASE TpccRan
  BY <1>33, LabelFacts, TypeParts, NoPlace, Sizes DEF TpccRan, script, LinkFor,
     Healthy, Preparing, LabelInv, DaemonInv, StrayInv, PlaceInv, Goal, ServerOnData,
     Clean, Setting, Loop, Talking, DaemonType, Queries
<1>34. CASE UNCHANGED vars
  BY <1>34, LabelFacts, TypeParts, NoPlace, Sizes DEF vars, script, disk, daemon,
     results, Preparing, LabelInv, DaemonInv, StrayInv, PlaceInv, Goal, ServerOnData,
     Clean, Setting, Loop, Talking, DaemonType, Queries, LinkFor, Healthy
<1> QED
  BY <1>1, <1>2, <1>3, <1>4, <1>5, <1>6, <1>7, <1>8, <1>9, <1>10, <1>11, <1>12, <1>13,
     <1>14, <1>15, <1>16, <1>17, <1>18, <1>19, <1>20, <1>21, <1>22, <1>23, <1>24,
     <1>25, <1>26, <1>27, <1>28, <1>29, <1>30, <1>31, <1>32, <1>33, <1>34 DEF Next,
     Command, Server, Rest

\* What the name data stands for.
LEMMA PlaceStep ==
  ASSUME TypeOK, LabelInv, DaemonInv, PlaceInv, UpInv, [Next]_vars
  PROVE  PlaceInv'
<1>1. CASE Shutdown
  BY <1>1, LabelFacts, TypeParts, NoPlace, PlaceNames, NewFields DEF Shutdown, disk,
     Step, LinkFor, LabelInv, DaemonInv, PlaceInv, Goal, ServerOnData, Clean, Setting,
     Loop, DiskType
<1>2. CASE Launch
  BY <1>2, LabelFacts, TypeParts, NoPlace, PlaceNames, NewFields DEF Launch, disk,
     daemon, Step, Nowhere, LinkFor, LabelInv, DaemonInv, PlaceInv, Goal,
     ServerOnData, Clean, Setting, Loop, DiskType
<1>3. CASE Wait
  BY <1>3, LabelFacts, TypeParts, NoPlace, PlaceNames, NewFields DEF Wait, disk,
     daemon, Step, LinkFor, LabelInv, DaemonInv, PlaceInv, Goal, ServerOnData, Clean,
     Setting, Loop, DiskType
<1>4. CASE Stop
  BY <1>4, StopEffect, LabelFacts, TypeParts, NoPlace DEF Stoppable, LabelInv,
     DaemonInv, PlaceInv, Goal, ServerOnData, Clean, Setting, Loop, DiskType
<1>5. CASE Refuse
  BY <1>5, LabelFacts, TypeParts, NoPlace, PlaceNames, NewFields DEF Refuse, disk,
     daemon, Step, DirectoryExists, LinkFor, LabelInv, DaemonInv, PlaceInv, Goal,
     ServerOnData, Clean, Setting, Loop, DiskType
<1>6. CASE Initialise
  BY <1>6, LabelFacts, TypeParts, NoPlace, PlaceNames, NewFields DEF Initialise, disk,
     daemon, Restart, DirectoryExists, LinkFor, LabelInv, DaemonInv, PlaceInv, Goal,
     ServerOnData, Clean, Setting, Loop, DiskType
<1>7. CASE CreateTables
  <2>1. \A p \in Places : store'[p].kind = store[p].kind
    BY <1>7, Created DEF MarksChange
  <2> QED
    BY <1>7, <2>1, LabelFacts, TypeParts, PlaceNames, NoPlace DEF CreateTables,
       daemon, Step, LinkFor, LabelInv, DaemonInv, PlaceInv, Goal, ServerOnData,
       Clean, Setting, Loop, DiskType
<1>8. CASE Tune
  <2>1. \A p \in Places : store'[p].kind = store[p].kind
    BY <1>8, Marks DEF MarksChange
  <2> QED
    BY <1>8, <2>1, LabelFacts, TypeParts, PlaceNames, NoPlace DEF Tune, daemon,
       Restart, LinkFor, LabelInv, DaemonInv, PlaceInv, Goal, ServerOnData, Clean,
       Setting, Loop, DiskType
<1>9. CASE LoadSlice
  <2>1. \A p \in Places : store'[p].kind = store[p].kind
    BY <1>9, Loaded DEF MarksChange
  <2> QED
    BY <1>9, <2>1, LabelFacts, TypeParts, PlaceNames, NoPlace DEF LoadSlice, daemon,
       Step, LinkFor, LabelInv, DaemonInv, PlaceInv, Goal, ServerOnData, Clean,
       Setting, Loop, DiskType
<1>10. CASE LoadEnds
  BY <1>10, LabelFacts, TypeParts, NoPlace, PlaceNames, NewFields DEF LoadEnds, disk,
     daemon, Step, LinkFor, LabelInv, DaemonInv, PlaceInv, Goal, ServerOnData, Clean,
     Setting, Loop, DiskType
<1>11. CASE AddIndexes
  <2>1. \A p \in Places : store'[p].kind = store[p].kind
    BY <1>11, Marks DEF MarksChange
  <2> QED
    BY <1>11, <2>1, LabelFacts, TypeParts, PlaceNames, NoPlace DEF AddIndexes, daemon,
       Step, LinkFor, LabelInv, DaemonInv, PlaceInv, Goal, ServerOnData, Clean,
       Setting, Loop, DiskType
<1>12. CASE ResetParameters
  <2>1. \A p \in Places : store'[p].kind = store[p].kind
    BY <1>12, Marks DEF MarksChange
  <2> QED
    BY <1>12, <2>1, LabelFacts, TypeParts, PlaceNames, NoPlace DEF ResetParameters,
       daemon, Step, LinkFor, LabelInv, DaemonInv, PlaceInv, Goal, ServerOnData,
       Clean, Setting, Loop, DiskType
<1>13. CASE PutAside
  <2>1. pc' = "idle" /\ (link' = None \/ UNCHANGED <<store, link>>)
    BY <1>13 DEF PutAside, Step, disk
  <2> QED
    BY <2>1, NoPlace, PlaceNames DEF PlaceInv, Goal, Setting, Loop
<1>14. CASE RemoveData
  BY <1>14, LabelFacts, TypeParts, NoPlace, PlaceNames, NewFields DEF RemoveData,
     Step, Removed, Supported, LinkFor, LabelInv, DaemonInv, PlaceInv, Goal,
     ServerOnData, Clean, Setting, Loop, DiskType
<1>15. CASE LinkData
  BY <1>15, LabelFacts, TypeParts, NoPlace, PlaceNames, NewFields DEF LinkData,
     daemon, Step, LinkFor, LabelInv, DaemonInv, PlaceInv, Goal, ServerOnData, Clean,
     Setting, Loop, DiskType
<1>16. CASE CopyTree
  <2>1. pc = "tree" /\ pc' = "restart" /\ after' = "list"
    BY <1>16 DEF CopyTree, Restart
  <2>2. CASE store["built"].kind # "tpch"
    BY <1>16, <2>1, <2>2 DEF CopyTree, disk, PlaceInv, Goal, Setting, Loop
  <2>3. CASE store["built"].kind = "tpch"
    <3>1. link' = "data" /\ store' = [store EXCEPT !["data"] = New("tree")]
      BY <1>16, <2>3 DEF CopyTree
    <3>2. store'["data"].kind = "tree" /\ store'["built"].kind = "tpch"
      BY <2>3, <3>1, NewFields, TypeParts, PlaceNames DEF DiskType
    <3> QED
      BY <2>1, <3>1, <3>2 DEF PlaceInv, Goal, Setting, Loop
  <2> QED
    BY <2>2, <2>3
<1>17. CASE ListIndexes
  <2>1. pc = "list" /\ engine = "postgres" /\ config = "pmemforindex"
    BY <1>17 DEF ListIndexes, Step, LabelInv, Goal
  <2>2. Clean /\ (server # "down" => on = link)
    BY <2>1 DEF DaemonInv, ServerOnData
  <2>3. link = None => ~Serving
    BY <2>2, NoPlace DEF Serving
  <2>4. link = "data" => Serving
    <3>1. SUFFICES ASSUME link = "data" PROVE Serving
      OBVIOUS
    <3>2. store["data"].kind = "tree" /\ store["built"].kind = "tpch"
      BY <2>1, <3>1, NoPlace, PlaceNames DEF PlaceInv, Goal
    <3>3. server = "up"
      BY <2>1, <2>2, <3>1 DEF UpInv, Goal, Talking
    <3> QED
      BY <2>2, <3>1, <3>2, <3>3, PlaceNames DEF Serving, Holder
  <2>5. UNCHANGED <<store, link, engine, config, met>> /\ pc' = IF Serving THEN "relink" ELSE "query"
    BY <1>17 DEF ListIndexes, Step, disk
  <2>6. \/ link = None /\ pc' = "query"
        \/ link = "data" /\ pc' = "relink" /\ store["data"].kind = "tree" /\ store["built"].kind = "tpch"
    BY <2>1, <2>3, <2>4, <2>5 DEF PlaceInv, Goal
  <2> QED
    BY <2>1, <2>5, <2>6, NoPlace, PlaceNames DEF PlaceInv, Goal, Setting, Loop
<1>18. CASE RelinkIndexes
  BY <1>18, LabelFacts, TypeParts, NoPlace, PlaceNames, NewFields DEF RelinkIndexes,
     daemon, Step, LinkFor, LabelInv, DaemonInv, PlaceInv, Goal, ServerOnData, Clean,
     Setting, Loop, DiskType
<1>19. CASE BeginQuery
  BY <1>19, LabelFacts, TypeParts, NoPlace, PlaceNames, NewFields DEF BeginQuery,
     disk, daemon, Restart, LinkFor, LabelInv, DaemonInv, PlaceInv, Goal,
     ServerOnData, Clean, Setting, Loop, DiskType
<1>20. CASE RemoveResult
  BY <1>20, LabelFacts, TypeParts, NoPlace, PlaceNames, NewFields DEF RemoveResult,
     disk, daemon, Step, LinkFor, LabelInv, DaemonInv, PlaceInv, Goal, ServerOnData,
     Clean, Setting, Loop, DiskType
<1>21. CASE StartCollection
  BY <1>21, LabelFacts, TypeParts, NoPlace, PlaceNames, NewFields DEF StartCollection,
     disk, daemon, Step, LinkFor, LabelInv, DaemonInv, PlaceInv, Goal, ServerOnData,
     Clean, Setting, Loop, DiskType
<1>22. CASE CreateView
  <2>1. \A p \in Places : store'[p].kind = store[p].kind
    BY <1>22, Marks DEF MarksChange
  <2> QED
    BY <1>22, <2>1, LabelFacts, TypeParts, PlaceNames, NoPlace DEF CreateView, daemon,
       Step, LinkFor, LabelInv, DaemonInv, PlaceInv, Goal, ServerOnData, Clean,
       Setting, Loop, DiskType
<1>23. CASE Select
  BY <1>23, LabelFacts, TypeParts, NoPlace, PlaceNames, NewFields DEF Select, disk,
     daemon, Step, LinkFor, LabelInv, DaemonInv, PlaceInv, Goal, ServerOnData, Clean,
     Setting, Loop, DiskType
<1>24. CASE DropView
  <2>1. \A p \in Places : store'[p].kind = store[p].kind
    BY <1>24, Marks DEF MarksChange
  <2> QED
    BY <1>24, <2>1, LabelFacts, TypeParts, PlaceNames, NoPlace DEF DropView, daemon,
       Step, LinkFor, LabelInv, DaemonInv, PlaceInv, Goal, ServerOnData, Clean,
       Setting, Loop, DiskType
<1>25. CASE FileArchive
  BY <1>25, LabelFacts, TypeParts, NoPlace, PlaceNames, NewFields DEF FileArchive,
     disk, daemon, Step, LinkFor, MoreQueries, LabelInv, DaemonInv, PlaceInv, Goal,
     ServerOnData, Clean, Setting, Loop, DiskType
<1>26. CASE CallSetup
  BY <1>26, LabelFacts, TypeParts, NoPlace, PlaceNames, NewFields DEF CallSetup, disk,
     daemon, LinkFor, LabelInv, DaemonInv, PlaceInv, Goal, ServerOnData, Clean,
     Setting, Loop, DiskType
<1>27. CASE CallBenchmark
  BY <1>27, LabelFacts, TypeParts, NoPlace, PlaceNames, NewFields DEF CallBenchmark,
     disk, daemon, LinkFor, LabelInv, DaemonInv, PlaceInv, Goal, ServerOnData, Clean,
     Setting, Loop, DiskType
<1>28. CASE ComesUp
  BY <1>28 DEF ComesUp, script, disk, LinkFor, PlaceInv, Goal, Clean
<1>29. CASE FailsToStart
  BY <1>29 DEF FailsToStart, script, disk, LinkFor, PlaceInv, Goal, Clean
<1>30. CASE Interrupt
  BY <1>30, LabelFacts, TypeParts, NoPlace, PlaceNames, NewFields DEF Interrupt, disk,
     daemon, LinkFor, LabelInv, DaemonInv, PlaceInv, Goal, ServerOnData, Clean,
     Setting, Loop, DiskType
<1>31. CASE Reboot
  BY <1>31, LabelFacts, TypeParts, NoPlace, PlaceNames, NewFields DEF Reboot, disk,
     LinkFor, LabelInv, DaemonInv, PlaceInv, Goal, ServerOnData, Clean, Setting, Loop,
     DiskType
<1>32. CASE OperatorCopies
  BY <1>32, LabelFacts, TypeParts, NoPlace, PlaceNames, NewFields DEF OperatorCopies,
     script, daemon, LinkFor, LabelInv, DaemonInv, PlaceInv, Goal, ServerOnData,
     Clean, Setting, Loop, DiskType
<1>33. CASE TpccRan
  BY <1>33, LabelFacts, TypeParts, NoPlace, PlaceNames, NewFields DEF TpccRan, script,
     LinkFor, LabelInv, DaemonInv, PlaceInv, Goal, ServerOnData, Clean, Setting, Loop,
     DiskType
<1>34. CASE UNCHANGED vars
  BY <1>34, LabelFacts, TypeParts, NoPlace DEF vars, script, disk, daemon, results,
     LabelInv, DaemonInv, PlaceInv, Goal, ServerOnData, Clean, Setting, Loop,
     DiskType, LinkFor, Healthy
<1> QED
  BY <1>1, <1>2, <1>3, <1>4, <1>5, <1>6, <1>7, <1>8, <1>9, <1>10, <1>11, <1>12, <1>13,
     <1>14, <1>15, <1>16, <1>17, <1>18, <1>19, <1>20, <1>21, <1>22, <1>23, <1>24,
     <1>25, <1>26, <1>27, <1>28, <1>29, <1>30, <1>31, <1>32, <1>33, <1>34 DEF Next,
     Command, Server, Rest

\* The server of a database that is there.
LEMMA UpStep ==
  ASSUME TypeOK, LabelInv, DaemonInv, PlaceInv, UpInv, [Next]_vars
  PROVE  UpInv'
<1>1. CASE Shutdown
  BY <1>1, LabelFacts, TypeParts, NoPlace, PlaceNames, NewFields DEF Shutdown, disk,
     daemon, Step, StopServer, Stoppable, LinkFor, LabelInv, DaemonInv, PlaceInv,
     UpInv, Goal, ServerOnData, Clean, Setting, Talking, DaemonType, DiskType, Holder
<1>2. CASE Launch
  <2>1. /\ pc = "launch" /\ pc' = "wait" /\ UNCHANGED <<after, met, store, link>>
        /\ server = "down" /\ ~Nowhere => server' = "starting"
    BY <1>2 DEF Launch, Step, disk
  <2>2. Clean => server = "down"
    BY <2>1 DEF DaemonInv
  <2>3. Clean' = Clean /\ pc' \notin Talking /\ (link = "data" => ~Nowhere)
    BY <2>1, NoPlace, PlaceNames DEF Clean, Talking, Nowhere
  <2> QED
    BY <2>1, <2>2, <2>3 DEF UpInv
<1>3. CASE Wait
  BY <1>3, LabelFacts, TypeParts, NoPlace, PlaceNames, NewFields DEF Wait, disk,
     daemon, Step, LinkFor, LabelInv, DaemonInv, PlaceInv, UpInv, Goal, ServerOnData,
     Clean, Setting, Talking, DaemonType, DiskType, Holder
<1>4. CASE Stop
  BY <1>4, StopEffect, LabelFacts, TypeParts, NoPlace DEF Stoppable, UpInv, Setting,
     Talking, Goal, Clean, DaemonType
<1>5. CASE Refuse
  BY <1>5, LabelFacts, TypeParts, NoPlace, PlaceNames, NewFields DEF Refuse, disk,
     daemon, Step, DirectoryExists, LinkFor, LabelInv, DaemonInv, PlaceInv, UpInv,
     Goal, ServerOnData, Clean, Setting, Talking, DaemonType, DiskType, Holder
<1>6. CASE Initialise
  BY <1>6, LabelFacts, TypeParts, NoPlace, PlaceNames, NewFields DEF Initialise, disk,
     daemon, Restart, DirectoryExists, LinkFor, LabelInv, DaemonInv, PlaceInv, UpInv,
     Goal, ServerOnData, Clean, Setting, Talking, DaemonType, DiskType, Holder
<1>7. CASE CreateTables
  <2>1. \A p \in Places : store'[p].kind = store[p].kind
    BY <1>7, Created DEF MarksChange
  <2> QED
    BY <1>7, <2>1, LabelFacts, TypeParts, PlaceNames, NoPlace DEF CreateTables,
       daemon, Step, LinkFor, LabelInv, DaemonInv, PlaceInv, UpInv, Goal,
       ServerOnData, Clean, Setting, Talking, DaemonType, DiskType, Holder
<1>8. CASE Tune
  <2>1. \A p \in Places : store'[p].kind = store[p].kind
    BY <1>8, Marks DEF MarksChange
  <2> QED
    BY <1>8, <2>1, LabelFacts, TypeParts, PlaceNames, NoPlace DEF Tune, daemon,
       Restart, LinkFor, LabelInv, DaemonInv, PlaceInv, UpInv, Goal, ServerOnData,
       Clean, Setting, Talking, DaemonType, DiskType, Holder
<1>9. CASE LoadSlice
  <2>1. \A p \in Places : store'[p].kind = store[p].kind
    BY <1>9, Loaded DEF MarksChange
  <2> QED
    BY <1>9, <2>1, LabelFacts, TypeParts, PlaceNames, NoPlace DEF LoadSlice, daemon,
       Step, LinkFor, LabelInv, DaemonInv, PlaceInv, UpInv, Goal, ServerOnData, Clean,
       Setting, Talking, DaemonType, DiskType, Holder
<1>10. CASE LoadEnds
  BY <1>10, LabelFacts, TypeParts, NoPlace, PlaceNames, NewFields DEF LoadEnds, disk,
     daemon, Step, LinkFor, LabelInv, DaemonInv, PlaceInv, UpInv, Goal, ServerOnData,
     Clean, Setting, Talking, DaemonType, DiskType, Holder
<1>11. CASE AddIndexes
  <2>1. \A p \in Places : store'[p].kind = store[p].kind
    BY <1>11, Marks DEF MarksChange
  <2> QED
    BY <1>11, <2>1, LabelFacts, TypeParts, PlaceNames, NoPlace DEF AddIndexes, daemon,
       Step, LinkFor, LabelInv, DaemonInv, PlaceInv, UpInv, Goal, ServerOnData, Clean,
       Setting, Talking, DaemonType, DiskType, Holder
<1>12. CASE ResetParameters
  <2>1. \A p \in Places : store'[p].kind = store[p].kind
    BY <1>12, Marks DEF MarksChange
  <2> QED
    BY <1>12, <2>1, LabelFacts, TypeParts, PlaceNames, NoPlace DEF ResetParameters,
       daemon, Step, LinkFor, LabelInv, DaemonInv, PlaceInv, UpInv, Goal,
       ServerOnData, Clean, Setting, Talking, DaemonType, DiskType, Holder
<1>13. CASE PutAside
  BY <1>13, LabelFacts, TypeParts, NoPlace, PlaceNames, NewFields DEF PutAside, disk,
     Step, Movable, Aside, LinkFor, LabelInv, DaemonInv, PlaceInv, UpInv, Goal,
     ServerOnData, Clean, Setting, Talking, DaemonType, DiskType, Holder
<1>14. CASE RemoveData
  BY <1>14, LabelFacts, TypeParts, NoPlace, PlaceNames, NewFields DEF RemoveData,
     Step, Removed, Supported, LinkFor, LabelInv, DaemonInv, PlaceInv, UpInv, Goal,
     ServerOnData, Clean, Setting, Talking, DaemonType, DiskType, Holder
<1>15. CASE LinkData
  BY <1>15, LabelFacts, TypeParts, NoPlace, PlaceNames, NewFields DEF LinkData,
     daemon, Step, LinkFor, LabelInv, DaemonInv, PlaceInv, UpInv, Goal, ServerOnData,
     Clean, Setting, Talking, DaemonType, DiskType, Holder
<1>16. CASE CopyTree
  BY <1>16, LabelFacts, TypeParts, NoPlace, PlaceNames, NewFields DEF CopyTree, disk,
     daemon, Restart, LinkFor, LabelInv, DaemonInv, PlaceInv, UpInv, Goal,
     ServerOnData, Clean, Setting, Talking, DaemonType, DiskType, Holder
<1>17. CASE ListIndexes
  BY <1>17, LabelFacts, TypeParts, NoPlace, PlaceNames, NewFields DEF ListIndexes,
     disk, daemon, Step, StopServer, Stoppable, LinkFor, LabelInv, DaemonInv,
     PlaceInv, UpInv, Goal, ServerOnData, Clean, Setting, Talking, DaemonType,
     DiskType, Holder
<1>18. CASE RelinkIndexes
  BY <1>18, LabelFacts, TypeParts, NoPlace, PlaceNames, NewFields DEF RelinkIndexes,
     daemon, Step, LinkFor, LabelInv, DaemonInv, PlaceInv, UpInv, Goal, ServerOnData,
     Clean, Setting, Talking, DaemonType, DiskType, Holder
<1>19. CASE BeginQuery
  BY <1>19, LabelFacts, TypeParts, NoPlace, PlaceNames, NewFields DEF BeginQuery,
     disk, daemon, Restart, LinkFor, LabelInv, DaemonInv, PlaceInv, UpInv, Goal,
     ServerOnData, Clean, Setting, Talking, DaemonType, DiskType, Holder
<1>20. CASE RemoveResult
  BY <1>20, LabelFacts, TypeParts, NoPlace, PlaceNames, NewFields DEF RemoveResult,
     disk, daemon, Step, LinkFor, LabelInv, DaemonInv, PlaceInv, UpInv, Goal,
     ServerOnData, Clean, Setting, Talking, DaemonType, DiskType, Holder
<1>21. CASE StartCollection
  BY <1>21, LabelFacts, TypeParts, NoPlace, PlaceNames, NewFields DEF StartCollection,
     disk, daemon, Step, LinkFor, LabelInv, DaemonInv, PlaceInv, UpInv, Goal,
     ServerOnData, Clean, Setting, Talking, DaemonType, DiskType, Holder
<1>22. CASE CreateView
  <2>1. \A p \in Places : store'[p].kind = store[p].kind
    BY <1>22, Marks DEF MarksChange
  <2> QED
    BY <1>22, <2>1, LabelFacts, TypeParts, PlaceNames, NoPlace DEF CreateView, daemon,
       Step, LinkFor, LabelInv, DaemonInv, PlaceInv, UpInv, Goal, ServerOnData, Clean,
       Setting, Talking, DaemonType, DiskType, Holder
<1>23. CASE Select
  BY <1>23, LabelFacts, TypeParts, NoPlace, PlaceNames, NewFields DEF Select, disk,
     daemon, Step, LinkFor, LabelInv, DaemonInv, PlaceInv, UpInv, Goal, ServerOnData,
     Clean, Setting, Talking, DaemonType, DiskType, Holder
<1>24. CASE DropView
  <2>1. \A p \in Places : store'[p].kind = store[p].kind
    BY <1>24, Marks DEF MarksChange
  <2> QED
    BY <1>24, <2>1, LabelFacts, TypeParts, PlaceNames, NoPlace DEF DropView, daemon,
       Step, LinkFor, LabelInv, DaemonInv, PlaceInv, UpInv, Goal, ServerOnData, Clean,
       Setting, Talking, DaemonType, DiskType, Holder
<1>25. CASE FileArchive
  BY <1>25, LabelFacts, TypeParts, NoPlace, PlaceNames, NewFields DEF FileArchive,
     disk, daemon, Step, LinkFor, MoreQueries, LabelInv, DaemonInv, PlaceInv, UpInv,
     Goal, ServerOnData, Clean, Setting, Talking, DaemonType, DiskType, Holder
<1>26. CASE CallSetup
  BY <1>26, LabelFacts, TypeParts, NoPlace, PlaceNames, NewFields DEF CallSetup, disk,
     daemon, LinkFor, LabelInv, DaemonInv, PlaceInv, UpInv, Goal, ServerOnData, Clean,
     Setting, Talking, DaemonType, DiskType, Holder
<1>27. CASE CallBenchmark
  BY <1>27, LabelFacts, TypeParts, NoPlace, PlaceNames, NewFields DEF CallBenchmark,
     disk, daemon, LinkFor, LabelInv, DaemonInv, PlaceInv, UpInv, Goal, ServerOnData,
     Clean, Setting, Talking, DaemonType, DiskType, Holder
<1>28. CASE ComesUp
  BY <1>28, LabelFacts, TypeParts, NoPlace, PlaceNames, NewFields DEF ComesUp, script,
     disk, LinkFor, MayComeUp, LabelInv, DaemonInv, PlaceInv, UpInv, Goal,
     ServerOnData, Clean, Setting, Talking, DaemonType, DiskType, Holder
<1>29. CASE FailsToStart
  <2>1. UNCHANGED <<pc, after, met, store, link>> /\ server = "starting" /\ ~MayComeUp
    BY <1>29 DEF FailsToStart, script, disk
  <2>2. Goal' = Goal /\ Clean' = Clean
    BY <2>1 DEF Goal, Clean
  <2> SUFFICES ASSUME Clean, link = "data", Goal \in Setting \cup {"list"}
               PROVE  pc # "wait" /\ pc \notin Talking
    BY <2>1, <2>2 DEF UpInv
  <2>3. on = "data"
    BY <2>1 DEF DaemonInv, ServerOnData
  <2>4. Goal = "list" => store["data"].kind = "tree" /\ store["built"].kind = "tpch"
    BY NoPlace, PlaceNames DEF PlaceInv
  <2>5. Goal \in Setting => store["data"].kind = "tpch"
    BY DEF PlaceInv
  <2>6. store[Holder("data")].kind = "tpch"
    BY <2>4, <2>5 DEF Holder
  <2> QED
    BY <2>1, <2>3, <2>6, PlaceNames DEF MayComeUp
<1>30. CASE Interrupt
  BY <1>30, LabelFacts, TypeParts, NoPlace, PlaceNames, NewFields DEF Interrupt, disk,
     daemon, LinkFor, LabelInv, DaemonInv, PlaceInv, UpInv, Goal, ServerOnData, Clean,
     Setting, Talking, DaemonType, DiskType, Holder
<1>31. CASE Reboot
  BY <1>31, LabelFacts, TypeParts, NoPlace, PlaceNames, NewFields DEF Reboot, disk,
     LinkFor, LabelInv, DaemonInv, PlaceInv, UpInv, Goal, ServerOnData, Clean,
     Setting, Talking, DaemonType, DiskType, Holder
<1>32. CASE OperatorCopies
  BY <1>32, LabelFacts, TypeParts, NoPlace, PlaceNames, NewFields DEF OperatorCopies,
     script, daemon, LinkFor, LabelInv, DaemonInv, PlaceInv, UpInv, Goal,
     ServerOnData, Clean, Setting, Talking, DaemonType, DiskType, Holder
<1>33. CASE TpccRan
  BY <1>33, LabelFacts, TypeParts, NoPlace, PlaceNames, NewFields DEF TpccRan, script,
     LinkFor, LabelInv, DaemonInv, PlaceInv, UpInv, Goal, ServerOnData, Clean,
     Setting, Talking, DaemonType, DiskType, Holder
<1>34. CASE UNCHANGED vars
  BY <1>34, LabelFacts, TypeParts, NoPlace DEF vars, script, disk, daemon, results,
     LabelInv, DaemonInv, PlaceInv, UpInv, Goal, ServerOnData, Clean, Setting,
     Talking, DaemonType, DiskType, Holder, LinkFor, Healthy
<1> QED
  BY <1>1, <1>2, <1>3, <1>4, <1>5, <1>6, <1>7, <1>8, <1>9, <1>10, <1>11, <1>12, <1>13,
     <1>14, <1>15, <1>16, <1>17, <1>18, <1>19, <1>20, <1>21, <1>22, <1>23, <1>24,
     <1>25, <1>26, <1>27, <1>28, <1>29, <1>30, <1>31, <1>32, <1>33, <1>34 DEF Next,
     Command, Server, Rest

\* What setup has done.
LEMMA MarksStep ==
  ASSUME TypeOK, LabelInv, DaemonInv, PlaceInv, UpInv, MarksInv, [Next]_vars
  PROVE  MarksInv'
<1>1. CASE Shutdown
  BY <1>1, LabelFacts, NoPlace, TypeParts, PlaceNames, NewFields DEF Shutdown, disk,
     Step, MarksInv, Goal, Clean
<1>2. CASE Launch
  BY <1>2, LabelFacts, NoPlace, TypeParts, PlaceNames, NewFields DEF Launch, disk,
     Step, Nowhere, MarksInv, Goal, Clean
<1>3. CASE Wait
  BY <1>3, LabelFacts, NoPlace, TypeParts, PlaceNames, NewFields DEF Wait, disk, Step,
     MarksInv, Goal, Clean
<1>4. CASE Stop
  BY <1>4, StopEffect, LabelFacts DEF Stoppable, MarksInv, Goal, Clean
<1>5. CASE Refuse
  BY <1>5, LabelFacts, NoPlace, TypeParts, PlaceNames, NewFields DEF Refuse, disk,
     Step, DirectoryExists, MarksInv, Goal, Clean
<1>6. CASE Initialise
  BY <1>6, LabelFacts, NoPlace, TypeParts, PlaceNames, NewFields DEF Initialise, disk,
     Restart, DirectoryExists, MarksInv, Goal, Clean
<1>7. CASE CreateTables
  BY <1>7, LabelFacts, PlaceNames, NoPlace, ServingData, Created DEF CreateTables,
     Step, MarksInv, Goal, Clean
<1>8. CASE Tune
  <2>1. pc = "tune" /\ pc' = "restart" /\ after' = "load" /\ UNCHANGED <<engine, met, link>>
    BY <1>8 DEF Tune, Restart
  <2>2. engine = "postgres"
    BY <2>1 DEF LabelInv, Goal
  <2>3. CASE Clean /\ link = "data"
    <3>1. store'["data"].has = store["data"].has \cup {"tuning"} /\ store["data"].has = {}
      BY <1>8, <2>1, <2>3, Marks, ServingData, PlaceNames DEF MarksChange, MarksInv,
         Goal
    <3> QED
      BY <2>1, <2>2, <3>1 DEF MarksInv, Goal
  <2> QED
    BY <2>1, <2>3 DEF MarksInv, Clean
<1>9. CASE LoadSlice
  BY <1>9, LabelFacts, PlaceNames, NoPlace, ServingData, Loaded DEF LoadSlice, Step,
     MarksInv, Goal, Clean
<1>10. CASE LoadEnds
  BY <1>10, LabelFacts, NoPlace, TypeParts, PlaceNames, NewFields DEF LoadEnds, disk,
     Step, MarksInv, Goal, Clean
<1>11. CASE AddIndexes
  BY <1>11, LabelFacts, PlaceNames, NoPlace, ServingData, Marks DEF AddIndexes, Step,
     MarksInv, Goal, Clean, MarksChange
<1>12. CASE ResetParameters
  <2>1. pc = "reset" /\ pc' = "unload" /\ Clean' = Clean /\ link' = link
    BY <1>12 DEF ResetParameters, Step, Clean
  <2>2. MarksChange({}, {"tuning"})
    BY <1>12, Marks
  <2> SUFFICES ASSUME Clean, link = "data"  PROVE store'["data"].has = {"indexes"}
    BY <2>1 DEF MarksInv, Goal
  <2>3. store["data"].has = {"tuning", "indexes"} /\ Serving /\ Holder(on) = "data"
    BY <2>1, ServingData DEF MarksInv, Goal
  <2> QED
    BY <2>2, <2>3, PlaceNames DEF MarksChange
<1>13. CASE PutAside
  BY <1>13, LabelFacts, NoPlace, TypeParts, PlaceNames, NewFields DEF PutAside, disk,
     Step, MarksInv, Goal, Clean
<1>14. CASE RemoveData
  BY <1>14, LabelFacts, NoPlace, TypeParts, PlaceNames, NewFields DEF RemoveData,
     Step, Removed, Supported, MarksInv, Goal, Clean
<1>15. CASE LinkData
  BY <1>15, LabelFacts, NoPlace, TypeParts, PlaceNames, NewFields DEF LinkData, Step,
     LinkFor, MarksInv, Goal, Clean
<1>16. CASE CopyTree
  BY <1>16, LabelFacts, NoPlace, TypeParts, PlaceNames, NewFields DEF CopyTree, disk,
     Restart, MarksInv, Goal, Clean
<1>17. CASE ListIndexes
  BY <1>17, LabelFacts, NoPlace, TypeParts, PlaceNames, NewFields DEF ListIndexes,
     disk, Step, MarksInv, Goal, Clean
<1>18. CASE RelinkIndexes
  BY <1>18, LabelFacts, NoPlace, TypeParts, PlaceNames, NewFields DEF RelinkIndexes,
     Step, MarksInv, Goal, Clean
<1>19. CASE BeginQuery
  BY <1>19, LabelFacts, NoPlace, TypeParts, PlaceNames, NewFields DEF BeginQuery,
     disk, Restart, MarksInv, Goal, Clean
<1>20. CASE RemoveResult
  BY <1>20, LabelFacts, NoPlace, TypeParts, PlaceNames, NewFields DEF RemoveResult,
     disk, Step, MarksInv, Goal, Clean
<1>21. CASE StartCollection
  BY <1>21, LabelFacts, NoPlace, TypeParts, PlaceNames, NewFields DEF StartCollection,
     disk, Step, MarksInv, Goal, Clean
<1>22. CASE CreateView
  <2>1. pc' \in {"file", "select"}
    BY <1>22 DEF CreateView, Step
  <2> QED
    BY <2>1 DEF MarksInv, Goal
<1>23. CASE Select
  BY <1>23, LabelFacts, NoPlace, TypeParts, PlaceNames, NewFields DEF Select, disk,
     Step, MarksInv, Goal, Clean
<1>24. CASE DropView
  <2>1. pc' \in {"file", "select"}
    BY <1>24 DEF DropView, Step
  <2> QED
    BY <2>1 DEF MarksInv, Goal
<1>25. CASE FileArchive
  BY <1>25, LabelFacts, NoPlace, TypeParts, PlaceNames, NewFields DEF FileArchive,
     disk, Step, MoreQueries, MarksInv, Goal, Clean
<1>26. CASE CallSetup
  BY <1>26, LabelFacts, NoPlace, TypeParts, PlaceNames, NewFields DEF CallSetup, disk,
     MarksInv, Goal, Clean
<1>27. CASE CallBenchmark
  BY <1>27, LabelFacts, NoPlace, TypeParts, PlaceNames, NewFields DEF CallBenchmark,
     disk, MarksInv, Goal, Clean
<1>28. CASE ComesUp
  BY <1>28, LabelFacts, NoPlace, TypeParts, PlaceNames, NewFields DEF ComesUp, script,
     disk, MarksInv, Goal, Clean
<1>29. CASE FailsToStart
  BY <1>29, LabelFacts, NoPlace, TypeParts, PlaceNames, NewFields DEF FailsToStart,
     script, disk, MarksInv, Goal, Clean
<1>30. CASE Interrupt
  BY <1>30, LabelFacts, NoPlace, TypeParts, PlaceNames, NewFields DEF Interrupt, disk,
     MarksInv, Goal, Clean
<1>31. CASE Reboot
  BY <1>31, LabelFacts, NoPlace, TypeParts, PlaceNames, NewFields DEF Reboot, disk,
     MarksInv, Goal, Clean
<1>32. CASE OperatorCopies
  BY <1>32, LabelFacts, NoPlace, TypeParts, PlaceNames, NewFields DEF OperatorCopies,
     script, MarksInv, Goal, Clean
<1>33. CASE TpccRan
  BY <1>33, LabelFacts, NoPlace, TypeParts, PlaceNames, NewFields DEF TpccRan, script,
     MarksInv, Goal, Clean
<1>34. CASE UNCHANGED vars
  BY <1>34, LabelFacts, NoPlace, TypeParts DEF vars, script, disk, daemon, results,
     MarksInv, Goal, Clean
<1> QED
  BY <1>1, <1>2, <1>3, <1>4, <1>5, <1>6, <1>7, <1>8, <1>9, <1>10, <1>11, <1>12, <1>13,
     <1>14, <1>15, <1>16, <1>17, <1>18, <1>19, <1>20, <1>21, <1>22, <1>23, <1>24,
     <1>25, <1>26, <1>27, <1>28, <1>29, <1>30, <1>31, <1>32, <1>33, <1>34 DEF Next,
     Command, Server, Rest

\* Where the view is.
LEMMA ViewStep ==
  ASSUME TypeOK, LabelInv, PlaceInv, ViewInv, [Next]_vars
  PROVE  ViewInv'
<1>1. CASE Shutdown
  BY <1>1, TypeParts, PlaceNames, NewFields, NoPlace DEF Shutdown, disk, daemon, Step,
     StopServer, Stoppable, ViewInv, Serving, Holder, DiskType
<1>2. CASE Launch
  BY <1>2, TypeParts, PlaceNames, NewFields, NoPlace DEF Launch, disk, daemon, Step,
     Nowhere, ViewInv, Serving, Holder, DiskType
<1>3. CASE Wait
  BY <1>3, TypeParts, PlaceNames, NewFields, NoPlace DEF Wait, disk, daemon, Step,
     ViewInv, Serving, Holder, DiskType
<1>4. CASE Stop
  BY <1>4, StopEffect DEF ViewInv
<1>5. CASE Refuse
  BY <1>5, TypeParts, PlaceNames, NewFields, NoPlace DEF Refuse, disk, daemon, Step,
     ViewInv, Serving, Holder, DiskType
<1>6. CASE Initialise
  BY <1>6, TypeParts, PlaceNames, NewFields, NoPlace DEF Initialise, disk, daemon,
     Restart, ViewInv, Serving, Holder, DiskType
<1>7. CASE CreateTables
  <2>1. pc \notin {"select", "drop"}
    BY <1>7 DEF CreateTables, Step, Restart
  <2>2. \A p \in Places : "view" \in store'[p].has => "view" \in store[p].has
    BY <1>7, Created DEF MarksChange
  <2> QED
    BY <1>7, <2>1, <2>2, PlaceNames DEF CreateTables, ViewInv
<1>8. CASE Tune
  <2>1. pc \notin {"select", "drop"}
    BY <1>8 DEF Tune, Step, Restart
  <2>2. \A p \in Places : "view" \in store'[p].has => "view" \in store[p].has
    BY <1>8, Marks DEF MarksChange
  <2> QED
    BY <1>8, <2>1, <2>2, PlaceNames DEF Tune, ViewInv
<1>9. CASE LoadSlice
  <2>1. pc \notin {"select", "drop"}
    BY <1>9 DEF LoadSlice, Step, Restart
  <2>2. \A p \in Places : "view" \in store'[p].has => "view" \in store[p].has
    BY <1>9, Loaded DEF MarksChange
  <2> QED
    BY <1>9, <2>1, <2>2, PlaceNames DEF LoadSlice, ViewInv
<1>10. CASE LoadEnds
  BY <1>10, TypeParts, PlaceNames, NewFields, NoPlace DEF LoadEnds, disk, daemon,
     Step, ViewInv, Serving, Holder, DiskType
<1>11. CASE AddIndexes
  <2>1. pc \notin {"select", "drop"}
    BY <1>11 DEF AddIndexes, Step, Restart
  <2>2. \A p \in Places : "view" \in store'[p].has => "view" \in store[p].has
    BY <1>11, Marks DEF MarksChange
  <2> QED
    BY <1>11, <2>1, <2>2, PlaceNames DEF AddIndexes, ViewInv
<1>12. CASE ResetParameters
  <2>1. pc \notin {"select", "drop"}
    BY <1>12 DEF ResetParameters, Step, Restart
  <2>2. \A p \in Places : "view" \in store'[p].has => "view" \in store[p].has
    BY <1>12, Marks DEF MarksChange
  <2> QED
    BY <1>12, <2>1, <2>2, PlaceNames DEF ResetParameters, ViewInv
<1>13. CASE PutAside
  BY <1>13, TypeParts, PlaceNames, NewFields, NoPlace DEF PutAside, disk, Step, Aside,
     ViewInv, Serving, Holder, DiskType
<1>14. CASE RemoveData
  BY <1>14, TypeParts, PlaceNames, NewFields, NoPlace DEF RemoveData, Step, Removed,
     ViewInv, Serving, Holder, DiskType
<1>15. CASE LinkData
  BY <1>15, TypeParts, PlaceNames, NewFields, NoPlace DEF LinkData, daemon, Step,
     ViewInv, Serving, Holder, DiskType
<1>16. CASE CopyTree
  BY <1>16, TypeParts, PlaceNames, NewFields, NoPlace DEF CopyTree, disk, daemon,
     Restart, ViewInv, Serving, Holder, DiskType
<1>17. CASE ListIndexes
  BY <1>17, TypeParts, PlaceNames, NewFields, NoPlace DEF ListIndexes, disk, daemon,
     Step, StopServer, Stoppable, ViewInv, Serving, Holder, DiskType
<1>18. CASE RelinkIndexes
  BY <1>18, TypeParts, PlaceNames, NewFields, NoPlace DEF RelinkIndexes, daemon, Step,
     ViewInv, Serving, Holder, DiskType
<1>19. CASE BeginQuery
  BY <1>19, TypeParts, PlaceNames, NewFields, NoPlace DEF BeginQuery, disk, daemon,
     Restart, ViewInv, Serving, Holder, DiskType
<1>20. CASE RemoveResult
  BY <1>20, TypeParts, PlaceNames, NewFields, NoPlace DEF RemoveResult, disk, daemon,
     Step, ViewInv, Serving, Holder, DiskType
<1>21. CASE StartCollection
  BY <1>21, TypeParts, PlaceNames, NewFields, NoPlace DEF StartCollection, disk,
     daemon, Step, ViewInv, Serving, Holder, DiskType
<1>22. CASE CreateView
  <2>1. pc = "view" /\ i = ViewQuery /\ i' = i /\ cut' = cut /\ UNCHANGED <<server, on>>
    BY <1>22 DEF CreateView, Step, LabelInv, daemon
  <2>2. \A p \in Places : store'[p].kind = store[p].kind
    BY <1>22, Marks DEF MarksChange
  <2>3. Serving => Serving' /\ Holder(on)' = Holder(on) /\ Holder(on) # "data"
    <3>1. store["data"].kind # "tpch"
      BY <2>1 DEF PlaceInv, Goal, Loop
    <3> QED
      BY <2>1, <2>2, <3>1, HolderType, PlaceNames DEF Serving, Holder
  <2>4. pc' = "select" \/ (pc' = "file" /\ Serving /\ "view" \in store[Holder(on)].has)
    BY <1>22 DEF CreateView, Step, Database
  <2>5. \A p \in Places : "view" \in store'[p].has =>
          "view" \in store[p].has \/ (Serving /\ p = Holder(on))
    BY <1>22, Marks DEF MarksChange
  <2>6. \A p \in Places : "view" \in store[p].has => p \in cut
    BY <2>1 DEF ViewInv
  <2>7. "view" \notin store'["data"].has
    BY <2>3, <2>5, PlaceNames DEF ViewInv
  <2> QED
    BY <2>1, <2>3, <2>4, <2>5, <2>6, <2>7 DEF ViewInv
<1>23. CASE Select
  BY <1>23, TypeParts, PlaceNames, NewFields, NoPlace DEF Select, disk, daemon, Step,
     ViewInv, Serving, Holder, DiskType
<1>24. CASE DropView
  <2>1. cut' = IF Serving THEN cut \ {Holder(on)} ELSE cut
    BY <1>24 DEF DropView
  <2>2. \A p \in Places : "view" \in store'[p].has =>
          "view" \in store[p].has /\ ~(Serving /\ p = Holder(on))
    BY <1>24, Marks DEF MarksChange
  <2> QED
    BY <2>1, <2>2, PlaceNames DEF ViewInv
<1>25. CASE FileArchive
  BY <1>25, TypeParts, PlaceNames, NewFields, NoPlace DEF FileArchive, disk, daemon,
     Step, ViewInv, Serving, Holder, DiskType
<1>26. CASE CallSetup
  BY <1>26, TypeParts, PlaceNames, NewFields, NoPlace DEF CallSetup, disk, daemon,
     ViewInv, Serving, Holder, DiskType
<1>27. CASE CallBenchmark
  BY <1>27, TypeParts, PlaceNames, NewFields, NoPlace DEF CallBenchmark, disk, daemon,
     ViewInv, Serving, Holder, DiskType
<1>28. CASE ComesUp
  BY <1>28, TypeParts, PlaceNames, NewFields, NoPlace DEF ComesUp, script, disk,
     ViewInv, Serving, Holder, DiskType
<1>29. CASE FailsToStart
  BY <1>29, TypeParts, PlaceNames, NewFields, NoPlace DEF FailsToStart, script, disk,
     ViewInv, Serving, Holder, DiskType
<1>30. CASE Interrupt
  BY <1>30, TypeParts, PlaceNames, NewFields, NoPlace DEF Interrupt, disk, daemon,
     CutShort, ViewInv, Serving, Holder, DiskType
<1>31. CASE Reboot
  BY <1>31, TypeParts, PlaceNames, NewFields, NoPlace DEF Reboot, disk, CutShort,
     ViewInv, Serving, Holder, DiskType
<1>32. CASE OperatorCopies
  BY <1>32, TypeParts, PlaceNames, NewFields, NoPlace DEF OperatorCopies, script,
     daemon, ViewInv, Serving, Holder, DiskType
<1>33. CASE TpccRan
  BY <1>33, TypeParts, PlaceNames, NewFields, NoPlace DEF TpccRan, script, ViewInv,
     Serving, Holder, DiskType
<1>34. CASE UNCHANGED vars
  BY <1>34, TypeParts DEF vars, script, disk, daemon, results, ViewInv, Serving,
     Holder, DiskType
<1> QED
  BY <1>1, <1>2, <1>3, <1>4, <1>5, <1>6, <1>7, <1>8, <1>9, <1>10, <1>11, <1>12, <1>13,
     <1>14, <1>15, <1>16, <1>17, <1>18, <1>19, <1>20, <1>21, <1>22, <1>23, <1>24,
     <1>25, <1>26, <1>27, <1>28, <1>29, <1>30, <1>31, <1>32, <1>33, <1>34 DEF Next,
     Command, Server, Rest

\* What the collection has sampled.
LEMMA CollStep ==
  ASSUME TypeOK, LabelInv, StrayInv, PlaceInv, CollInv, [Next]_vars
  PROVE  CollInv'
<1>1. CASE Shutdown
  BY <1>1, LabelFacts DEF Shutdown, results, Step, CollInv, Goal, Loop, Preparing,
     LabelInv, Own, MeasuredFor
<1>2. CASE Launch
  BY <1>2, LabelFacts DEF Launch, results, Step, Nowhere, CollInv, Goal, Loop,
     Preparing, LabelInv, Own, MeasuredFor
<1>3. CASE Wait
  BY <1>3, LabelFacts DEF Wait, results, Step, CollInv, Goal, Loop, Preparing,
     LabelInv, Own, MeasuredFor
<1>4. CASE Stop
  BY <1>4, StopEffect, LabelFacts DEF CollInv, Goal, Loop, Preparing, LabelInv, Own
<1>5. CASE Refuse
  BY <1>5, LabelFacts DEF Refuse, results, Step, CollInv, Goal, Loop, Preparing,
     LabelInv, Own, MeasuredFor
<1>6. CASE Initialise
  BY <1>6, LabelFacts DEF Initialise, results, Restart, CollInv, Goal, Loop,
     Preparing, LabelInv, Own, MeasuredFor
<1>7. CASE CreateTables
  BY <1>7, LabelFacts DEF CreateTables, results, Step, CollInv, Goal, Loop, Preparing,
     LabelInv, Own, MeasuredFor
<1>8. CASE Tune
  BY <1>8, LabelFacts DEF Tune, results, Restart, CollInv, Goal, Loop, Preparing,
     LabelInv, Own, MeasuredFor
<1>9. CASE LoadSlice
  BY <1>9, LabelFacts DEF LoadSlice, results, Step, CollInv, Goal, Loop, Preparing,
     LabelInv, Own, MeasuredFor
<1>10. CASE LoadEnds
  BY <1>10, LabelFacts DEF LoadEnds, results, Step, CollInv, Goal, Loop, Preparing,
     LabelInv, Own, MeasuredFor
<1>11. CASE AddIndexes
  BY <1>11, LabelFacts DEF AddIndexes, results, Step, CollInv, Goal, Loop, Preparing,
     LabelInv, Own, MeasuredFor
<1>12. CASE ResetParameters
  BY <1>12, LabelFacts DEF ResetParameters, results, Step, CollInv, Goal, Loop,
     Preparing, LabelInv, Own, MeasuredFor
<1>13. CASE PutAside
  BY <1>13, LabelFacts DEF PutAside, results, Step, CollInv, Goal, Loop, Preparing,
     LabelInv, Own, MeasuredFor
<1>14. CASE RemoveData
  BY <1>14, LabelFacts DEF RemoveData, results, Step, CollInv, Goal, Loop, Preparing,
     LabelInv, Own, MeasuredFor
<1>15. CASE LinkData
  <2>1. i' = 1
    BY <1>15 DEF LinkData, Step, LabelInv, Goal, Preparing
  <2> QED
    BY <2>1 DEF CollInv
<1>16. CASE CopyTree
  BY <1>16, LabelFacts DEF CopyTree, results, Restart, CollInv, Goal, Loop, Preparing,
     LabelInv, Own, MeasuredFor
<1>17. CASE ListIndexes
  <2>1. i' = 1
    BY <1>17 DEF ListIndexes, Step, LabelInv, Goal, Preparing
  <2> QED
    BY <2>1 DEF CollInv
<1>18. CASE RelinkIndexes
  <2>1. i' = 1
    BY <1>18 DEF RelinkIndexes, Step, LabelInv, Goal, Preparing
  <2> QED
    BY <2>1 DEF CollInv
<1>19. CASE BeginQuery
  BY <1>19, LabelFacts DEF BeginQuery, results, Restart, CollInv, Goal, Loop,
     Preparing, LabelInv, Own, MeasuredFor
<1>20. CASE RemoveResult
  BY <1>20, LabelFacts DEF RemoveResult, Step, CollInv, Goal, Loop, Preparing,
     LabelInv, Own, MeasuredFor
<1>21. CASE StartCollection
  BY <1>21, LabelFacts DEF StartCollection, Step, CollInv, Goal, Loop, Preparing,
     LabelInv, Own, MeasuredFor
<1>22. CASE CreateView
  BY <1>22, LabelFacts DEF CreateView, results, Step, CollInv, Goal, Loop, Preparing,
     LabelInv, Own, MeasuredFor
<1>23. CASE Select
  <2>1. pc = "select" /\ pc' \in {"drop", "file"} /\ UNCHANGED <<i, inv, config>>
    BY <1>23 DEF Select, Step
  <2>2. CASE ~(i > 1)
    BY <2>1, <2>2 DEF CollInv
  <2>3. CASE i > 1
    <3>1. coll \in {None, {}}
      BY <2>1, <2>3 DEF CollInv, Goal, Loop
    <3>2. Serving => [by |-> inv, q |-> i, at |-> Measured] \in Own
      BY <2>1, <2>3, MeasuredWhere DEF Own
    <3>3. coll' = None \/ coll' \subseteq Own
      BY <1>23, <3>1, <3>2 DEF Select
    <3>4. Own' = Own
      BY <2>1 DEF Own, MeasuredFor
    <3> QED
      BY <2>1, <3>3, <3>4 DEF CollInv
  <2> QED
    BY <2>2, <2>3
<1>24. CASE DropView
  BY <1>24, LabelFacts DEF DropView, results, Step, CollInv, Goal, Loop, Preparing,
     LabelInv, Own, MeasuredFor
<1>25. CASE FileArchive
  BY <1>25, LabelFacts DEF FileArchive, Step, MoreQueries, CollInv, Goal, Loop,
     Preparing, LabelInv, Own, MeasuredFor
<1>26. CASE CallSetup
  BY <1>26, LabelFacts DEF CallSetup, results, CollInv, Goal, Loop, Preparing,
     LabelInv, Own, MeasuredFor
<1>27. CASE CallBenchmark
  BY <1>27, LabelFacts DEF CallBenchmark, results, CollInv, Goal, Loop, Preparing,
     LabelInv, Own, MeasuredFor
<1>28. CASE ComesUp
  BY <1>28, LabelFacts DEF ComesUp, script, results, CollInv, Goal, Loop, Preparing,
     LabelInv, Own, MeasuredFor
<1>29. CASE FailsToStart
  BY <1>29, LabelFacts DEF FailsToStart, script, results, CollInv, Goal, Loop,
     Preparing, LabelInv, Own, MeasuredFor
<1>30. CASE Interrupt
  BY <1>30, LabelFacts DEF Interrupt, results, CollInv, Goal, Loop, Preparing,
     LabelInv, Own, MeasuredFor
<1>31. CASE Reboot
  BY <1>31, LabelFacts DEF Reboot, CollInv, Goal, Loop, Preparing, LabelInv, Own,
     MeasuredFor
<1>32. CASE OperatorCopies
  BY <1>32, LabelFacts DEF OperatorCopies, script, results, CollInv, Goal, Loop,
     Preparing, LabelInv, Own, MeasuredFor
<1>33. CASE TpccRan
  BY <1>33, LabelFacts DEF TpccRan, script, CollInv, Goal, Loop, Preparing, LabelInv,
     Own, MeasuredFor
<1>34. CASE UNCHANGED vars
  BY <1>34, LabelFacts DEF vars, script, disk, daemon, results, CollInv, Goal, Loop,
     Preparing, LabelInv, Own, MeasuredFor
<1> QED
  BY <1>1, <1>2, <1>3, <1>4, <1>5, <1>6, <1>7, <1>8, <1>9, <1>10, <1>11, <1>12, <1>13,
     <1>14, <1>15, <1>16, <1>17, <1>18, <1>19, <1>20, <1>21, <1>22, <1>23, <1>24,
     <1>25, <1>26, <1>27, <1>28, <1>29, <1>30, <1>31, <1>32, <1>33, <1>34 DEF Next,
     Command, Server, Rest

\* Two commands write result files.
LEMMA OnlyFilingWrites ==
  ASSUME [Next]_vars
  PROVE  FileArchive \/ RemoveResult \/ UNCHANGED archive
<1>1. Shutdown => UNCHANGED archive
  BY DEF Shutdown, results
<1>2. Launch => UNCHANGED archive
  BY DEF Launch, results
<1>3. Wait => UNCHANGED archive
  BY DEF Wait, results
<1>4. Stop => UNCHANGED archive
  BY DEF Stop, results
<1>5. Refuse => UNCHANGED archive
  BY DEF Refuse, results
<1>6. Initialise => UNCHANGED archive
  BY DEF Initialise, results
<1>7. CreateTables => UNCHANGED archive
  BY DEF CreateTables, results
<1>8. Tune => UNCHANGED archive
  BY DEF Tune, results
<1>9. LoadSlice => UNCHANGED archive
  BY DEF LoadSlice, results
<1>10. LoadEnds => UNCHANGED archive
  BY DEF LoadEnds, results
<1>11. AddIndexes => UNCHANGED archive
  BY DEF AddIndexes, results
<1>12. ResetParameters => UNCHANGED archive
  BY DEF ResetParameters, results
<1>13. PutAside => UNCHANGED archive
  BY DEF PutAside, results
<1>14. RemoveData => UNCHANGED archive
  BY DEF RemoveData, results
<1>15. LinkData => UNCHANGED archive
  BY DEF LinkData, results
<1>16. CopyTree => UNCHANGED archive
  BY DEF CopyTree, results
<1>17. ListIndexes => UNCHANGED archive
  BY DEF ListIndexes, results
<1>18. RelinkIndexes => UNCHANGED archive
  BY DEF RelinkIndexes, results
<1>19. BeginQuery => UNCHANGED archive
  BY DEF BeginQuery, results
<1>20. StartCollection => UNCHANGED archive
  BY DEF StartCollection, results
<1>21. CreateView => UNCHANGED archive
  BY DEF CreateView, results
<1>22. Select => UNCHANGED archive
  BY DEF Select, results
<1>23. DropView => UNCHANGED archive
  BY DEF DropView, results
<1>24. CallSetup => UNCHANGED archive
  BY DEF CallSetup, results
<1>25. CallBenchmark => UNCHANGED archive
  BY DEF CallBenchmark, results
<1>26. ComesUp => UNCHANGED archive
  BY DEF ComesUp, results
<1>27. FailsToStart => UNCHANGED archive
  BY DEF FailsToStart, results
<1>28. Interrupt => UNCHANGED archive
  BY DEF Interrupt, results
<1>29. Reboot => UNCHANGED archive
  BY DEF Reboot, results
<1>30. OperatorCopies => UNCHANGED archive
  BY DEF OperatorCopies, results
<1>31. TpccRan => UNCHANGED archive
  BY DEF TpccRan, results
<1> QED
  BY <1>1, <1>2, <1>3, <1>4, <1>5, <1>6, <1>7, <1>8, <1>9, <1>10, <1>11, <1>12, <1>13,
     <1>14, <1>15, <1>16, <1>17, <1>18, <1>19, <1>20, <1>21, <1>22, <1>23, <1>24,
     <1>25, <1>26, <1>27, <1>28, <1>29, <1>30, <1>31 DEF Next, Command, Server, Rest,
     vars, results

\* The result files.
LEMMA FilesStep ==
  ASSUME TypeOK, LabelInv, CollInv, FilesTellTheTruth, [Next]_vars
  PROVE  FilesTellTheTruth'
<1>1. CASE FileArchive
  <2> DEFINE f == [by |-> inv, runs |-> coll]
  <2>1. pc = "file" /\ config \in Configs /\ i \in Queries
    BY <1>1, TypeParts DEF FileArchive, Step, LabelInv, Goal, Loop, ControlType
  <2>2. coll # None /\ i > 1 => f.runs \subseteq {[by |-> f.by, q |-> i, at |-> MeasuredFor(config)]}
    BY <2>1 DEF CollInv, Goal, Loop, Own
  <2>3. archive' = IF coll = None THEN archive ELSE [archive EXCEPT ![<<config, i>>] = f]
    BY <1>1 DEF FileArchive
  <2> HIDE DEF f
  <2> QED
    BY <2>1, <2>2, <2>3, TypeParts DEF FilesTellTheTruth, MeasuredFor, ResultType
<1>2. CASE RemoveResult
  <2>1. config \in Configs
    BY TypeParts DEF ControlType
  <2>2. archive' = [archive EXCEPT ![<<config, i>>] = None]
    BY <1>2 DEF RemoveResult
  <2> QED
    BY <2>1, <2>2, TypeParts DEF FilesTellTheTruth, MeasuredFor, ResultType
<1>3. CASE UNCHANGED archive
  BY <1>3 DEF FilesTellTheTruth, MeasuredFor
<1> QED
  BY <1>1, <1>2, <1>3, OnlyFilingWrites

(***************************************************************************)
(* A step leaves the built database as it is, but for the view, and what   *)
(* setup puts aside is finished.                                           *)
(***************************************************************************)
BuiltStep ==
  Clean =>
    IF store["built"].kind = "tpch" THEN Same(store["built"], store'["built"])
    ELSE store'["built"].kind = "tpch" => store'["built"].has = {"indexes"}

LEMMA BuiltIsSame == store'["built"] = store["built"] => BuiltStep
  BY DEF BuiltStep, Same

LEMMA BuiltLemma ==
  ASSUME TypeOK, DaemonInv, PlaceInv, MarksInv, [Next]_vars
  PROVE  BuiltStep
<1> "built" \in Places /\ "data" # "built"
  BY PlaceNames
<1>1. CASE Shutdown
  BY <1>1, TypeParts, PlaceNames, BuiltIsSame DEF Shutdown, disk
<1>2. CASE Launch
  BY <1>2, TypeParts, PlaceNames, BuiltIsSame DEF Launch, disk
<1>3. CASE Wait
  BY <1>3, TypeParts, PlaceNames, BuiltIsSame DEF Wait, disk
<1>4. CASE Stop
  BY <1>4, TypeParts, PlaceNames, BuiltIsSame DEF Stop, disk
<1>5. CASE Refuse
  BY <1>5, TypeParts, PlaceNames, BuiltIsSame DEF Refuse, disk
<1>6. CASE Initialise
  BY <1>6, TypeParts, PlaceNames, BuiltIsSame DEF Initialise, disk, DiskType
<1>7. CASE CreateTables
  <2>1. CASE ~Serving
    BY <1>7, <2>1, BuiltIsSame DEF CreateTables, Served
  <2>2. CASE Clean /\ Serving
    <3>1. Holder(on) = "data"
      BY <1>7, <2>2, SettingOnData DEF CreateTables, Step, Setting
    <3> QED
      BY <1>7, <2>2, <3>1, TypeParts, BuiltIsSame DEF CreateTables, Served, DiskType
  <2>3. CASE ~Clean
    BY <2>3 DEF BuiltStep
  <2> QED
    BY <2>1, <2>2, <2>3
<1>8. CASE Tune
  <2>1. pc \in Setting
    BY <1>8 DEF Tune, Step, Restart, Setting
  <2>2. store'["built"].kind = store["built"].kind /\ store'["built"].rows = store["built"].rows
        /\ (Clean => store'["built"].has = store["built"].has)
    BY <1>8, <2>1, Marks, SettingOnData DEF MarksChange
  <2> QED
    BY <2>2 DEF BuiltStep, Same
<1>9. CASE LoadSlice
  <2>1. CASE UNCHANGED store
    BY <2>1, BuiltIsSame
  <2>2. CASE Clean /\ Serving /\ Served([Database EXCEPT !.rows = Database.rows \cup {i}])
    <3>1. Holder(on) = "data"
      BY <1>9, <2>2, SettingOnData DEF LoadSlice, Step, Setting
    <3> QED
      BY <2>2, <3>1, TypeParts, BuiltIsSame DEF Served, DiskType
  <2>3. CASE ~Clean
    BY <2>3 DEF BuiltStep
  <2> QED
    BY <1>9, <2>1, <2>2, <2>3 DEF LoadSlice, Served
<1>10. CASE LoadEnds
  BY <1>10, TypeParts, PlaceNames, BuiltIsSame DEF LoadEnds, disk
<1>11. CASE AddIndexes
  <2>1. pc \in Setting
    BY <1>11 DEF AddIndexes, Step, Restart, Setting
  <2>2. store'["built"].kind = store["built"].kind /\ store'["built"].rows = store["built"].rows
        /\ (Clean => store'["built"].has = store["built"].has)
    BY <1>11, <2>1, Marks, SettingOnData DEF MarksChange
  <2> QED
    BY <2>2 DEF BuiltStep, Same
<1>12. CASE ResetParameters
  <2>1. pc \in Setting
    BY <1>12 DEF ResetParameters, Step, Restart, Setting
  <2>2. store'["built"].kind = store["built"].kind /\ store'["built"].rows = store["built"].rows
        /\ (Clean => store'["built"].has = store["built"].has)
    BY <1>12, <2>1, Marks, SettingOnData DEF MarksChange
  <2> QED
    BY <2>2 DEF BuiltStep, Same
<1>13. CASE PutAside
  <2>1. CASE UNCHANGED store
    BY <2>1, BuiltIsSame
  <2>2. CASE Aside = "nested" /\ ~UNCHANGED store
    BY <1>13, <2>2, TypeParts, BuiltIsSame, PlaceNames DEF PutAside, disk, DiskType
  <2>3. CASE Aside = "built" /\ ~UNCHANGED store
    <3>1. store["built"].kind # "tpch"
      BY <2>3 DEF Aside
    <3>2. store' = [store EXCEPT !["built"] = IF link = "data" THEN store["data"] ELSE New("broken"),
                                 !["data"] = New("none")]
      BY <1>13, <2>3 DEF PutAside, disk
    <3>3. store'["built"] = IF link = "data" THEN store["data"] ELSE New("broken")
      BY <3>2, TypeParts DEF DiskType
    <3>4. Clean /\ link = "data" => store["data"].has = {"indexes"}
      BY <1>13 DEF PutAside, Step, MarksInv, Goal
    <3> QED
      BY <3>1, <3>3, <3>4, NewFields DEF BuiltStep
  <2> QED
    BY <2>1, <2>2, <2>3 DEF Aside
<1>14. CASE RemoveData
  BY <1>14, TypeParts, PlaceNames, BuiltIsSame DEF RemoveData, Removed, DiskType
<1>15. CASE LinkData
  BY <1>15, TypeParts, PlaceNames, BuiltIsSame DEF LinkData
<1>16. CASE CopyTree
  BY <1>16, TypeParts, PlaceNames, BuiltIsSame DEF CopyTree, disk, DiskType
<1>17. CASE ListIndexes
  BY <1>17, TypeParts, PlaceNames, BuiltIsSame DEF ListIndexes, disk
<1>18. CASE RelinkIndexes
  BY <1>18, TypeParts, PlaceNames, BuiltIsSame DEF RelinkIndexes, DiskType
<1>19. CASE BeginQuery
  BY <1>19, TypeParts, PlaceNames, BuiltIsSame DEF BeginQuery, disk
<1>20. CASE RemoveResult
  BY <1>20, TypeParts, PlaceNames, BuiltIsSame DEF RemoveResult, disk
<1>21. CASE StartCollection
  BY <1>21, TypeParts, PlaceNames, BuiltIsSame DEF StartCollection, disk
<1>22. CASE CreateView
  BY <1>22, Marks DEF BuiltStep, MarksChange, Same
<1>23. CASE Select
  BY <1>23, TypeParts, PlaceNames, BuiltIsSame DEF Select, disk
<1>24. CASE DropView
  BY <1>24, Marks DEF BuiltStep, MarksChange, Same
<1>25. CASE FileArchive
  BY <1>25, TypeParts, PlaceNames, BuiltIsSame DEF FileArchive, disk
<1>26. CASE CallSetup
  BY <1>26, TypeParts, PlaceNames, BuiltIsSame DEF CallSetup, disk
<1>27. CASE CallBenchmark
  BY <1>27, TypeParts, PlaceNames, BuiltIsSame DEF CallBenchmark, disk
<1>28. CASE ComesUp
  BY <1>28, TypeParts, PlaceNames, BuiltIsSame DEF ComesUp, script, disk
<1>29. CASE FailsToStart
  BY <1>29, TypeParts, PlaceNames, BuiltIsSame DEF FailsToStart, script, disk
<1>30. CASE Interrupt
  BY <1>30, TypeParts, PlaceNames, BuiltIsSame DEF Interrupt, disk
<1>31. CASE Reboot
  BY <1>31, TypeParts, PlaceNames, BuiltIsSame DEF Reboot, disk
<1>32. CASE OperatorCopies
  BY <1>32, TypeParts, PlaceNames, BuiltIsSame DEF OperatorCopies, script, DiskType
<1>33. CASE TpccRan
  BY <1>33, TypeParts, PlaceNames, BuiltIsSame DEF TpccRan, script, DiskType
<1>34. CASE UNCHANGED vars
  BY <1>34, BuiltIsSame DEF vars, disk
<1> QED
  BY <1>1, <1>2, <1>3, <1>4, <1>5, <1>6, <1>7, <1>8, <1>9, <1>10, <1>11, <1>12, <1>13,
     <1>14, <1>15, <1>16, <1>17, <1>18, <1>19, <1>20, <1>21, <1>22, <1>23, <1>24,
     <1>25, <1>26, <1>27, <1>28, <1>29, <1>30, <1>31, <1>32, <1>33, <1>34 DEF Next,
     Command, Server, Rest

-----------------------------------------------------------------------------
(***************************************************************************)
(* The invariant.                                                          *)
(***************************************************************************)
LEMMA InitBounds == 1 \in 1 .. Chunks + 1 /\ 0 \in 0 .. MaxInvocations
<1>1. 1 \in 1 .. Chunks + 1
  BY Sizes
<1>2. 0 \in 0 .. MaxInvocations
  BY Sizes
<1> QED
  BY <1>1, <1>2

LEMMA InitInv == Init => IInv
<1> SUFFICES ASSUME Init PROVE IInv
  OBVIOUS
<1> USE DEF Init, script, disk, daemon, results
<1>1. pc = "idle" /\ after = "idle" /\ Goal = "idle" /\ link = None /\ server = "down"
      /\ on = None /\ met = "none or stoppable"
  BY DEF Goal
<1>2. New("none") \in Contents /\ New("none").has = {} /\ New("none").kind = "none"
  BY NewFields
<1>3. TypeOK
  <2>1. ControlType
    BY <1>1, InitBounds DEF ControlType, Labels
  <2>2. DiskType /\ DaemonType /\ ResultType
    BY <1>2 DEF DiskType, DaemonType, ResultType
  <2> QED
    BY <2>1, <2>2, TypeParts
<1>4. LabelInv /\ StrayInv /\ CollInv
  BY <1>1 DEF LabelInv, StrayInv, CollInv, Preparing, Loop
<1>5. PlaceInv /\ UpInv /\ MarksInv
  BY <1>1, NoPlace, PlaceNames DEF PlaceInv, UpInv, MarksInv, Setting, Loop
<1>6. DaemonInv
  BY <1>1, <1>3, LabelFacts DEF DaemonInv, ServerOnData, Clean, Talking
<1>7. ViewInv /\ FilesTellTheTruth
  BY <1>2, PlaceNames DEF ViewInv, FilesTellTheTruth
<1> QED
  BY <1>3, <1>4, <1>5, <1>6, <1>7 DEF IInv

LEMMA StepInv == IInv /\ [Next]_vars => IInv'
<1> SUFFICES ASSUME IInv, [Next]_vars PROVE IInv'
  OBVIOUS
<1>1. TypeOK'
  BY ControlStep, DiskStep, DaemonStep, ResultStep, TypePartsNext DEF IInv
<1>2. LabelInv' /\ DaemonInv' /\ StrayInv'
  BY LabelStep, DaemonInvStep, StrayStep DEF IInv
<1>3. PlaceInv' /\ UpInv' /\ MarksInv'
  BY PlaceStep, UpStep, MarksStep DEF IInv
<1>4. ViewInv' /\ CollInv' /\ FilesTellTheTruth'
  BY ViewStep, CollStep, FilesStep DEF IInv
<1> QED
  BY <1>1, <1>2, <1>3, <1>4 DEF IInv

LEMMA Invariance == Spec => []IInv
  BY InitInv, StepInv, PTL DEF Spec

\* Every variable has its type.
THEOREM TypeCorrect == Spec => []TypeOK
<1>1. IInv => TypeOK
  BY DEF IInv
<1> QED
  BY <1>1, Invariance, PTL

\* In a call that met no stray server nothing is removed, linked or put aside under
\* a server: rm, ln and mv of the scripts come after a stop that worked.
THEOREM NothingMovesUnderAServer == Spec => []ServerOnData
<1>1. IInv => ServerOnData
  BY DEF IInv, DaemonInv
<1> QED
  BY <1>1, Invariance, PTL

\* Beyond the first of a call a result file holds what its name says, or nothing.
THEOREM ResultFilesAreTrue == Spec => []FilesTellTheTruth
<1>1. IInv => FilesTellTheTruth
  BY DEF IInv
<1> QED
  BY <1>1, Invariance, PTL

\* The view of query 15 stays only where a call was cut short in that query.
THEOREM ViewIsDropped == Spec => []NoViewLeft
<1>1. IInv => NoViewLeft
  BY DEF IInv, ViewInv, NoViewLeft
<1> QED
  BY <1>1, Invariance, PTL

\* No step changes what setup has put aside.
THEOREM BuiltDataStay == Spec => BuiltIsKept
<1>1. IInv /\ [Next]_vars =>
        [Clean /\ store["built"].kind = "tpch" => Same(store["built"], store'["built"])]_vars
  BY BuiltLemma DEF IInv, BuiltStep
<1> QED
  BY <1>1, Invariance, PTL DEF Spec, BuiltIsKept

\* What setup puts aside has its indexes and no parameters for loading.
THEOREM SetupFinishes == Spec => PutAsideIsFinished
<1>1. IInv /\ [Next]_vars =>
        [Clean /\ store["built"].kind # "tpch" /\ store'["built"].kind = "tpch" =>
           store'["built"].has = {"indexes"}]_vars
  BY BuiltLemma DEF IInv, BuiltStep
<1> QED
  BY <1>1, Invariance, PTL DEF Spec, PutAsideIsFinished

-----------------------------------------------------------------------------
(***************************************************************************)
(* Whatever calls came before: with a database behind the name data, a     *)
(* call that met no server out of its reach does not ping in vain.         *)
(***************************************************************************)
THEOREM ServerWillAnswer == Spec => []NobodyWaitsInVain
<1>1. Init => NobodyWaitsInVain
  BY DEF Init, NobodyWaitsInVain
<1>2. IInv /\ NobodyWaitsInVain /\ [Next]_vars => NobodyWaitsInVain'
  <2> SUFFICES ASSUME IInv, NobodyWaitsInVain, [Next]_vars, Clean', pc' = "wait",
                      link' # None, store'[Holder(link)'].kind = "tpch"
               PROVE  \/ server' = "up" \/ (engine' = "postgres" /\ server' # "starting")
                      \/ server' = "starting" /\ MayComeUp'
    BY DEF NobodyWaitsInVain
  <2>1. TypeOK /\ ServerOnData /\ (Clean /\ pc = "launch" => server = "down")
    BY DEF IInv, DaemonInv
  <2>2. CASE Launch
    <3>1. /\ pc = "launch" /\ Clean /\ UNCHANGED <<engine, store, link>>
      BY <2>2 DEF Launch, Step, Clean, disk
    <3>2. server = "down" /\ link # None
      BY <2>1, <3>1
    <3>3. server' = "starting" /\ on' = link
      BY <2>2, <3>2 DEF Launch, Nowhere
    <3>4. on' \in Places /\ link \in Places
      BY <2>1, <3>2, <3>3 DEF TypeOK
    <3>5. Holder(link)' = Holder(on)'
      BY <3>1, <3>3
    <3> QED  BY <3>3, <3>4, <3>5 DEF MayComeUp
  <2>3. CASE Server
    <3>1. /\ pc = "wait" /\ Clean /\ UNCHANGED <<engine, store, link>> /\ server = "starting"
          /\ link # None /\ store[Holder(link)].kind = "tpch"
      BY <2>3 DEF Server, ComesUp, FailsToStart, script, disk, Clean, Holder
    <3>2. on = link /\ link \in Places
      BY <2>1, <3>1 DEF ServerOnData, TypeOK
    <3>3. MayComeUp
      BY <3>1, <3>2 DEF MayComeUp
    <3> QED  BY <2>3, <3>3 DEF Server, ComesUp, FailsToStart
  <2>4. CASE UNCHANGED vars
    BY <2>4 DEF NobodyWaitsInVain, Clean, MayComeUp, Holder, vars, script, disk, daemon
  <2>5. pc' = "wait" /\ [Next]_vars => Launch \/ Server \/ UNCHANGED vars
    <3>1. after # "wait"
      BY <2>1, LabelFacts
    <3>2. /\ CallSetup \/ CallBenchmark \/ Interrupt \/ Reboot => pc' # "wait"
          /\ OperatorCopies \/ TpccRan => pc' # "wait"
          /\ Rest => UNCHANGED vars
      BY DEF CallSetup, CallBenchmark, Interrupt, Reboot, OperatorCopies, TpccRan, Rest, script
    <3>3. Command => Launch \/ pc' # "wait"
      BY <3>1, StopEffect DEF Command, Shutdown, Wait, Refuse, Initialise, CreateTables, Tune,
         LoadSlice, LoadEnds, AddIndexes, ResetParameters, PutAside, RemoveData, LinkData,
         CopyTree, ListIndexes, RelinkIndexes, BeginQuery, RemoveResult, StartCollection,
         CreateView, Select, DropView, FileArchive, Step, Restart
    <3> QED  BY <3>2, <3>3 DEF Next
  <2> QED  BY <2>2, <2>3, <2>4, <2>5
<1>3. Spec => []IInv
  BY Invariance
<1> QED  BY <1>1, <1>2, <1>3, PTL DEF Spec

-----------------------------------------------------------------------------
\* What is left is counted in natural numbers.
CountedInv ==
  /\ StagesLeft \in Nat /\ RoundsLeft \in Nat /\ RoundLeft \in Nat /\ RestartLeft \in Nat
  /\ Left \in [1 .. 5 -> Nat]

LEMMA Counted == IInv => CountedInv
<1> SUFFICES ASSUME IInv PROVE CountedInv
  OBVIOUS
<1>1. StagesLeft \in Nat /\ RoundLeft \in Nat /\ RestartLeft \in Nat
  BY DEF StagesLeft, RoundLeft, RestartLeft
<1>2. RoundsLeft \in Nat
  <2>1. i \in Nat /\ (Goal \in Loop => i \in Queries)
    BY TypeParts, IndexType DEF IInv, LabelInv
  <2> QED  BY <2>1, Sizes DEF RoundsLeft, Queries, Loop
<1>3. (IF server = "starting" THEN 1 ELSE 0) \in Nat
  OBVIOUS
<1> QED  BY <1>1, <1>2, <1>3, CountersOf DEF CountedInv, Left

\* The first number to change falls.
LEMMA LeftFalls ==
  ASSUME \/ StagesLeft' < StagesLeft
         \/ StagesLeft' = StagesLeft /\ RoundsLeft' < RoundsLeft
         \/ StagesLeft' = StagesLeft /\ RoundsLeft' = RoundsLeft /\ RoundLeft' < RoundLeft
         \/ StagesLeft' = StagesLeft /\ RoundsLeft' = RoundsLeft /\ RoundLeft' = RoundLeft
              /\ RestartLeft' < RestartLeft
         \/ StagesLeft' = StagesLeft /\ RoundsLeft' = RoundsLeft /\ RoundLeft' = RoundLeft
              /\ RestartLeft' = RestartLeft /\ server = "starting" /\ server' # "starting"
  PROVE  Descends(Left, Left')
<1> DEFINE a == StagesLeft
           b == RoundsLeft
           c == RoundLeft
           d == RestartLeft
           e == IF server = "starting" THEN 1 ELSE 0
<1>1. Left = <<a, b, c, d, e>> /\ Left' = <<a', b', c', d', e'>>
  BY DEF Left
<1>2. server = "starting" /\ server' # "starting" => e' < e
  OBVIOUS
<1>3. /\ StagesLeft = a /\ StagesLeft' = a' /\ RoundsLeft = b /\ RoundsLeft' = b'
      /\ RoundLeft = c /\ RoundLeft' = c' /\ RestartLeft = d /\ RestartLeft' = d'
  OBVIOUS
<1>4. \/ a' < a
      \/ a' = a /\ b' < b
      \/ a' = a /\ b' = b /\ c' < c
      \/ a' = a /\ b' = b /\ c' = c /\ d' < d
      \/ a' = a /\ b' = b /\ c' = c /\ d' = d /\ e' < e
  <2> HIDE DEF a, b, c, d, e
  <2> QED  BY <1>2, <1>3
<1> HIDE DEF a, b, c, d, e
<1>5. Descends(<<a, b, c, d, e>>, <<a', b', c', d', e'>>)
  BY <1>4 DEF Descends
<1> QED  BY <1>1, <1>5

\* A restart goes on under the label it returns to.
LEMMA RestartMovesOn ==
  ASSUME TypeOK, Shutdown \/ Launch \/ Wait
  PROVE  Descends(Left, Left')
<1>1. /\ UNCHANGED <<after, i>>
      /\ \/ pc = "restart" /\ pc' = "launch"
         \/ pc = "launch" /\ pc' = "wait"
         \/ pc = "wait" /\ pc' = after
  BY DEF Shutdown, Launch, Wait, Step
<1>2. after \notin {"restart", "launch", "wait"}
  BY LabelFacts
<1>3. Goal' = Goal
  BY <1>1, <1>2 DEF Goal
<1>4. StagesLeft' = StagesLeft /\ RoundsLeft' = RoundsLeft /\ RoundLeft' = RoundLeft
  BY <1>1, <1>3 DEF StagesLeft, RoundsLeft, RoundLeft
<1>5. \/ RestartLeft = 3 /\ RestartLeft' = 2
      \/ RestartLeft = 2 /\ RestartLeft' = 1
      \/ RestartLeft = 1 /\ RestartLeft' = 0
  BY <1>1, <1>2 DEF RestartLeft
<1>6. RestartLeft' < RestartLeft
  BY <1>5
<1> QED  BY <1>4, <1>6, LeftFalls

\* The commands of setup.sh lead to a later stage, or to the next slice.
LEMMA SetupMovesOn ==
  ASSUME TypeOK,
         \/ Refuse \/ Initialise \/ CreateTables \/ Tune \/ LoadSlice \/ LoadEnds
         \/ AddIndexes \/ ResetParameters \/ PutAside
  PROVE  Descends(Left, Left')
<1>1. CASE LoadSlice
  <2>1. pc = "load" /\ pc' = "load" /\ i <= Chunks /\ i' = i + 1
    BY <1>1 DEF LoadSlice, Step
  <2>2. Goal = "load" /\ Goal' = "load"
    BY <2>1 DEF Goal
  <2>3. StagesLeft' = StagesLeft
    BY <2>2 DEF StagesLeft
  <2>4. i \in Nat /\ Chunks \in Nat
    BY TypeParts, IndexType, Sizes
  <2>5. RoundsLeft = Chunks + 1 - i
    BY <2>1, <2>2 DEF RoundsLeft, Loop
  <2>6. RoundsLeft' = IF i + 1 <= Chunks THEN Chunks + 1 - (i + 1) ELSE 0
    BY <2>1, <2>2 DEF RoundsLeft, Loop
  <2>7. RoundsLeft' < RoundsLeft
    BY <2>1, <2>4, <2>5, <2>6
  <2> QED  BY <2>3, <2>7, LeftFalls
<1>2. CASE \/ Refuse \/ Initialise \/ CreateTables \/ Tune \/ LoadEnds
           \/ AddIndexes \/ ResetParameters \/ PutAside
  <2>1. \/ Goal = "initialise" /\ Goal' \in {"idle", "create"}
        \/ Goal = "create" /\ Goal' \in {"load", "tune"}
        \/ Goal = "tune" /\ Goal' = "load"
        \/ Goal = "load" /\ Goal' \in {"unload", "index"}
        \/ Goal = "index" /\ Goal' = "reset"
        \/ Goal = "reset" /\ Goal' = "unload"
        \/ Goal = "putaside" /\ Goal' = "idle"
    BY <1>2 DEF Refuse, Initialise, CreateTables, Tune, LoadEnds, AddIndexes,
       ResetParameters, PutAside, Step, Restart, Goal
  <2>2. \/ StagesLeft = 8 /\ StagesLeft' \in {0, 7}
        \/ StagesLeft = 7 /\ StagesLeft' \in {5, 6}
        \/ StagesLeft = 6 /\ StagesLeft' = 5
        \/ StagesLeft = 5 /\ StagesLeft' \in {2, 4}
        \/ StagesLeft = 4 /\ StagesLeft' = 3
        \/ StagesLeft = 3 /\ StagesLeft' = 2
        \/ StagesLeft = 1 /\ StagesLeft' = 0
    BY <2>1 DEF StagesLeft
  <2>3. StagesLeft' < StagesLeft
    BY <2>2
  <2> QED  BY <2>3, LeftFalls
<1> QED  BY <1>1, <1>2

\* So do those of benchmark.sh before its loop, and every stop.
LEMMA PrepareMovesOn ==
  ASSUME Stop \/ RemoveData \/ LinkData \/ CopyTree \/ ListIndexes \/ RelinkIndexes
  PROVE  Descends(Left, Left')
<1>1. \/ Goal = "stop" /\ Goal' = "prepare"
      \/ Goal = "prepare" /\ Goal' = "remove"
      \/ Goal = "unload" /\ Goal' = "putaside"
      \/ Goal = "finish" /\ Goal' = "idle"
      \/ Goal = "remove" /\ Goal' \in {"idle", "tree", "link"}
      \/ Goal = "link" /\ Goal' = "query"
      \/ Goal = "tree" /\ Goal' = "list"
      \/ Goal = "list" /\ Goal' \in {"relink", "query"}
      \/ Goal = "relink" /\ Goal' = "query"
  BY StopEffect DEF RemoveData, LinkData, CopyTree, ListIndexes, RelinkIndexes, Step, Restart,
     Goal
<1>2. \/ StagesLeft = 9 /\ StagesLeft' = 8
      \/ StagesLeft = 8 /\ StagesLeft' = 7
      \/ StagesLeft = 2 /\ StagesLeft' = 1
      \/ StagesLeft = 1 /\ StagesLeft' = 0
      \/ StagesLeft = 7 /\ StagesLeft' \in {0, 6}
      \/ StagesLeft = 6 /\ StagesLeft' \in {2, 5}
      \/ StagesLeft = 5 /\ StagesLeft' \in {2, 4}
      \/ StagesLeft = 4 /\ StagesLeft' = 2
  BY <1>1 DEF StagesLeft
<1>3. StagesLeft' < StagesLeft
  BY <1>2
<1> QED  BY <1>3, LeftFalls

\* Those of the loop lead to a later place of the round, or to the next query.
LEMMA QueryMovesOn ==
  ASSUME IInv,
         \/ BeginQuery \/ RemoveResult \/ StartCollection \/ CreateView \/ Select
         \/ DropView \/ FileArchive
  PROVE  Descends(Left, Left')
<1>1. CASE FileArchive
  <2>1. /\ pc = "file"
        /\ \/ pc' = "finish"
           \/ pc' = "query" /\ i < MaxQueries /\ i' = i + 1
    BY <1>1 DEF FileArchive, Step, MoreQueries
  <2>2. CASE pc' = "finish"
    <3>1. Goal = "file" /\ Goal' = "finish"
      BY <2>1, <2>2 DEF Goal
    <3>2. StagesLeft = 2 /\ StagesLeft' = 1
      BY <3>1 DEF StagesLeft
    <3>3. StagesLeft' < StagesLeft
      BY <3>2
    <3> QED  BY <3>3, LeftFalls
  <2>3. CASE pc' = "query" /\ i < MaxQueries /\ i' = i + 1
    <3>1. Goal = "file" /\ Goal' = "query"
      BY <2>1, <2>3 DEF Goal
    <3>2. StagesLeft' = StagesLeft
      BY <3>1 DEF StagesLeft
    <3>3. RoundsLeft = MaxQueries - i /\ RoundsLeft' = MaxQueries - (i + 1)
      BY <2>3, <3>1 DEF RoundsLeft, Loop
    <3>4. i \in Nat /\ MaxQueries \in Nat
      BY TypeParts, IndexType, Sizes DEF IInv
    <3>5. RoundsLeft' < RoundsLeft
      BY <3>3, <3>4
    <3> QED  BY <3>2, <3>5, LeftFalls
  <2> QED  BY <2>1, <2>2, <2>3
<1>2. CASE \/ BeginQuery \/ RemoveResult \/ StartCollection \/ CreateView \/ Select
           \/ DropView
  <2>1. /\ i' = i
        /\ \/ Goal = "query" /\ Goal' = "clear"
           \/ Goal = "clear" /\ Goal' = "collect"
           \/ Goal = "collect" /\ Goal' \in {"view", "select"}
           \/ Goal = "view" /\ Goal' \in {"file", "select"}
           \/ Goal = "select" /\ Goal' \in {"drop", "file"}
           \/ Goal = "drop" /\ Goal' = "file"
    BY <1>2 DEF BeginQuery, RemoveResult, StartCollection, CreateView, Select, DropView, Step,
       Restart, Goal
  <2>2. StagesLeft = 2 /\ StagesLeft' = 2
    BY <2>1 DEF StagesLeft
  <2>3. RoundsLeft = MaxQueries - i /\ RoundsLeft' = MaxQueries - i
    BY <2>1 DEF RoundsLeft, Loop
  <2>4. \/ RoundLeft = 6 /\ RoundLeft' = 5
        \/ RoundLeft = 5 /\ RoundLeft' = 4
        \/ RoundLeft = 4 /\ RoundLeft' \in {3, 2}
        \/ RoundLeft = 3 /\ RoundLeft' \in {0, 2}
        \/ RoundLeft = 2 /\ RoundLeft' \in {1, 0}
        \/ RoundLeft = 1 /\ RoundLeft' = 0
    BY <2>1 DEF RoundLeft
  <2>5. RoundLeft' < RoundLeft
    BY <2>4
  <2> QED  BY <2>2, <2>3, <2>5, LeftFalls
<1> QED  BY <1>1, <1>2

\* A server that answers or fails starts no more, and an interrupt ends the call.
LEMMA OthersMoveOn ==
  ASSUME IInv, Server \/ Interrupt
  PROVE  Descends(Left, Left')
<1>1. CASE Server
  <2>1. /\ server = "starting" /\ server' # "starting"
        /\ StagesLeft' = StagesLeft /\ RoundsLeft' = RoundsLeft
        /\ RoundLeft' = RoundLeft /\ RestartLeft' = RestartLeft
    BY <1>1 DEF Server, ComesUp, FailsToStart, script, StagesLeft, RoundsLeft, RoundLeft,
       RestartLeft, Goal
  <2> QED  BY <2>1, LeftFalls
<1>2. CASE Interrupt
  <2>1. Goal \in Labels \ {"idle"} /\ Goal' = "idle"
    <3>1. pc # "idle" /\ pc' = "idle" /\ pc \in Labels /\ after \in Labels
      BY <1>2, TypeParts, LabelFacts DEF Interrupt, IInv, ControlType, Labels
    <3>2. pc \in {"restart", "launch", "wait"} => after # "idle"
      BY DEF IInv, LabelInv
    <3> QED  BY <3>1, <3>2 DEF Goal
  <2>2. StagesLeft \in {1, 2, 3, 4, 5, 6, 7, 8, 9}
    BY <2>1 DEF StagesLeft
  <2>3. StagesLeft' = 0
    BY <2>1 DEF StagesLeft
  <2>4. StagesLeft' < StagesLeft
    BY <2>2, <2>3
  <2> QED  BY <2>4, LeftFalls
<1> QED  BY <1>1, <1>2

LEMMA CommandMovesOn == ASSUME IInv, Command PROVE Descends(Left, Left')
  BY RestartMovesOn, SetupMovesOn, PrepareMovesOn, QueryMovesOn DEF Command, IInv

\* What happens between the calls gives the scripts nothing to do.
LEMMA BetweenStays ==
  ASSUME IInv, Reboot \/ OperatorCopies \/ TpccRan
  PROVE  Left' = Left \/ Descends(Left, Left')
<1>1. CASE OperatorCopies
  <2>1. UNCHANGED <<pc, after, i, server>>
    BY <1>1 DEF OperatorCopies, script, daemon
  <2> QED  BY <2>1 DEF Left, StagesLeft, RoundsLeft, RoundLeft, RestartLeft, Goal
<1>2. CASE TpccRan
  <2>1. UNCHANGED <<pc, after, i>> /\ server' # "starting"
    BY <1>2 DEF TpccRan, script
  <2>2. /\ StagesLeft' = StagesLeft /\ RoundsLeft' = RoundsLeft
        /\ RoundLeft' = RoundLeft /\ RestartLeft' = RestartLeft
    BY <2>1 DEF StagesLeft, RoundsLeft, RoundLeft, RestartLeft, Goal
  <2>3. CASE server = "starting"
    BY <2>1, <2>2, <2>3, LeftFalls
  <2>4. CASE server # "starting"
    BY <2>1, <2>2, <2>4 DEF Left
  <2> QED  BY <2>3, <2>4
<1>3. CASE Reboot
  <2>1. pc' = "idle" /\ server' = "down" /\ UNCHANGED <<after, i>>
    BY <1>3 DEF Reboot
  <2>2. CASE pc = "idle"
    <3>1. /\ StagesLeft' = StagesLeft /\ RoundsLeft' = RoundsLeft
          /\ RoundLeft' = RoundLeft /\ RestartLeft' = RestartLeft
      BY <2>1, <2>2 DEF StagesLeft, RoundsLeft, RoundLeft, RestartLeft, Goal
    <3>2. CASE server = "starting"
      BY <2>1, <3>1, <3>2, LeftFalls
    <3>3. CASE server # "starting"
      BY <2>1, <3>1, <3>3 DEF Left
    <3> QED  BY <3>2, <3>3
  <2>3. CASE pc # "idle"
    <3>1. Goal \in Labels \ {"idle"} /\ Goal' = "idle"
      <4>1. pc \in Labels /\ after \in Labels
        BY TypeParts, LabelFacts DEF IInv, ControlType, Labels
      <4>2. pc \in {"restart", "launch", "wait"} => after # "idle"
        BY DEF IInv, LabelInv
      <4> QED  BY <2>1, <2>3, <4>1, <4>2 DEF Goal
    <3>2. StagesLeft \in {1, 2, 3, 4, 5, 6, 7, 8, 9}
      BY <3>1 DEF StagesLeft
    <3>3. StagesLeft' = 0
      BY <3>1 DEF StagesLeft
    <3>4. StagesLeft' < StagesLeft
      BY <3>2, <3>3
    <3> QED  BY <3>4, LeftFalls
  <2> QED  BY <2>2, <2>3
<1> QED  BY <1>1, <1>2, <1>3

(***************************************************************************)
(* Whatever the numbers of queries and slices: a call does not go round in *)
(* a circle, so with LoopsComeToRest it takes finitely many steps.         *)
(***************************************************************************)
THEOREM CallsOnlyMoveOn == Spec => EveryStepMovesOn
<1> DEFINE Moves ==
      /\ Left \in [1 .. 5 -> Nat]
      /\ Command \/ Server \/ Interrupt => Descends(Left, Left')
      /\ inv' = inv => Left' = Left \/ Descends(Left, Left')
<1>1. IInv /\ [Next]_vars => [Moves]_vars
  <2> SUFFICES ASSUME IInv, [Next]_vars, vars' # vars PROVE Moves
    OBVIOUS
  <2>1. Command \/ Server \/ Interrupt => Descends(Left, Left')
    BY CommandMovesOn, OthersMoveOn
  <2>2. CallSetup \/ CallBenchmark => inv' # inv
    <3>1. inv \in Nat
      BY LabelFacts DEF IInv
    <3>2. CallSetup \/ CallBenchmark => inv' = inv + 1
      BY DEF CallSetup, CallBenchmark
    <3> QED  BY <3>1, <3>2
  <2> QED  BY <2>1, <2>2, BetweenStays, Counted DEF CountedInv, Next, Rest
<1>2. Spec => [][Moves]_vars
  BY Invariance, <1>1, PTL DEF Spec
<1> QED  BY <1>2 DEF EveryStepMovesOn

=============================================================================
