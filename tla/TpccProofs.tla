----------------------------- MODULE TpccProofs -----------------------------
(***************************************************************************)
(* Proofs about the TPC-C drivers, for any configurations, any numbers of  *)
(* users and any number of calls, each of which may be interrupted at any  *)
(* command, also while a server starts or has no password yet.             *)
(***************************************************************************)
EXTENDS TpccRun, LoopOrderProofs, TLAPS

\* What comes after a wait for the server.
AfterWait == {"load", "buildstop", "warmup", "remove result", "collect", "measure",
  "stop collection"}

\* Where a server can be, which directory it has open, whom it lets in, and who has
\* met one out of reach.
DaemonInv ==
  /\ server = "down" => on = None
  /\ server # "down" => \/ on = "gone"
                        \/ /\ on \in {"data", "pmem"} /\ store[on] \in Databases
                           /\ engine = "mysql" => keyed = (store[on].schema # "bare")
  /\ link \in {"data", "pmem", None} /\ (on = "data" => link = "data")
  /\ ~met => on # "gone"
  /\ engine = "postgres" => ~met /\ (server # "down" => on = link)
  /\ ~met /\ pc \in {"remove", "copy", "copying", "start", "buildlaunch"} => server = "down"
  /\ pc = "copying" => on # config.place
  /\ pc = "putaside" => server = "down"
  /\ pc = "password" => engine = "mysql" /\ server = "up" /\ ~keyed
  /\ pc \in AfterWait =>
       /\ server # "starting"
       /\ engine = "mysql" => server = "up" /\ keyed
  /\ pc # "idle" => inv >= 1

\* What build puts aside has been built and not used; what is not named data is
\* not there.
FreshInv ==
  /\ store["saved"].use = "fresh" /\ store["pristine"].use = "fresh"
  /\ link # "data" => store["data"] = absent
  /\ pc = "copy" \/ (pc = "copying" /\ config.place = "pmem") => link = None
  /\ pc \in {"buildlaunch", "buildwait", "password", "load", "buildstop", "putaside"} =>
       store["data"].use = "fresh"

\* What a server runs on between the copy and the first measurement.
FirstInv ==
  ~met =>
    /\ pc = "start" /\ link # None => store[link] \in {absent, store["pristine"]}
    /\ pc \in {"wait", "warmup"} /\ server # "down" =>
         on = link /\ store[on] = store["pristine"]
    /\ pc \in {"remove result", "collect", "measure"} /\ users = 1 /\ server = "up" =>
         /\ on = link
         /\ store[on] = [schema |-> store["pristine"].schema, use |-> "warm"]

\* What the collection has sampled in the second and every later round of the loop.
OwnInv ==
  /\ pc \in {"stop", "remove", "copy", "copying", "start", "wait", "warmup"} => users = 1
  /\ users > 1 =>
       /\ pc \in {"remove result", "collect"} => coll = None
       /\ pc = "measure" => coll \in {None, {}}
       /\ pc = "stop collection" => coll \in {None, {<<inv, users>>}}

IInv == TypeOK /\ DaemonInv /\ FreshInv /\ FirstInv /\ OwnInv /\ LaterFilesAreTheirOwn

LEMMA InitIInv == Init => IInv
<1> SUFFICES ASSUME Init PROVE IInv  OBVIOUS
<1>1. TypeOK
  <2>1. absent \in Contents /\ [schema |-> "full", use |-> "fresh"] \in Contents
    BY DEF Contents, Databases
  <2>2. store \in [Places -> Contents]  BY <2>1 DEF Init, Places
  <2>3. 1 \in Users /\ archive \in [Users -> Archives \cup {None}]
    BY TpccAssumption DEF Init, Users
  <2>4. inv \in 0 .. MaxInvocations  BY TpccAssumption DEF Init
  <2> QED  BY <2>2, <2>3, <2>4 DEF Init, TypeOK
<1>2. DaemonInv  BY TpccAssumption DEF Init, DaemonInv, AfterWait, Places
<1>3. FreshInv /\ FirstInv /\ OwnInv /\ LaterFilesAreTheirOwn
  BY TpccAssumption DEF Init, FreshInv, FirstInv, OwnInv, LaterFilesAreTheirOwn, Users,
     Places, absent
<1> QED  BY <1>1, <1>2, <1>3 DEF IInv

\* The places of a copy.
LEMMA PlaceOfCopy == ASSUME TypeOK PROVE config.place \in {"data", "pmem"}
  BY TpccAssumption DEF TypeOK, ConfigType

\* Half a copy and nothing at all are no database.
LEMMA NoDatabase ==
  /\ absent \in Contents /\ partial \in Contents /\ Databases \subseteq Contents
  /\ absent \notin Databases /\ partial \notin Databases
  /\ absent.use = "fresh" /\ partial.use = "fresh"
  /\ NewDatabase \in Databases /\ NewDatabase.use = "fresh"
  /\ engine = "mysql" => NewDatabase.schema = "bare"
  BY DEF absent, partial, NewDatabase, Databases, Contents

\* What runs on the server's database changes that one directory only, and leaves
\* a database there.
LEMMA RunOnStore ==
  ASSUME TypeOK, DaemonInv, NEW schema \in {None, "half", "full"},
         NEW use \in {"fresh", "warm", "used"}, RunOn(schema, use)
  PROVE  /\ store' \in [Places -> Contents]
         /\ Admitted /\ on # "gone" =>
              /\ store'[on] \in Databases /\ store'[on].use = use
              /\ store[on].schema # "bare" => store'[on].schema # "bare"
              /\ schema = None => store'[on] = [schema |-> store[on].schema, use |-> use]
         /\ \A p \in Places : ~Admitted \/ p # on => store'[p] = store[p]
<1>1. CASE Admitted /\ on # "gone"
  <2>1. on \in Places /\ store[on] \in Databases  BY <1>1 DEF Admitted, DaemonInv, Places
  <2> DEFINE db == [schema |-> IF schema = None THEN store[on].schema ELSE schema,
                    use |-> use]
  <2>2. store' = [store EXCEPT ![on] = db]  BY <1>1, <2>1 DEF RunOn
  <2>3. db \in Databases /\ db.use = use  BY <2>1 DEF Databases
  <2>7. store[on].schema # "bare" => db.schema # "bare"  OBVIOUS
  <2>6. schema = None => db = [schema |-> store[on].schema, use |-> use]  OBVIOUS
  <2> HIDE DEF db
  <2>4. store'[on] = db /\ \A p \in Places : p # on => store'[p] = store[p]
    BY <2>1, <2>2 DEF TypeOK
  <2>5. store' \in [Places -> Contents]  BY <2>1, <2>2, <2>3, NoDatabase DEF TypeOK
  <2> QED  BY <1>1, <2>3, <2>4, <2>5, <2>6, <2>7
<1>2. CASE ~(Admitted /\ on # "gone")
  <2>1. store' = store
    <3>1. on = "gone" => on \notin Places  BY DEF Places
    <3> QED  BY <1>2, <3>1 DEF RunOn
  <2> QED  BY <1>2, <2>1 DEF TypeOK
<1> QED  BY <1>1, <1>2

\* The loop variable stays among the numbers of users, and only grows.
LEMMA RoundsOfTheLoop ==
  ASSUME users \in Users, FileArchive
  PROVE  users' \in Users /\ (pc' # "idle" => users' > 1 /\ users' # 1)
<1>1. MaxUsers \in Nat  BY TpccAssumption
<1>2. \/ users < MaxUsers /\ users' = users + 1
      \/ pc' = "idle" /\ users' = users
  BY DEF FileArchive, MoreUsers
<1> QED  BY <1>1, <1>2 DEF Users

\* The call and the round that a sample belongs to.
LEMMA RunInRange ==
  ASSUME TypeOK, DaemonInv, pc # "idle"
  PROVE  inv \in 1 .. MaxInvocations /\ <<inv, users>> \in (1 .. MaxInvocations) \X Users
<1>1. inv \in 1 .. MaxInvocations
  <2>1. inv \in 0 .. MaxInvocations  BY DEF TypeOK
  <2>2. inv >= 1  BY DEF DaemonInv
  <2>3. MaxInvocations \in Nat  BY TpccAssumption
  <2> QED  BY <2>1, <2>2, <2>3
<1> QED  BY <1>1 DEF TypeOK

\* Doing nothing keeps each part.
LEMMA Stutters ==
  ASSUME UNCHANGED vars
  PROVE  /\ TypeOK => TypeOK'
         /\ DaemonInv => DaemonInv'
         /\ FreshInv => FreshInv'
         /\ FirstInv => FirstInv'
<1>1. UNCHANGED <<engine, pc, inv, users, config, met, store, link, server, on, keyed,
                 coll, archive>>
  BY DEF vars, script, call, disk, daemon, results
<1>2. TypeOK => TypeOK'
  <2>1. /\ engine' = engine /\ pc' = pc /\ inv' = inv /\ users' = users /\ config' = config
        /\ met' = met /\ store' = store /\ link' = link /\ server' = server /\ on' = on
        /\ keyed' = keyed /\ coll' = coll /\ archive' = archive
    BY <1>1
  <2> SUFFICES ASSUME TypeOK PROVE TypeOK'
    OBVIOUS
  <2>2. (coll = None \/ coll \subseteq (1 .. MaxInvocations) \X Users)'
    BY <2>1, Zenon DEF TypeOK
  <2>3. (archive \in [Users -> Archives \cup {None}])'
    BY <2>1, Zenon DEF TypeOK
  <2>4. (store \in [Places -> Contents])'
    BY <2>1, Zenon DEF TypeOK
  <2>5. /\ engine' \in Engines /\ config' \in Configs /\ inv' \in 0 .. MaxInvocations
        /\ users' \in Users /\ met' \in BOOLEAN /\ keyed' \in BOOLEAN
    BY <2>1, Zenon DEF TypeOK
  <2> QED  BY <2>1, <2>2, <2>3, <2>4, <2>5, Zenon DEF TypeOK
<1>3. DaemonInv => DaemonInv'  BY <1>1 DEF DaemonInv
<1>4. FreshInv => FreshInv'  BY <1>1 DEF FreshInv
<1>5. FirstInv => FirstInv'  BY <1>1 DEF FirstInv
<1> QED  BY <1>2, <1>3, <1>4, <1>5

\* Every action keeps the types.
LEMMA TypeKeeps == ASSUME IInv, [Next]_vars PROVE TypeOK'
<1>24. CASE UNCHANGED vars BY <1>24, Stutters DEF IInv
<1>20. CASE ComesUp
  <2>1. server' = "up" /\ UNCHANGED <<engine, script, disk, on, keyed, results>>
    BY <1>20 DEF ComesUp
  <2> QED  BY <2>1 DEF IInv, TypeOK, script, call, disk, results
<1> USE TpccAssumption, PlaceOfCopy, NoDatabase DEF IInv, TypeOK, DaemonInv, Users,
      Archives, Places, Contents, Databases, ConfigType, vars, script, call, disk, daemon, results
<1>1. CASE CallBuild BY <1>1 DEF CallBuild
<1>2. CASE Initialise
  <2>2. store' \in [Places -> Contents]  BY <1>2 DEF Initialise, MakeData, Refused
  <2>3. link' \in Places \cup {None} /\ met' \in BOOLEAN /\ pc' \in {"idle", "buildlaunch"}
    BY <1>2 DEF Initialise, MakeData, Refused
  <2> QED  BY <1>2, <2>2, <2>3 DEF Initialise
<1>26. CASE BuildLaunch BY <1>26 DEF BuildLaunch, Launch
<1>27. CASE SetPassword BY <1>27 DEF SetPassword
<1>3. CASE BuildWait BY <1>3 DEF BuildWait, Waited
<1>4. CASE Load BY <1>4, RunOnStore DEF Load
<1>5. CASE BuildStop BY <1>5 DEF BuildStop, StopServer, Reached, Admitted, NoServer
<1>6. CASE PutAside BY <1>6 DEF PutAside
<1>7. CASE OperatorRename BY <1>7 DEF OperatorRename
<1>8. CASE CallBenchmark BY <1>8 DEF CallBenchmark
<1>9. CASE Stop BY <1>9 DEF Stop, StopServer, Reached, OutOfReach, Admitted, NoServer
<1>10. CASE Remove BY <1>10 DEF Remove, Lost
<1>11. CASE Copy
  <2>1. store' \in [Places -> Contents]  BY <1>11 DEF Copy
  <2>2. /\ on' \in Places \cup {"gone", None} /\ link' \in Places \cup {None}
        /\ pc' \in {"start", "copying"} /\ UNCHANGED <<server, keyed>>
    BY <1>11 DEF Copy, Lost
  <2> QED  BY <1>11, <2>1, <2>2 DEF Copy
<1>12. CASE CopyEnds BY <1>12 DEF CopyEnds, Copied
<1>13. CASE Start BY <1>13 DEF Start, Launch
<1>14. CASE Wait BY <1>14 DEF Wait, Waited
<1>15. CASE WarmUp BY <1>15, RunOnStore DEF WarmUp
<1>16. CASE RemoveResult BY <1>16 DEF RemoveResult
<1>17. CASE StartCollection BY <1>17 DEF StartCollection
<1>18. CASE Measure
  <2>1. coll # None => coll' \subseteq (1 .. MaxInvocations) \X Users
    BY <1>18, RunInRange DEF Measure
  <2>2. coll = None => coll' = None  BY <1>18 DEF Measure
  <2>3. store' \in [Places -> Contents]  BY <1>18, RunOnStore DEF Measure
  <2> QED  BY <1>18, <2>1, <2>2, <2>3 DEF Measure
<1>19. CASE FileArchive
  <2>1. users' \in Users  BY <1>19, RoundsOfTheLoop
  <2>2. coll # None => [by |-> inv, runs |-> coll] \in Archives
    BY <1>19, RunInRange DEF FileArchive
  <2>3. archive' \in [Users -> Archives \cup {None}]  BY <1>19, <2>2 DEF FileArchive
  <2> QED  BY <1>19, <2>1, <2>3 DEF FileArchive, CollAfterStop
<1>21. CASE FailsToStart BY <1>21 DEF FailsToStart, NoServer
<1>22. CASE Interrupt BY <1>22 DEF Interrupt
<1>23. CASE Rest BY <1>23 DEF Rest
<1>25. QED
  BY <1>1, <1>2, <1>3, <1>4, <1>5, <1>6, <1>7, <1>8, <1>9, <1>10, <1>11, <1>12, <1>13,
     <1>14, <1>15, <1>16, <1>17, <1>18, <1>19, <1>20, <1>21, <1>22, <1>23, <1>24,
     <1>26, <1>27
  DEF Next, Command, Server

\* A server that comes up has what it had when it started.
LEMMA AnswerOpens == ASSUME DaemonInv, ComesUp PROVE DaemonInv'
<1>1. /\ server = "starting" /\ server' = "up"
      /\ UNCHANGED <<engine, pc, inv, config, met, store, link, on, keyed>>
  BY DEF ComesUp, script, call, disk
<1> QED  BY <1>1 DEF DaemonInv, AfterWait

\* Every action keeps the server where it can be.
LEMMA DaemonKeeps == ASSUME IInv, [Next]_vars PROVE DaemonInv'
<1>24. CASE UNCHANGED vars BY <1>24, Stutters DEF IInv
<1>20. CASE ComesUp
  BY <1>20, AnswerOpens DEF IInv
<1>22. CASE Interrupt
  <2>1. pc' = "idle" /\ UNCHANGED <<engine, inv, config, met, store, link, server, on, keyed>>
    BY <1>22 DEF Interrupt, call, disk, daemon
  <2> QED  BY <2>1 DEF IInv, DaemonInv, AfterWait
<1>16. CASE RemoveResult
  <2>1. /\ pc = "remove result" /\ pc' = "collect"
        /\ UNCHANGED <<engine, inv, config, met, store, link, server, on, keyed>>
    BY <1>16 DEF RemoveResult, call, disk, daemon
  <2> QED  BY <2>1 DEF IInv, DaemonInv, AfterWait
<1>19. CASE FileArchive
  <2>1. /\ pc = "stop collection" /\ pc' \in {"idle", "remove result"}
        /\ UNCHANGED <<engine, inv, config, met, store, link, server, on, keyed>>
    BY <1>19 DEF FileArchive, disk, daemon
  <2> QED  BY <2>1 DEF IInv, DaemonInv, AfterWait
<1>2. CASE Initialise
  <2>1. /\ pc = "initialise" /\ UNCHANGED <<engine, inv, config, server, on, keyed>>
        /\ \/ pc' = "idle" /\ UNCHANGED <<met, store, link>>
           \/ /\ link # None /\ store[link] = absent /\ UNCHANGED <<store, link>>
              /\ pc' = "buildlaunch" /\ met' = (server # "down")
           \/ /\ link = None /\ link' = "data"
              /\ store'["pmem"] = store["pmem"]
              /\ pc' = "buildlaunch" /\ met' = (server # "down")
    <3>1. \A e \in Contents : [store EXCEPT !["data"] = e]["pmem"] = store["pmem"]
      BY DEF IInv, TypeOK, Places
    <3>2. NewDatabase \in Contents
      BY NoDatabase
    <3>3. /\ pc = "initialise" /\ UNCHANGED <<engine, inv, config, server, on, keyed>>
          /\ \/ pc' = "idle" /\ UNCHANGED <<met, store, link>>
             \/ /\ link # None => store[link] = absent
                /\ pc' = "buildlaunch" /\ met' = (server # "down") /\ MakeData
      <4>1. /\ pc = "initialise" /\ UNCHANGED <<engine, inv, config, daemon>>
            /\ \/ pc' = "idle" /\ UNCHANGED <<met, disk>>
               \/ ~Refused /\ pc' = "buildlaunch" /\ met' = (server # "down") /\ MakeData
        BY <1>2 DEF Initialise
      <4> QED  BY <4>1 DEF Refused, daemon, disk
    <3>4. CASE pc' = "idle"
      BY <3>3, <3>4
    <3>5. CASE pc' # "idle" /\ link # None
      <4>1. UNCHANGED <<store, link>>
        BY <3>3, <3>5 DEF MakeData, disk
      <4> QED  BY <3>3, <3>5, <4>1
    <3>6. CASE pc' # "idle" /\ link = None
      <4>1. link' = "data" /\ store' = [store EXCEPT !["data"] = NewDatabase]
        BY <3>3, <3>6 DEF MakeData
      <4>2. store'["pmem"] = store["pmem"]
        BY <3>1, <3>2, <4>1
      <4> QED  BY <3>3, <3>6, <4>1, <4>2
    <3> QED  BY <3>4, <3>5, <3>6
  <2>2. CASE pc' = "idle"
    BY <2>1, <2>2 DEF IInv, DaemonInv, AfterWait
  <2>3. CASE pc' = "buildlaunch"
    <3>1. engine = "postgres" => server = "down"
      BY <2>1, <2>3, NoDatabase, TpccAssumption DEF IInv, DaemonInv, Places
    <3>2. link = None => on # "data"
      BY TpccAssumption DEF IInv, DaemonInv, Places
    <3> QED  BY <2>1, <2>3, <3>1, <3>2, TpccAssumption DEF IInv, DaemonInv, AfterWait, Places
  <2> QED  BY <2>1, <2>2, <2>3
<1> USE TpccAssumption, PlaceOfCopy, NoDatabase DEF IInv, TypeOK, DaemonInv, FreshInv,
      AfterWait, Places, Contents, Databases, ConfigType, vars, script, call, disk, daemon, results
<1>1. CASE CallBuild BY <1>1 DEF CallBuild
<1>26. CASE BuildLaunch BY <1>26 DEF BuildLaunch, Launch
<1>27. CASE SetPassword BY <1>27 DEF SetPassword
<1>3. CASE BuildWait BY <1>3 DEF BuildWait, Waited
<1>4. CASE Load BY <1>4, RunOnStore DEF Load
<1>5. CASE BuildStop BY <1>5 DEF BuildStop, StopServer, Reached, Admitted, NoServer
<1>6. CASE PutAside BY <1>6 DEF PutAside
<1>7. CASE OperatorRename BY <1>7 DEF OperatorRename
<1>8. CASE CallBenchmark BY <1>8 DEF CallBenchmark
<1>9. CASE Stop BY <1>9 DEF Stop, StopServer, Reached, OutOfReach, Admitted, NoServer
<1>10. CASE Remove BY <1>10 DEF Remove, Lost
<1>11. CASE Copy
  <2>1. /\ config.place \in {"data", "pmem"} /\ pc = "copy"
        /\ UNCHANGED <<engine, inv, config, met, server, keyed>>
        /\ on' = (IF on = config.place THEN "gone" ELSE on)
        /\ pc' \in {"start", "copying"} /\ link' \in {"data", "pmem", None}
    BY <1>11 DEF Copy, Lost
  <2>2. on' \in Places => store'[on'] = store[on]
    <3>1. \A p \in Places : p # config.place => store'[p] = store[p]
      BY <1>11 DEF Copy
    <3> QED  BY <2>1, <3>1
  <2>3. on # "data"
    BY <2>1
  <2> QED  BY <2>1, <2>2, <2>3
<1>12. CASE CopyEnds BY <1>12 DEF CopyEnds, Copied
<1>13. CASE Start BY <1>13 DEF Start, Launch
<1>14. CASE Wait BY <1>14 DEF Wait, Waited
<1>15. CASE WarmUp BY <1>15, RunOnStore DEF WarmUp
<1>17. CASE StartCollection BY <1>17 DEF StartCollection
<1>18. CASE Measure BY <1>18, RunOnStore DEF Measure
<1>21. CASE FailsToStart BY <1>21 DEF FailsToStart, NoServer
<1>23. CASE Rest BY <1>23 DEF Rest
<1>25. QED
  BY <1>1, <1>2, <1>3, <1>4, <1>5, <1>6, <1>7, <1>8, <1>9, <1>10, <1>11, <1>12, <1>13,
     <1>14, <1>15, <1>16, <1>17, <1>18, <1>19, <1>20, <1>21, <1>22, <1>23, <1>24,
     <1>26, <1>27
  DEF Next, Command, Server

\* Every action keeps unused what is to be put aside.
LEMMA FreshKeeps == ASSUME IInv, [Next]_vars PROVE FreshInv'
<1>24. CASE UNCHANGED vars BY <1>24, Stutters DEF IInv
<1> USE TpccAssumption, PlaceOfCopy, NoDatabase DEF IInv, TypeOK, DaemonInv, FreshInv,
      Places, Contents, Databases, ConfigType, vars, script, call, disk, daemon, results
<1>1. CASE CallBuild BY <1>1 DEF CallBuild
<1>2. CASE Initialise BY <1>2 DEF Initialise, MakeData, Refused
<1>26. CASE BuildLaunch BY <1>26 DEF BuildLaunch, Launch
<1>27. CASE SetPassword BY <1>27 DEF SetPassword
<1>3. CASE BuildWait BY <1>3 DEF BuildWait, Waited
<1>4. CASE Load BY <1>4, RunOnStore DEF Load
<1>5. CASE BuildStop BY <1>5 DEF BuildStop, StopServer, Reached, Admitted, NoServer
<1>6. CASE PutAside BY <1>6 DEF PutAside
<1>7. CASE OperatorRename BY <1>7 DEF OperatorRename
<1>8. CASE CallBenchmark BY <1>8 DEF CallBenchmark
<1>9. CASE Stop BY <1>9 DEF Stop, StopServer, Reached, OutOfReach, Admitted, NoServer
<1>10. CASE Remove BY <1>10 DEF Remove, Lost
<1>11. CASE Copy BY <1>11 DEF Copy, Lost
<1>12. CASE CopyEnds BY <1>12 DEF CopyEnds, Copied
<1>13. CASE Start BY <1>13 DEF Start, Launch
<1>14. CASE Wait BY <1>14 DEF Wait, Waited
<1>15. CASE WarmUp BY <1>15, RunOnStore DEF WarmUp
<1>16. CASE RemoveResult BY <1>16 DEF RemoveResult
<1>17. CASE StartCollection BY <1>17 DEF StartCollection
<1>18. CASE Measure BY <1>18, RunOnStore DEF Measure
<1>19. CASE FileArchive BY <1>19 DEF FileArchive, MoreUsers, CollAfterStop
<1>20. CASE ComesUp BY <1>20 DEF ComesUp
<1>21. CASE FailsToStart BY <1>21 DEF FailsToStart, NoServer
<1>22. CASE Interrupt BY <1>22 DEF Interrupt
<1>23. CASE Rest BY <1>23 DEF Rest
<1>25. QED
  BY <1>1, <1>2, <1>3, <1>4, <1>5, <1>6, <1>7, <1>8, <1>9, <1>10, <1>11, <1>12, <1>13,
     <1>14, <1>15, <1>16, <1>17, <1>18, <1>19, <1>20, <1>21, <1>22, <1>23, <1>24,
     <1>26, <1>27
  DEF Next, Command, Server

\* Every action up to the first measurement keeps what was copied.
LEMMA FirstKeeps == ASSUME IInv, [Next]_vars PROVE FirstInv'
<1>24. CASE UNCHANGED vars BY <1>24, Stutters DEF IInv
<1>15. CASE WarmUp
  <2>1. RunOn(None, "warm")  BY <1>15 DEF WarmUp
  <2>2. /\ pc = "warmup" /\ pc' = "remove result"
        /\ UNCHANGED <<engine, users, met, link, server, on, keyed>>
    BY <1>15 DEF WarmUp, call, daemon
  <2>7. SUFFICES ASSUME ~met, server = "up"
               PROVE  /\ on = link
                      /\ store'[on] = [schema |-> store'["pristine"].schema, use |-> "warm"]
    BY <2>2 DEF FirstInv
  <2>3. on = link /\ store[on] = store["pristine"]  BY <2>2, <2>7 DEF IInv, FirstInv
  <2>4. Admitted /\ on # "gone"  BY <2>2, <2>7 DEF IInv, DaemonInv, Admitted, AfterWait
  <2>5. store'[on] = [schema |-> store[on].schema, use |-> "warm"]
    BY <2>1, <2>4, RunOnStore DEF IInv
  <2>6. store'["pristine"] = store["pristine"]
    <3>1. "pristine" # on /\ "pristine" \in Places
      BY <2>3, TpccAssumption DEF IInv, DaemonInv, Places
    <3> QED  BY <2>1, <3>1, RunOnStore DEF IInv
  <2> QED  BY <2>3, <2>5, <2>6
<1> USE TpccAssumption, PlaceOfCopy, NoDatabase DEF IInv, TypeOK, DaemonInv, FreshInv,
      FirstInv, Users, Places, Contents, Databases, ConfigType, vars, script, call, disk, daemon,
      results
<1>1. CASE CallBuild BY <1>1 DEF CallBuild
<1>2. CASE Initialise BY <1>2 DEF Initialise, MakeData, Refused
<1>26. CASE BuildLaunch BY <1>26 DEF BuildLaunch, Launch
<1>27. CASE SetPassword BY <1>27 DEF SetPassword
<1>3. CASE BuildWait BY <1>3 DEF BuildWait, Waited
<1>4. CASE Load BY <1>4, RunOnStore DEF Load
<1>5. CASE BuildStop BY <1>5 DEF BuildStop, StopServer, Reached, Admitted, NoServer
<1>6. CASE PutAside BY <1>6 DEF PutAside
<1>7. CASE OperatorRename BY <1>7 DEF OperatorRename
<1>8. CASE CallBenchmark BY <1>8 DEF CallBenchmark
<1>9. CASE Stop BY <1>9 DEF Stop, StopServer, Reached, OutOfReach, Admitted, NoServer
<1>10. CASE Remove BY <1>10 DEF Remove, Lost
<1>11. CASE Copy BY <1>11 DEF Copy, Lost
<1>12. CASE CopyEnds BY <1>12 DEF CopyEnds, Copied
<1>13. CASE Start BY <1>13 DEF Start, Launch
<1>14. CASE Wait BY <1>14 DEF Wait, Waited
<1>16. CASE RemoveResult BY <1>16 DEF RemoveResult
<1>17. CASE StartCollection BY <1>17 DEF StartCollection
<1>18. CASE Measure BY <1>18, RunOnStore DEF Measure
<1>19. CASE FileArchive
  <2>1. pc' # "idle" => users' # 1  BY <1>19, RoundsOfTheLoop
  <2> QED  BY <1>19, <2>1 DEF FileArchive
<1>20. CASE ComesUp BY <1>20 DEF ComesUp, AfterWait
<1>21. CASE FailsToStart BY <1>21 DEF FailsToStart, NoServer
<1>22. CASE Interrupt BY <1>22 DEF Interrupt
<1>23. CASE Rest BY <1>23 DEF Rest
<1>25. QED
  BY <1>1, <1>2, <1>3, <1>4, <1>5, <1>6, <1>7, <1>8, <1>9, <1>10, <1>11, <1>12, <1>13,
     <1>14, <1>15, <1>16, <1>17, <1>18, <1>19, <1>20, <1>21, <1>22, <1>23, <1>24,
     <1>26, <1>27
  DEF Next, Command, Server

\* The first round is not a later one.
LEMMA FirstRound == ASSUME users' = 1 PROVE ~(users' > 1)
  OBVIOUS

\* Every round of the loop after the first starts without a collection.
LEMMA OwnKeeps == ASSUME IInv, [Next]_vars PROVE OwnInv' /\ LaterFilesAreTheirOwn'
<1> USE DEF IInv, TypeOK, OwnInv, LaterFilesAreTheirOwn, Users, Archives, vars, script,
      call, disk, daemon, results
<1>1. CASE CallBuild BY <1>1 DEF CallBuild
<1>2. CASE Initialise BY <1>2 DEF Initialise, MakeData, Refused
<1>26. CASE BuildLaunch BY <1>26 DEF BuildLaunch, Launch
<1>27. CASE SetPassword BY <1>27 DEF SetPassword
<1>3. CASE BuildWait BY <1>3 DEF BuildWait, Waited
<1>4. CASE Load BY <1>4, RunOnStore DEF Load
<1>5. CASE BuildStop BY <1>5 DEF BuildStop, StopServer, Reached, Admitted, NoServer
<1>6. CASE PutAside BY <1>6 DEF PutAside
<1>7. CASE OperatorRename BY <1>7 DEF OperatorRename
<1>8. CASE CallBenchmark BY <1>8 DEF CallBenchmark
<1>9. CASE Stop BY <1>9 DEF Stop, StopServer, Reached, OutOfReach, Admitted, NoServer
<1>10. CASE Remove BY <1>10 DEF Remove, Lost
<1>11. CASE Copy BY <1>11 DEF Copy, Lost
<1>12. CASE CopyEnds BY <1>12 DEF CopyEnds, Copied
<1>13. CASE Start BY <1>13 DEF Start, Launch
<1>14. CASE Wait BY <1>14 DEF Wait, Waited
<1>15. CASE WarmUp
  <2>1. users' = 1 /\ archive' = archive  BY <1>15 DEF WarmUp
  <2>2. ~(users' > 1)  BY <2>1, FirstRound
  <2> QED  BY <1>15, <2>1, <2>2 DEF WarmUp
<1>16. CASE RemoveResult BY <1>16 DEF RemoveResult
<1>17. CASE StartCollection BY <1>17 DEF StartCollection
<1>18. CASE Measure BY <1>18, RunOnStore DEF Measure
<1>19. CASE FileArchive BY <1>19 DEF FileArchive, MoreUsers, CollAfterStop
<1>20. CASE ComesUp BY <1>20 DEF ComesUp
<1>21. CASE FailsToStart BY <1>21 DEF FailsToStart, NoServer
<1>22. CASE Interrupt BY <1>22 DEF Interrupt
<1>23. CASE Rest BY <1>23 DEF Rest
<1>24. CASE UNCHANGED vars BY <1>24
<1>25. QED
  BY <1>1, <1>2, <1>3, <1>4, <1>5, <1>6, <1>7, <1>8, <1>9, <1>10, <1>11, <1>12, <1>13,
     <1>14, <1>15, <1>16, <1>17, <1>18, <1>19, <1>20, <1>21, <1>22, <1>23, <1>24,
     <1>26, <1>27
  DEF Next, Command, Server

\* Only what is absent becomes initial data; no action changes it afterwards.
LEMMA PristineStep ==
  ASSUME IInv, [Next]_vars, store["pristine"] # absent
  PROVE  store'["pristine"] = store["pristine"]
<1>1. TypeOK /\ DaemonInv  BY DEF IInv
<1>2. "pristine" \in Places /\ store = [p \in Places |-> store[p]]  BY <1>1 DEF TypeOK,
      Places
<1>3. on # "pristine"  BY <1>1, TpccAssumption DEF DaemonInv, TypeOK, Places
<1>4. CASE Initialise  BY <1>2, <1>4 DEF Initialise, MakeData, disk
<1>5. CASE Load  BY <1>1, <1>2, <1>3, <1>5, RunOnStore DEF Load
<1>6. CASE PutAside  BY <1>2, <1>6 DEF PutAside
<1>7. CASE OperatorRename  BY <1>7 DEF OperatorRename
<1>8. CASE Remove  BY <1>2, <1>8 DEF Remove
<1>9. CASE Copy  BY <1>1, <1>2, <1>9, PlaceOfCopy DEF Copy
<1>10. CASE CopyEnds  BY <1>1, <1>2, <1>10, PlaceOfCopy DEF CopyEnds, Copied
<1>11. CASE WarmUp \/ Measure
  <2>1. \E use \in {"warm", "used"} : RunOn(None, use)  BY <1>11 DEF WarmUp, Measure
  <2> QED  BY <1>1, <1>2, <1>3, <2>1, RunOnStore
<1>12. CASE store' = store  BY <1>12
<1>14. CASE SetPassword  BY <1>2, <1>3, <1>14 DEF SetPassword
<1>13. QED
  BY <1>14, <1>4, <1>5, <1>6, <1>7, <1>8, <1>9, <1>10, <1>11, <1>12
    DEF Next, Command, Server, CallBuild, BuildLaunch, BuildWait, BuildStop, CallBenchmark, Stop, Start,
      Wait, RemoveResult, StartCollection, FileArchive, ComesUp, FailsToStart, Interrupt,
      Rest, vars, disk

-----------------------------------------------------------------------------
\* The invariant of the drivers.
THEOREM Invariant == Spec => []IInv
<1>1. IInv /\ [Next]_vars => IInv'
  BY TypeKeeps, DaemonKeeps, FreshKeeps, FirstKeeps, OwnKeeps DEF IInv
<1> QED  BY <1>1, InitIInv, PTL DEF Spec

\* Every variable of the drivers has its type (tpcc/constants.sh).
THEOREM TypeCorrect == Spec => []TypeOK
<1>1. IInv => TypeOK  BY DEF IInv
<1> QED  BY <1>1, Invariant, PTL

\* In a call that found no server out of its reach, stop_mysql and stop_postgres have
\* ended the server before its directory is removed or replaced.
THEOREM FilesAreKept == Spec => []ServerKeepsItsFiles
<1>1. IInv => ServerKeepsItsFiles
  BY DEF IInv, DaemonInv, ServerKeepsItsFiles
<1> QED  BY <1>1, Invariant, PTL

\* The first measurement of such a call finds the initial data, only warmed up.
THEOREM FirstRunIsInitial == Spec => []FirstRunFromInitial
<1>1. IInv => FirstRunFromInitial  BY DEF IInv, FirstInv, FirstRunFromInitial
<1> QED  BY <1>1, Invariant, PTL

\* Under PostgreSQL every call is such a call: pg_ctl stop finds the server by the
\* pid file in data, started or not.
THEOREM PostgresIsInReach == Spec => [](engine = "postgres" => ~met /\ ~OutOfReach)
<1>1. IInv => (engine = "postgres" => ~met /\ ~OutOfReach)
  BY DEF IInv, DaemonInv, OutOfReach, Reached
<1> QED  BY <1>1, Invariant, PTL

\* Under MySQL it takes an interruption to leave a server out of reach: a call that
\* found none and ends by itself leaves none.
THEOREM StraysComeFromInterrupts == Spec => OnlyInterruptsLeaveStrays
<1> DEFINE Leaves == pc \notin {"idle", "initialise"} /\ pc' = "idle" /\ ~met /\ ~Interrupt
                       => ~OutOfReach'
<1>1. IInv /\ IInv' /\ [Next]_vars => [Leaves]_vars
  <2> SUFFICES ASSUME IInv, IInv', [Next]_vars, vars' # vars,
                      pc \notin {"idle", "initialise"}, pc' = "idle", ~met, ~Interrupt
               PROVE  ~OutOfReach'
    OBVIOUS
  <2>1. PutAside \/ Remove \/ FileArchive
    BY DEF Next, Command, Server, CallBuild, Initialise, BuildLaunch, BuildWait, SetPassword,
       Load, BuildStop, OperatorRename, CallBenchmark, Stop, Copy, CopyEnds, Start, Wait,
       WarmUp, RemoveResult, StartCollection, Measure, ComesUp, FailsToStart, script, Rest
  <2>2. CASE PutAside \/ Remove
    <3>1. server = "down" /\ server' = server
      BY <2>2 DEF IInv, DaemonInv, PutAside, Remove, Lost, daemon
    <3> QED  BY <3>1 DEF OutOfReach
  <2>3. CASE FileArchive
    <3>1. pc \in AfterWait /\ UNCHANGED <<engine, link, server, on, keyed>>
      BY <2>3 DEF FileArchive, AfterWait, disk, daemon
    <3>2. CASE engine = "mysql"
      <4>1. Admitted'  BY <3>1, <3>2 DEF IInv, DaemonInv, Admitted
      <4> QED  BY <3>1, <3>2, <4>1 DEF OutOfReach, Reached
    <3>3. CASE engine # "mysql"
      <4>1. engine = "postgres"  BY <3>3, TpccAssumption DEF IInv, TypeOK
      <4>2. server' # "down" => on' = link'  BY <3>1, <4>1 DEF IInv, DaemonInv
      <4> QED  BY <3>1, <3>3, <4>2 DEF OutOfReach, Reached
    <3> QED  BY <3>2, <3>3
  <2> QED  BY <2>1, <2>2, <2>3
<1>2. Spec => [][Leaves]_vars  BY <1>1, Invariant, PTL DEF Spec
<1> QED  BY <1>2 DEF OnlyInterruptsLeaveStrays

\* The result files of a call beyond its first hold the samples of their own run,
\* also if an earlier call was interrupted and left its collection running.
THEOREM LaterFilesAreOwn == Spec => []LaterFilesAreTheirOwn
<1>1. IInv => LaterFilesAreTheirOwn  BY DEF IInv
<1> QED  BY <1>1, Invariant, PTL

\* No command changes the initial data once it is there.
THEOREM InitialDataIsKept == Spec => PristineKept
<1>1. IInv /\ [Next]_vars =>
        [store["pristine"] # absent => store'["pristine"] = store["pristine"]]_vars
  BY PristineStep
<1> QED  BY <1>1, Invariant, PTL DEF Spec, PristineKept

-----------------------------------------------------------------------------
\* A wait is preceded by what makes it end: a copy of the initial data behind data,
\* or a database just made, that mysqld has given no password.
WaitInv ==
  /\ pc \in {"buildlaunch", "buildwait"} /\ store["data"] # absent =>
       /\ store["data"] \in Databases
       /\ engine = "mysql" => store["data"].schema = "bare"
  /\ pc = "start" /\ Copyable => link # None /\ store[link] = store["pristine"]
  /\ NobodyWaitsInVain

LEMMA InitWaitInv == Init => WaitInv
  BY TpccAssumption DEF Init, WaitInv, NobodyWaitsInVain, Places, absent

\* A server that comes up is the one waited for; mysqld does not fail meanwhile.
LEMMA AnswerKeeps == ASSUME IInv, WaitInv, Server PROVE WaitInv'
<1>1. server = "starting" /\ UNCHANGED <<engine, config, met, pc, store, link>>
  BY DEF Server, ComesUp, FailsToStart, script, call, disk
<1>2. NobodyWaitsInVain'
  <2>1. CASE ComesUp
    <3>1. server' = "up" /\ UNCHANGED keyed
      BY <2>1 DEF ComesUp
    <3> QED  BY <1>1, <3>1 DEF WaitInv, NobodyWaitsInVain, Waited, Copyable
  <2>2. CASE FailsToStart
    <3>1. MayFail /\ server' = "down"
      BY <2>2 DEF FailsToStart, NoServer
    <3>2. CASE engine # "mysql"
      BY <1>1, <3>1, <3>2 DEF NobodyWaitsInVain, Waited
    <3>3. CASE engine = "mysql"
      BY <1>1, <3>1, <3>3 DEF WaitInv, NobodyWaitsInVain, Waited, Copyable
    <3> QED  BY <3>2, <3>3
  <2> QED  BY <2>1, <2>2 DEF Server
<1> QED  BY <1>1, <1>2 DEF WaitInv, Copyable

\* Every action keeps a wait from being in vain.
LEMMA WaitKeeps == ASSUME IInv, WaitInv, [Next]_vars PROVE WaitInv'
<1>24. CASE UNCHANGED vars
  BY <1>24 DEF WaitInv, Copyable, NobodyWaitsInVain, Waited, MayFail, vars, script,
     call, disk, daemon, results
<1> USE TpccAssumption, PlaceOfCopy, NoDatabase DEF IInv, TypeOK, DaemonInv, FreshInv,
      WaitInv, Copyable, NobodyWaitsInVain, Waited, MayFail,
      Places, Contents, Databases, ConfigType, vars, script, call, disk, daemon, results
<1>1. CASE CallBuild BY <1>1 DEF CallBuild
<1>2. CASE Initialise BY <1>2 DEF Initialise, MakeData, Refused
<1>26. CASE BuildLaunch BY <1>26 DEF BuildLaunch, Launch
<1>27. CASE SetPassword BY <1>27 DEF SetPassword
<1>3. CASE BuildWait BY <1>3 DEF BuildWait, Waited
<1>4. CASE Load BY <1>4, RunOnStore DEF Load
<1>5. CASE BuildStop BY <1>5 DEF BuildStop, StopServer, Reached, Admitted, NoServer
<1>6. CASE PutAside BY <1>6 DEF PutAside
<1>7. CASE OperatorRename BY <1>7 DEF OperatorRename
<1>8. CASE CallBenchmark BY <1>8 DEF CallBenchmark
<1>9. CASE Stop BY <1>9 DEF Stop, StopServer, Reached, OutOfReach, Admitted, NoServer
<1>10. CASE Remove BY <1>10 DEF Remove, Lost
<1>11. CASE Copy BY <1>11 DEF Copy, Lost
<1>12. CASE CopyEnds BY <1>12 DEF CopyEnds, Copied
<1>13. CASE Start BY <1>13 DEF Start, Launch
<1>14. CASE Wait BY <1>14 DEF Wait, Waited
<1>15. CASE WarmUp BY <1>15, RunOnStore DEF WarmUp
<1>16. CASE RemoveResult BY <1>16 DEF RemoveResult
<1>17. CASE StartCollection BY <1>17 DEF StartCollection
<1>18. CASE Measure BY <1>18, RunOnStore DEF Measure
<1>19. CASE FileArchive BY <1>19 DEF FileArchive, MoreUsers, CollAfterStop
<1>20. CASE ComesUp BY <1>20, AnswerKeeps DEF Server
<1>21. CASE FailsToStart BY <1>21, AnswerKeeps DEF Server
<1>22. CASE Interrupt BY <1>22 DEF Interrupt
<1>23. CASE Rest BY <1>23 DEF Rest
<1>25. QED
  BY <1>1, <1>2, <1>3, <1>4, <1>5, <1>6, <1>7, <1>8, <1>9, <1>10, <1>11, <1>12, <1>13,
     <1>14, <1>15, <1>16, <1>17, <1>18, <1>19, <1>20, <1>21, <1>22, <1>23, <1>24,
     <1>26, <1>27
  DEF Next, Command, Server

(***************************************************************************)
(* Whatever the configurations and the interruptions: in a call that found *)
(* no server out of its reach, the ping loop of a benchmark that has data  *)
(* to copy, and that of a build that has made a database, come to an end.  *)
(***************************************************************************)
THEOREM ServerWillAnswer == Spec => []NobodyWaitsInVain
<1>1. IInv /\ WaitInv /\ [Next]_vars => WaitInv'
  BY WaitKeeps
<1>2. WaitInv => NobodyWaitsInVain
  BY DEF WaitInv
<1> QED  BY <1>1, <1>2, InitWaitInv, Invariant, PTL DEF Spec

-----------------------------------------------------------------------------
\* What is left is counted in natural numbers.
LEMMA Counted ==
  ASSUME TypeOK
  PROVE  Left \in [1 .. 4 -> Nat]
<1>1. StagesLeft \in Nat /\ RoundLeft \in Nat
  BY DEF StagesLeft, RoundLeft
<1>2. MaxUsers - users \in Nat
  <2>1. users \in Users /\ MaxUsers \in Nat
    BY TpccAssumption DEF TypeOK
  <2> QED  BY <2>1 DEF Users
<1>3. (IF server = "starting" THEN 1 ELSE 0) \in Nat
  OBVIOUS
<1> QED  BY <1>1, <1>2, <1>3, CountersOf DEF Left

\* The first number to change falls.
LEMMA LeftFalls ==
  ASSUME TypeOK,
         \/ StagesLeft' < StagesLeft
         \/ StagesLeft' = StagesLeft /\ users' = users + 1
         \/ StagesLeft' = StagesLeft /\ users' = users /\ RoundLeft' < RoundLeft
         \/ StagesLeft' = StagesLeft /\ users' = users /\ RoundLeft' = RoundLeft
              /\ server = "starting" /\ server' # "starting"
  PROVE  Descends(Left, Left')
<1> DEFINE a == StagesLeft
           b == MaxUsers - users
           c == RoundLeft
           d == IF server = "starting" THEN 1 ELSE 0
<1>1. Left = <<a, b, c, d>> /\ Left' = <<a', b', c', d'>>
  BY DEF Left
<1>2. b \in Nat /\ (users' = users + 1 => b' = b - 1) /\ (users' = users => b' = b)
  <2>1. users \in Users /\ MaxUsers \in Nat
    BY TpccAssumption DEF TypeOK
  <2> QED  BY <2>1 DEF Users
<1>3. server = "starting" /\ server' # "starting" => d' < d
  OBVIOUS
<1>4. StagesLeft = a /\ StagesLeft' = a' /\ RoundLeft = c /\ RoundLeft' = c'
  OBVIOUS
<1>5. \/ a' < a
      \/ a' = a /\ b' < b
      \/ a' = a /\ b' = b /\ c' < c
      \/ a' = a /\ b' = b /\ c' = c /\ d' < d
  <2> HIDE DEF a, b, c, d
  <2> QED  BY <1>2, <1>3, <1>4
<1> HIDE DEF a, b, c, d
<1>6. Descends(<<a, b, c, d>>, <<a', b', c', d'>>)
  BY <1>5 DEF Descends
<1> QED  BY <1>1, <1>6

\* A command brings the script to a later stage or place ...
LEMMA CommandMovesOn == ASSUME TypeOK, Command PROVE Descends(Left, Left')
<1>1. CASE RemoveResult \/ StartCollection \/ Measure
  <2>1. /\ users' = users
        /\ \/ pc = "remove result" /\ pc' = "collect"
           \/ pc = "collect" /\ pc' = "measure"
           \/ pc = "measure" /\ pc' = "stop collection"
    BY <1>1 DEF RemoveResult, StartCollection, Measure, call
  <2>2. StagesLeft = 1 /\ StagesLeft' = 1
    BY <2>1 DEF StagesLeft
  <2>3. \/ RoundLeft = 4 /\ RoundLeft' = 3
        \/ RoundLeft = 3 /\ RoundLeft' = 2
        \/ RoundLeft = 2 /\ RoundLeft' = 1
    BY <2>1 DEF RoundLeft
  <2>4. RoundLeft' < RoundLeft
    BY <2>3
  <2> QED  BY <2>1, <2>2, <2>4, LeftFalls
<1>2. CASE FileArchive
  <2>1. /\ pc = "stop collection"
        /\ pc' = "idle" \/ (pc' = "remove result" /\ users' = users + 1)
    BY <1>2 DEF FileArchive
  <2>2. CASE pc' = "idle"
    <3>1. StagesLeft = 1 /\ StagesLeft' = 0
      BY <2>1, <2>2 DEF StagesLeft
    <3> QED  BY <3>1, LeftFalls
  <2>3. CASE pc' = "remove result" /\ users' = users + 1
    <3>1. StagesLeft' = StagesLeft
      BY <2>1, <2>3 DEF StagesLeft
    <3> QED  BY <2>3, <3>1, LeftFalls
  <2> QED  BY <2>1, <2>2, <2>3
<1>3. CASE \/ Initialise \/ BuildLaunch \/ BuildWait \/ SetPassword
          \/ Load \/ BuildStop \/ PutAside
  <2>1. \/ pc = "initialise" /\ pc' \in {"idle", "buildlaunch"}
        \/ pc = "buildlaunch" /\ pc' = "buildwait"
        \/ pc = "buildwait" /\ pc' \in {"password", "load"}
        \/ pc = "password" /\ pc' = "load"
        \/ pc = "load" /\ pc' = "buildstop"
        \/ pc = "buildstop" /\ pc' = "putaside"
        \/ pc = "putaside" /\ pc' = "idle"
    BY <1>3 DEF Initialise, BuildLaunch, BuildWait, SetPassword, Load, BuildStop, PutAside
  <2>2. \/ StagesLeft = 7 /\ StagesLeft' \in {0, 6}
        \/ StagesLeft = 6 /\ StagesLeft' = 5
        \/ StagesLeft = 5 /\ StagesLeft' \in {3, 4}
        \/ StagesLeft = 4 /\ StagesLeft' = 3
        \/ StagesLeft = 3 /\ StagesLeft' = 2
        \/ StagesLeft = 2 /\ StagesLeft' = 1
        \/ StagesLeft = 1 /\ StagesLeft' = 0
    BY <2>1 DEF StagesLeft
  <2>3. StagesLeft' < StagesLeft
    BY <2>2
  <2> QED  BY <2>3, LeftFalls
<1>4. CASE Stop \/ Remove \/ Copy \/ CopyEnds \/ Start \/ Wait \/ WarmUp
  <2>1. \/ pc = "stop" /\ pc' = "remove"
        \/ pc = "remove" /\ pc' \in {"idle", "copy"}
        \/ pc = "copy" /\ pc' \in {"start", "copying"}
        \/ pc = "copying" /\ pc' = "start"
        \/ pc = "start" /\ pc' = "wait"
        \/ pc = "wait" /\ pc' = "warmup"
        \/ pc = "warmup" /\ pc' = "remove result"
    BY <1>4 DEF Stop, Remove, Copy, CopyEnds, Start, Wait, WarmUp
  <2>2. \/ StagesLeft = 8 /\ StagesLeft' = 7
        \/ StagesLeft = 7 /\ StagesLeft' \in {0, 6}
        \/ StagesLeft = 6 /\ StagesLeft' \in {4, 5}
        \/ StagesLeft = 5 /\ StagesLeft' = 4
        \/ StagesLeft = 4 /\ StagesLeft' = 3
        \/ StagesLeft = 3 /\ StagesLeft' = 2
        \/ StagesLeft = 2 /\ StagesLeft' = 1
    BY <2>1 DEF StagesLeft
  <2>3. StagesLeft' < StagesLeft
    BY <2>2
  <2> QED  BY <2>3, LeftFalls
<1> QED  BY <1>1, <1>2, <1>3, <1>4 DEF Command

\* ... a server that answers or fails starts no more ...
LEMMA ServerMovesOn == ASSUME TypeOK, Server PROVE Descends(Left, Left')
<1>1. /\ server = "starting" /\ server' # "starting"
      /\ StagesLeft' = StagesLeft /\ users' = users /\ RoundLeft' = RoundLeft
  BY DEF Server, ComesUp, FailsToStart, NoServer, script, call, StagesLeft, RoundLeft
<1> QED  BY <1>1, LeftFalls

\* ... and an interrupt ends the call.
LEMMA InterruptMovesOn == ASSUME TypeOK, Interrupt PROVE Descends(Left, Left')
<1>1. StagesLeft' < StagesLeft
  <2>1. pc # "idle" /\ pc' = "idle"
    BY DEF Interrupt
  <2>2. StagesLeft' = 0
    BY <2>1 DEF StagesLeft
  <2>3. StagesLeft \in {1, 2, 3, 4, 5, 6, 7, 8}
    BY <2>1 DEF StagesLeft, TypeOK
  <2>4. StagesLeft' < StagesLeft
    BY <2>2, <2>3
  <2> QED  BY <2>4
<1> QED  BY <1>1, LeftFalls

(***************************************************************************)
(* Whatever the numbers of users: a call does not go round in a circle, so *)
(* with LoopsComeToRest it takes finitely many steps.                      *)
(***************************************************************************)
THEOREM CallsOnlyMoveOn == Spec => EveryStepMovesOn
<1> DEFINE Moves ==
      /\ Left \in [1 .. 4 -> Nat]
      /\ Command \/ Server \/ Interrupt => Descends(Left, Left')
      /\ inv' = inv => Left' = Left \/ Descends(Left, Left')
<1>1. TypeOK /\ [Next]_vars => [Moves]_vars
  <2> SUFFICES ASSUME TypeOK, [Next]_vars, vars' # vars PROVE Moves
    OBVIOUS
  <2>1. Command \/ Server \/ Interrupt => Descends(Left, Left')
    BY CommandMovesOn, ServerMovesOn, InterruptMovesOn
  <2>2. CallBuild \/ CallBenchmark => inv' # inv
    <3>1. inv \in 0 .. MaxInvocations /\ MaxInvocations \in Nat
      BY TpccAssumption DEF TypeOK
    <3> QED  BY <3>1 DEF CallBuild, CallBenchmark
  <2>3. OperatorRename => Left' = Left
    BY DEF OperatorRename, script, call, daemon, Left, StagesLeft, RoundLeft
  <2> QED  BY <2>1, <2>2, <2>3, Counted DEF Next, Rest
<1>2. Spec => [][Moves]_vars
  BY TypeCorrect, <1>1, PTL DEF Spec
<1> QED  BY <1>2 DEF EveryStepMovesOn

=============================================================================
