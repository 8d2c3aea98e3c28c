--------------------------- MODULE SfEngineProof ---------------------------
(***************************************************************************)
(* The safety of SfEngine for every number of threads, every set of search *)
(* requests, any GUI, and with or without spurious wake-ups: IInv of       *)
(* SfEngineInv is inductive and implies the properties that TLC checks.    *)
(***************************************************************************)
EXTENDS SfEngineInv, TLAPS

-----------------------------------------------------------------------------
(* Consequences of IInv in a single state.                                 *)

LEMMA MainIsThread == Main \in Tid
BY MaxThreadsAssumption DEF Main, Tid

\* A thread that is not busy is parked or gone, and has no job.
LEMMA QuietIsParked ==
  ASSUME IInv, NEW t \in Tid, Quiet(t)
  PROVE  place[t] \in {"absent", "parked"} /\ jobFunc[t] = NoJob /\ job[t] = NoJob /\ ~exit[t]
BY DEF IInv, TypeOK, ThreadTypeOK, ThreadInv, Places, SearchPlaces, Quiet

\* A thread is in a search only while the UCI thread keeps its hands off the pool.
LEMMA SearchOnlyAtHands ==
  ASSUME IInv, NEW t \in Tid, job[t] = "search" PROVE at \in Hands
<1>1. /\ jobFunc[t] = NoJob /\ searching[t] /\ ~exit[t]
  BY DEF IInv, TypeOK, ThreadTypeOK, ThreadInv, Places, SearchPlaces, NoJob
<1>2. CASE at \in Broadcasting
  BY <1>1, <1>2 DEF IInv, TypeOK, UciTypeOK, JobInv, Only, Has, NoJob
<1>3. CASE at \notin Broadcasting \cup Hands
  BY <1>1, <1>3 DEF IInv, TypeOK, UciTypeOK, Stations, JobInv, Quiet, Only, Has, NoJob,
                    Broadcasting, Hands
<1> QED BY <1>2, <1>3

\* In its search job the main thread finds HelperInv.
LEMMA MainSearches ==
  ASSUME IInv, place[Main] \in SearchPlaces \/ (place[Main] = "run" /\ job[Main] = "search")
  PROVE  at \in Hands /\ HelperInv /\ job[Main] = "search" /\ searching[Main] /\ ~exit[Main]
<1>1. job[Main] = "search" BY MainIsThread DEF IInv, ThreadInv
<1>2. at \in Hands BY <1>1, MainIsThread, SearchOnlyAtHands
<1> QED BY <1>1, <1>2, MainIsThread DEF IInv, JobInv, ThreadInv

\* The UCI thread and the main search thread never wait for the same thread.
LEMMA OutsidersApart ==
  ASSUME IInv, NEW t \in Tid, "main" \in cv[t]
  PROVE  at \in Hands /\ t # Main /\ "uci" \notin cv[t]
<1>1. t # Main /\ job[Main] = "search"
  BY MainIsThread DEF IInv, WaiterInv, ThreadInv, SearchPlaces
<1>2. at \in Hands BY MainIsThread, <1>1, SearchOnlyAtHands
<1> QED BY <1>1, <1>2 DEF IInv, WaiterInv, Waiting, Awaited, Hands

\* While a notification is outstanding only the thread itself may be blocked, so the
\* notification cannot go to anybody else.
LEMMA NotifierAlone ==
  ASSUME IInv, NEW t \in Tid, NotifyPending(t) PROVE cv[t] \subseteq {"owner"}
<1>1. cv[t] \subseteq Roles BY DEF IInv, TypeOK, ThreadTypeOK
<1>2. "main" \notin cv[t]
  BY OutsidersApart DEF IInv, WaiterInv, NotifyPending, Hands
<1>3. place[Main] = "helperNotify" => at \in Hands /\ helper # Main
  BY MainSearches DEF SearchPlaces, HelperInv, Main
<1>4. "uci" \notin cv[t]
  BY <1>3 DEF IInv, WaiterInv, Waiting, Awaited, NotifyPending, Hands
<1> QED BY <1>1, <1>2, <1>4 DEF Roles

-----------------------------------------------------------------------------
(* Types.                                                                  *)

LEMMA ThreadTypeStep == ASSUME IInv, [Next]_vars PROVE ThreadTypeOK'
<1> USE DEF ThreadTypeOK, Next, vars, threadVars,
      Gui, ReadStop, ReadPonderhit, ReadPosition, ReadQuit, ReadGo, ReadSetThreads, ReadSimple,
      Uci, UciBlocks, MainIsIdle, HelperIsIdle, PoolIsIdle, Prepare, Post, Notify, JoinNext,
      StartMain, NotifyMain, ExitPost, ExitNotify, ExitJoin, Spawn, Spawned, BuildPost,
      BuildNotify, Built, Exited,
      IdleLoop, Park, ParkAgain, Leave, TakeJob, Spurious, RunSetup, RunOther,
      Block, PostJob, NotifyOne, Launch, Join, JobDone,
      SearchStep, HelperBegins, MateFound, SeeStop, ReachDepth, LeaveIterations, Goto, Raise,
      MainSearch, NoMovesAnswer, MainBegins, StartHelper, NotifyHelper, HelpersStarted,
      CheckTime, TimeUsed, FailLow, EndBusyWait, AwaitHelper, HelpersFinished, Bestmove
<1>0. ThreadTypeOK /\ UciTypeOK BY DEF IInv, TypeOK
<1>1. (searching \in [Tid -> BOOLEAN])' BY <1>0
<1>2. (jobFunc \in [Tid -> Jobs \cup {NoJob}])' BY <1>0 DEF UciTypeOK, Jobs
<1>3. (exit \in [Tid -> BOOLEAN])' BY <1>0
<1>4. (cv \in [Tid -> SUBSET Roles])' BY <1>0 DEF Notified, Roles
<1>5. (place \in [Tid -> Places])' BY <1>0 DEF Places, SearchPlaces
<1>6. (job \in [Tid -> Jobs \cup {NoJob}])' BY <1>0
<1> QED BY <1>1, <1>2, <1>3, <1>4, <1>5, <1>6

LEMMA SearchTypeStep == ASSUME IInv, [Next]_vars PROVE SearchTypeOK'
<1> USE DEF SearchTypeOK, Next, vars, searchVars,
      Gui, ReadStop, ReadPonderhit, ReadPosition, ReadQuit, ReadGo, ReadSetThreads, ReadSimple,
      Uci, UciBlocks, MainIsIdle, HelperIsIdle, PoolIsIdle, Post, Notify, JoinNext,
      StartMain, NotifyMain, ExitPost, ExitNotify, ExitJoin, Spawn, Spawned, BuildPost,
      BuildNotify, Built, Exited,
      RunSetup, RunOther, SearchStep, HelperBegins, MateFound, SeeStop, ReachDepth,
      LeaveIterations, Raise,
      MainSearch, NoMovesAnswer, MainBegins, StartHelper, NotifyHelper, HelpersStarted,
      CheckTime, TimeUsed, FailLow, EndBusyWait, AwaitHelper, HelpersFinished, Bestmove
<1>0. SearchTypeOK /\ UciTypeOK BY DEF IInv, TypeOK
<1>1. (size \in 0 .. MaxThreads)'
  <2>1. CASE Built
    <3>1. nth < MaxThreads /\ size' = nth + 1 BY <2>1 DEF IInv, PoolInv, Building
    <3> QED BY <1>0, <3>1, MaxThreadsAssumption DEF UciTypeOK
  <2>2. CASE ~Built BY <1>0, <2>2, MaxThreadsAssumption DEF Prepare
  <2> QED BY <2>1, <2>2
<1>2. (stop \in BOOLEAN)' BY <1>0 DEF Prepare
<1>3. (ponder \in BOOLEAN)'
  <2>1. CASE Prepare BY <2>1 DEF Prepare
  <2>2. CASE ~Prepare BY <1>0, <2>2
  <2> QED BY <2>1, <2>2
<1>4. (stopOnPonderhit \in BOOLEAN)' BY <1>0 DEF Prepare
<1>5. (root \in [Tid -> RootData])' BY <1>0 DEF Prepare, UciTypeOK, RootData
<1>6. (helper \in 0 .. MaxThreads)'
  <2>1. place[Main] = "helperNotify" => helper < size
    BY MainSearches DEF SearchPlaces, HelperInv
  <2> QED BY <1>0, <2>1, MaxThreadsAssumption DEF Prepare
<1>7. (owed \in Int)' BY <1>0 DEF Prepare
<1> QED BY <1>1, <1>2, <1>3, <1>4, <1>5, <1>6, <1>7

LEMMA UciTypeStep == ASSUME IInv, [Next]_vars PROVE UciTypeOK'
<1> USE DEF UciTypeOK, Next, vars, uciVars, UciAt, Broadcast, Joined, Read,
      Gui, ReadStop, ReadPonderhit, ReadPosition, ReadQuit, ReadGo, ReadSetThreads, ReadSimple,
      Uci, UciBlocks, MainIsIdle, HelperIsIdle, PoolIsIdle, Prepare, Post, Notify, JoinNext,
      StartMain, NotifyMain, ExitPost, ExitNotify, ExitJoin, Spawn, Spawned, BuildPost,
      BuildNotify, Built, Exited, RunSetup, RunOther
<1>0. UciTypeOK /\ SearchTypeOK BY DEF IInv, TypeOK
<1>1. (at \in Stations)' BY <1>0 DEF Stations
<1>2. (cmd \in Cmds)' BY <1>0 DEF Cmds
<1>3. (batch \in {"setup", "clear", "zero"})' BY <1>0
<1>4. (nth \in 0 .. MaxThreads)'
  BY <1>0, MaxThreadsAssumption DEF SearchTypeOK, IInv, PoolInv, Building
<1>5. (requested \in 1 .. MaxThreads)' BY <1>0
<1>6. (asked \subseteq Flags)' BY <1>0, SearchesAssumption
<1>7. (states \in StateLists \cup {NoStates} /\ setupStates \in StateLists \cup {NoStates})'
  <2>1. CASE ReadPosition BY <1>0, <2>1 DEF StateLists, NoStates
  <2>2. CASE ~ReadPosition BY <1>0, <2>2
  <2> QED BY <2>1, <2>2
<1>8. (gui \in {"none", "ponderhit", "stop"})' BY <1>0
<1> QED BY <1>1, <1>2, <1>3, <1>4, <1>5, <1>6, <1>7, <1>8
-----------------------------------------------------------------------------
(* The other parts of IInv, each preserved by every step.                  *)

LEMMA CmdStep == ASSUME IInv, [Next]_vars PROVE CmdInv'
<1> USE DEF IInv, CmdInv, TypeOK, UciTypeOK, Broadcasting, Destroying, Building,
      UciAt, Broadcast, Joined, Read, vars, uciVars
<1>1. CASE Gui
  BY <1>1 DEF Gui, ReadStop, ReadPonderhit, ReadPosition, ReadQuit, ReadGo, ReadSetThreads, ReadSimple
<1>2. CASE Uci
  BY <1>2 DEF Uci, UciBlocks, MainIsIdle, HelperIsIdle, PoolIsIdle, Prepare, Post, Notify,
              JoinNext, StartMain, NotifyMain, ExitPost, ExitNotify, ExitJoin, Spawn, Spawned,
              BuildPost, BuildNotify, Built
<1>3. CASE UNCHANGED uciVars BY <1>3
<1> QED BY <1>1, <1>2, <1>3 DEF Next, RunSetup, RunOther, Exited

LEMMA PoolStep == ASSUME IInv, [Next]_vars PROVE PoolInv'
<1> USE MaxThreadsAssumption DEF IInv, PoolInv, TypeOK, ThreadTypeOK, SearchTypeOK, UciTypeOK, Tid,
      Broadcasting, Destroying, Building, UciAt, Broadcast, vars, threadVars, searchVars, uciVars
<1>1. CASE Gui
  BY <1>1 DEF Gui, ReadStop, ReadPonderhit, ReadPosition, ReadQuit, ReadGo, ReadSetThreads,
              ReadSimple, Read
<1>2. CASE UciBlocks \/ MainIsIdle \/ HelperIsIdle \/ PoolIsIdle \/ Prepare
  BY <1>2 DEF UciBlocks, MainIsIdle, HelperIsIdle, PoolIsIdle, Prepare, Block
<1>3. CASE Post \/ StartMain \/ ExitPost \/ BuildPost \/ Spawned
  BY <1>3 DEF Post, StartMain, ExitPost, BuildPost, Spawned, PostJob
<1>4. CASE Notify \/ NotifyMain \/ ExitNotify \/ BuildNotify
  BY <1>4 DEF Notify, NotifyMain, ExitNotify, BuildNotify, NotifyOne
<1>5. CASE JoinNext \/ Built
  BY <1>5 DEF JoinNext, Built, Joined
<1>6. CASE Spawn \/ ExitJoin
  BY <1>6 DEF Spawn, ExitJoin, Launch, Join
<1>7. ASSUME NEW t \in Tid, IdleLoop(t) \/ Spurious(t), UNCHANGED <<searchVars, uciVars>>
      PROVE  PoolInv'
  BY <1>7 DEF IdleLoop, Park, ParkAgain, Leave, TakeJob, Spurious
<1>8. ASSUME NEW t \in Tid, RunSetup(t) \/ RunOther(t) PROVE PoolInv'
  BY <1>8 DEF RunSetup, RunOther, JobDone
<1>9. ASSUME NEW t \in Tid, SearchStep(t), UNCHANGED uciVars PROVE PoolInv'
  BY <1>9 DEF SearchStep, HelperBegins, MateFound, SeeStop, ReachDepth, LeaveIterations, Goto,
              JobDone, Raise
<1>10. CASE MainSearch /\ UNCHANGED uciVars
  BY <1>10, MainIsThread DEF MainSearch, NoMovesAnswer, MainBegins, StartHelper, NotifyHelper,
     HelpersStarted, CheckTime, TimeUsed, FailLow, EndBusyWait, AwaitHelper, HelpersFinished,
     Bestmove, Goto, JobDone, Raise, Block, PostJob
<1>11. CASE UNCHANGED vars BY <1>11
<1> QED BY <1>1, <1>2, <1>3, <1>4, <1>5, <1>6, <1>7, <1>8, <1>9, <1>10, <1>11 DEF Next, Uci, Exited

\* The thread that is handed a job is parked.
LEMMA Target ==
  ASSUME IInv, NEW t \in Tid, Quiet(t), t < size, at \notin Destroying \/ t >= nth
  PROVE  place[t] = "parked" /\ jobFunc[t] = NoJob /\ job[t] = NoJob /\ ~exit[t]
BY QuietIsParked DEF IInv, PoolInv

LEMMA ThreadStep == ASSUME IInv, [Next]_vars PROVE ThreadInv'
<1> USE MaxThreadsAssumption DEF IInv, ThreadInv, TypeOK, ThreadTypeOK, Tid, NoJob,
      SearchPlaces, UciAt, vars, threadVars, searchVars, uciVars
<1>1. CASE Gui
  BY <1>1 DEF Gui, ReadStop, ReadPonderhit, ReadPosition, ReadQuit, ReadGo, ReadSetThreads, ReadSimple
<1>2. CASE UciBlocks \/ MainIsIdle \/ HelperIsIdle \/ PoolIsIdle \/ Prepare
           \/ JoinNext \/ Spawned \/ Built
  BY <1>2 DEF UciBlocks, MainIsIdle, HelperIsIdle, PoolIsIdle, Prepare, JoinNext, Spawned, Built,
              Waiting, Block
<1>3. CASE Post \/ StartMain \/ ExitPost \/ BuildPost
  <2> USE DEF UciTypeOK, SearchTypeOK, PoolInv, Broadcasting, Destroying, Building, PostJob,
              Finished, Places, Main
  <2>1. CASE Post BY <1>3, <2>1 DEF Post
  <2>2. CASE StartMain BY <1>3, <2>2 DEF StartMain
  <2>3. CASE ExitPost BY <1>3, <2>3 DEF ExitPost
  <2>4. CASE BuildPost BY <1>3, <2>4 DEF BuildPost
  <2> QED BY <1>3, <2>1, <2>2, <2>3, <2>4
<1>4. CASE Notify \/ NotifyMain \/ ExitNotify \/ BuildNotify
  <2>1. CASE Notify BY <2>1 DEF Notify, NotifyOne, Notified
  <2>2. CASE NotifyMain BY <2>2 DEF NotifyMain, NotifyOne, Notified
  <2>3. CASE ExitNotify BY <2>3 DEF ExitNotify, NotifyOne, Notified
  <2>4. CASE BuildNotify BY <2>4 DEF BuildNotify, NotifyOne, Notified
  <2> QED BY <1>4, <2>1, <2>2, <2>3, <2>4
<1>5. CASE Spawn \/ ExitJoin
  BY <1>5 DEF Spawn, ExitJoin, Launch, Join
<1>6. ASSUME NEW t \in Tid, IdleLoop(t) \/ Spurious(t), UNCHANGED <<searchVars, uciVars>>
      PROVE  ThreadInv'
  BY <1>6 DEF IdleLoop, Park, ParkAgain, Leave, TakeJob, Spurious, Notified
<1>7. ASSUME NEW t \in Tid, RunSetup(t) \/ RunOther(t) PROVE ThreadInv'
  BY <1>7 DEF RunSetup, RunOther, JobDone
<1>8. ASSUME NEW t \in Tid, SearchStep(t), UNCHANGED uciVars PROVE ThreadInv'
  <2>1. CASE MateFound(t) BY <1>8, <2>1 DEF MateFound, Raise
  <2>2. CASE ~MateFound(t)
    BY <1>8, <2>2 DEF SearchStep, HelperBegins, SeeStop, ReachDepth, LeaveIterations, Goto, JobDone
  <2> QED BY <2>1, <2>2
<1>9. CASE StartHelper /\ UNCHANGED uciVars
  <2>1. CASE Block("main", helper) BY <1>9, <2>1 DEF StartHelper, Block
  <2>2. CASE PostJob("main", helper, "search")
    <3>1. at \in Hands /\ helper \in Tid \ {Main} /\ helper < size /\ Quiet(helper)
      BY <1>9, <2>2, MainSearches DEF StartHelper, PostJob, Finished, Quiet, HelperInv, Main,
         SearchTypeOK
    <3>2. place[helper] = "parked" /\ ~exit[helper]
      BY <3>1, Target DEF Hands, Destroying
    <3>3. place' = [place EXCEPT ![Main] = "helperNotify"] /\ place[Main] = "helper"
      BY <1>9, <2>2, MainIsThread, <3>1, <3>2 DEF StartHelper, Block, PostJob, Finished
    <3> QED BY <2>2, <3>1, <3>2, <3>3, MainIsThread, <1>9 DEF StartHelper, PostJob, Block, Finished
  <2> QED BY <1>9, <2>1, <2>2 DEF StartHelper
<1>10. CASE MainSearch /\ ~StartHelper /\ UNCHANGED uciVars
  BY <1>10, MainIsThread DEF MainSearch, NoMovesAnswer, MainBegins, NotifyHelper, Notified,
     HelpersStarted, CheckTime, TimeUsed, FailLow, EndBusyWait, AwaitHelper, HelpersFinished,
     Bestmove, Goto, JobDone, Raise, Block
<1>11. CASE UNCHANGED vars BY <1>11
<1> QED BY <1>1, <1>2, <1>3, <1>4, <1>5, <1>6, <1>7, <1>8, <1>9, <1>10, <1>11 DEF Next, Uci, Exited

LEMMA JobStep == ASSUME IInv, [Next]_vars PROVE JobInv'
<1> USE MaxThreadsAssumption
    DEF IInv, JobInv, HelperInv, Only, Has, Quiet, ThreadInv, CmdInv, PoolInv, TypeOK, ThreadTypeOK,
      SearchTypeOK, UciTypeOK, Tid, Main, NoJob, SearchPlaces, Places, Jobs, Hands, Broadcasting,
      Destroying, Building, UciAt, Broadcast, Joined, vars, threadVars, searchVars, uciVars
<1>1. CASE Gui
  <2>1. CASE ReadStop \/ ReadPonderhit \/ ReadPosition BY <2>1 DEF ReadStop, ReadPonderhit, ReadPosition
  <2>2. CASE ReadQuit BY <2>2 DEF ReadQuit, Read
  <2>3. CASE \E l \in Searches : ReadGo(l) BY <2>3 DEF ReadGo, Read
  <2>4. CASE \E n \in 1 .. MaxThreads : ReadSetThreads(n) BY <2>4 DEF ReadSetThreads, Read
  <2>5. CASE \E c \in {"hash", "newgame"} : ReadSimple(c) BY <2>5 DEF ReadSimple, Read
  <2> QED BY <1>1, <2>1, <2>2, <2>3, <2>4, <2>5 DEF Gui
<1>2. CASE UciBlocks \/ MainIsIdle \/ HelperIsIdle \/ PoolIsIdle \/ Prepare
  <2>1. CASE UciBlocks BY <2>1 DEF UciBlocks, Waiting, Block
  <2>2. CASE MainIsIdle BY <2>2 DEF MainIsIdle, Finished
  <2>3. CASE HelperIsIdle BY <2>3 DEF HelperIsIdle, Finished
  <2>4. CASE PoolIsIdle BY <2>4 DEF PoolIsIdle, Finished
  <2>5. CASE Prepare BY <2>5 DEF Prepare
  <2> QED BY <1>2, <2>1, <2>2, <2>3, <2>4, <2>5
<1>3. CASE Post \/ StartMain \/ ExitPost \/ BuildPost
  <2>1. CASE Post BY <2>1 DEF Post, PostJob
  <2>2. CASE StartMain BY <2>2 DEF StartMain, PostJob
  <2>3. CASE ExitPost BY <2>3 DEF ExitPost, PostJob
  <2>4. CASE BuildPost BY <2>4 DEF BuildPost, PostJob
  <2> QED BY <1>3, <2>1, <2>2, <2>3, <2>4
<1>4. CASE Notify \/ NotifyMain \/ ExitNotify \/ BuildNotify
  <2>1. CASE Notify BY <2>1 DEF Notify, NotifyOne
  <2>2. CASE NotifyMain BY <2>2 DEF NotifyMain, NotifyOne
  <2>3. CASE ExitNotify BY <2>3 DEF ExitNotify, NotifyOne
  <2>4. CASE BuildNotify BY <2>4 DEF BuildNotify, NotifyOne
  <2> QED BY <1>4, <2>1, <2>2, <2>3, <2>4
<1>5. CASE JoinNext \/ Spawned \/ Built
  <2>1. CASE JoinNext BY <2>1 DEF JoinNext, Finished
  <2>2. CASE Spawned BY <2>2 DEF Spawned, Finished
  <2>3. CASE Built BY <2>3 DEF Built, Finished
  <2> QED BY <1>5, <2>1, <2>2, <2>3
<1>6. CASE Spawn BY <1>6 DEF Spawn, Launch
<1>7. CASE ExitJoin BY <1>7 DEF ExitJoin, Join
<1>8. ASSUME NEW t \in Tid, UNCHANGED <<searchVars, uciVars>>,
             Park(t) \/ ParkAgain(t) \/ Spurious(t)
      PROVE  JobInv'
  BY <1>8 DEF Park, ParkAgain, Spurious, Notified
<1>9. ASSUME NEW t \in Tid, UNCHANGED <<searchVars, uciVars>>, Leave(t) PROVE JobInv'
  BY <1>9 DEF Leave
<1>10. ASSUME NEW t \in Tid, UNCHANGED <<searchVars, uciVars>>, TakeJob(t) PROVE JobInv'
  BY <1>10 DEF TakeJob
<1>11. ASSUME NEW t \in Tid, RunSetup(t) \/ RunOther(t) PROVE JobInv'
  <2>1. CASE RunSetup(t) BY <1>11, <2>1 DEF RunSetup, JobDone
  <2>2. CASE RunOther(t)
    <3>1. /\ at \notin Hands /\ job[t] # "search" /\ searching[t] /\ place[t] = "run"
          /\ jobFunc[t] = NoJob /\ exit' = exit /\ searching' = searching
      BY <2>2 DEF RunOther
    <3>2. /\ place' = [place EXCEPT ![t] = "idle"] /\ job' = [job EXCEPT ![t] = NoJob]
          /\ UNCHANGED <<jobFunc, cv, size, stop, helper, uciVars>>
      BY <2>2 DEF RunOther, JobDone
    <3> QED BY <3>1, <3>2
  <2> QED BY <1>11, <2>1, <2>2
<1>12. ASSUME NEW t \in Tid, SearchStep(t), UNCHANGED uciVars PROVE JobInv'
  <2>1. CASE HelperBegins(t) BY <1>12, <2>1 DEF HelperBegins, Goto
  <2>2. CASE MateFound(t) BY <1>12, <2>2 DEF MateFound, Raise
  <2>3. CASE SeeStop(t) \/ ReachDepth(t)
    BY <1>12, <2>3 DEF SeeStop, ReachDepth, LeaveIterations, Goto, JobDone
  <2> QED BY <1>12, <2>1, <2>2, <2>3 DEF SearchStep
<1>13. CASE StartHelper /\ UNCHANGED uciVars
  <2>1. CASE Block("main", helper) BY <1>13, <2>1 DEF StartHelper, Block
  <2>2. CASE PostJob("main", helper, "search")
    <3>1. at \in Hands /\ HelperInv BY <1>13, MainSearches DEF StartHelper
    <3>2. /\ place[Main] = "helper" /\ place' = [place EXCEPT ![Main] = "helperNotify"]
          /\ helper < size /\ helper \in Tid \ {Main} /\ helper' = helper /\ size' = size
          /\ exit' = exit /\ stop' = stop /\ at' = at
      BY <1>13, <2>2, <3>1 DEF StartHelper, Block, PostJob, Finished
    <3>3. /\ jobFunc' = [jobFunc EXCEPT ![helper] = "search"] /\ job' = job
          /\ searching' = [searching EXCEPT ![helper] = TRUE]
      BY <2>2 DEF PostJob
    <3>4. \A t \in Tid : Only(t, "search")'
      BY <3>1, <3>2, <3>3
    <3>5. HelperInv'
      BY <3>1, <3>2, <3>3
    <3> QED BY <3>1, <3>2, <3>4, <3>5
  <2> QED BY <1>13, <2>1, <2>2 DEF StartHelper
<1>14. CASE NotifyHelper /\ UNCHANGED uciVars
  BY <1>14 DEF NotifyHelper, Notified, Goto
<1>15. CASE (CheckTime \/ TimeUsed \/ FailLow \/ EndBusyWait) /\ UNCHANGED uciVars
  BY <1>15 DEF CheckTime, TimeUsed, FailLow, EndBusyWait, Goto, Raise
<1>16. CASE (NoMovesAnswer \/ MainBegins \/ HelpersStarted) /\ UNCHANGED uciVars
  BY <1>16 DEF NoMovesAnswer, MainBegins, HelpersStarted, Goto, JobDone
<1>17. CASE (AwaitHelper \/ HelpersFinished \/ Bestmove) /\ UNCHANGED uciVars
  BY <1>17 DEF AwaitHelper, HelpersFinished, Bestmove, Goto, JobDone, Block, Finished
<1>18. CASE UNCHANGED vars BY <1>18
<1> QED
  BY <1>1, <1>2, <1>3, <1>4, <1>5, <1>6, <1>7, <1>8, <1>9, <1>10, <1>11, <1>12, <1>13, <1>14,
     <1>15, <1>16, <1>17, <1>18
  DEF Next, Uci, IdleLoop, MainSearch, Exited

LEMMA OneAnswerStep == ASSUME IInv, [Next]_vars PROVE OneAnswerPerGo'
<1> USE MaxThreadsAssumption
    DEF IInv, OneAnswerPerGo, GoUnderWay, Searching, Has, CmdInv, JobInv, Only, Quiet, ThreadInv,
      PoolInv, TypeOK, ThreadTypeOK, SearchTypeOK, UciTypeOK, Tid, Main, NoJob, SearchPlaces, Jobs,
      Hands, Broadcasting, Destroying, Building, UciAt, Broadcast, Joined, vars, threadVars,
      searchVars, uciVars
<1>1. CASE Gui
  BY <1>1 DEF Gui, ReadStop, ReadPonderhit, ReadPosition, ReadQuit, ReadGo, ReadSetThreads,
              ReadSimple, Read
<1>2. CASE UciBlocks \/ MainIsIdle \/ HelperIsIdle \/ PoolIsIdle \/ Prepare \/ Spawned
  BY <1>2 DEF UciBlocks, MainIsIdle, HelperIsIdle, PoolIsIdle, Prepare, Spawned, Waiting, Block
<1>3. CASE Post BY <1>3, QuietIsParked, MainIsThread DEF Post, PostJob, Finished
<1>4. CASE StartMain BY <1>4, QuietIsParked, MainIsThread DEF StartMain, PostJob, Finished
<1>5. CASE ExitPost BY <1>5, QuietIsParked, MainIsThread DEF ExitPost, PostJob, Finished
<1>6. CASE BuildPost BY <1>6, QuietIsParked, MainIsThread DEF BuildPost, PostJob, Finished
<1>7. CASE Notify \/ NotifyMain \/ ExitNotify \/ BuildNotify
  BY <1>7 DEF Notify, NotifyMain, ExitNotify, BuildNotify, NotifyOne
<1>8. CASE JoinNext BY <1>8 DEF JoinNext
<1>9. CASE Built BY <1>9 DEF Built
<1>10. CASE Spawn \/ ExitJoin BY <1>10 DEF Spawn, ExitJoin, Launch, Join
<1>11. ASSUME NEW t \in Tid, IdleLoop(t) \/ Spurious(t), UNCHANGED <<searchVars, uciVars>>
       PROVE  OneAnswerPerGo'
  BY <1>11 DEF IdleLoop, Park, ParkAgain, Leave, TakeJob, Spurious
<1>12. ASSUME NEW t \in Tid, RunSetup(t) \/ RunOther(t) PROVE OneAnswerPerGo'
  BY <1>12 DEF RunSetup, RunOther, JobDone
<1>13. ASSUME NEW t \in Tid, SearchStep(t), UNCHANGED uciVars PROVE OneAnswerPerGo'
  BY <1>13 DEF SearchStep, HelperBegins, MateFound, SeeStop, ReachDepth, LeaveIterations, Goto,
               JobDone, Raise
<1>14. CASE StartHelper /\ UNCHANGED uciVars
  BY <1>14, MainSearches DEF StartHelper, Block, PostJob, HelperInv
<1>15. CASE MainSearch /\ ~StartHelper /\ UNCHANGED uciVars
  BY <1>15 DEF MainSearch, NoMovesAnswer, MainBegins, NotifyHelper,
     HelpersStarted, CheckTime, TimeUsed, FailLow, EndBusyWait, AwaitHelper, HelpersFinished,
     Bestmove, Goto, JobDone, Raise, Block
<1>16. CASE UNCHANGED vars BY <1>16
<1> QED
  BY <1>1, <1>2, <1>3, <1>4, <1>5, <1>6, <1>7, <1>8, <1>9, <1>10, <1>11, <1>12, <1>13, <1>14,
     <1>15, <1>16
  DEF Next, Uci, Exited

LEMMA WaiterStep == ASSUME IInv, [Next]_vars PROVE WaiterInv'
<1> USE MaxThreadsAssumption
    DEF IInv, WaiterInv, Waiting, Awaited, TypeOK, ThreadTypeOK, SearchTypeOK, UciTypeOK, Tid,
      Broadcasting, Destroying, Building, UciAt, Broadcast, Joined, vars, threadVars, searchVars,
      uciVars
<1>1. CASE Gui
  BY <1>1 DEF Gui, ReadStop, ReadPonderhit, ReadPosition, ReadQuit, ReadGo, ReadSetThreads,
              ReadSimple, Read
<1>2. CASE UciBlocks BY <1>2 DEF UciBlocks, Block, PoolInv
<1>3. CASE MainIsIdle \/ HelperIsIdle \/ PoolIsIdle \/ Prepare
  BY <1>3 DEF MainIsIdle, HelperIsIdle, PoolIsIdle, Prepare, Finished
<1>4. CASE Post \/ StartMain \/ ExitPost \/ BuildPost
  <2>1. \A t \in Tid : "uci" \notin cv[t]
    BY <1>4 DEF Post, StartMain, ExitPost, BuildPost, PostJob, Finished
  <2>2. cv' = cv /\ place' = place /\ helper' = helper /\ size' = size
    BY <1>4 DEF Post, StartMain, ExitPost, BuildPost, PostJob
  <2> QED BY <2>1, <2>2
<1>5. CASE Notify \/ NotifyMain \/ ExitNotify \/ BuildNotify
  <2>1. \A t \in Tid : "uci" \notin cv[t]
    BY <1>5 DEF Notify, NotifyMain, ExitNotify, BuildNotify
  <2>2. \A t \in Tid : cv'[t] \subseteq cv[t]
    <3>1. PICK u : NotifyOne(u) BY <1>5 DEF Notify, NotifyMain, ExitNotify, BuildNotify
    <3> QED BY <3>1 DEF NotifyOne, Notified
  <2>3. UNCHANGED <<place, helper, size>>
    BY <1>5 DEF Notify, NotifyMain, ExitNotify, BuildNotify, NotifyOne
  <2> QED BY <2>1, <2>2, <2>3
<1>6. CASE JoinNext \/ Spawned \/ Built
  <2>1. \A t \in Tid : "uci" \notin cv[t]
    BY <1>6 DEF JoinNext, Spawned, Built, Finished
  <2>2. \A t \in Tid : "main" \notin cv[t]
    BY <1>6, OutsidersApart DEF JoinNext, Spawned, Built, Hands
  <2>3. \A t \in Tid : cv[t] \subseteq {"owner"} BY <2>1, <2>2 DEF Roles
  <2> QED BY <1>6, <2>3 DEF JoinNext, Spawned, Built
<1>7. CASE Spawn \/ ExitJoin
  <2>1. \A t \in Tid : cv[t] \subseteq {"owner"}
    BY <1>7, OutsidersApart DEF Spawn, ExitJoin, Roles, Hands
  <2> QED BY <1>7, <2>1 DEF Spawn, ExitJoin, Launch, Join
<1>8. ASSUME NEW t \in Tid, IdleLoop(t) \/ Spurious(t), UNCHANGED <<searchVars, uciVars>>
      PROVE  WaiterInv'
  <2>1. \A s \in Tid : cv'[s] \subseteq cv[s] \cup {"owner"}
    <3>1. CASE Park(t)
      <4>1. PICK W \in Notified(cv[t]) : cv' = [cv EXCEPT ![t] = W \cup {"owner"}]
        BY <3>1 DEF Park
      <4>2. W \subseteq cv[t] BY <4>1 DEF Notified
      <4> QED BY <4>1, <4>2
    <3>2. CASE ParkAgain(t) \/ Leave(t) \/ TakeJob(t) \/ Spurious(t)
      BY <3>2 DEF ParkAgain, Leave, TakeJob, Spurious
    <3> QED BY <1>8, <3>1, <3>2 DEF IdleLoop
  <2>2. place[Main] \in {"helper", "helperJoin"} => place'[Main] = place[Main]
    BY <1>8, MainIsThread DEF IdleLoop, Park, ParkAgain, Leave, TakeJob, Spurious
  <2> QED BY <1>8, <2>1, <2>2
<1>9. ASSUME NEW t \in Tid, RunSetup(t) \/ RunOther(t) PROVE WaiterInv'
  BY <1>9, MainIsThread DEF RunSetup, RunOther, JobDone
<1>10. ASSUME NEW t \in Tid, SearchStep(t), UNCHANGED uciVars PROVE WaiterInv'
  BY <1>10, MainIsThread DEF SearchStep, HelperBegins, MateFound, SeeStop, ReachDepth,
     LeaveIterations, Goto, JobDone, Raise
<1>11. CASE (StartHelper \/ AwaitHelper) /\ UNCHANGED uciVars
  <2>1. helper > 0 /\ helper < size
    BY <1>11, MainSearches DEF StartHelper, AwaitHelper, HelperInv, SearchPlaces
  <2>2. CASE Block("main", helper)
    <3>1. UNCHANGED <<place, helper, size, at, nth>> /\ place[Main] \in {"helper", "helperJoin"}
      BY <1>11, <2>2 DEF StartHelper, AwaitHelper, Block, PostJob, Finished
    <3> QED BY <2>1, <2>2, <3>1 DEF Block, Main
  <2>3. CASE Finished("main", helper)
    <3>1. \A t \in Tid : "main" \notin cv[t] BY <2>3 DEF Finished
    <3>2. cv' = cv /\ size' = size /\ at' = at /\ nth' = nth
      BY <1>11, <2>3 DEF StartHelper, AwaitHelper, Block, PostJob, Finished
    <3> QED BY <3>1, <3>2
  <2> QED BY <1>11, <2>2, <2>3 DEF StartHelper, AwaitHelper, PostJob
<1>12. CASE NotifyHelper /\ UNCHANGED uciVars
  BY <1>12 DEF NotifyHelper, Notified, Goto
<1>13. CASE MainSearch /\ ~StartHelper /\ ~NotifyHelper /\ ~AwaitHelper /\ UNCHANGED uciVars
  BY <1>13, MainIsThread DEF MainSearch, NoMovesAnswer, MainBegins, HelpersStarted, CheckTime,
     TimeUsed, FailLow, EndBusyWait, HelpersFinished, Bestmove, Goto, JobDone, Raise
<1>14. CASE UNCHANGED vars BY <1>14
<1> QED
  BY <1>1, <1>2, <1>3, <1>4, <1>5, <1>6, <1>7, <1>8, <1>9, <1>10, <1>11, <1>12, <1>13, <1>14
  DEF Next, Uci, Exited

LEMMA RootStep == ASSUME IInv, [Next]_vars PROVE RootInv'
<1> USE MaxThreadsAssumption
    DEF IInv, RootInv, Has, Searching, TypeOK, ThreadTypeOK, SearchTypeOK, UciTypeOK, Tid, Main,
      NoJob, Hands, Broadcasting, Building, Destroying, Only, Quiet, JobInv, ThreadInv, PoolInv,
      CmdInv, SearchPlaces, NoStates, StateLists, RootData,
      UciAt, Broadcast, vars, threadVars, searchVars, uciVars
<1>1. CASE ReadPosition
  <2>1. states' \in StateLists BY <1>1 DEF ReadPosition
  <2> QED BY <1>1, <2>1 DEF ReadPosition
<1>2. CASE Gui /\ ~ReadPosition
  <2>1. CASE ReadStop \/ ReadPonderhit BY <2>1 DEF ReadStop, ReadPonderhit
  <2>2. CASE ReadQuit BY <2>2 DEF ReadQuit, Read
  <2>3. CASE \E l \in Searches : ReadGo(l) BY <2>3 DEF ReadGo, Read
  <2>4. CASE \E n \in 1 .. MaxThreads : ReadSetThreads(n) BY <2>4 DEF ReadSetThreads, Read
  <2>5. CASE \E c \in {"hash", "newgame"} : ReadSimple(c) BY <2>5 DEF ReadSimple, Read
  <2> QED BY <1>2, <2>1, <2>2, <2>3, <2>4, <2>5 DEF Gui
<1>3. CASE UciBlocks \/ MainIsIdle \/ HelperIsIdle \/ PoolIsIdle \/ Prepare \/ Spawned
  <2>1. CASE UciBlocks BY <2>1 DEF UciBlocks, Waiting, Block
  <2>2. CASE MainIsIdle BY <2>2 DEF MainIsIdle
  <2>3. CASE HelperIsIdle BY <2>3 DEF HelperIsIdle
  <2>4. CASE PoolIsIdle BY <2>4 DEF PoolIsIdle
  <2>5. CASE Prepare BY <2>5 DEF Prepare
  <2>6. CASE Spawned BY <2>6 DEF Spawned
  <2> QED BY <1>3, <2>1, <2>2, <2>3, <2>4, <2>5, <2>6
<1>4. CASE Post \/ StartMain \/ ExitPost \/ BuildPost
  <2>1. CASE Post BY <2>1 DEF Post, PostJob, Finished
  <2>2. CASE StartMain BY <2>2 DEF StartMain, PostJob, Finished
  <2>3. CASE ExitPost BY <2>3 DEF ExitPost, PostJob, Finished
  <2>4. CASE BuildPost BY <2>4 DEF BuildPost, PostJob, Finished
  <2> QED BY <1>4, <2>1, <2>2, <2>3, <2>4
<1>5. CASE Notify \/ NotifyMain \/ ExitNotify \/ BuildNotify
  <2>1. CASE Notify BY <2>1 DEF Notify, NotifyOne
  <2>2. CASE NotifyMain BY <2>2 DEF NotifyMain, NotifyOne
  <2>3. CASE ExitNotify BY <2>3 DEF ExitNotify, NotifyOne
  <2>4. CASE BuildNotify BY <2>4 DEF BuildNotify, NotifyOne
  <2> QED BY <1>5, <2>1, <2>2, <2>3, <2>4
<1>6. CASE JoinNext
  <2>1. CASE nth + 1 < size BY <1>6, <2>1 DEF JoinNext, Finished
  <2>2. CASE nth + 1 >= size /\ batch = "setup"
    <3>1. \A t \in Tid : t < size => ~searching[t]
      BY <1>6, <2>2 DEF JoinNext, Finished
    <3>2. \A t \in Tid : t < size => root[t] = [limits |-> asked, states |-> setupStates]
      BY <1>6, <2>2, <3>1, QuietIsParked DEF JoinNext
    <3> QED BY <1>6, <2>2, <3>2 DEF JoinNext, Joined
  <2>3. CASE nth + 1 >= size /\ batch # "setup"
    <3>1. \A t \in Tid : ~searching[t]
      BY <1>6, <2>3 DEF JoinNext, Finished
    <3>2. jobFunc[Main] = NoJob /\ job[Main] = NoJob BY <3>1, QuietIsParked, MainIsThread
    <3> QED BY <1>6, <2>3, <3>2 DEF JoinNext, Joined
  <2> QED BY <1>6, <2>1, <2>2, <2>3
<1>7. CASE Built BY <1>7 DEF Built
<1>8. CASE Spawn \/ ExitJoin BY <1>8 DEF Spawn, ExitJoin, Launch, Join
<1>9. ASSUME NEW t \in Tid, IdleLoop(t) \/ Spurious(t), UNCHANGED <<searchVars, uciVars>>
      PROVE  RootInv'
  BY <1>9 DEF IdleLoop, Park, ParkAgain, Leave, TakeJob, Spurious
<1>10. ASSUME NEW t \in Tid, RunSetup(t) PROVE RootInv'
  <2>1. at \in Broadcasting /\ batch = "setup"
    BY <1>10 DEF RunSetup, Stations
  <2>2. root' = [root EXCEPT ![t] = [limits |-> asked, states |-> setupStates]]
    BY <1>10 DEF RunSetup
  <2> QED BY <1>10, <2>1, <2>2 DEF RunSetup, JobDone
<1>11. ASSUME NEW t \in Tid, RunOther(t) PROVE RootInv'
  <2>1. CASE job[t] = "build"
    <3>1. at \in Building BY <1>11, <2>1 DEF RunOther, Stations
    <3> QED BY <1>11, <2>1, <3>1 DEF RunOther, JobDone
  <2>2. CASE job[t] # "build" BY <1>11, <2>2 DEF RunOther, JobDone
  <2> QED BY <2>1, <2>2
<1>12. ASSUME NEW t \in Tid, SearchStep(t), UNCHANGED uciVars PROVE RootInv'
  BY <1>12 DEF SearchStep, HelperBegins, MateFound, SeeStop, ReachDepth, LeaveIterations, Goto,
               JobDone, Raise
<1>13. CASE StartHelper /\ UNCHANGED uciVars
  BY <1>13, MainSearches DEF StartHelper, Block, PostJob, HelperInv
<1>14. CASE MainSearch /\ ~StartHelper /\ UNCHANGED uciVars
  BY <1>14 DEF MainSearch, NoMovesAnswer, MainBegins, NotifyHelper,
     HelpersStarted, CheckTime, TimeUsed, FailLow, EndBusyWait, AwaitHelper, HelpersFinished,
     Bestmove, Goto, JobDone, Raise, Block
<1>15. CASE UNCHANGED vars BY <1>15
<1> QED
  BY <1>1, <1>2, <1>3, <1>4, <1>5, <1>6, <1>7, <1>8, <1>9, <1>10, <1>11, <1>12, <1>13, <1>14, <1>15
  DEF Next, Uci, Exited

LEMMA WakeupStep == ASSUME IInv, [Next]_vars PROVE NoLostWakeup'
<1> USE DEF vars, threadVars, searchVars, uciVars, UciAt
<1>0. /\ NoLostWakeup /\ WaiterInv /\ ThreadInv /\ TypeOK
      /\ cv \in [Tid -> SUBSET Roles] /\ searching \in [Tid -> BOOLEAN]
      /\ place \in [Tid -> Places]
  BY DEF IInv, TypeOK, ThreadTypeOK
<1>1. ASSUME NEW t \in Tid, NotifyPending(t), \E W \in Notified(cv[t]) : cv' = [cv EXCEPT ![t] = W],
             searching' = searching, \A s \in Tid \ {t} : NotifyPending(s) => NotifyPending(s)'
      PROVE  NoLostWakeup'
  <2>1. cv' = [cv EXCEPT ![t] = {}]
    BY <1>0, <1>1, NotifierAlone DEF Notified
  <2> QED BY <1>0, <1>1, <2>1 DEF NoLostWakeup
<1>2. CASE Gui
  BY <1>0, <1>2 DEF NoLostWakeup, NotifyPending, Gui, ReadStop, ReadPonderhit, ReadPosition,
     ReadQuit, ReadGo, ReadSetThreads, ReadSimple, Read
<1>3. CASE UciBlocks
  BY <1>0, <1>3 DEF NoLostWakeup, NotifyPending, UciBlocks, Block
<1>4. CASE MainIsIdle \/ HelperIsIdle \/ PoolIsIdle \/ Prepare \/ JoinNext \/ Spawned \/ Built
  <2>1. cv' = cv /\ searching' = searching /\ place' = place /\ helper' = helper
    BY <1>4 DEF MainIsIdle, HelperIsIdle, PoolIsIdle, Prepare, JoinNext, Spawned, Built
  <2>2. at \notin {"notify", "exitNotify", "buildNotify", "notifyMain"}
    BY <1>4 DEF MainIsIdle, HelperIsIdle, PoolIsIdle, Prepare, JoinNext, Spawned, Built
  <2> QED BY <1>0, <2>1, <2>2 DEF NoLostWakeup, NotifyPending
<1>5. CASE Post \/ StartMain \/ ExitPost \/ BuildPost
  <2>0. at = "startMain" \/ nth \in Tid
    BY <1>5, MaxThreadsAssumption DEF Post, StartMain, ExitPost, BuildPost, IInv,
       PoolInv, Broadcasting, Destroying, Building, TypeOK, UciTypeOK, SearchTypeOK, Tid
  <2>1. PICK t \in Tid :
          /\ searching' = [searching EXCEPT ![t] = TRUE] /\ cv' = cv
          /\ NotifyPending(t)' /\ UNCHANGED <<place, helper>>
    BY <1>5, <2>0, MainIsThread DEF Post, StartMain, ExitPost, BuildPost, PostJob, NotifyPending
  <2>2. at \notin {"notify", "exitNotify", "buildNotify", "notifyMain"}
    BY <1>5 DEF Post, StartMain, ExitPost, BuildPost
  <2> QED BY <1>0, <2>1, <2>2 DEF NoLostWakeup, NotifyPending
<1>6. CASE Notify \/ ExitNotify \/ BuildNotify
  <2>1. nth \in Tid
    BY <1>6, MaxThreadsAssumption DEF Notify, ExitNotify, BuildNotify, IInv, PoolInv, Broadcasting,
       Destroying, Building, TypeOK, UciTypeOK, SearchTypeOK, Tid
  <2> QED BY <1>1, <1>6, <2>1 DEF Notify, ExitNotify, BuildNotify, NotifyOne, NotifyPending
<1>7. CASE NotifyMain
  BY <1>1, <1>7, MainIsThread DEF NotifyMain, NotifyOne, NotifyPending
<1>8. CASE Spawn \/ ExitJoin
  <2>0. nth \in Tid
    BY <1>8, MaxThreadsAssumption DEF Spawn, ExitJoin, IInv, PoolInv, Building, Destroying, TypeOK,
       UciTypeOK, SearchTypeOK, Tid
  <2>1. cv[nth] = {} \/ cv'[nth] = {}
    BY <1>0, <1>8, <2>0 DEF Spawn, ExitJoin, Launch, Join, ThreadInv
  <2>2. at \notin {"notify", "exitNotify", "buildNotify", "notifyMain"}
    BY <1>8 DEF Spawn, ExitJoin
  <2>3. \A t \in Tid \ {nth} : cv'[t] = cv[t] /\ searching'[t] = searching[t] /\ place'[t] = place[t]
    BY <1>0, <1>8, <2>0 DEF Spawn, ExitJoin, Launch, Join
  <2>4. /\ cv'[nth] = {}
        /\ place'[Main] = "helperNotify" => place[Main] = "helperNotify"
        /\ place[Main] = "helperNotify" => place'[Main] = "helperNotify"
    BY <1>0, <1>8, <2>0, <2>1, MainIsThread DEF Spawn, ExitJoin, Launch, Join, ThreadInv
  <2>5. helper' = helper BY <1>8 DEF Spawn, ExitJoin
  <2> QED BY <1>0, <2>2, <2>3, <2>4, <2>5 DEF NoLostWakeup, NotifyPending
<1>9. ASSUME NEW t \in Tid, Park(t), UNCHANGED <<searchVars, uciVars>> PROVE NoLostWakeup'
  <2>1. cv[t] \subseteq {"uci"} \/ cv[t] \subseteq {"main"}
    BY <1>0, <1>9, OutsidersApart DEF Park, Roles, ThreadInv
  <2>2. /\ cv' = [cv EXCEPT ![t] = {"owner"}] /\ searching' = [searching EXCEPT ![t] = FALSE]
    BY <1>0, <1>9, <2>1 DEF Park, Notified
  <2>3. \A s \in Tid : NotifyPending(s) => NotifyPending(s)'
    BY <1>0, <1>9, MainIsThread DEF Park, NotifyPending
  <2> QED BY <1>0, <2>2, <2>3 DEF NoLostWakeup
<1>10. ASSUME NEW t \in Tid, ParkAgain(t) \/ Leave(t) \/ TakeJob(t) \/ Spurious(t),
              UNCHANGED <<searchVars, uciVars>>
       PROVE  NoLostWakeup'
  <2>1. \A s \in Tid : NotifyPending(s) => NotifyPending(s)'
    BY <1>0, <1>10, MainIsThread DEF ParkAgain, Leave, TakeJob, Spurious, NotifyPending
  <2>2. \A s \in Tid : \A r \in cv'[s] : r \in cv[s] \/ (r = "owner" /\ s = t /\ ~searching[t])
    BY <1>0, <1>10 DEF ParkAgain, Leave, TakeJob, Spurious
  <2>3. searching' = searching
    BY <1>10 DEF ParkAgain, Leave, TakeJob, Spurious
  <2> QED BY <1>0, <2>1, <2>2, <2>3 DEF NoLostWakeup
<1>11. ASSUME NEW t \in Tid,
              RunSetup(t) \/ RunOther(t) \/ (SearchStep(t) /\ UNCHANGED uciVars)
       PROVE  NoLostWakeup'
  <2>1. cv' = cv /\ searching' = searching /\ helper' = helper /\ at' = at /\ nth' = nth
    BY <1>11 DEF RunSetup, RunOther, SearchStep, HelperBegins, MateFound, SeeStop, ReachDepth,
       LeaveIterations, Raise
  <2>2. place[Main] = "helperNotify" => place'[Main] = "helperNotify"
    BY <1>0, <1>11, MainIsThread DEF RunSetup, RunOther, SearchStep, HelperBegins, MateFound,
       SeeStop, ReachDepth, LeaveIterations, Raise, Goto, JobDone
  <2> QED BY <1>0, <2>1, <2>2 DEF NoLostWakeup, NotifyPending
<1>12. CASE NotifyHelper /\ UNCHANGED uciVars
  <2>1. helper \in Tid
    BY <1>12, MainSearches, MaxThreadsAssumption DEF NotifyHelper, HelperInv, SearchPlaces, IInv,
       TypeOK, SearchTypeOK, Tid
  <2> QED BY <1>1, <1>12, <2>1 DEF NotifyHelper, NotifyPending, Goto
<1>13. CASE (StartHelper \/ AwaitHelper) /\ UNCHANGED uciVars
  <2>1. \A s \in Tid : NotifyPending(s) => NotifyPending(s)'
    BY <1>0, <1>13, MainIsThread DEF StartHelper, AwaitHelper, Block, PostJob, NotifyPending
  <2>2. CASE Block("main", helper)
    <3>1. searching' = searching BY <2>2 DEF Block
    <3>2. \A s \in Tid : \A r \in cv'[s] : r \in cv[s] \/ (r # "owner" /\ searching[s])
      BY <1>0, <2>2 DEF Block
    <3> QED BY <1>0, <2>1, <3>1, <3>2 DEF NoLostWakeup
  <2>3. CASE PostJob("main", helper, "search") /\ StartHelper
    <3>1. cv' = cv /\ searching' = [searching EXCEPT ![helper] = TRUE] BY <2>3 DEF PostJob
    <3>2. place'[Main] = "helperNotify" /\ helper' = helper
      BY <1>0, <2>3, MainIsThread DEF StartHelper, Block, PostJob, Finished, searchVars
    <3>3. SUFFICES ASSUME NEW s \in Tid, NEW r \in cv[s], searching'[s] <=> r = "owner"
                   PROVE  NotifyPending(s)'
      BY <3>1 DEF NoLostWakeup
    <3>4. CASE s = helper BY <3>2, <3>4 DEF NotifyPending
    <3>5. CASE s # helper
      <4>1. searching'[s] = searching[s] BY <1>0, <3>1, <3>5
      <4> QED BY <1>0, <2>1, <3>3, <4>1 DEF NoLostWakeup
    <3> QED BY <3>4, <3>5
  <2>4. CASE UNCHANGED <<cv, searching>> BY <1>0, <2>1, <2>4 DEF NoLostWakeup
  <2> QED BY <1>13, <2>2, <2>3, <2>4 DEF StartHelper, AwaitHelper
<1>14. CASE MainSearch /\ ~StartHelper /\ ~NotifyHelper /\ ~AwaitHelper /\ UNCHANGED uciVars
  <2>1. cv' = cv /\ searching' = searching /\ place[Main] # "helperNotify"
    BY <1>14 DEF MainSearch, NoMovesAnswer, MainBegins, HelpersStarted, CheckTime, TimeUsed, FailLow,
       EndBusyWait, HelpersFinished, Bestmove, Raise
  <2> QED BY <1>0, <1>14, <2>1 DEF NoLostWakeup, NotifyPending
<1>15. CASE UNCHANGED vars BY <1>0, <1>15 DEF NoLostWakeup, NotifyPending
<1> QED
  BY <1>2, <1>3, <1>4, <1>5, <1>6, <1>7, <1>8, <1>9, <1>10, <1>11, <1>12, <1>13, <1>14, <1>15
  DEF Next, Uci, IdleLoop, Exited

-----------------------------------------------------------------------------
(* The invariant, and the properties that follow from it.                  *)

\* The empty engine before its constructor has spawned the first thread.
LEMMA InitInv == Init => IInv
<1> SUFFICES ASSUME Init PROVE IInv OBVIOUS
<1> USE DEF Init, ThreadInit, SearchInit
<1>1. TypeOK
  <2>1. ThreadTypeOK BY DEF ThreadTypeOK, Places
  <2>2. /\ size \in 0 .. MaxThreads /\ helper \in 0 .. MaxThreads /\ owed \in Int
    BY MaxThreadsAssumption
  <2>3. /\ stop \in BOOLEAN /\ ponder \in BOOLEAN /\ stopOnPonderhit \in BOOLEAN
    BY Zenon
  <2>4. [limits |-> {}, states |-> NoStates] \in RootData BY DEF RootData
  <2>5. root \in [Tid -> RootData] BY <2>4
  <2>6. UciTypeOK BY MaxThreadsAssumption DEF UciTypeOK, Stations, Cmds, StateLists, NoStates
  <2> QED BY <2>1, <2>2, <2>3, <2>5, <2>6 DEF TypeOK, SearchTypeOK
<1>2. ThreadInv /\ WaiterInv
  BY DEF ThreadInv, WaiterInv, SearchPlaces
<1>3. PoolInv /\ CmdInv
  BY MaxThreadsAssumption DEF PoolInv, CmdInv, Building, Broadcasting, Destroying, Tid
<1>4. JobInv /\ RootInv
  BY DEF JobInv, RootInv, Hands, Broadcasting, Quiet, NoStates
<1>5. NoLostWakeup /\ OneAnswerPerGo
  BY MainIsThread DEF NoLostWakeup, OneAnswerPerGo, GoUnderWay, Searching, Has, NoJob
<1> QED BY <1>1, <1>2, <1>3, <1>4, <1>5 DEF IInv

\* Every step keeps it.
LEMMA Inductive == IInv /\ [Next]_vars => IInv'
<1> SUFFICES ASSUME IInv, [Next]_vars PROVE IInv' OBVIOUS
<1>1. TypeOK' BY ThreadTypeStep, SearchTypeStep, UciTypeStep DEF TypeOK
<1>2. ThreadInv' /\ PoolInv' /\ CmdInv' BY ThreadStep, PoolStep, CmdStep
<1>3. JobInv' /\ WaiterInv' /\ RootInv' BY JobStep, WaiterStep, RootStep
<1>4. NoLostWakeup' /\ OneAnswerPerGo' BY WakeupStep, OneAnswerStep
<1> QED BY <1>1, <1>2, <1>3, <1>4 DEF IInv

\* In every reachable state, the invariant of the pool holds.
THEOREM PoolInvariant == Spec => []IInv
<1>1. Init => IInv BY InitInv
<1>2. IInv /\ [Next]_vars => IInv' BY Inductive
<1> QED BY <1>1, <1>2, PTL DEF Spec

\* For every size of the pool and every repertoire of searches, the fields keep to
\* their domains: the loop indexes of the pool never leave it.
THEOREM TypeCorrect == Spec => []TypeOK
<1>1. IInv => TypeOK BY DEF IInv
<1> QED BY <1>1, PoolInvariant, PTL

\* One condition variable per Thread and notify_one are enough: whoever is blocked
\* on a predicate that holds has a notification coming.
THEOREM NobodySleepsOn == Spec => []NoLostWakeup
<1>1. IInv => NoLostWakeup BY DEF IInv
<1> QED BY <1>1, PoolInvariant, PTL

\* Every go read has one bestmove coming, and no bestmove comes without one.
THEOREM EveryGoAnsweredOnce == Spec => []OneAnswerPerGo
<1>1. IInv => OneAnswerPerGo BY DEF IInv
<1> QED BY <1>1, PoolInvariant, PTL

\* The lambdas that capture locals by reference run within the call that owns them.
THEOREM LocalsOutliveJobs == Spec => []FramesAlive
<1>1. ASSUME IInv PROVE FramesAlive
  <2> SUFFICES ASSUME NEW t \in Tid
               PROVE /\ Has(t, "setup") => at \in {"post", "notify", "join"} /\ batch = "setup"
                     /\ Has(t, "build") => at \in {"buildNotify", "buildWait"} /\ nth = t
    BY DEF FramesAlive
  <2> USE <1>1 DEF IInv
  <2>0. jobFunc[t] = NoJob \/ job[t] = NoJob
    BY DEF ThreadInv, TypeOK, ThreadTypeOK, Places, SearchPlaces
  <2>1. Quiet(t) => jobFunc[t] = NoJob /\ job[t] = NoJob
    BY QuietIsParked
  <2>2. CASE at \in Hands BY <2>0, <2>2 DEF JobInv, Only, Has, NoJob
  <2>3. CASE at \in Broadcasting
    <3>1. Has(t, batch) \/ (jobFunc[t] = NoJob /\ job[t] = NoJob) BY <2>3 DEF JobInv, Only
    <3>2. batch \in {"setup", "clear", "zero"} BY DEF TypeOK, UciTypeOK
    <3> QED BY <2>0, <2>3, <3>1, <3>2 DEF Has, NoJob, Broadcasting
  <2>4. CASE at \in {"waitHelpers", "waitPool", "prepare", "startMain", "exitPost", "spawn",
                     "buildPost", "exited"}
    BY <2>1, <2>4 DEF JobInv, Has, NoJob
  <2>5. CASE at \in {"exitNotify", "exitJoin", "spawnWait", "buildNotify", "buildWait"}
    <3>1. CASE t # nth BY <2>1, <2>5, <3>1 DEF JobInv, Has, NoJob
    <3>2. CASE t = nth BY <2>0, <2>5, <3>2 DEF JobInv, Only, Has, NoJob
    <3> QED BY <3>1, <3>2
  <2> QED BY <2>2, <2>3, <2>4, <2>5 DEF TypeOK, UciTypeOK, Stations, Hands, Broadcasting
<1> QED BY <1>1, PoolInvariant, PTL

\* In a state with the invariant no handler is at work under a running search.
LEMMA PoolOwned == ASSUME IInv PROVE PoolOwnership
<1> SUFFICES ASSUME at \notin {"read", "waitMain", "notifyMain", "exited"}, NEW t \in Tid,
                    Has(t, "search"), ~exit[t]
             PROVE  FALSE
  BY DEF PoolOwnership, Searching
<1>1. jobFunc[t] = "search" /\ searching[t]
  BY SearchOnlyAtHands, QuietIsParked DEF Hands, Has, Quiet, NoJob
<1>2. job[t] = NoJob
  BY <1>1 DEF IInv, ThreadInv, TypeOK, ThreadTypeOK, Places, SearchPlaces, NoJob
<1>3. at \in Broadcasting \cup {"exitNotify", "exitJoin", "spawnWait", "buildNotify", "buildWait"}
  BY <1>1 DEF IInv, JobInv, Quiet, TypeOK, UciTypeOK, Stations, Broadcasting
<1>4. CASE at \in Broadcasting
  BY <1>1, <1>2, <1>4 DEF IInv, JobInv, Only, Has, NoJob, TypeOK, UciTypeOK
<1>5. CASE at \notin Broadcasting
  <2>1. t = nth BY <1>1, <1>3, <1>5 DEF IInv, JobInv, Quiet
  <2> QED BY <1>1, <1>2, <1>3, <1>5, <2>1 DEF IInv, JobInv, Only, Has, NoJob
<1> QED BY <1>4, <1>5

\* No handler resizes, clears, sets up or frees anything under a running search.
THEOREM PoolUntouchedBySearch == Spec => []PoolOwnership
<1>1. IInv => PoolOwnership BY PoolOwned
<1> QED BY <1>1, PoolInvariant, PTL

\* All searching threads have the root that is alive.
THEOREM OneRoot == Spec => []SameRoot
<1>1. ASSUME IInv PROVE SameRoot
  <2> SUFFICES ASSUME NEW t \in Tid, Searching(t)
               PROVE  /\ root[t] = root[Main]
                      /\ root[t].states = setupStates /\ setupStates # NoStates
    BY DEF SameRoot
  <2>1. searching[t] /\ place[t] # "absent"
    BY <1>1, QuietIsParked DEF Searching, Has, Quiet, NoJob, IInv, ThreadInv
  <2>2. at \in Hands
    <3>1. PoolOwnership BY <1>1, PoolOwned
    <3>2. at # "exited" BY <1>1, <2>1 DEF IInv, JobInv, Quiet
    <3> QED BY <3>1, <3>2 DEF PoolOwnership, Hands
  <2>3. t < size /\ at \notin Destroying \cup Building
    BY <1>1, <2>1, <2>2 DEF IInv, PoolInv, Hands, Destroying, Building
  <2>4. Searching(Main)
    <3>1. CASE t = Main BY <3>1
    <3>2. CASE t # Main
      <4>1. HelperInv /\ ~exit[Main] /\ Only(Main, "search")
        BY <1>1, <2>2, MainIsThread DEF IInv, JobInv, Hands
      <4>2. place[Main] \in SearchPlaces \ {"report"}
        BY <1>1, <2>1, <3>2, <4>1, MainIsThread
        DEF HelperInv, Quiet, IInv, TypeOK, ThreadTypeOK, Places, SearchPlaces, ThreadInv
      <4> QED BY <1>1, <4>1, <4>2, MainIsThread DEF Searching, Has, IInv, ThreadInv, SearchPlaces
    <3> QED BY <3>1, <3>2
  <2> QED BY <1>1, <2>2, <2>3, <2>4 DEF IInv, RootInv
<1> QED BY <1>1, PoolInvariant, PTL

\* The main thread compares the threads' results when it is the only one left.
THEOREM ReportsAlone == Spec => []ReportAlone
<1>1. ASSUME IInv PROVE ReportAlone
  <2> SUFFICES ASSUME place[Main] = "report"
               PROVE  /\ stop
                      /\ \A t \in Tid \ {Main} :
                            ~searching[t] /\ jobFunc[t] = NoJob /\ job[t] = NoJob
    BY DEF ReportAlone
  <2>1. HelperInv BY <1>1, MainSearches DEF SearchPlaces
  <2> QED BY <1>1, <2>1, QuietIsParked DEF HelperInv, Quiet
<1> QED BY <1>1, PoolInvariant, PTL
-----------------------------------------------------------------------------
(* The answer waits for what the go asked to wait for.                     *)

\* The main thread does not search while the UCI thread sets up the next search.
LEMMA SearchingAtHands ==
  ASSUME IInv, at \in Broadcasting \/ at = "startMain" PROVE ~Searching(Main)
BY PoolOwned, MainIsThread DEF PoolOwnership, Broadcasting

\* A step of the UCI thread other than reading a command keeps ReleaseInv.
LEMMA ReleaseUci == ASSUME IInv, ReleaseInv, Uci PROVE ReleaseInv'
<1> USE DEF limits, ReleaseInv, Released, Uci, UciAt, Broadcast, Hands, Broadcasting, Searching, Has
<1>0. IInv /\ TypeOK /\ Main \in Tid BY MainIsThread DEF IInv
<1>1. CASE UciBlocks
  BY <1>1 DEF UciBlocks, Block, searchVars, uciVars
<1>2. CASE MainIsIdle \/ HelperIsIdle \/ PoolIsIdle
  BY <1>2 DEF MainIsIdle, HelperIsIdle, PoolIsIdle, threadVars, searchVars
<1>3. CASE Prepare BY <1>3 DEF Prepare, threadVars
<1>4. CASE Post
  BY <1>4 DEF Post, PostJob, searchVars
<1>5. CASE Notify \/ NotifyMain
  BY <1>5 DEF Notify, NotifyMain, NotifyOne, searchVars
<1>6. CASE JoinNext
  <2>1. CASE at' \in Hands
    <3>1. ~Searching(Main)
      BY <1>6, SearchingAtHands DEF JoinNext
    <3> QED BY <1>6, <2>1, <3>1 DEF JoinNext, Joined, threadVars, searchVars
  <2>2. CASE at' \notin Hands
    BY <1>6, <2>2 DEF JoinNext, Joined, threadVars, searchVars
  <2> QED BY <2>1, <2>2
<1>7. CASE StartMain
  <2>1. ~stop /\ ("ponder" \in asked => ponder) BY <1>7 DEF StartMain
  <2>2. root[Main] = [limits |-> asked, states |-> setupStates]
    BY <1>0, <1>7, MaxThreadsAssumption DEF StartMain, IInv, RootInv, PoolInv, Building, Main,
       TypeOK, SearchTypeOK
  <2>3. limits' = asked /\ at' = "notifyMain" /\ UNCHANGED <<stop, ponder, asked, gui>>
    BY <1>7, <2>2 DEF StartMain, searchVars
  <2> QED BY <2>1, <2>3
<1>8. CASE ExitPost \/ ExitNotify \/ ExitJoin \/ Spawn \/ Spawned \/ BuildPost \/ BuildNotify
  BY <1>8 DEF ExitPost, ExitNotify, ExitJoin, Spawn, Spawned, BuildPost, BuildNotify
<1>9. CASE Built
  <2>1. at' \notin Hands /\ (at' \in Broadcasting => batch' # "setup") /\ at' # "startMain"
    BY <1>9 DEF Built
  <2> QED BY <2>1
<1> QED BY <1>1, <1>2, <1>3, <1>4, <1>5, <1>6, <1>7, <1>8, <1>9

\* A step of a search thread keeps it.
LEMMA ReleaseSearch ==
  ASSUME IInv, ReleaseInv, UNCHANGED uciVars, MainSearch \/ (\E t \in Tid : SearchStep(t))
  PROVE  ReleaseInv'
<1> USE DEF limits, uciVars
<1>0. IInv /\ TypeOK /\ Main \in Tid BY MainIsThread DEF IInv
<1>1. at \in Hands
  <2>1. CASE MainSearch
    BY <2>1, MainSearches DEF MainSearch, NoMovesAnswer, MainBegins, StartHelper, NotifyHelper,
       HelpersStarted, CheckTime, TimeUsed, FailLow, EndBusyWait, AwaitHelper, HelpersFinished,
       Bestmove, SearchPlaces
  <2>2. ASSUME NEW t \in Tid, SearchStep(t) PROVE at \in Hands
    <3>1. place[t] = "iterate" \/ job[t] = "search"
      BY <2>2 DEF SearchStep, HelperBegins, MateFound, SeeStop, ReachDepth
    <3>2. job[t] = "search" BY <3>1 DEF IInv, ThreadInv, SearchPlaces
    <3> QED BY <3>2, SearchOnlyAtHands
  <2> QED BY <2>1, <2>2
<1>2. at' = at /\ at \notin Broadcasting /\ at # "startMain"
  BY <1>1 DEF Hands, Broadcasting
<1>3. root' = root
  BY DEF MainSearch, NoMovesAnswer, MainBegins, StartHelper, NotifyHelper,
     HelpersStarted, CheckTime, TimeUsed, FailLow, EndBusyWait, AwaitHelper, HelpersFinished,
     Bestmove, SearchStep, HelperBegins, MateFound, SeeStop, ReachDepth, LeaveIterations, Raise,
     searchVars
<1>4. ponder' = ponder
  BY DEF MainSearch, NoMovesAnswer, MainBegins, StartHelper, NotifyHelper,
     HelpersStarted, CheckTime, TimeUsed, FailLow, EndBusyWait, AwaitHelper, HelpersFinished,
     Bestmove, SearchStep, HelperBegins, MateFound, SeeStop, ReachDepth, LeaveIterations, Raise,
     searchVars
<1>5. Searching(Main)' => Searching(Main)
  <2>1. CASE StartHelper
    <3>1. helper # Main /\ helper > 0 BY <1>0, <2>1, MainSearches DEF StartHelper, SearchPlaces, HelperInv, Main
    <3> QED BY <1>0, <2>1, <3>1 DEF StartHelper, Block, PostJob, Searching, Has, TypeOK, ThreadTypeOK
  <2>2. CASE MainSearch /\ ~StartHelper
    BY <1>0, <2>2 DEF MainSearch, NoMovesAnswer, MainBegins, NotifyHelper,
       HelpersStarted, CheckTime, TimeUsed, FailLow, EndBusyWait, AwaitHelper, HelpersFinished,
       Bestmove, Goto, JobDone, Raise, Block, Searching, Has, TypeOK, ThreadTypeOK, threadVars, NoJob
  <2>3. ASSUME NEW t \in Tid, SearchStep(t) PROVE Searching(Main)' => Searching(Main)
    BY <1>0, <2>3 DEF SearchStep, HelperBegins, MateFound, SeeStop, ReachDepth, LeaveIterations,
       Goto, JobDone, Raise, Searching, Has, TypeOK, ThreadTypeOK, threadVars, NoJob
  <2> QED BY <2>1, <2>2, <2>3
<1>6. SUFFICES ASSUME Searching(Main), stop', "mate" \notin limits, ~stop PROVE Released(limits)
  BY <1>2, <1>3, <1>4, <1>5 DEF ReleaseInv, Released
<1>7. "ponder" \in limits /\ gui = "none" => ponder
  BY <1>1, <1>6 DEF ReleaseInv
<1>8. CASE CheckTime BY <1>7, <1>8 DEF CheckTime, Released
<1>9. CASE TimeUsed BY <1>0, <1>6, <1>7, <1>9 DEF TimeUsed, Released
<1>10. CASE EndBusyWait BY <1>6, <1>7, <1>10 DEF EndBusyWait, Released
<1>11. ASSUME NEW t \in Tid, MateFound(t) PROVE FALSE
  <2>1. t < size
    BY <1>1, <1>11 DEF MateFound, IInv, PoolInv, Hands, Destroying, Building
  <2>2. root[t] = root[Main] BY <1>1, <1>6, <2>1 DEF IInv, RootInv
  <2> QED BY <1>6, <1>11, <2>2 DEF MateFound
<1>12. CASE ~CheckTime /\ ~TimeUsed /\ ~EndBusyWait /\ \A t \in Tid : ~MateFound(t)
  <2>1. stop' = stop
    BY <1>12 DEF MainSearch, NoMovesAnswer, MainBegins, StartHelper, NotifyHelper,
       HelpersStarted, FailLow, AwaitHelper, HelpersFinished,
       Bestmove, SearchStep, HelperBegins, SeeStop, ReachDepth, LeaveIterations, searchVars
  <2> QED BY <1>6, <2>1
<1> QED BY <1>8, <1>9, <1>10, <1>11, <1>12

\* Every step keeps it.
LEMMA ReleaseStep == ASSUME IInv, ReleaseInv, [Next]_vars PROVE ReleaseInv'
<1> USE DEF limits
<1>0. IInv /\ TypeOK /\ Main \in Tid BY MainIsThread DEF IInv
<1>1. CASE Gui
  <2>1. at = "read" /\ at' \in {"read", "waitMain"} /\ Searching(Main)' = Searching(Main)
        /\ root' = root
    BY <1>1 DEF Gui, ReadStop, ReadPonderhit, ReadPosition, ReadQuit, ReadGo, ReadSetThreads,
       ReadSimple, Read, Searching, Has, threadVars, searchVars
  <2>2. \/ UNCHANGED <<stop, ponder, gui>>
        \/ gui' = "stop" /\ ponder' = ponder
        \/ gui' # "none" /\ (gui = "stop" => gui' = "stop") /\ stop' = stop
    BY <1>0, <1>1 DEF Gui, ReadStop, ReadPonderhit, ReadPosition, ReadQuit, ReadGo, ReadSetThreads,
       ReadSimple, Read, searchVars
  <2> QED BY <2>1, <2>2 DEF ReleaseInv, Released, Hands, Broadcasting
<1>2. CASE Uci BY <1>2, ReleaseUci
<1>3. ASSUME NEW t \in Tid, IdleLoop(t) \/ Spurious(t), UNCHANGED <<searchVars, uciVars>>
      PROVE  ReleaseInv'
  <2>1. Searching(Main)' => Searching(Main)
    BY <1>0, <1>3 DEF IdleLoop, Park, ParkAgain, Leave, TakeJob, Spurious, Searching, Has, TypeOK,
       ThreadTypeOK, NoJob
  <2> QED BY <1>3, <2>1 DEF ReleaseInv, Released, searchVars, uciVars
<1>4. ASSUME NEW t \in Tid, RunSetup(t) \/ RunOther(t) PROVE ReleaseInv'
  <2>1. Searching(Main)' => Searching(Main)
    BY <1>0, <1>4 DEF RunSetup, RunOther, JobDone, Searching, Has, TypeOK, ThreadTypeOK, NoJob
  <2>2. UNCHANGED <<at, batch, stop, ponder, asked, gui>>
    BY <1>4 DEF RunSetup, RunOther, uciVars
  <2>3. at \in Hands => root' = root
    <3>1. at \in Hands => Only(t, "search") BY DEF IInv, JobInv
    <3>2. job[t] \in {"setup", "build", "clear", "zero"} /\ jobFunc[t] = NoJob
      BY <1>4 DEF RunSetup, RunOther, IInv, ThreadInv
    <3> QED BY <3>1, <3>2 DEF Only, Has, NoJob
  <2> QED BY <2>1, <2>2, <2>3 DEF ReleaseInv, Released
<1>5. CASE UNCHANGED uciVars /\ (MainSearch \/ \E t \in Tid : SearchStep(t))
  BY <1>5, ReleaseSearch
<1>6. CASE UNCHANGED vars
  BY <1>6 DEF ReleaseInv, Released, Searching, Has, vars, threadVars, searchVars, uciVars
<1> QED BY <1>1, <1>2, <1>3, <1>4, <1>5, <1>6 DEF Next, Exited

\* A bestmove is never given before what its go asked for: during a ponder search not
\* before ponderhit or stop, during an infinite one not before stop.
THEOREM AnswersWhenReleased == Spec => AnswerWhenReleased
<1>1. Init => IInv /\ ReleaseInv
  BY InitInv DEF Init, ReleaseInv, Broadcasting, Hands
<1>2. IInv /\ ReleaseInv /\ [Next]_vars => (IInv /\ ReleaseInv)'
  BY Inductive, ReleaseStep
<1>3. IInv /\ ReleaseInv /\ [Next]_vars =>
        [Answer /\ limits \cap {"mate", "noMoves"} = {} => Released(limits)]_vars
  <2> SUFFICES ASSUME IInv, ReleaseInv, Next, Answer, limits \cap {"mate", "noMoves"} = {}
               PROVE  Released(limits)
    OBVIOUS
  <2>0. owed \in Int BY DEF IInv, TypeOK, SearchTypeOK
  <2>1. NoMovesAnswer \/ Bestmove
    BY <2>0 DEF Answer, Next, vars, searchVars,
      Gui, ReadStop, ReadPonderhit, ReadPosition, ReadQuit, ReadGo, ReadSetThreads, ReadSimple,
      Uci, UciBlocks, MainIsIdle, HelperIsIdle, PoolIsIdle, Prepare, Post, Notify, JoinNext,
      StartMain, NotifyMain, ExitPost, ExitNotify, ExitJoin, Spawn, Spawned, BuildPost,
      BuildNotify, Built, Exited, IdleLoop, RunSetup, RunOther,
      SearchStep, HelperBegins, MateFound, SeeStop, ReachDepth, LeaveIterations, Raise,
      MainSearch, MainBegins, StartHelper, NotifyHelper, HelpersStarted,
      CheckTime, TimeUsed, FailLow, EndBusyWait, AwaitHelper, HelpersFinished
  <2>2. Bestmove BY <2>1 DEF NoMovesAnswer
  <2>3. at \in Hands /\ HelperInv /\ job[Main] = "search" /\ ~exit[Main] /\ place[Main] = "report"
    BY <2>2, MainSearches DEF Bestmove, SearchPlaces
  <2>4. stop /\ Searching(Main) BY <2>3 DEF HelperInv, Searching, Has
  <2> QED BY <2>3, <2>4 DEF ReleaseInv
<1>4. [][Answer /\ limits \cap {"mate", "noMoves"} = {} => Released(limits)]_vars
        => AnswerWhenReleased
  BY DEF AnswerWhenReleased, Released
<1> QED BY <1>1, <1>2, <1>3, <1>4, PTL DEF Spec
=============================================================================
