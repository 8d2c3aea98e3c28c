---------------------------- MODULE SfEngineInv ----------------------------
(***************************************************************************)
(* The inductive invariant behind the safety properties of SfEngine.       *)
(*                                                                         *)
(* It says of every station of the UCI thread, and of every place of the   *)
(* main search thread, which threads may be busy and with which job; all   *)
(* the rest follows from that and from how a single Thread keeps its       *)
(* fields consistent.                                                      *)
(***************************************************************************)
EXTENDS SfEngine

Quiet(t) == ~searching[t]

\* Nothing but job j is pending or running on t.
Only(t, j) == Has(t, j) \/ (jobFunc[t] = NoJob /\ job[t] = NoJob)

\* The fields of one Thread agree with where its native thread is.
ThreadInv == \A t \in Tid :
    /\ place[t] = "absent" =>
         jobFunc[t] = NoJob /\ job[t] = NoJob /\ cv[t] = {} /\ ~searching[t] /\ ~exit[t]
    /\ place[t] = "idle" =>
         jobFunc[t] = NoJob /\ job[t] = NoJob /\ "owner" \notin cv[t] /\ searching[t] /\ ~exit[t]
    /\ place[t] = "parked" =>
         job[t] = NoJob /\ (searching[t] <=> jobFunc[t] # NoJob) /\ (exit[t] => searching[t])
    /\ place[t] \in {"run"} \cup SearchPlaces =>
         jobFunc[t] = NoJob /\ job[t] # NoJob /\ "owner" \notin cv[t] /\ searching[t] /\ ~exit[t]
    /\ place[t] = "dead" =>
         job[t] = NoJob /\ "owner" \notin cv[t] /\ searching[t] /\ exit[t]
    /\ place[t] \in SearchPlaces => job[t] = "search" /\ (t = Main \/ place[t] = "iterate")

\* Stations at which the main thread may be searching: the UCI thread has no
\* business with the pool, or waits for the main thread, or has just started it.
Hands == {"read", "waitMain", "notifyMain"}
Broadcasting == {"post", "notify", "join"}
Destroying == {"exitPost", "exitNotify", "exitJoin"}
Building == {"spawn", "spawnWait", "buildPost", "buildNotify", "buildWait"}

\* Which threads exist, and what the loop index means at each station.
PoolInv ==
    /\ at \notin Building \cup {"exited"} => size > 0
    /\ at \in Broadcasting \cup Destroying => nth < size
    /\ at \in Building => nth = size /\ nth < MaxThreads
    /\ at = "exited" => size = 0
    /\ at = "waitHelpers" => nth > 0
    /\ \A t \in Tid :
         place[t] # "absent" <=>
            \/ t < size /\ (at \in Destroying => t >= nth)
            \/ t = nth /\ at \in Building \ {"spawn"}

\* Which command each station belongs to.
CmdInv ==
    /\ at \in Broadcasting => (batch = "setup" <=> cmd = "go")
    /\ at \in {"prepare", "startMain"} => cmd = "go"
    /\ at \in {"waitHelpers", "waitPool"} \cup Building => cmd = "threads"
    /\ at \in Destroying => cmd \in {"threads", "quit"}

\* Which helpers may be busy while the main thread is at each place of its job.
HelperInv ==
    /\ place[Main] \in {"helper", "helperNotify", "helperJoin"} => helper > 0
    /\ place[Main] = "helperNotify" => helper < size
    /\ place[Main] \in {"helperJoin", "report"} => stop
    /\ \A t \in Tid \ {Main} :
         /\ place[Main] \in {"absent", "idle", "parked", "run", "report"} => Quiet(t)
         /\ place[Main] = "helper" /\ t >= helper => Quiet(t)
         /\ place[Main] = "helperNotify" /\ t > helper => Quiet(t)
         /\ place[Main] = "helperJoin" /\ t < helper => Quiet(t)

\* Which jobs may be around at each station.
JobInv ==
    /\ at \in Hands => HelperInv /\ \A t \in Tid : Only(t, "search")
    /\ at \in Broadcasting => \A t \in Tid : Only(t, batch)
    /\ at = "post" => \A t \in Tid : t >= nth => Quiet(t)
    /\ at = "notify" => \A t \in Tid : t > nth => Quiet(t)
    /\ at = "join" => \A t \in Tid : t < nth => Quiet(t)
    /\ at \in {"waitHelpers", "waitPool", "prepare", "startMain", "exitPost", "spawn",
               "buildPost", "exited"} => \A t \in Tid : Quiet(t)
    /\ at \in {"exitNotify", "exitJoin", "spawnWait", "buildNotify", "buildWait"} =>
         \A t \in Tid \ {nth} : Quiet(t)
    /\ at \in {"exitNotify", "exitJoin"} => exit[nth] /\ Only(nth, "search")
    /\ at = "spawnWait" => jobFunc[nth] = NoJob /\ job[nth] = NoJob
    /\ at \in {"buildNotify", "buildWait"} => Only(nth, "build")
    /\ at \notin {"exitNotify", "exitJoin"} => \A t \in Tid : ~exit[t]

\* Who may be blocked on a condition variable, beside the thread itself.
WaiterInv == \A t \in Tid :
    /\ "uci" \in cv[t] => Waiting /\ t = Awaited
    /\ "main" \in cv[t] => /\ t # Main /\ t = helper /\ helper < size
                           /\ place[Main] \in {"helper", "helperJoin"}

\* The root data of the workers that have run their setup job.
RootInv ==
    /\ states = NoStates => setupStates # NoStates
    /\ (at \in Broadcasting /\ batch = "setup") \/ at = "startMain" => setupStates # NoStates
    /\ at \in Broadcasting /\ batch = "setup" =>
         \A t \in Tid :
            /\ t < size /\ ~Has(t, "setup")
            /\ \/ at = "post" /\ t < nth
               \/ at = "notify" /\ t <= nth
               \/ at = "join"
            => root[t] = [limits |-> asked, states |-> setupStates]
    /\ at = "startMain" =>
         \A t \in Tid : t < size => root[t] = [limits |-> asked, states |-> setupStates]
    /\ at \in Hands /\ Searching(Main) =>
         /\ setupStates # NoStates
         /\ \A t \in Tid : t < size => root[t] = root[Main] /\ root[t].states = setupStates

IInv ==
    /\ TypeOK
    /\ ThreadInv
    /\ PoolInv
    /\ CmdInv
    /\ JobInv
    /\ WaiterInv
    /\ RootInv
    /\ NoLostWakeup
    /\ OneAnswerPerGo

\* What the GUI must have sent before the answer to a go with the limits l is due.
Released(l) ==
    /\ "ponder" \in l => gui # "none"
    /\ "infinite" \in l /\ l \cap {"timed", "budget"} = {} => gui = "stop"

\* Beside IInv: why a stop may have been raised, and how long ponder lasts.
ReleaseInv ==
    /\ (at \in Broadcasting /\ batch = "setup") \/ at = "startMain" =>
         ~stop /\ ("ponder" \in asked => ponder)
    /\ at \in Hands /\ Searching(Main) =>
         /\ "ponder" \in limits /\ gui = "none" => ponder
         /\ stop /\ "mate" \notin limits => Released(limits)
=============================================================================
