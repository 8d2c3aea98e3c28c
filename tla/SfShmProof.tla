----------------------------- MODULE SfShmProof -----------------------------
(***************************************************************************)
(* The safety of SfShm for every finite set of process ids and any number  *)
(* of crashes: IInv of SfShmInv is inductive and implies the properties    *)
(* that TLC checks.                                                        *)
(***************************************************************************)
EXTENDS SfShmInv, FiniteSetTheorems, TLAPS

-----------------------------------------------------------------------------
(* Consequences of IInv in a single state.                                 *)

LEMMA RegionsAreNat == Regions \subseteq Nat \ {0} /\ NoRegion \notin Regions
<1>1. Cardinality(Pids) \in Nat BY PidsAssumption, FS_CardinalityType
<1> QED BY <1>1 DEF Regions, NoRegion

\* Where a process has a descriptor it refers to a region.
LEMMA HasRegion ==
  ASSUME TypeOK, LockInv, NEW p \in Pids, at[p] \notin Unattached
  PROVE  fd[p] \in Regions
BY RegionsAreNat DEF TypeOK, LockInv

\* The file lock keeps two processes from working on one region.
LEMMA Exclusive ==
  ASSUME LockInv, NEW p \in Pids, NEW q \in Pids, fd[p] = fd[q],
         at[p] \in Locking, at[q] \in Locking
  PROVE  p = q
BY DEF LockInv

\* A region that is being set up is not marked as finished.
LEMMA Unfinished ==
  ASSUME CreatorInv, NEW p \in Pids, at[p] \in {"resize", "initialize"}
  PROVE  createdNew[p] /\ fd[p] \notin ready
BY DEF CreatorInv

\* Create makes a region that no descriptor refers to.
CreatesIn(p, r) ==
  /\ at[p] = "create" /\ at' = [at EXCEPT ![p] = "flock"]
  /\ \A q \in Pids : fd[q] # r
  /\ entry' = r /\ fd' = [fd EXCEPT ![p] = r]
  /\ sized' = sized \ {r} /\ ready' = ready \ {r}
  /\ mutex' = [mutex EXCEPT ![r] = Free]
  /\ createdNew' = [createdNew EXCEPT ![p] = TRUE]
  /\ UNCHANGED <<flock, sentinels, retried, unseen, dirty>>

LEMMA CreateWhere ==
  ASSUME NEW p \in Pids, Create(p), entry = NoRegion
  PROVE  \E r \in Regions : CreatesIn(p, r)
BY DEF Create, CreatesIn, Step, Goto

\* A step of a process leaves the descriptors and variables of the others alone.
Acts(p) == Open(p) \/ Close(p) \/ OpenStep(p) \/ CloseStep(p) \/ LockFails(p) \/ Crash(p)

LEMMA OthersStay ==
  ASSUME TypeOK, NEW p \in Pids, Acts(p), NEW q \in Pids, q # p
  PROVE  /\ at'[q] = at[q] /\ fd'[q] = fd[q]
         /\ createdNew'[q] = createdNew[q] /\ unseen'[q] = unseen[q]
<1> USE DEF TypeOK, Goto, Step, files, region, locals
<1>1. CASE Open(p) \/ Close(p) BY <1>1 DEF Open, Close
<1>2. CASE Create(p) BY <1>2 DEF Create
<1>3. CASE OpenExisting(p) \/ Flock(p) \/ Resize(p) \/ Initialize(p) \/ SetupFails(p)
  BY <1>3 DEF OpenExisting, Flock, TakeFlock, Resize, Initialize, SetupFails
<1>4. CASE Inspect(p) \/ MapFails(p) \/ Unlink(p) \/ Release(p)
  BY <1>4 DEF Inspect, MapFails, Unlink, Release
<1>5. CASE Mutex(p) \/ Sentinel(p) \/ SentinelFails(p) \/ Count(p)
  BY <1>5 DEF Mutex, TakeMutex, Sentinel, SentinelFails, Count
<1>6. CASE CloseFlock(p) \/ CloseMutex(p) \/ Forget(p) \/ List(p)
  BY <1>6 DEF CloseFlock, CloseMutex, TakeFlock, TakeMutex, Forget, List
<1>7. CASE Scan(p) BY <1>7 DEF Scan
<1>8. CASE NoneLeft(p) \/ CloseUnlink(p) \/ CloseRelease(p)
  BY <1>8 DEF NoneLeft, CloseUnlink, CloseRelease
<1>9. CASE Crash(p) BY <1>9 DEF Crash
<1>10. CASE FlockFails(p) \/ MutexFails(p) BY <1>10 DEF FlockFails, MutexFails
<1>11. CASE CloseFlockFails(p) \/ CloseMutexFails(p) \/ CloseFd(p)
  BY <1>11 DEF CloseFlockFails, CloseMutexFails, Unlocked, CloseFd
<1> QED BY <1>1, <1>2, <1>3, <1>4, <1>5, <1>6, <1>7, <1>8, <1>9, <1>10, <1>11
        DEF Acts, OpenStep, CloseStep, LockFails

-----------------------------------------------------------------------------
(* Every step preserves IInv, part by part.                                *)

LEMMA TypeStep == ASSUME IInv, [Next]_vars PROVE TypeOK'
<1> USE DEF TypeOK, Goto, Step, files, region, locals
<1>0. TypeOK /\ LockInv /\ CreatorInv BY DEF IInv
<1>1. ASSUME NEW p \in Pids, UNCHANGED crashes,
             Open(p) \/ Close(p) \/ Inspect(p) \/ MapFails(p)
             \/ Unlink(p) \/ Sentinel(p) \/ Forget(p) \/ List(p) \/ CloseUnlink(p) \/ NoneLeft(p)
      PROVE  TypeOK'
  <2> USE DEF Places, Opening, Closing
  <2>1. CASE Open(p) \/ Close(p) BY <1>0, <1>1, <2>1 DEF Open, Close
  <2>2. CASE Inspect(p) \/ MapFails(p) BY <1>0, <1>1, <2>2 DEF Inspect, MapFails
  <2>3. CASE Unlink(p) \/ CloseUnlink(p) BY <1>0, <1>1, <2>3 DEF Unlink, CloseUnlink
  <2>4. CASE Sentinel(p) \/ Forget(p) BY <1>0, <1>1, <2>4 DEF Sentinel, Forget
  <2>5. CASE List(p) BY <1>0, <1>1, <2>5 DEF List
  <2>6. CASE NoneLeft(p)
    <3>1. at' \in [Pids -> Places] BY <1>0, <2>6 DEF NoneLeft
    <3>2. mutex' \in [Regions -> Pids \cup {Free, Dead}] BY <1>0, <2>6 DEF NoneLeft
    <3>3. dirty' \in BOOLEAN BY <1>0, <2>6 DEF NoneLeft
    <3> QED BY <1>0, <1>1, <2>6, <3>1, <3>2, <3>3 DEF NoneLeft
  <2> QED BY <1>1, <2>1, <2>2, <2>3, <2>4, <2>5, <2>6
<1>2. ASSUME NEW p \in Pids, UNCHANGED crashes, Create(p) PROVE TypeOK'
  <2>1. CASE entry # NoRegion BY <1>0, <1>2, <2>1 DEF Create, Places, Opening, Closing
  <2>2. CASE entry = NoRegion
    <3>1. PICK r \in Regions : CreatesIn(p, r) BY <1>2, <2>2, CreateWhere
    <3>2. at' \in [Pids -> Places] BY <1>0, <3>1 DEF CreatesIn, Places, Opening
    <3>3. createdNew' \in [Pids -> BOOLEAN] BY <1>0, <3>1 DEF CreatesIn
    <3>4. entry' \in Regions /\ fd' \in [Pids -> Regions \cup {NoRegion}]
      BY <1>0, <3>1 DEF CreatesIn
    <3>5. mutex' \in [Regions -> Pids \cup {Free, Dead}] BY <1>0, <3>1 DEF CreatesIn
    <3>6. sized' \subseteq Regions /\ ready' \subseteq sized' BY <1>0, <3>1 DEF CreatesIn
    <3> QED BY <1>0, <1>2, <3>1, <3>2, <3>3, <3>4, <3>5, <3>6 DEF CreatesIn
  <2> QED BY <2>1, <2>2
<1>3. ASSUME NEW p \in Pids, UNCHANGED crashes, OpenExisting(p) PROVE TypeOK'
  BY <1>0, <1>3 DEF OpenExisting, Places, Opening, Closing
<1>4. ASSUME NEW p \in Pids, UNCHANGED crashes,
             Flock(p) \/ CloseFlock(p) \/ Mutex(p) \/ CloseMutex(p)
      PROVE  TypeOK'
  BY <1>0, <1>4 DEF Flock, CloseFlock, Mutex, CloseMutex, TakeFlock, TakeMutex, Places, Opening, Closing
<1>5. ASSUME NEW p \in Pids, UNCHANGED crashes, Resize(p) \/ Initialize(p) \/ SetupFails(p)
      PROVE  TypeOK'
  <2>1. fd[p] \in Regions /\ fd[p] \notin ready /\ (at[p] = "initialize" => fd[p] \in sized)
    BY <1>0, <1>5, HasRegion, Unfinished
       DEF Resize, Initialize, SetupFails, Unattached, CreatorInv
  <2> QED BY <1>0, <1>5, <2>1 DEF Resize, Initialize, SetupFails, Places, Opening, Closing
<1>6. ASSUME NEW p \in Pids, UNCHANGED crashes, Release(p) PROVE TypeOK'
  <2>1. at' \in [Pids -> Places] BY <1>0, <1>6 DEF Release, Places, Opening, Closing
  <2>2. retried' \in [Pids -> BOOLEAN] /\ createdNew' \in [Pids -> BOOLEAN]
    BY <1>0, <1>6 DEF Release
  <2> QED BY <1>0, <1>6, <2>1, <2>2 DEF Release
<1>7. ASSUME NEW p \in Pids, UNCHANGED crashes, SentinelFails(p) PROVE TypeOK'
  <2>1. at' \in [Pids -> Places] BY <1>0, <1>7 DEF SentinelFails, Places, Opening, Closing
  <2>2. sentinels' \subseteq Pids BY <1>0, <1>7 DEF SentinelFails
  <2> QED BY <1>0, <1>7, <2>1, <2>2 DEF SentinelFails
<1>8. ASSUME NEW p \in Pids, UNCHANGED crashes, Count(p) \/ CloseRelease(p) PROVE TypeOK'
  BY <1>0, <1>8 DEF Count, CloseRelease, Places, Opening, Closing
<1>9. ASSUME NEW p \in Pids, UNCHANGED crashes, Scan(p) PROVE TypeOK'
  BY <1>0, <1>9 DEF Scan, Places, Opening, Closing
<1>10. ASSUME NEW p \in Pids, Crash(p) PROVE TypeOK'
  <2>1. crashes' \in 0 .. MaxCrashes BY <1>0, <1>10, CrashesAssumption DEF Crash
  <2>2. dirty' \in BOOLEAN BY <1>0, <1>10 DEF Crash, Active
  <2>3. at' \in [Pids -> Places] BY <1>0, <1>10 DEF Crash, Places
  <2> QED BY <1>0, <1>10, <2>1, <2>2, <2>3 DEF Crash
<1>11. CASE UNCHANGED vars BY <1>0, <1>11 DEF vars
<1>12. ASSUME NEW p \in Pids, UNCHANGED crashes, FlockFails(p) PROVE TypeOK'
  <2>1. at' \in [Pids -> Places] BY <1>0, <1>12 DEF FlockFails, Places
  <2>2. dirty' \in BOOLEAN BY <1>0, <1>12 DEF FlockFails
  <2> QED BY <1>0, <1>12, <2>1, <2>2 DEF FlockFails
<1>13. ASSUME NEW p \in Pids, UNCHANGED crashes, MutexFails(p) \/ CloseFd(p) PROVE TypeOK'
  BY <1>0, <1>13 DEF MutexFails, CloseFd, Places, Opening
<1>14. ASSUME NEW p \in Pids, UNCHANGED crashes, CloseFlockFails(p) \/ CloseMutexFails(p)
       PROVE  TypeOK'
  BY <1>0, <1>14 DEF CloseFlockFails, CloseMutexFails, Unlocked, Places, Closing
<1> QED BY <1>1, <1>2, <1>3, <1>4, <1>5, <1>6, <1>7, <1>8, <1>9, <1>10, <1>11, <1>12, <1>13, <1>14
        DEF Next, OpenStep, CloseStep, LockFails

\* The lock on a file is taken when it is free, and given up by its holder.
LEMMA LockStep == ASSUME IInv, [Next]_vars PROVE LockInv'
<1> USE RegionsAreNat, PidsAssumption DEF LockInv, TypeOK, Goto, Step, files, region, locals,
                                          Unattached, Locking, Closing
<1>0. TypeOK /\ LockInv /\ CreatorInv BY DEF IInv
<1>1. ASSUME NEW p \in Pids, Open(p) \/ Close(p) PROVE LockInv'
  BY <1>0, <1>1 DEF Open, Close
<1>2. ASSUME NEW p \in Pids, Create(p) PROVE LockInv'
  <2>1. CASE entry # NoRegion BY <1>0, <1>2, <2>1 DEF Create
  <2>2. CASE entry = NoRegion
    <3>1. PICK r \in Regions : CreatesIn(p, r) BY <1>2, <2>2, CreateWhere
    <3> QED BY <1>0, <3>1 DEF CreatesIn
  <2> QED BY <2>1, <2>2
<1>3. ASSUME NEW p \in Pids, OpenExisting(p) PROVE LockInv'
  BY <1>0, <1>3 DEF OpenExisting
<1>4. ASSUME NEW p \in Pids, Flock(p) \/ CloseFlock(p) PROVE LockInv'
  <2>1. /\ fd[p] \in Regions /\ flock[fd[p]] = Free /\ fd' = fd
        /\ flock' = [flock EXCEPT ![fd[p]] = p] /\ at'[p] \notin Unattached
        /\ \A q \in Pids \ {p} : at'[q] = at[q]
    BY <1>0, <1>4, HasRegion DEF Flock, CloseFlock, TakeFlock
  <2>2. \A q \in Pids : fd[q] = fd[p] => at[q] \notin Locking BY <1>0, <2>1
  <2>3. \A r \in Regions : flock'[r] = IF r = fd[p] THEN p ELSE flock[r] BY <1>0, <2>1
  <2> QED BY <1>0, <1>4, <2>1, <2>2, <2>3 DEF Flock, CloseFlock
<1>5. ASSUME NEW p \in Pids,
             Resize(p) \/ Initialize(p) \/ SetupFails(p) \/ Inspect(p) \/ MapFails(p)
             \/ Unlink(p) \/ Mutex(p) \/ MutexFails(p) \/ Sentinel(p) \/ SentinelFails(p)
      PROVE  LockInv'
  BY <1>0, <1>5 DEF Resize, Initialize, SetupFails, Inspect, MapFails, Unlink, Mutex, TakeMutex,
                    MutexFails, Sentinel, SentinelFails
<1>6. ASSUME NEW p \in Pids,
             CloseMutex(p) \/ Forget(p) \/ List(p) \/ Scan(p) \/ NoneLeft(p) \/ CloseUnlink(p)
      PROVE  LockInv'
  BY <1>0, <1>6 DEF CloseMutex, TakeMutex, Forget, List, Scan, NoneLeft, CloseUnlink
<1>7. ASSUME NEW p \in Pids, Release(p) \/ CloseRelease(p) \/ Count(p) PROVE LockInv'
  <2>1. /\ at[p] \in Locking /\ fd[p] \in Regions
        /\ flock' = [flock EXCEPT ![fd[p]] = Free] /\ at'[p] \notin Locking
    BY <1>0, <1>7, HasRegion DEF Release, CloseRelease, Count
  <2>2. fd'[p] = NoRegion <=> at'[p] \in Unattached
    BY <1>0, <1>7, <2>1 DEF Release, CloseRelease, Count
  <2>3. ASSUME NEW q \in Pids, q # p
        PROVE  /\ at'[q] = at[q] /\ fd'[q] = fd[q]
               /\ at[q] \in Locking => flock'[fd[q]] = q
    <3>1. at'[q] = at[q] /\ fd'[q] = fd[q]
      BY <1>0, <1>7, <2>3, OthersStay DEF Acts, OpenStep, CloseStep
    <3>2. at[q] \in Locking => fd[q] \in Regions /\ fd[q] # fd[p] BY <1>0, <2>1, <2>3
    <3> QED BY <1>0, <2>1, <3>1, <3>2
  <2> QED BY <1>0, <2>1, <2>2, <2>3
<1>8. ASSUME NEW p \in Pids, Crash(p) PROVE LockInv'
  <2>1. at'[p] = "none" /\ fd'[p] = NoRegion BY <1>0, <1>8 DEF Crash
  <2>2. ASSUME NEW q \in Pids, q # p
        PROVE  /\ at'[q] = at[q] /\ fd'[q] = fd[q]
               /\ at[q] \in Locking => flock'[fd[q]] = q
    BY <1>0, <1>8, <2>2 DEF Crash
  <2> QED BY <1>0, <2>1, <2>2
<1>9. CASE UNCHANGED vars BY <1>0, <1>9 DEF vars
<1>10. ASSUME NEW p \in Pids, FlockFails(p) \/ CloseFd(p) PROVE LockInv'
  BY <1>0, <1>10 DEF FlockFails, CloseFd
<1>11. ASSUME NEW p \in Pids, CloseFlockFails(p) \/ CloseMutexFails(p) PROVE LockInv'
  BY <1>0, <1>11 DEF CloseFlockFails, CloseMutexFails, Unlocked
<1> QED BY <1>1, <1>2, <1>3, <1>4, <1>5, <1>6, <1>7, <1>8, <1>9, <1>10, <1>11
        DEF Next, OpenStep, CloseStep, LockFails

\* Create is the only step that makes a creator, and it takes a region of its own.
LEMMA CreatorStep == ASSUME IInv, [Next]_vars PROVE CreatorInv'
<1> USE DEF TypeOK, Goto, Step, files, region, locals
<1>0. TypeOK /\ LockInv /\ CreatorInv BY DEF IInv
<1>1. ASSUME NEW p \in Pids, Open(p) \/ Close(p) \/ OpenExisting(p) PROVE CreatorInv'
  BY <1>0, <1>1 DEF Open, Close, OpenExisting, CreatorInv, Locking, Closing
<1>2. ASSUME NEW p \in Pids, Create(p) PROVE CreatorInv'
  <2>1. CASE entry # NoRegion BY <1>0, <1>2, <2>1 DEF Create, CreatorInv, Locking, Closing
  <2>2. CASE entry = NoRegion
    <3>1. PICK r \in Regions : CreatesIn(p, r) BY <1>2, <2>2, CreateWhere
    <3>2. /\ at'[p] = "flock" /\ fd'[p] = r /\ createdNew'[p] /\ ready' = ready \ {r}
          /\ sized' = sized \ {r}
      BY <1>0, <3>1 DEF CreatesIn
    <3>3. \A q \in Pids \ {p} : /\ at'[q] = at[q] /\ fd'[q] = fd[q] /\ fd[q] # r
                                /\ createdNew'[q] = createdNew[q]
      BY <1>0, <3>1 DEF CreatesIn
    <3> QED BY <1>0, <3>2, <3>3 DEF CreatorInv, Locking, Closing
  <2> QED BY <2>1, <2>2
<1>3. ASSUME NEW p \in Pids,
             Flock(p) \/ Inspect(p) \/ MapFails(p) \/ Unlink(p) \/ Mutex(p) \/ MutexFails(p)
             \/ Sentinel(p) \/ SentinelFails(p)
      PROVE  CreatorInv'
  BY <1>0, <1>3 DEF Flock, TakeFlock, Inspect, MapFails, Unlink, Mutex, TakeMutex, MutexFails,
                    Sentinel, SentinelFails, CreatorInv, Locking, Closing
<1>4. ASSUME NEW p \in Pids, Resize(p) PROVE CreatorInv'
  BY <1>0, <1>4 DEF Resize, CreatorInv, Locking, Closing
<1>5. ASSUME NEW p \in Pids, Initialize(p) PROVE CreatorInv'
  <2>1. createdNew[p] /\ at'[p] = "mutex" /\ ready' = ready \cup {fd[p]} /\ sized' = sized
        /\ fd' = fd /\ createdNew' = createdNew
    BY <1>0, <1>5, Unfinished DEF Initialize
  <2>2. \A q \in Pids \ {p} : at'[q] = at[q] /\ (createdNew[q] => fd[q] # fd[p])
    BY <1>0, <1>5, <2>1 DEF Initialize, CreatorInv
  <2> QED BY <1>0, <2>1, <2>2 DEF CreatorInv, Locking, Closing
<1>6. ASSUME NEW p \in Pids, SetupFails(p) PROVE CreatorInv'
  <2>1. createdNew[p] /\ at'[p] = "unlink" /\ ready' = ready /\ sized \ {fd[p]} \subseteq sized'
        /\ fd' = fd /\ createdNew' = createdNew
    BY <1>0, <1>6, Unfinished DEF SetupFails
  <2>2. \A q \in Pids \ {p} : at'[q] = at[q] /\ (createdNew[q] => fd[q] # fd[p])
    BY <1>0, <1>6, <2>1 DEF SetupFails, CreatorInv
  <2> QED BY <1>0, <2>1, <2>2 DEF CreatorInv, Locking, Closing
<1>7. ASSUME NEW p \in Pids, Release(p) \/ Count(p) \/ FlockFails(p) \/ Crash(p)
      PROVE  CreatorInv'
  <2>1. ~createdNew'[p] /\ at'[p] \in {"closed", "create", "open", "none"}
        /\ sized' = sized /\ ready' = ready
    BY <1>0, <1>7 DEF Release, Count, FlockFails, Crash
  <2>2. \A q \in Pids \ {p} :
           at'[q] = at[q] /\ fd'[q] = fd[q] /\ createdNew'[q] = createdNew[q]
    BY <1>0, <1>7, OthersStay DEF Acts, OpenStep, CloseStep, LockFails
  <2> QED BY <1>0, <2>1, <2>2 DEF CreatorInv, Locking, Closing
<1>8. ASSUME NEW p \in Pids, CloseStep(p) \/ CloseFlockFails(p) \/ CloseMutexFails(p)
      PROVE  CreatorInv'
  <2>1. ~createdNew[p] /\ createdNew' = createdNew /\ at'[p] \in Closing \cup {"closed"}
        /\ sized' = sized /\ ready' = ready
    BY <1>0, <1>8 DEF CloseStep, CloseFlock, CloseMutex, TakeFlock, TakeMutex, Forget, List, Scan,
                      NoneLeft, CloseUnlink, CloseRelease, CloseFd, CloseFlockFails,
                      CloseMutexFails, Unlocked, CreatorInv, Locking, Closing
  <2>2. \A q \in Pids \ {p} :
           at'[q] = at[q] /\ fd'[q] = fd[q] /\ createdNew'[q] = createdNew[q]
    BY <1>0, <1>8, OthersStay DEF Acts, LockFails
  <2> QED BY <1>0, <2>1, <2>2 DEF CreatorInv, Locking, Closing
<1>9. CASE UNCHANGED vars BY <1>0, <1>9 DEF vars, CreatorInv
<1> QED BY <1>1, <1>2, <1>3, <1>4, <1>5, <1>6, <1>7, <1>8, <1>9 DEF Next, OpenStep, LockFails

\* A finished region is not set up again, and a process maps only what it found finished.
LEMMA ContentsStep == ASSUME IInv, [Next]_vars PROVE FinishedContents'
<1> USE DEF TypeOK, Goto, Step, files, region, locals
<1> DEFINE Mapped == {"mutex", "sentinel", "count", "open"} \cup Closing
<1>0. TypeOK /\ LockInv /\ CreatorInv /\ FinishedContents BY DEF IInv
<1>1. ASSUME NEW p \in Pids, Create(p) PROVE FinishedContents'
  <2>1. CASE entry # NoRegion BY <1>0, <1>1, <2>1 DEF Create, FinishedContents, Closing
  <2>2. CASE entry = NoRegion
    <3>1. PICK r \in Regions : CreatesIn(p, r) BY <1>1, <2>2, CreateWhere
    <3> QED BY <1>0, <3>1 DEF CreatesIn, FinishedContents, Closing
  <2> QED BY <2>1, <2>2
<1>2. ASSUME NEW p \in Pids, SetupFails(p) PROVE FinishedContents'
  <2>1. fd[p] \notin ready /\ at'[p] = "unlink" /\ fd' = fd /\ ready' = ready
        /\ sized \ {fd[p]} \subseteq sized'
    BY <1>0, <1>2, Unfinished DEF SetupFails
  <2>2. \A q \in Pids \ {p} : at'[q] = at[q] BY <1>0, <1>2 DEF SetupFails
  <2> QED BY <1>0, <2>1, <2>2 DEF FinishedContents, Closing
<1>3. ASSUME NEW p \in Pids, Initialize(p) PROVE FinishedContents'
  <2>1. fd[p] \in sized BY <1>0, <1>3 DEF Initialize, CreatorInv
  <2> QED BY <1>0, <1>3, <2>1 DEF Initialize, FinishedContents, Closing
<1>4. ASSUME NEW p \in Pids, Acts(p), ~Create(p), ~SetupFails(p), ~Initialize(p)
      PROVE  FinishedContents'
  <2>1. sized \subseteq sized' /\ ready' = ready
    BY <1>4 DEF Acts, OpenStep, CloseStep, Open, Close, OpenExisting, Flock, TakeFlock, Resize,
                Inspect, MapFails, Unlink, Release, Mutex, TakeMutex, Sentinel, SentinelFails, Count,
                CloseFlock, CloseMutex, Forget, List, Scan, NoneLeft, CloseUnlink, CloseRelease, Crash,
                CloseFd, LockFails, FlockFails, MutexFails, CloseFlockFails, CloseMutexFails, Unlocked
  <2>2. at'[p] \in Mapped =>
           /\ fd'[p] = fd[p]
           /\ \/ at[p] \in Mapped
              \/ at[p] = "inspect" /\ fd[p] \in sized \cap ready
    <3>1. CASE Open(p) \/ OpenExisting(p) \/ Flock(p) \/ Resize(p) \/ MapFails(p) \/ Unlink(p)
               \/ Release(p) \/ SentinelFails(p) \/ FlockFails(p) \/ MutexFails(p)
      <4>1. at'[p] \in {"create", "closed", "flock", "resize", "inspect", "initialize", "unlink",
                        "release"}
        BY <1>0, <3>1 DEF Open, OpenExisting, Flock, Resize, MapFails, Unlink, Release,
                          SentinelFails, FlockFails, MutexFails
      <4> QED BY <4>1 DEF Closing
    <3>2. CASE Inspect(p) BY <1>0, <3>2 DEF Inspect, Closing
    <3>3. CASE Close(p) \/ Mutex(p) \/ Sentinel(p) \/ Count(p) \/ CloseFlockFails(p)
               \/ CloseMutexFails(p) \/ (CloseStep(p) /\ ~CloseRelease(p) /\ ~CloseFd(p))
      <4>1. fd' = fd
        BY <3>3 DEF Close, Mutex, TakeMutex, Sentinel, Count, CloseStep, CloseFlock, CloseMutex,
                    TakeFlock, Forget, List, Scan, NoneLeft, CloseUnlink, CloseFlockFails,
                    CloseMutexFails, Unlocked
      <4>2. at[p] \in Mapped
        BY <3>3 DEF Close, Mutex, Sentinel, Count, CloseStep, CloseFlock, CloseMutex, Forget, List,
                    Scan, NoneLeft, CloseUnlink, CloseFlockFails, CloseMutexFails, Closing
      <4> QED BY <4>1, <4>2
    <3>4. CASE CloseRelease(p) \/ CloseFd(p) BY <1>0, <3>4 DEF CloseRelease, CloseFd, Closing
    <3>5. CASE Crash(p) BY <1>0, <3>5 DEF Crash, Closing
    <3> QED BY <1>4, <3>1, <3>2, <3>3, <3>4, <3>5 DEF Acts, OpenStep, LockFails
  <2>3. \A q \in Pids \ {p} : at'[q] = at[q] /\ fd'[q] = fd[q] BY <1>0, <1>4, OthersStay
  <2> QED BY <1>0, <2>1, <2>2, <2>3 DEF FinishedContents
<1>5. CASE UNCHANGED vars BY <1>0, <1>5 DEF vars, FinishedContents
<1> QED BY <1>1, <1>2, <1>3, <1>4, <1>5 DEF Next, Acts

\* What the step of p does to its own place among those with a sentinel, and to the files.
LEMMA ListedStep ==
  ASSUME TypeOK, NEW p \in Pids, Acts(p)
  PROVE  /\ at'[p] \in Listed => \/ at[p] \in Listed /\ ~Forget(p)
                                \/ Sentinel(p)
         /\ at'[p] \in Using => (at[p] \in Using \/ Count(p)) /\ fd'[p] = fd[p]
         /\ at'[p] = "scan" => List(p) \/ Scan(p)
         /\ at'[p] = "closeUnlink" => NoneLeft(p)
<1> USE DEF TypeOK, Goto, Step, files, region, locals, Listed, Using
<1>1. CASE Open(p) \/ Create(p) \/ OpenExisting(p) \/ Flock(p) \/ Resize(p) \/ Initialize(p)
           \/ SetupFails(p) \/ Inspect(p) \/ MapFails(p)
  <2>1. at'[p] \notin Listed \cup Using \cup {"scan", "closeUnlink"}
    BY <1>1 DEF Open, Create, OpenExisting, Flock, Resize, Initialize, SetupFails, Inspect, MapFails
  <2> QED BY <2>1
<1>2. CASE Unlink(p) \/ Release(p) \/ Mutex(p) \/ SentinelFails(p)
           \/ CloseUnlink(p) \/ CloseRelease(p) \/ CloseFd(p) \/ Forget(p) \/ LockFails(p)
           \/ Crash(p)
  <2>1. at'[p] \notin Listed \cup Using \cup {"scan", "closeUnlink"}
    BY <1>2 DEF Unlink, Release, Mutex, SentinelFails, CloseUnlink, CloseRelease, CloseFd, Forget,
                LockFails, FlockFails, MutexFails, CloseFlockFails, CloseMutexFails, Crash
  <2> QED BY <2>1
<1>3. CASE Close(p) \/ Sentinel(p) \/ Count(p) \/ CloseFlock(p) \/ CloseMutex(p)
  BY <1>3 DEF Close, Sentinel, Count, CloseFlock, CloseMutex, TakeFlock, TakeMutex, Forget
<1>4. CASE List(p) \/ Scan(p) \/ NoneLeft(p) BY <1>4 DEF List, Scan, NoneLeft
<1> QED BY <1>1, <1>2, <1>3, <1>4 DEF Acts, OpenStep, CloseStep

\* A process removes its own sentinel, or in a scan that of a dead one.
LEMMA SentinelsStep ==
  ASSUME TypeOK, NEW p \in Pids, Acts(p)
  PROVE  \/ Sentinel(p) /\ sentinels' = sentinels \cup {p}
         \/ at'[p] \notin Listed /\ sentinels' = sentinels \ {p}
         \/ Scan(p) /\ \E q \in Pids : ~Alive(q) /\ sentinels' = sentinels \ {q}
         \/ ~Forget(p) /\ sentinels' = sentinels
<1> USE DEF files, Step, Goto
<1>1. CASE Scan(p)
  <2>1. ~Forget(p) BY <1>1 DEF Scan, Forget
  <2> QED BY <1>1, <2>1 DEF Scan, TypeOK
<1>2. CASE Forget(p) \/ SentinelFails(p) \/ CloseFlockFails(p) \/ CloseMutexFails(p)
  <2>1. at'[p] \in {"list", "unlink", "release", "closeFd", "closeRelease"}
    BY <1>2 DEF Forget, SentinelFails, CloseFlockFails, CloseMutexFails, TypeOK
  <2>2. at'[p] \notin Listed BY <2>1 DEF Listed
  <2>3. sentinels' = sentinels \ {p} \/ (~Forget(p) /\ sentinels' = sentinels)
    <3>1. CASE SentinelFails(p)
      <4>1. sentinels' \in {sentinels, sentinels \ {p}} BY <3>1 DEF SentinelFails
      <4>2. ~Forget(p) BY <3>1 DEF SentinelFails, Forget
      <4> QED BY <4>1, <4>2
    <3>2. CASE ~SentinelFails(p)
      BY <1>2, <3>2 DEF Forget, CloseFlockFails, CloseMutexFails, Unlocked
    <3> QED BY <3>1, <3>2
  <2> QED BY <2>2, <2>3
<1>3. CASE Acts(p) /\ ~Scan(p) /\ ~Forget(p) /\ ~SentinelFails(p) /\ ~CloseFlockFails(p)
           /\ ~CloseMutexFails(p)
  BY <1>3 DEF Acts, OpenStep, CloseStep, LockFails, Open, Close, Create, OpenExisting, Flock, TakeFlock,
              FlockFails, Resize, Initialize, SetupFails, Inspect, MapFails, Unlink, Release, Mutex,
              TakeMutex, MutexFails, Sentinel, Count, CloseFlock, CloseMutex, List, NoneLeft,
              CloseUnlink, CloseRelease, CloseFd, Crash
<1> QED BY <1>1, <1>2, <1>3

\* A process whose sentinel is there stays listed until it has been looked at.
LEMMA SentinelStep == ASSUME IInv, [Next]_vars PROVE SentinelInv'
<1>0. TypeOK /\ LockInv /\ SentinelInv BY DEF IInv
<1>1. ASSUME NEW p \in Pids, Acts(p) PROVE SentinelInv'
  <2>1. ASSUME NEW q \in Pids \ {p}
        PROVE  at'[q] = at[q] /\ fd'[q] = fd[q] /\ unseen'[q] = unseen[q]
    BY <1>0, <1>1, OthersStay
  <2>2. ASSUME NEW q \in Pids, at'[q] \in Listed PROVE q \in sentinels'
    <3>1. CASE q = p
      <4>1. CASE Sentinel(p) BY <3>1, <4>1 DEF Sentinel
      <4>2. CASE at[p] \in Listed /\ ~Forget(p)
        BY <1>0, <1>1, <2>2, <3>1, <4>2, SentinelsStep DEF SentinelInv, Alive, Listed
      <4> QED BY <1>0, <1>1, <2>2, <3>1, <4>1, <4>2, ListedStep
    <3>2. CASE q # p
      <4>1. at[q] \in Listed BY <2>1, <2>2, <3>2
      <4>2. q \in sentinels /\ Alive(q) BY <1>0, <4>1 DEF SentinelInv, Alive, Listed
      <4> QED BY <1>0, <1>1, <3>2, <4>2, SentinelsStep
    <3> QED BY <3>1, <3>2
  <2>3. ASSUME NEW c \in Pids, NEW q \in Pids, c # q, fd'[c] = fd'[q], at'[q] \in Using
        PROVE  (at'[c] = "scan" => q \in unseen'[c]) /\ at'[c] # "closeUnlink"
    <3>1. CASE p = c
      <4>1. at[q] \in Using /\ fd[q] = fd'[c] BY <2>1, <2>3, <3>1
      <4>2. CASE List(p)
        BY <1>0, <2>3, <3>1, <4>1, <4>2
           DEF List, Step, Goto, locals, SentinelInv, Using, Listed, TypeOK
      <4>3. CASE Scan(p)
        <5>1. q \in unseen[c] /\ Alive(q)
          BY <1>0, <2>3, <3>1, <4>1, <4>3 DEF Scan, SentinelInv, Using, Alive
        <5> QED BY <1>0, <3>1, <4>3, <5>1 DEF Scan, Goto, TypeOK
      <4>4. ~NoneLeft(p)
        BY <1>0, <2>3, <3>1, <4>1 DEF NoneLeft, Step, locals, SentinelInv
      <4>5. at'[c] # "closeUnlink" BY <1>0, <1>1, <3>1, <4>4, ListedStep
      <4> QED BY <1>0, <1>1, <3>1, <4>2, <4>3, <4>5, ListedStep
    <3>2. CASE p = q
      <4>1. fd[q] = fd[c] /\ at'[c] = at[c] /\ unseen'[c] = unseen[c]
            /\ (at[q] \in Using \/ Count(q))
        BY <1>0, <1>1, <2>1, <2>3, <3>2, ListedStep
      <4>2. CASE Count(q)
        <5>1. at[q] \in Locking BY <4>2 DEF Count, Step, Locking
        <5>2. at[c] \notin Locking BY <1>0, <2>3, <4>1, <5>1, Exclusive
        <5> QED BY <4>1, <5>2 DEF Locking, Closing
      <4>3. CASE at[q] \in Using BY <1>0, <2>3, <4>1, <4>3 DEF SentinelInv
      <4> QED BY <4>1, <4>2, <4>3
    <3>3. CASE p # c /\ p # q BY <1>0, <2>1, <2>3, <3>3 DEF SentinelInv
    <3> QED BY <3>1, <3>2, <3>3
  <2> QED BY <2>2, <2>3 DEF SentinelInv
<1>2. CASE UNCHANGED vars BY <1>0, <1>2 DEF vars, SentinelInv
<1> QED BY <1>1, <1>2 DEF Next, Acts

\* How a process comes to be, and to stay, a creator, and how it comes to unlink the name.
LEMMA BecomesRemover ==
  ASSUME TypeOK, CreatorInv, NEW p \in Pids, Acts(p)
  PROVE  /\ createdNew'[p] => \/ createdNew[p] /\ fd'[p] = fd[p]
                              \/ Create(p) /\ entry = NoRegion
         /\ at'[p] = "unlink" /\ ~createdNew'[p] =>
               fd'[p] \notin sized' \cap ready'
<1> USE DEF TypeOK, Goto, Step, files, region, locals
<1>1. CASE Open(p) \/ OpenExisting(p) \/ Release(p) \/ Crash(p) \/ FlockFails(p) \/ Count(p)
  <2>1. at'[p] # "unlink"
    BY <1>1 DEF Open, OpenExisting, Release, Crash, FlockFails, Count
  <2>2. createdNew'[p] => createdNew[p] /\ fd'[p] = fd[p]
    BY <1>1 DEF Open, OpenExisting, Release, Crash, FlockFails, Count, CreatorInv, Locking, Closing
  <2> QED BY <2>1, <2>2
<1>2. CASE Create(p) BY <1>2 DEF Create
<1>3. CASE Close(p) \/ CloseStep(p) \/ CloseFlockFails(p) \/ CloseMutexFails(p)
  <2>1. at'[p] \in Closing \cup {"closed"}
    BY <1>3 DEF Close, CloseStep, CloseFlock, CloseMutex, Forget, List, Scan, NoneLeft, CloseUnlink,
                CloseRelease, CloseFd, CloseFlockFails, CloseMutexFails, Closing
  <2>2. at[p] \in Closing \cup {"open"} /\ createdNew' = createdNew
    BY <1>3 DEF Close, CloseStep, CloseFlock, CloseMutex, TakeFlock, TakeMutex, Forget, List, Scan,
                NoneLeft, CloseUnlink, CloseRelease, CloseFd, CloseFlockFails, CloseMutexFails,
                Unlocked, Closing
  <2>3. ~createdNew[p] BY <2>2 DEF CreatorInv, Locking, Closing
  <2> QED BY <2>1, <2>2, <2>3 DEF Closing
<1>4. CASE Flock(p) \/ Resize(p) \/ Initialize(p) \/ Unlink(p) \/ Mutex(p) \/ Sentinel(p)
           \/ MapFails(p)
  BY <1>4 DEF Flock, TakeFlock, Resize, Initialize, Unlink, Mutex, TakeMutex, Sentinel, MapFails
<1>5. CASE SetupFails(p) \/ MutexFails(p) \/ SentinelFails(p)
  BY <1>5 DEF SetupFails, MutexFails, SentinelFails, CreatorInv
<1>6. CASE Inspect(p) BY <1>6 DEF Inspect
<1> QED BY <1>1, <1>2, <1>3, <1>4, <1>5, <1>6 DEF Acts, OpenStep, LockFails

\* Regions grow and become ready under the lock on their file.
LEMMA FinishesOwn ==
  ASSUME TypeOK, NEW p \in Pids, Acts(p), NEW r \in sized' \cap ready', r \notin sized \cap ready
  PROVE  r = fd[p] /\ at[p] \in Locking
<1> USE DEF files, region, Step
<1>1. CASE Resize(p) \/ Initialize(p) BY <1>1 DEF Resize, Initialize, Locking
<1>2. CASE ~Resize(p) /\ ~Initialize(p)
  BY <1>2 DEF Acts, OpenStep, CloseStep, LockFails, Open, Close, Create, OpenExisting, Flock,
              TakeFlock, FlockFails, SetupFails, Inspect, MapFails, Unlink, Release, Mutex, TakeMutex,
              MutexFails, Sentinel, SentinelFails, Count, CloseFlock, CloseMutex, CloseFlockFails,
              CloseMutexFails, Unlocked, Forget, List, Scan, NoneLeft, CloseUnlink, CloseRelease,
              CloseFd, Crash
<1> QED BY <1>1, <1>2

\* Whoever gets a region open has had its lock since the region was found finished.
LEMMA RemoverStep == ASSUME IInv, [Next]_vars PROVE RemoverInv'
<1>0. TypeOK /\ LockInv /\ CreatorInv /\ FinishedContents /\ RemoverInv BY DEF IInv
<1>1. ASSUME NEW p \in Pids, Acts(p) PROVE RemoverInv'
  <2>1. ASSUME NEW q \in Pids \ {p}
        PROVE  at'[q] = at[q] /\ fd'[q] = fd[q] /\ createdNew'[q] = createdNew[q]
    BY <1>0, <1>1, OthersStay
  <2>2. ASSUME NEW c \in Pids, NEW q \in Pids, c # q, createdNew'[c], fd'[c] = fd'[q],
               at'[q] \in Using
        PROVE  FALSE
    <3>1. CASE p = c
      <4>1. at[q] \in Using /\ fd[q] = fd'[c] BY <2>1, <2>2, <3>1
      <4>2. CASE Create(p) /\ entry = NoRegion
        <5>1. PICK r \in Regions : CreatesIn(p, r) BY <4>2, CreateWhere
        <5>2. fd'[p] = r BY <1>0, <5>1 DEF CreatesIn, TypeOK
        <5> QED BY <3>1, <4>1, <5>1, <5>2 DEF CreatesIn
      <4>3. CASE createdNew[p] /\ fd'[p] = fd[p] BY <1>0, <2>2, <3>1, <4>1, <4>3 DEF RemoverInv
      <4> QED BY <1>0, <1>1, <2>2, <3>1, <4>2, <4>3, BecomesRemover
    <3>2. CASE p = q
      <4>1. createdNew[c] /\ fd[c] = fd[q] /\ (at[q] \in Using \/ Count(q))
        BY <1>0, <1>1, <2>1, <2>2, <3>2, ListedStep
      <4>2. CASE Count(q)
        <5>1. at[q] = "count" /\ fd[q] \in ready BY <1>0, <4>2 DEF Count, Step, FinishedContents
        <5>2. at[c] \notin Locking BY <1>0, <2>2, <4>1, <5>1, Exclusive DEF Locking
        <5>3. at[c] = "flock" BY <1>0, <4>1, <5>2 DEF CreatorInv
        <5> QED BY <1>0, <4>1, <5>1, <5>3 DEF CreatorInv
      <4> QED BY <1>0, <2>2, <4>1, <4>2 DEF RemoverInv
    <3>3. CASE p # c /\ p # q BY <1>0, <2>1, <2>2, <3>3 DEF RemoverInv
    <3> QED BY <3>1, <3>2, <3>3
  <2>3. ASSUME NEW c \in Pids, at'[c] = "unlink", ~createdNew'[c]
        PROVE  fd'[c] \notin sized' \cap ready'
    <3>1. CASE p = c BY <1>0, <1>1, <2>3, <3>1, BecomesRemover
    <3>2. CASE p # c
      <4>1. at[c] = "unlink" /\ fd'[c] = fd[c] /\ fd[c] \notin sized \cap ready
        BY <1>0, <2>1, <2>3, <3>2 DEF RemoverInv
      <4>2. at[p] \in Locking => fd[p] # fd[c]
        BY <1>0, <3>2, <4>1, Exclusive DEF Locking
      <4> QED BY <1>0, <1>1, <4>1, <4>2, FinishesOwn
    <3> QED BY <3>1, <3>2
  <2> QED BY <2>2, <2>3 DEF RemoverInv
<1>2. CASE UNCHANGED vars BY <1>0, <1>2 DEF vars, RemoverInv
<1> QED BY <1>1, <1>2 DEF Next, Acts

\* The steps of a process about to close, or closing.
LEMMA ClosingStep ==
  ASSUME TypeOK, NEW p \in Pids, Acts(p), ~Crash(p)
  PROVE  /\ at[p] \in Listed => Forget(p) \/ at'[p] \in Listed \/ dirty'
         /\ at[p] = "list" => List(p)
         /\ at[p] = "scan" => Scan(p) \/ NoneLeft(p)
         /\ at[p] = "closeUnlink" => CloseUnlink(p)
<1> USE DEF TypeOK, Goto, Step, files, region, locals, Listed
<1>1. CASE Open(p) \/ Create(p) \/ OpenExisting(p) \/ Flock(p) \/ Resize(p) \/ Initialize(p)
           \/ SetupFails(p) \/ Inspect(p) \/ MapFails(p) \/ Unlink(p) \/ Release(p) \/ Mutex(p)
           \/ Sentinel(p) \/ SentinelFails(p) \/ CloseRelease(p) \/ CloseFd(p) \/ FlockFails(p)
           \/ MutexFails(p)
  <2>1. at[p] \notin Listed \cup {"list", "scan", "closeUnlink"}
    BY <1>1 DEF Open, Create, OpenExisting, Flock, Resize, Initialize, SetupFails, Inspect, MapFails,
                Unlink, Release, Mutex, Sentinel, SentinelFails, CloseRelease, CloseFd, FlockFails,
                MutexFails
  <2> QED BY <2>1
<1>2. CASE Close(p) \/ Count(p) \/ CloseFlock(p) \/ CloseMutex(p) \/ Forget(p)
  BY <1>2 DEF Close, Count, CloseFlock, CloseMutex, TakeFlock, TakeMutex, Forget
<1>3. CASE List(p) \/ Scan(p) \/ NoneLeft(p) \/ CloseUnlink(p)
  BY <1>3 DEF List, Scan, NoneLeft, CloseUnlink
<1>4. CASE CloseFlockFails(p) \/ CloseMutexFails(p)
  BY <1>4 DEF CloseFlockFails, CloseMutexFails, Unlocked
<1> QED BY <1>1, <1>2, <1>3, <1>4 DEF Acts, OpenStep, CloseStep, LockFails

\* The creator of a region is responsible for its name until it has opened it, or has
\* given up and removed the name.
LEMMA CreatorResponsible ==
  ASSUME TypeOK, CreatorInv, NEW p \in Pids, Acts(p), ~Crash(p), createdNew[p], at[p] # "release"
  PROVE  Responsible(p)' \/ entry' = NoRegion \/ dirty'
<1> USE DEF TypeOK, Goto, Step, files, region, locals, Responsible, Listed
<1>0. at[p] \in {"flock", "resize", "initialize", "unlink", "mutex", "sentinel", "count"}
  BY DEF CreatorInv, Locking, Closing
<1>1. CASE Flock(p) \/ Resize(p) \/ Initialize(p) \/ SetupFails(p) \/ Mutex(p) \/ MutexFails(p)
           \/ Sentinel(p) \/ SentinelFails(p)
  BY <1>0, <1>1 DEF Flock, TakeFlock, Resize, Initialize, SetupFails, Mutex, TakeMutex, MutexFails,
                    Sentinel, SentinelFails
<1>2. CASE Unlink(p) \/ Count(p) \/ FlockFails(p) BY <1>2 DEF Unlink, Count, FlockFails
<1>3. CASE Open(p) \/ Close(p) \/ Create(p) \/ OpenExisting(p) \/ Inspect(p) \/ MapFails(p)
           \/ Release(p) \/ CloseStep(p) \/ CloseFlockFails(p) \/ CloseMutexFails(p)
  BY <1>0, <1>3 DEF Open, Close, Create, OpenExisting, Inspect, MapFails, Release, CloseStep,
                    CloseFlock, CloseMutex, Forget, List, Scan, NoneLeft, CloseUnlink, CloseRelease,
                    CloseFd, CloseFlockFails, CloseMutexFails
<1> QED BY <1>1, <1>2, <1>3 DEF Acts, OpenStep, LockFails

\* Whoever is responsible for the name passes that on, or removes the name.
LEMMA NameStep == ASSUME IInv, [Next]_vars PROVE NameInv'
<1>0. TypeOK /\ LockInv /\ CreatorInv /\ SentinelInv /\ NameInv BY DEF IInv
<1>1. ASSUME NEW p \in Pids, Acts(p), ~dirty', dirty PROVE NameInv'
  <2>1. NoneLeft(p)
    BY <1>0, <1>1 DEF Acts, OpenStep, CloseStep, Open, Close, Create, OpenExisting, Flock, TakeFlock,
         Resize, Initialize, SetupFails, Inspect, MapFails, Unlink, Release, Mutex, TakeMutex,
         Sentinel, SentinelFails, Count, CloseFlock, CloseMutex, Forget, List, Scan, CloseUnlink,
         CloseRelease, CloseFd, LockFails, FlockFails, MutexFails, CloseFlockFails, CloseMutexFails,
         Unlocked, Crash, TypeOK
  <2>2. sentinels' = {} /\ at'[p] = "closeUnlink"
    BY <1>0, <1>1, <2>1 DEF NoneLeft, Step, Goto, TypeOK
  <2> QED BY <2>2 DEF NameInv, Responsible
<1>2. ASSUME NEW p \in Pids, Acts(p), ~dirty', ~dirty PROVE NameInv'
  <2>1. ASSUME NEW q \in Pids \ {p}
        PROVE  /\ at'[q] = at[q] /\ unseen'[q] = unseen[q] /\ createdNew'[q] = createdNew[q]
               /\ Responsible(q) => Responsible(q)'
    BY <1>0, <1>2, OthersStay DEF Responsible
  <2>2. ~Crash(p) \/ ~Active(p) BY <1>2 DEF Crash
  <2>3. ASSUME NEW q \in sentinels' PROVE at'[q] \in Listed
    <3>1. CASE Sentinel(p)
      <4>1. at'[p] = "count" /\ (q = p \/ (q \in sentinels /\ q \in Pids))
        BY <1>0, <2>3, <3>1 DEF Sentinel, Step, Goto, TypeOK
      <4> QED BY <1>0, <1>2, <2>1, <4>1 DEF NameInv, Listed
    <3>2. CASE ~Sentinel(p)
      <4>1. q \in sentinels /\ q \in Pids /\ (Forget(p) => q # p)
        BY <1>0, <1>2, <2>3, <3>2, SentinelsStep DEF TypeOK, Forget, Scan, Step
      <4>2. at[q] \in Listed BY <1>2, <1>0, <4>1 DEF NameInv
      <4>3. CASE q = p BY <1>0, <1>2, <2>2, <4>1, <4>2, <4>3, ClosingStep DEF Active, Listed
      <4> QED BY <2>1, <4>1, <4>2, <4>3
    <3> QED BY <3>1, <3>2
  <2>4. ASSUME entry' # NoRegion PROVE \E q \in Pids : Responsible(q)'
    <3>1. CASE entry = NoRegion
      <4>1. Create(p)
        BY <1>2, <2>4, <3>1 DEF Acts, OpenStep, CloseStep, Open, Close, OpenExisting, Flock,
             TakeFlock, Resize, Initialize, SetupFails, Inspect, MapFails, Unlink, Release, Mutex,
             TakeMutex, Sentinel, SentinelFails, Count, CloseFlock, CloseMutex, Forget, List, Scan,
             NoneLeft, CloseUnlink, CloseRelease, CloseFd, LockFails, FlockFails, MutexFails,
             CloseFlockFails, CloseMutexFails, Unlocked, Crash, files
      <4>2. createdNew'[p] /\ at'[p] = "flock"
        BY <1>0, <3>1, <4>1 DEF Create, Step, Goto, TypeOK
      <4> QED BY <4>2 DEF Responsible
    <3>2. ASSUME NEW q \in Pids \ {p}, Responsible(q) PROVE Responsible(q)' BY <2>1, <3>2
    <3>3. CASE entry # NoRegion /\ Responsible(p)
      <4>1. ~Crash(p)
        BY <1>0, <2>2, <3>3 DEF Active, Responsible, CreatorInv, Listed, Locking, Closing
      <4>2. CASE at[p] \in Listed
        BY <1>0, <1>2, <4>1, <4>2, ClosingStep DEF Forget, Step, Goto, Responsible, TypeOK
      <4>3. CASE at[p] = "list"
        <5>1. at'[p] = "scan" /\ unseen'[p] = sentinels
          BY <1>0, <1>2, <4>1, <4>3, ClosingStep DEF List, Step, Goto, TypeOK
        <5>2. CASE sentinels = {} BY <5>1, <5>2 DEF Responsible
        <5>3. ASSUME NEW q \in sentinels PROVE q \in Pids \ {p} /\ Responsible(q)
          BY <1>0, <1>2, <4>3, <5>3 DEF NameInv, Responsible, Listed, TypeOK
        <5> QED BY <3>2, <5>2, <5>3
      <4>4. CASE at[p] = "closeUnlink"
        BY <1>0, <1>2, <2>4, <4>1, <4>4, ClosingStep DEF CloseUnlink
      <4>5. CASE at[p] = "scan" /\ unseen[p] = {}
        <5>1. NoneLeft(p) BY <1>0, <1>2, <4>1, <4>5, ClosingStep DEF Scan
        <5> QED BY <1>0, <5>1 DEF NoneLeft, Step, Goto, Responsible, TypeOK
      <4>6. CASE createdNew[p] /\ at[p] # "release"
        BY <1>0, <1>2, <2>4, <4>1, <4>6, CreatorResponsible
      <4> QED BY <3>3, <4>2, <4>3, <4>4, <4>5, <4>6 DEF Responsible
    <3> QED BY <1>0, <1>2, <3>1, <3>2, <3>3 DEF NameInv
  <2> QED BY <2>3, <2>4 DEF NameInv
<1>3. CASE UNCHANGED vars BY <1>0, <1>3 DEF vars, NameInv, Responsible
<1> QED BY <1>1, <1>2, <1>3 DEF Next, Acts, NameInv

LEMMA InitInv == Init => IInv
<1> SUFFICES ASSUME Init PROVE IInv OBVIOUS
<1> USE DEF Init
<1>1. TypeOK
  <2>1. crashes \in 0 .. MaxCrashes BY CrashesAssumption
  <2> QED BY <2>1 DEF TypeOK, Places
<1>2. LockInv BY DEF LockInv, Unattached, Locking, Closing
<1>3. CreatorInv BY DEF CreatorInv
<1>4. FinishedContents BY DEF FinishedContents, Closing
<1>5. SentinelInv BY DEF SentinelInv, Listed, Using
<1>6. RemoverInv BY DEF RemoverInv, Using
<1>7. NameInv BY DEF NameInv
<1> QED BY <1>1, <1>2, <1>3, <1>4, <1>5, <1>6, <1>7 DEF IInv

LEMMA Inductive == IInv /\ [Next]_vars => IInv'
BY TypeStep, LockStep, CreatorStep, ContentsStep, SentinelStep, RemoverStep, NameStep DEF IInv

-----------------------------------------------------------------------------
(* The theorems.                                                           *)

\* Whatever the processes do and wherever they crash, the lock, the creators, the sentinels
\* and the name stay consistent (SharedMemory::open and close).
THEOREM RegionInvariant == Spec => []IInv
<1>1. IInv /\ [Next]_vars => IInv' BY Inductive
<1> QED BY InitInv, <1>1, PTL DEF Spec

\* Every variable stays in its type; only full-size regions are marked initialized.
THEOREM TypeCorrect == Spec => []TypeOK
<1>1. IInv => TypeOK BY DEF IInv
<1> QED BY RegionInvariant, <1>1, PTL

\* open() returns success only on a region whose contents are finished, with any number of
\* processes and crashes (setup_new_region, setup_existing_region).
THEOREM ContentsFinished == Spec => []FinishedContents
<1>1. IInv => FinishedContents BY DEF IInv
<1> QED BY RegionInvariant, <1>1, PTL

\* A process that is about to unlink the name, in close() or after an open() that failed, is
\* alone in its region: it can take the name from a region in use only while it works on
\* another one (has_other_live_sentinels_locked, remove_region, shm_unlink).
THEOREM NameRemovedByTheLast == Spec => []RemovedByTheLast
<1>1. IInv => RemovedByTheLast
  <2> SUFFICES ASSUME IInv, NEW p \in Pids, NEW q \in Pids,
                      at[p] \in {"unlink", "closeUnlink"}, q # p, fd[q] = fd[p],
                      at[q] \in {"mutex", "sentinel", "count", "open"} \cup (Closing \ {"closeFd"})
               PROVE  FALSE
    BY DEF RemovedByTheLast
  <2>1. at[q] \notin Locking BY Exclusive DEF IInv, Locking, Closing
  <2>2. at[q] \in Using BY <2>1 DEF Locking, Using, Closing
  <2>3. CASE at[p] = "closeUnlink" BY <2>2, <2>3 DEF IInv, SentinelInv
  <2>4. CASE at[p] = "unlink" /\ createdNew[p] BY <2>2, <2>4 DEF IInv, RemoverInv
  <2>5. CASE at[p] = "unlink" /\ ~createdNew[p]
    BY <2>2, <2>5 DEF IInv, RemoverInv, FinishedContents, Using, Closing
  <2> QED BY <2>3, <2>4, <2>5
<1> QED BY RegionInvariant, <1>1, PTL

\* When no process has the region any more neither its name nor a sentinel is left, unless
\* one crashed or could not get a lock (SharedMemory::close, and open after a failed attempt).
THEOREM NothingStays == Spec => []NothingLeftBehind
<1>1. IInv => NothingLeftBehind
  <2> SUFFICES ASSUME IInv, ~dirty, \A p \in Pids : ~Active(p)
               PROVE  entry = NoRegion /\ sentinels = {}
    BY DEF NothingLeftBehind
  <2>1. \A p \in Pids : at[p] \in {"none", "closed"} BY DEF Active
  <2>2. ASSUME NEW p \in sentinels PROVE FALSE
    BY <2>1, <2>2 DEF IInv, TypeOK, NameInv, Listed
  <2>3. ASSUME entry # NoRegion PROVE FALSE
    <3>1. PICK p \in Pids : Responsible(p) BY <2>3 DEF IInv, NameInv
    <3> QED BY <2>1, <3>1 DEF IInv, CreatorInv, Responsible, Listed, Locking, Closing
  <2> QED BY <2>2, <2>3
<1> QED BY RegionInvariant, <1>1, PTL
=============================================================================
