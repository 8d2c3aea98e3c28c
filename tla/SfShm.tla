------------------------------- MODULE SfShm -------------------------------
(***************************************************************************)
(* The named shared memory region in which Stockfish processes keep one    *)
(* copy of the network (shm_linux.h).  The first process creates and fills *)
(* the region, later ones map it, the last one removes its name.           *)
(*                                                                         *)
(* A process works on the region behind its file descriptor, which need    *)
(* not be the one the name refers to by then.  flock and the robust mutex  *)
(* belong to a region, the sentinel files (one per process that has the    *)
(* region open) to the name.  One system call is one action; processes may *)
(* crash between any two of them, and pids are reused.                     *)
(***************************************************************************)
EXTENDS Integers, FiniteSets

CONSTANTS
    Pids,        \* the process ids that run Stockfish
    MaxCrashes   \* bound on the number of crashes

Free == "free"      \* nobody holds the lock
Dead == "dead"      \* the owner of the robust mutex died with it

ASSUME PidsAssumption == IsFiniteSet(Pids) /\ Pids # {} /\ Free \notin Pids /\ Dead \notin Pids
ASSUME CrashesAssumption == MaxCrashes \in Nat

\* An inode lives while the name or a descriptor refers to it, and is reused then.
Regions == 1 .. (Cardinality(Pids) + 1)
NoRegion == 0

\* Where SharedMemory::open and close are.  "none": there is no such process;
\* "closed": it has no region, and falls back to a copy of its own.
Opening == {"create", "openExisting", "flock", "resize", "initialize", "inspect", "unlink",
            "release", "mutex", "sentinel", "count"}
Closing == {"closeFlock", "closeMutex", "forget", "list", "scan", "closeUnlink", "closeRelease",
            "closeFd"}
Places == {"none", "closed", "open"} \cup Opening \cup Closing

VARIABLES
    entry,       \* the region the name refers to
    sized,       \* regions grown to their full size by ftruncate
    ready,       \* regions whose header says initialized
    flock,       \* per region, who holds the lock on the file
    mutex,       \* per region, who holds the mutex in the header
    sentinels,   \* the pids for which a sentinel file exists
    at,          \* per process, the next system call
    fd,          \* fd_, as the region behind it
    createdNew,  \* created_new
    retried,     \* retried_stale
    unseen,      \* sentinels listed by has_other_live_sentinels_locked and not looked at yet
    dirty,       \* somebody left without the bookkeeping of close and nobody cleaned up since
    crashes      \* so far

vars == <<entry, sized, ready, flock, mutex, sentinels, at, fd, createdNew, retried, unseen, dirty,
          crashes>>
region == <<sized, ready, flock, mutex>>
files == <<entry, region, sentinels>>
locals == <<fd, createdNew, retried, unseen>>

TypeOK ==
    /\ entry \in Regions \cup {NoRegion}
    /\ sized \subseteq Regions /\ ready \subseteq sized
    /\ flock \in [Regions -> Pids \cup {Free}]
    /\ mutex \in [Regions -> Pids \cup {Free, Dead}]
    /\ sentinels \subseteq Pids
    /\ at \in [Pids -> Places]
    /\ fd \in [Pids -> Regions \cup {NoRegion}]
    /\ createdNew \in [Pids -> BOOLEAN] /\ retried \in [Pids -> BOOLEAN]
    /\ unseen \in [Pids -> SUBSET Pids]
    /\ dirty \in BOOLEAN
    /\ crashes \in 0 .. MaxCrashes

Init ==
    /\ entry = NoRegion
    /\ sized = {} /\ ready = {}
    /\ flock = [r \in Regions |-> Free] /\ mutex = [r \in Regions |-> Free]
    /\ sentinels = {}
    /\ at = [p \in Pids |-> "none"]
    /\ fd = [p \in Pids |-> NoRegion]
    /\ createdNew = [p \in Pids |-> FALSE] /\ retried = [p \in Pids |-> FALSE]
    /\ unseen = [p \in Pids |-> {}]
    /\ dirty = FALSE /\ crashes = 0

Goto(p, a) == at' = [at EXCEPT ![p] = a]
Step(p, a, b) == at[p] = a /\ Goto(p, b)

\* pid_is_alive
Alive(p) == at[p] # "none"
Active(p) == at[p] \notin {"none", "closed"}

-----------------------------------------------------------------------------
(* SharedMemory::open                                                      *)

Open(p) ==
    /\ at[p] \in {"none", "closed"}
    /\ Goto(p, "create")
    /\ UNCHANGED <<files, locals, dirty>>

\* shm_open with O_CREAT | O_EXCL: a new region, empty, unless the name exists.
Create(p) ==
    IF entry # NoRegion
    THEN Step(p, "create", "openExisting") /\ UNCHANGED <<files, locals, dirty>>
    ELSE /\ Step(p, "create", "flock")
         /\ \E r \in Regions :
              /\ \A q \in Pids : fd[q] # r
              /\ \A s \in Regions : s < r => \E q \in Pids : fd[q] = s
              /\ entry' = r
              /\ fd' = [fd EXCEPT ![p] = r]
              /\ sized' = sized \ {r} /\ ready' = ready \ {r}
              /\ mutex' = [mutex EXCEPT ![r] = Free]
         /\ createdNew' = [createdNew EXCEPT ![p] = TRUE]
         /\ UNCHANGED <<flock, sentinels, retried, unseen, dirty>>

\* The second shm_open; the name may have gone again.
OpenExisting(p) ==
    /\ IF entry = NoRegion THEN Step(p, "openExisting", "closed")
                           ELSE Step(p, "openExisting", "flock")
    /\ fd' = [fd EXCEPT ![p] = entry]
    /\ retried' = [retried EXCEPT ![p] = @ /\ entry # NoRegion]
    /\ UNCHANGED <<files, createdNew, unseen, dirty>>

TakeFlock(p) ==
    /\ flock[fd[p]] = Free
    /\ flock' = [flock EXCEPT ![fd[p]] = p]
    /\ UNCHANGED <<entry, sized, ready, mutex, sentinels, locals, dirty>>

Flock(p) == Step(p, "flock", IF createdNew[p] THEN "resize" ELSE "inspect") /\ TakeFlock(p)

\* flock itself fails: the process gives up, and a region it has created stays as it is.
FlockFails(p) ==
    /\ Step(p, "flock", "closed")
    /\ fd' = [fd EXCEPT ![p] = NoRegion]
    /\ createdNew' = [createdNew EXCEPT ![p] = FALSE]
    /\ retried' = [retried EXCEPT ![p] = FALSE]
    /\ dirty' = (dirty \/ createdNew[p])
    /\ UNCHANGED <<files, unseen>>

\* setup_new_region: ftruncate and mmap ...
Resize(p) ==
    /\ Step(p, "resize", "initialize")
    /\ sized' = sized \cup {fd[p]}
    /\ UNCHANGED <<entry, ready, flock, mutex, sentinels, locals, dirty>>

\* ... and the contents, ending with the initialized flag.
Initialize(p) ==
    /\ Step(p, "initialize", "mutex")
    /\ ready' = ready \cup {fd[p]}
    /\ UNCHANGED <<entry, sized, flock, mutex, sentinels, locals, dirty>>

\* No memory for the new region, at one point or the other.
SetupFails(p) ==
    /\ at[p] \in {"resize", "initialize"}
    /\ Goto(p, "unlink")
    /\ sized' \in {sized, sized \ {fd[p]}}
    /\ UNCHANGED <<entry, ready, flock, mutex, sentinels, locals, dirty>>

\* Variant: setup_existing_region looks at the size only.
Inspect_SizeOnly(p) ==
    /\ Step(p, "inspect", IF fd[p] \in sized THEN "mutex" ELSE "unlink")
    /\ UNCHANGED <<files, locals, dirty>>

\* setup_existing_region: the size and the header must be those of a finished region.
Inspect(p) ==
    /\ Step(p, "inspect", IF fd[p] \in sized \cap ready THEN "mutex" ELSE "unlink")
    /\ UNCHANGED <<files, locals, dirty>>

\* No address space for an existing region: the process gives up, and leaves it as it is.
MapFails(p) ==
    /\ Step(p, "inspect", "release") /\ fd[p] \in sized
    /\ retried' = [retried EXCEPT ![p] = TRUE]
    /\ UNCHANGED <<files, fd, createdNew, unseen, dirty>>

\* Variant: a failed opener leaves the name to others.
Unlink_Skipped(p) == Step(p, "unlink", "release") /\ UNCHANGED <<files, locals, dirty>>

\* The failed opener removes the name, whichever region it refers to now.
Unlink(p) ==
    /\ Step(p, "unlink", "release")
    /\ entry' = NoRegion
    /\ UNCHANGED <<region, sentinels, locals, dirty>>

\* unlock_file, ::close, reset; and once more if an existing region was invalid.
Release(p) ==
    /\ Step(p, "release", IF createdNew[p] \/ retried[p] THEN "closed" ELSE "create")
    /\ retried' = [retried EXCEPT ![p] = ~createdNew[p] /\ ~retried[p]]
    /\ createdNew' = [createdNew EXCEPT ![p] = FALSE]
    /\ flock' = [flock EXCEPT ![fd[p]] = Free]
    /\ fd' = [fd EXCEPT ![p] = NoRegion]
    /\ UNCHANGED <<entry, sized, ready, mutex, sentinels, unseen, dirty>>

\* Variant: a mutex whose owner died is not recovered.
TakeMutex_NotRobust(p) ==
    /\ mutex[fd[p]] = Free
    /\ mutex' = [mutex EXCEPT ![fd[p]] = p]
    /\ UNCHANGED <<entry, sized, ready, flock, sentinels, locals, dirty>>

\* lock_shared_mutex: EOWNERDEAD is repaired by pthread_mutex_consistent.
TakeMutex(p) ==
    /\ mutex[fd[p]] \in {Free, Dead}
    /\ mutex' = [mutex EXCEPT ![fd[p]] = p]
    /\ UNCHANGED <<entry, sized, ready, flock, sentinels, locals, dirty>>

Mutex(p) == Step(p, "mutex", "sentinel") /\ TakeMutex(p)

\* lock_shared_mutex fails: the creator removes the name, others try once more.
MutexFails(p) ==
    /\ Step(p, "mutex", IF createdNew[p] THEN "unlink" ELSE "release")
    /\ UNCHANGED <<files, locals, dirty>>

\* Variant: the sentinel of a crashed process with the same pid is left to be
\* removed, and the new one is missing.
Sentinel_StaleRemoved(p) ==
    /\ Step(p, "sentinel", "count")
    /\ sentinels' = IF p \in sentinels THEN sentinels \ {p} ELSE sentinels \cup {p}
    /\ UNCHANGED <<entry, region, locals, dirty>>

\* create_sentinel_file_locked; a stale file of the same pid is replaced.
Sentinel(p) ==
    /\ Step(p, "sentinel", "count")
    /\ sentinels' = sentinels \cup {p}
    /\ UNCHANGED <<entry, region, locals, dirty>>

\* It may fail, on a file of another user or with a stale one already removed.  The
\* process gives up, and an existing region stays as it is.
SentinelFails(p) ==
    /\ Step(p, "sentinel", IF createdNew[p] THEN "unlink" ELSE "release")
    /\ mutex' = [mutex EXCEPT ![fd[p]] = Free]
    /\ sentinels' \in {sentinels, sentinels \ {p}}
    /\ retried' = [retried EXCEPT ![p] = TRUE]
    /\ UNCHANGED <<entry, sized, ready, flock, fd, createdNew, unseen, dirty>>

\* ref_count, then both unlocks: the region is open.
Count(p) ==
    /\ Step(p, "count", "open")
    /\ mutex' = [mutex EXCEPT ![fd[p]] = Free]
    /\ flock' = [flock EXCEPT ![fd[p]] = Free]
    /\ createdNew' = [createdNew EXCEPT ![p] = FALSE]
    /\ retried' = [retried EXCEPT ![p] = FALSE]
    /\ UNCHANGED <<entry, sized, ready, sentinels, fd, unseen, dirty>>

-----------------------------------------------------------------------------
(* SharedMemory::close, also called at exit and by the signal handler.     *)

Close(p) == Step(p, "open", "closeFlock") /\ UNCHANGED <<files, locals, dirty>>
CloseFlock(p) == Step(p, "closeFlock", "closeMutex") /\ TakeFlock(p)
CloseMutex(p) == Step(p, "closeMutex", "forget") /\ TakeMutex(p)

\* Without the mutex the own sentinel goes, but nobody looks for those of others: the
\* name stays.  Without the lock on the file the mutex is not even tried.
Unlocked(p) ==
    /\ sentinels' = sentinels \ {p}
    /\ dirty' = TRUE
    /\ UNCHANGED <<entry, region, locals>>

CloseFlockFails(p) == Step(p, "closeFlock", "closeFd") /\ Unlocked(p)
CloseMutexFails(p) == Step(p, "closeMutex", "closeRelease") /\ Unlocked(p)

\* remove_sentinel_file
Forget(p) ==
    /\ Step(p, "forget", "list")
    /\ sentinels' = sentinels \ {p}
    /\ UNCHANGED <<entry, region, locals, dirty>>

\* has_other_live_sentinels_locked reads the directory.
List(p) ==
    /\ Step(p, "list", "scan")
    /\ unseen' = [unseen EXCEPT ![p] = sentinels]
    /\ UNCHANGED <<files, fd, createdNew, retried, dirty>>

\* One entry: a live process ends the scan, the sentinel of a dead one is removed.
Scan(p) ==
    /\ at[p] = "scan"
    /\ \E q \in unseen[p] :
         IF Alive(q)
         THEN /\ Goto(p, "closeRelease")
              /\ unseen' = [unseen EXCEPT ![p] = {}]
              /\ mutex' = [mutex EXCEPT ![fd[p]] = Free]
              /\ UNCHANGED sentinels
         ELSE /\ unseen' = [unseen EXCEPT ![p] = @ \ {q}]
              /\ sentinels' = sentinels \ {q}
              /\ UNCHANGED <<at, mutex>>
    /\ UNCHANGED <<entry, sized, ready, flock, fd, createdNew, retried, dirty>>

\* Nobody else: remove_region, then the mutex is unlocked.
NoneLeft(p) ==
    /\ Step(p, "scan", "closeUnlink")
    /\ unseen[p] = {}
    /\ mutex' = [mutex EXCEPT ![fd[p]] = Free]
    /\ dirty' = (dirty /\ (sentinels # {} \/ \E q \in Pids \ {p} : Active(q)))
    /\ UNCHANGED <<entry, sized, ready, flock, sentinels, locals>>

CloseUnlink(p) ==
    /\ Step(p, "closeUnlink", "closeRelease")
    /\ entry' = NoRegion
    /\ UNCHANGED <<region, sentinels, locals, dirty>>

CloseRelease(p) ==
    /\ Step(p, "closeRelease", "closed")
    /\ flock' = [flock EXCEPT ![fd[p]] = Free]
    /\ fd' = [fd EXCEPT ![p] = NoRegion]
    /\ UNCHANGED <<entry, sized, ready, mutex, sentinels, createdNew, retried, unseen, dirty>>

\* The descriptor of a process that did not get the lock.
CloseFd(p) ==
    /\ Step(p, "closeFd", "closed")
    /\ fd' = [fd EXCEPT ![p] = NoRegion]
    /\ UNCHANGED <<files, createdNew, retried, unseen, dirty>>

-----------------------------------------------------------------------------
\* The process ends where it is, without any handler.  The kernel drops the lock
\* on the file, and the robust mutex remembers that its owner is gone.
Crash(p) ==
    /\ Alive(p) /\ crashes < MaxCrashes
    /\ Goto(p, "none")
    /\ crashes' = crashes + 1
    /\ dirty' = (dirty \/ Active(p))
    /\ flock' = [r \in Regions |-> IF flock[r] = p THEN Free ELSE flock[r]]
    /\ mutex' = [r \in Regions |-> IF mutex[r] = p THEN Dead ELSE mutex[r]]
    /\ fd' = [fd EXCEPT ![p] = NoRegion]
    /\ unseen' = [unseen EXCEPT ![p] = {}]
    /\ createdNew' = [createdNew EXCEPT ![p] = FALSE]
    /\ retried' = [retried EXCEPT ![p] = FALSE]
    /\ UNCHANGED <<entry, sized, ready, sentinels>>

OpenStep(p) ==
    \/ Create(p) \/ OpenExisting(p) \/ Flock(p) \/ Resize(p) \/ Initialize(p) \/ SetupFails(p)
    \/ Inspect(p) \/ MapFails(p) \/ Unlink(p) \/ Release(p) \/ Mutex(p) \/ Sentinel(p) \/ SentinelFails(p)
    \/ Count(p)

CloseStep(p) ==
    \/ CloseFlock(p) \/ CloseMutex(p) \/ Forget(p) \/ List(p) \/ Scan(p) \/ NoneLeft(p)
    \/ CloseUnlink(p) \/ CloseRelease(p) \/ CloseFd(p)

LockFails(p) ==
    \/ FlockFails(p) \/ MutexFails(p) \/ CloseFlockFails(p) \/ CloseMutexFails(p)

Next ==
    \E p \in Pids :
        \/ (Open(p) \/ Close(p) \/ OpenStep(p) \/ CloseStep(p) \/ LockFails(p)) /\ UNCHANGED crashes
        \/ Crash(p)

Spec == Init /\ [][Next]_vars

\* A process that has begun to open or close keeps running unless it crashes, and
\* the kernel does not pass over it for ever when it hands out the file lock.  Nobody counts
\* on a lock that fails.
Fairness == \A p \in Pids : /\ WF_vars((OpenStep(p) \/ CloseStep(p)) /\ UNCHANGED crashes)
                            /\ SF_vars((Flock(p) \/ CloseFlock(p)) /\ UNCHANGED crashes)

FairSpec == Spec /\ Fairness

-----------------------------------------------------------------------------
(* Properties.                                                             *)

\* A process that has the region open maps finished contents, whatever crashed or was
\* unlinked while it was being created.
FinishedContents ==
    \A p \in Pids : at[p] \in {"mutex", "sentinel", "count", "open"} \cup Closing =>
        fd[p] \in sized \cap ready

\* Nobody else is in the region of a process that is about to unlink the name, be it the last
\* to close or one whose open failed.  So the name is taken from a region in use only by a
\* process that works on another one: on an orphan, or on an unfinished region, whose name
\* has passed on in the meantime.
RemovedByTheLast ==
    \A p, q \in Pids :
        at[p] \in {"unlink", "closeUnlink"} /\ q # p
        /\ at[q] \in {"mutex", "sentinel", "count", "open"} \cup (Closing \ {"closeFd"}) =>
            fd[q] # fd[p]

\* When every process has closed the region nothing is left in /dev/shm, neither a name nor
\* a sentinel, however the opens and closes were interleaved and whichever regions the name
\* referred to; after a crash or a lock that failed this is restored by the next process
\* that closes alone.
NothingLeftBehind ==
    ~dirty /\ (\A p \in Pids : ~Active(p)) => entry = NoRegion /\ sentinels = {}

\* No process hangs in open() or close(), not even on the locks of one that crashed.
Returns == \A p \in Pids : at[p] \in Opening \cup Closing ~> at[p] \in {"open", "closed", "none"}
=============================================================================
