------------------------------ MODULE SfShmInv ------------------------------
(***************************************************************************)
(* The inductive invariant behind the safety properties of SfShm.          *)
(*                                                                         *)
(* The lock on the file orders the processes that work on one region; the  *)
(* sentinel files are what processes on different regions have in common.  *)
(* The mutex in the header is not needed for any of it.                    *)
(***************************************************************************)
EXTENDS SfShm

\* The places at which a process has a region, the lock on its file, a sentinel file.
Unattached == {"none", "closed", "create", "openExisting"}
Locking == {"resize", "initialize", "inspect", "unlink", "release", "mutex", "sentinel", "count"}
           \cup (Closing \ {"closeFlock", "closeFd"})
Listed == {"count", "open", "closeFlock", "closeMutex", "forget"}
Using == {"open", "closeFlock"}

\* A process behind a descriptor has a region, and works on it under the file lock.
LockInv ==
    \A p \in Pids :
        /\ fd[p] = NoRegion <=> at[p] \in Unattached
        /\ at[p] \in Locking => flock[fd[p]] = p

\* A region is set up by the process that created it, by nobody else, and once.
CreatorInv ==
    /\ \A p \in Pids :
          /\ createdNew[p] => at[p] \in {"flock"} \cup (Locking \ (Closing \cup {"inspect"}))
          /\ at[p] \in {"resize", "initialize"} => createdNew[p]
          /\ createdNew[p] /\ at[p] \in {"flock", "resize", "initialize"} => fd[p] \notin ready
          /\ at[p] = "initialize" => fd[p] \in sized
    /\ \A p, q \in Pids : createdNew[p] /\ createdNew[q] /\ fd[p] = fd[q] => p = q

\* A process that has a region open has a sentinel file, and a process about to remove the
\* name of that region has listed it, or has not listed anything yet.
SentinelInv ==
    /\ \A p \in Pids : at[p] \in Listed => p \in sentinels
    /\ \A p, q \in Pids :
          p # q /\ fd[p] = fd[q] /\ at[q] \in Using =>
             /\ at[p] = "scan" => q \in unseen[p]
             /\ at[p] # "closeUnlink"

\* Nobody has a region open before its creator has, nor one that was found unfinished.
RemoverInv ==
    /\ \A p, q \in Pids : p # q /\ createdNew[p] /\ fd[p] = fd[q] => at[q] \notin Using
    /\ \A p \in Pids : at[p] = "unlink" /\ ~createdNew[p] => fd[p] \notin sized \cap ready

\* A process that removes the name in the end, unless it finds somebody else's sentinel.
Responsible(p) ==
    \/ at[p] \in Listed \cup {"list", "closeUnlink"}
    \/ at[p] = "scan" /\ unseen[p] = {}
    \/ createdNew[p] /\ at[p] # "release"

\* As long as nobody has left without the bookkeeping of close, every sentinel is that of
\* a process that has yet to remove it, and the name has somebody responsible for it.
NameInv ==
    ~dirty =>
        /\ \A p \in sentinels : at[p] \in Listed
        /\ entry # NoRegion => \E p \in Pids : Responsible(p)

IInv ==
    /\ TypeOK
    /\ LockInv
    /\ CreatorInv
    /\ FinishedContents
    /\ SentinelInv
    /\ RemoverInv
    /\ NameInv
=============================================================================
