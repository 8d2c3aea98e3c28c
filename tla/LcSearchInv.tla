---------------------------- MODULE LcSearchInv ----------------------------
(***************************************************************************)
(* The inductive invariant behind the safety properties of LcSearch.       *)
(*                                                                         *)
(* The engine keeps no record of whether threads of a search are left.     *)
(* What it may do to the tree follows from the calls that are still ahead  *)
(* of it in the handler of the command, and from the GUI having set a      *)
(* position.                                                               *)
(***************************************************************************)
EXTENDS LcSearch

\* The call at place i of the handler comes after another one that is yet to be made.
After(c, i) == \E j \in 1 .. Len(todo) : j < i /\ todo[j] = c

\* The handler joins the threads before it touches the tree, and cancels their collisions
\* before it starts new ones; a GUI that has set a position has had the threads joined.
CallsInv ==
    /\ fresh => AllGone \/ \E j \in 1 .. Len(todo) : todo[j] = "join"
    /\ \A i \in 1 .. Len(todo) :
          /\ todo[i] \in {"reset", "cancel"} => AllGone \/ After("join", i)
          /\ todo[i] = "start" =>
                /\ i = Len(todo) /\ ~fresh
                /\ (AllGone /\ shared = {}) \/ After("cancel", i)

\* A search that has not answered has its watchdog and a GUI that waits.
AnswerInv ==
    /\ ~sent => watchdog # "gone" /\ owed = 1
    /\ owed # -1
    /\ ok = released

\* The search threads that take up a place among MaxSearchers.
Searchers == {w \in Workers : worker[w] \in {"gather", "collect", "release"}}

\* What a search thread has of its own at each place.
WorkerInv ==
    /\ \A w \in Workers :
          /\ leaf[w] # NoLeaf => worker[w] \in {"collect", "release", "backup"}
          /\ collisions[w] # {} => worker[w] = "collect"
    /\ pending + Cardinality(Searchers) = MaxSearchers

IInv ==
    /\ TypeOK
    /\ CallsInv
    /\ AnswerInv
    /\ WorkerInv
=============================================================================
