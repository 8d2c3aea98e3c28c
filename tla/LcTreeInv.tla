----------------------------- MODULE LcTreeInv -----------------------------
(***************************************************************************)
(* The inductive invariants of LcTree.                                     *)
(***************************************************************************)
EXTENDS LcTree

Node ==
    [n : Int, w : Int, flight : Int,
     term : {"NonTerminal", "TwoFold", "Tablebase", "EndOfGame"},
     low : -1 .. 1, up : -1 .. 1, edges : SUBSET Positions, solid : BOOLEAN, own : Int]

Minibatch ==
    [at : {"gather", "process", "settle", "collect", "backup"}, picked : Seq(Positions),
     ready : Seq(Positions), met : [Positions -> Int], kept : Seq(Positions),
     collisions : [Positions -> Int], ooo : BOOLEAN]

TypeOK ==
    /\ tree \in [Positions -> Node] /\ head \in Positions /\ root \in Positions
    /\ searching \in BOOLEAN /\ worker \in [Workers -> Minibatch]
    /\ shared \in [Positions -> Int]

(* The threads are only at work while there is a search, of the head. *)
Phases ==
    /\ ~searching => Stopped
    /\ searching => root = head

(* The head is known to its parent. *)
HeadLinked(t, h) == h # << >> => h \in t[Parent(h)].edges

(* The bounds of a node are true, and one that is decided by them has had  *)
(* no other value in all its visits. It knows all its children or none,    *)
(* and all once it has been visited and goes on. Where the game is over by *)
(* rule only the head goes on.                                             *)
Sound(x, n) ==
    /\ x.low <= GameValue[n] /\ GameValue[n] <= x.up
    /\ x.term \in {"EndOfGame", "Tablebase"} => x.low = x.up /\ x.w = x.n * (Win * x.low)
    /\ x.edges \in {{}, Children(n)}
    /\ x.n # 0 /\ ~Terminal(x) => x.edges # {}

GoesOn(x, n) == x.edges # {} => n \notin Over

AllSound(t, h) ==
    \A n \in Positions : AtOrBelow(h, n) => Sound(t[n], n) /\ (n # h => GoesOn(t[n], n))

(* A leaf comes below nodes that know their children, and is no repetition *)
(* of a position before the root.                                          *)
Reached(t, n) ==
    /\ AtOrBelow(root, n)
    /\ \A m \in Ancestors[n] : AtOrBelow(root, m) => t[m].edges # {}
    /\ ~(t[n].term = "TwoFold" /\ Depth(n) < Cycle[n])

Extended(x) == Terminal(x) \/ x.edges # {}

LeavesOf(x) == ToSet(x.picked) \cup ToSet(x.ready) \cup ToSet(x.kept)

BatchSound(t, x) ==
    /\ \A n \in LeavesOf(x) : Reached(t, n)
    /\ \A n \in ToSet(x.ready) \cup ToSet(x.kept) : Extended(t[n])

BoundsInv ==
    /\ TypeOK /\ Phases /\ HeadLinked(tree, head) /\ AllSound(tree, head)
    /\ \A w \in Workers : BatchSound(tree, worker[w])

(* What a thread has in flight is all there is in flight: outside a call   *)
(* to gather more, its visits are in its minibatch and its collisions in   *)
(* collisions or shared_collisions_. A collision is at a node that can be  *)
(* reached from the start of the game, and so is the head.                 *)
InFlight(n) ==
    CountBelow(shared, n) + SumFunction([w \in Workers |-> InFlightOf(worker[w], n)])

Settled(x) ==
    /\ x.at # "process" => x.picked = << >>
    /\ x.at \notin {"process", "settle"} => x.ready = << >> /\ x.met = NoCollisions
    /\ x.at = "backup" => x.collisions = NoCollisions

Linked(t, s) == \A e \in Positions : e # << >> /\ AtOrBelow(e, s) => e \in t[Parent(e)].edges

CollisionsOf(x) == Some(x.met) \cup Some(x.collisions)

FlightInv ==
    /\ \A n \in Positions : tree[n].flight = IF AtOrBelow(root, n) THEN InFlight(n) ELSE 0
    /\ \A w \in Workers : Settled(worker[w])
    /\ Linked(tree, head)
    /\ \A s \in Some(shared) : Linked(tree, s)
    /\ \A w \in Workers : \A s \in CollisionsOf(worker[w]) : Linked(tree, s)

(* A node that was taken back has no visits; a two-fold repetition has no  *)
(* children, for only a position that is none at its depth is extended,    *)
(* and no position comes deeper while it stays below the head.             *)
Tidy(x) == x.n >= 0 /\ (x.term = "TwoFold" => x.edges = {})

AllTidy(t, h) ==
    \A n \in Positions :
        /\ AtOrBelow(h, n) => Tidy(t[n])
        /\ Below(h, n) /\ n \in DOMAIN Cycle /\ t[n].edges # {} => Len(n) - Len(h) < Cycle[n]

(* The visits in hand at or below a node.                                  *)
VisitsIn(x, n) == VisitsAt(x.picked, n) + VisitsAt(x.ready, n) + VisitsAt(x.kept, n)
InHand(n) == SumFunction([w \in Workers |-> VisitsIn(worker[w], n)])

(* A leaf that waits for its value is terminal, or has only this visit.    *)
HeldInv ==
    /\ lost = {} /\ AllTidy(tree, head)
    /\ \A n \in Positions :
          /\ shared[n] >= 0
          /\ \A w \in Workers : worker[w].met[n] >= 0 /\ worker[w].collisions[n] >= 0
    /\ \A w \in Workers : \A n \in LeavesOf(worker[w]) :
          Terminal(tree[n]) \/ (tree[n].n = 0 /\ InHand(n) = 1)
=============================================================================
