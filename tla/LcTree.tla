------------------------------- MODULE LcTree -------------------------------
(***************************************************************************)
(* The tree of lc0's classic search (search/classic/node.cc) under the     *)
(* search threads that descend it, evaluate its leaves and back their      *)
(* values up (search/classic/search.cc), and under the moves between two   *)
(* searches (NodeTree). LcSearch says when each of them may touch the      *)
(* tree; this module says what they do to it.                              *)
(*                                                                         *)
(* A node is the sequence of moves from the start of the game. A node that *)
(* is not spawned is one that was never visited. The average of a node is  *)
(* kept as its sum, wl_ * n_, and exactly; d_ and m_ are averaged in the   *)
(* same way and left out, and so is the choice among leaves by policy.     *)
(***************************************************************************)
EXTENDS Integers, Sequences, SequencesExt, FiniteSetsExt

CONSTANTS
    Workers,       \* the search threads
    Positions,     \* the game: sequences of moves (numbers), with all their prefixes
    Outcome,       \* for the player who moved last, of what is over or in the tablebases
    Tablebase,     \* the positions of the latter kind
    Cycle,         \* of each position met before, the plies since
    Eval,          \* the network's value for the player who moved last
    Win,           \* the value of a won game
    SolidTreeThreshold, StickyEndgames, OutOfOrderEval,  \* options
    Cached,        \* the positions the backend answers for at once
    Lines,         \* positions the GUI may set
    Openings,      \* what an earlier search may have visited, in order
    MaxUnits,      \* bounds the visits and collisions there are at a time
    MaxVisits,     \* bounds the visits since
    MaxMoves       \* bounds the changes of position

Parent(n) == Front(n)
Children(n) == {m \in Positions : m # << >> /\ Parent(m) = n}
Ancestors == [n \in Positions |-> {m \in Positions : IsStrictPrefix(m, n)}]
Below(n, m) == n \in Ancestors[m]
AtOrBelow(n, m) == n = m \/ Below(n, m)

\* The positions where the game is over, some of them by a rule (fifty moves, a third
\* repetition, no mating material) although there are moves.
Over == DOMAIN Outcome \ Tablebase

\* The value of a position under best play, for the player who moved last.
GameValue[n \in Positions] ==
    IF n \in Over THEN Outcome[n]
    ELSE -Max({GameValue[c] : c \in Children(n)})

\* Games end, by rule in a draw, the tablebases are right, and an earlier search came to a
\* position from its parents.
ASSUME GameAssumption ==
    /\ << >> \in Positions /\ Positions \subseteq Seq(Nat) /\ IsFiniteSet(Positions)
    /\ \A n \in Positions \ {<< >>} : Parent(n) \in Positions
    /\ Tablebase \subseteq DOMAIN Outcome
    /\ \A n \in DOMAIN Outcome : Outcome[n] \in -1 .. 1
    /\ \A n \in Positions : Children(n) = {} => n \in Over
    /\ \A n \in Over : Outcome[n] # -1 /\ (Children(n) # {} => Outcome[n] = 0)
    /\ \A n \in Positions \cap Tablebase : Outcome[n] = GameValue[n]

ASSUME SearchAssumption ==
    /\ DOMAIN Cycle \subseteq Positions /\ \A n \in DOMAIN Cycle : Cycle[n] \in Nat
    /\ Eval \in [Positions -> Int] /\ Win \in Nat
    /\ Lines \subseteq Positions /\ IsFiniteSet(Workers)
    /\ \A o \in Openings :
          /\ o \in Seq(Positions)
          /\ \A i \in DOMAIN o : Ancestors[o[i]] \subseteq {o[j] : j \in 1 .. i - 1}
    /\ MaxUnits \in Nat \ {0} /\ SolidTreeThreshold \in Nat \ {0}

VARIABLES
    tree,       \* the nodes
    head,       \* current_head_
    root,       \* root_node_ of the current Search, or of the one to be replaced
    searching,  \* the current Search was started for the current head
    worker,     \* per search thread, its place and its minibatch
    shared,     \* shared_collisions_: how many, per node
    lost,       \* nodes that were moved while a pointer to them was held
    visits,     \* visits since then
    moves       \* changes of position so far

vars == <<tree, head, root, searching, worker, shared, lost, visits, moves>>

-----------------------------------------------------------------------------
(* Nodes.                                                                  *)

FreshNode ==
    [n |-> 0, w |-> 0, flight |-> 0, term |-> "NonTerminal", low |-> -1, up |-> 1,
     edges |-> {}, solid |-> FALSE, own |-> 0]

Terminal(x) == x.term # "NonTerminal"

\* wl_ of a terminal node. A two-fold repetition is a draw, and no bound.
TerminalValue(x) == IF x.term = "TwoFold" THEN 0 ELSE Win * x.low

MakeTerminal(x, result, type) ==
    [x EXCEPT !.term = type, !.w = x.n * Win * result,
              !.low = IF type = "TwoFold" THEN @ ELSE result,
              !.up = IF type = "TwoFold" THEN @ ELSE result]

ChildVisits(t, n) == SumFunction([c \in t[n].edges |-> t[c].n])
ChildValues(t, n) == SumFunction([c \in t[n].edges |-> t[c].w])

\* An extended node keeps the value it was given as its own evaluation.
MakeNotTerminal(t, n) ==
    LET x == [t[n] EXCEPT !.term = "NonTerminal"]
        v == TerminalValue(t[n])
    IN  [t EXCEPT ![n] =
            IF x.edges = {} THEN [x EXCEPT !.n = 0, !.w = 0]
            ELSE [x EXCEPT !.n = 1 + ChildVisits(t, n), !.own = v,
                           !.w = v - ChildValues(t, n)]]

\* One visit: the node's own evaluation, of which the first is remembered, or one below it.
FinalizeScoreUpdate(x, v) ==
    [x EXCEPT !.n = @ + 1, !.w = @ + v, !.flight = @ - 1,
              !.own = IF x.n = 0 THEN v ELSE @]

\* Variant: does not look for collisions at the children.
CanMakeSolid_IgnoresCollisions(t, n) ==
    /\ ~t[n].solid /\ t[n].edges # {} /\ ~Terminal(t[n])
    /\ \A c \in t[n].edges : t[c].flight > 0 => t[c].n > 1 /\ ~Terminal(t[c])

\* MakeSolid moves the children into one block, unless search threads hold one.
CanMakeSolid(t, n) ==
    /\ ~t[n].solid /\ t[n].edges # {} /\ ~Terminal(t[n])
    /\ \A c \in t[n].edges : t[c].flight > 0 => t[c].n > 1 /\ ~Terminal(t[c])
    /\ SumFunction([c \in t[n].edges |-> t[c].flight]) = t[n].flight

\* The path from a node up to the root of the search.
PathUp(n) == [i \in 1 .. Len(n) - Len(root) + 1 |-> SubSeq(n, 1, Len(n) + 1 - i)]

Some(count) == {n \in DOMAIN count : count[n] # 0}
Total(count) == SumFunctionOnSet(count, Some(count))

\* The collisions below a node.
CountBelow(count, n) == SumFunctionOnSet(count, {m \in Some(count) : Below(n, m)})

\* Adds to the visits in flight of every node from root_node_ down to the parent of each n.
AddInFlight(t, count) ==
    [n \in Positions |->
        IF AtOrBelow(root, n) THEN [t[n] EXCEPT !.flight = @ + CountBelow(count, n)] ELSE t[n]]

\* Variant: starts at the node a collision is at.
Cancel_AtTheLeaf(t, count) ==
    LET above == AddInFlight(t, [m \in DOMAIN count |-> -count[m]])
    IN  [n \in Positions |->
            IF n \in Some(count) THEN [above[n] EXCEPT !.flight = @ - count[n]] ELSE above[n]]

\* CancelScoreUpdate for collisions, from the parent of each up to the root.
Cancel(t, count) == AddInFlight(t, [m \in DOMAIN count |-> -count[m]])

-----------------------------------------------------------------------------
(* Backing a visit up, DoBackupUpdateSingleNode.                           *)

\* Variant: leaves out the children no visit has come back from.
ChildBounds_OnlyVisited(t, p) ==
    LET kids == {t[c] : c \in {e \in t[p].edges : t[e].n > 0}}
        mate == \E k \in kids : k.low = 1 /\ k.term # "Tablebase"
    IN  [low |-> Max({k.low : k \in kids}), up |-> Max({k.up : k \in kids}),
         type |-> IF ~mate /\ \E k \in kids : k.term = "Tablebase"
                  THEN "Tablebase" ELSE "EndOfGame"]

\* The best the player to move at p can be sure of, and may hope for.
ChildBounds(t, p) ==
    LET kids == {t[c] : c \in t[p].edges}
        mate == \E k \in kids : k.low = 1 /\ k.term # "Tablebase"
    IN  [low |-> Max({k.low : k \in kids}), up |-> Max({k.up : k \in kids}),
         type |-> IF ~mate /\ \E k \in kids : k.term = "Tablebase"
                  THEN "Tablebase" ELSE "EndOfGame"]

MaybeSetBounds(x, b) ==
    IF b.low = b.up THEN MakeTerminal(x, -b.up, b.type)
    ELSE [x EXCEPT !.low = -b.up, !.up = -b.low]

\* Variant: goes on correcting above a parent that was terminal before.
ToFix_ThroughTerminals(s, parent, decided) == decided \/ s.fix

\* n_to_fix > 0 in the next round: visits of the parent, or still those of a node below it.
ToFix(s, parent, decided) == decided \/ (s.fix /\ ~Terminal(parent))

(***************************************************************************)
(* One round of the loop: s.v is the value, s.delta the correction of the  *)
(* sum for a node below that has become terminal (n_to_fix * v_delta), both *)
(* seen by the player who moved to n; s.known tells whether bounds were    *)
(* set in the round before, s.moved collects what MakeSolid moved.         *)
(***************************************************************************)
BackupRound(s, n) ==
    LET v == IF Terminal(s.t[n]) THEN TerminalValue(s.t[n]) ELSE s.v
        scored == FinalizeScoreUpdate(s.t[n], v)
        fixed == [scored EXCEPT !.w = @ + (IF s.fix /\ ~Terminal(scored) THEN s.delta ELSE 0)]
        t == [s.t EXCEPT ![n] = fixed]
        solid == fixed.n >= SolidTreeThreshold /\ CanMakeSolid(t, n)
        solved == [t EXCEPT ![n].solid = @ \/ solid]
        next == [s EXCEPT !.t = solved, !.moved = @ \cup (IF solid THEN fixed.edges ELSE {})]
        p == Parent(n)
        b == ChildBounds(solved, p)
        known == /\ s.known /\ p # root /\ ~Terminal(solved[p])
                 /\ ~(b.low = -1 /\ b.up = 1)
        bounded == [solved EXCEPT ![p] = IF known THEN MaybeSetBounds(@, b) ELSE @]
        decided == known /\ Terminal(bounded[p])
    IN  IF n = << >> THEN next
        ELSE [next EXCEPT
                !.t = bounded, !.v = -v, !.known = known,
                !.fix = ToFix(s, solved[p], decided),
                !.delta = IF decided THEN bounded[p].w - solved[p].w ELSE -@]

\* Backs up a leaf while pointers to some nodes are held; a = [t, lost].
BackupOne(a, n, held) ==
    LET start == [t |-> a.t, v |-> Eval[n], fix |-> FALSE, delta |-> 0, moved |-> {},
                  known |-> StickyEndgames /\ Terminal(a.t[n]) /\ a.t[n].n = 0]
        path == PathUp(n)
        after[i \in 0 .. Len(path)] ==
            IF i = 0 THEN start ELSE BackupRound(after[i - 1], path[i])
        end == after[Len(path)]
    IN  [t |-> end.t, lost |-> a.lost \cup (end.moved \cap held)]

\* Backs up leaves in order, those still to come being held as well.
BackupAll(t, leaves, held) ==
    LET after[i \in 0 .. Len(leaves)] ==
            IF i = 0 THEN [t |-> t, lost |-> lost]
            ELSE BackupOne(after[i - 1], leaves[i],
                           held \cup {leaves[j] : j \in i + 1 .. Len(leaves)})
    IN  after[Len(leaves)]

-----------------------------------------------------------------------------
(* The search threads.                                                     *)

NoCollisions == [n \in Positions |-> 0]
Idle == [at |-> "gather", picked |-> << >>, ready |-> << >>, met |-> NoCollisions,
         kept |-> << >>, collisions |-> NoCollisions, ooo |-> FALSE]

Plus(c, d) == [n \in Positions |-> c[n] + d[n]]

\* The nodes a thread's minibatch points to.
PointedTo(x) == ToSet(x.picked) \cup ToSet(x.ready) \cup ToSet(x.kept)
                \cup Some(x.met) \cup Some(x.collisions)
HeldByOthers(w) == Some(shared) \cup UNION {PointedTo(worker[u]) : u \in Workers \ {w}}

\* nodes_mutex_, which a thread keeps over several steps only while it settles a call.
MutexFree(w) == \A u \in Workers \ {w} : worker[u].at # "settle"

\* Where a descent from the root may end: at a node not visited yet, or at a terminal one.
Leaves(t) ==
    {n \in Positions :
        /\ AtOrBelow(root, n)
        /\ t[n].n = 0 \/ Terminal(t[n])
        /\ \A m \in Ancestors[n] :
              AtOrBelow(root, m) => t[m].n > 0 /\ ~Terminal(t[m])
        /\ n # root => n \in t[Parent(n)].edges}

Depth(n) == Len(n) - Len(root)

\* RevertTerminalVisits, from the node to the root.
RevertTerminalVisits(t, n) ==
    [m \in Positions |->
        IF ~(AtOrBelow(root, m) /\ AtOrBelow(m, n)) THEN t[m]
        ELSE IF t[m].n <= t[n].n THEN [t[m] EXCEPT !.n = 0, !.w = 0]
        ELSE [t[m] EXCEPT !.n = @ - t[n].n, !.w = @ - t[n].n * TerminalValue(t[n])]]

\* A repetition of a position before the present root is not one the search has made.
EnsureNodeTwoFoldCorrectForDepth(t, n) ==
    IF t[n].term = "TwoFold" /\ Depth(n) < Cycle[n]
    THEN MakeNotTerminal(RevertTerminalVisits(t, n), n)
    ELSE t

EnsureTwoFoldsCorrect(t, leaves) ==
    LET after[i \in 0 .. Len(leaves)] ==
            IF i = 0 THEN t ELSE EnsureNodeTwoFoldCorrectForDepth(after[i - 1], leaves[i])
    IN  after[Len(leaves)]

(***************************************************************************)
(* PickNodesToExtend, under nodes_mutex_: units are dealt out to leaves.   *)
(* TryStartScoreUpdate makes a visit of the first unit that comes to a     *)
(* leaf not visited yet; to a terminal one, of the units of each deal; the *)
(* rest are collisions. Leaves in another order come of two calls.         *)
(***************************************************************************)
Deals(limit) ==
    {d \in UNION {[S -> 1 .. limit] : S \in UNION {kSubset(k, Leaves(tree)) : k \in 1 .. limit}} :
        Total(d) <= limit}

VisitsOf(t, n, units) ==
    LET x == t[n]
    IN  IF x.n > 0 THEN (IF n = root THEN {1} ELSE 1 .. units)
        ELSE IF x.flight = 0 THEN {1} ELSE {0}

Outstanding ==
    Total(shared) + SumFunction([u \in Workers |->
        LET x == worker[u]
        IN  Len(x.picked \o x.ready \o x.kept) + Total(x.met) + Total(x.collisions)])

\* The visits of a call: v[n] of each leaf n.
Visits(leaves, v) ==
    LET upto[i \in 0 .. Len(leaves)] ==
            IF i = 0 THEN << >> ELSE upto[i - 1] \o [j \in 1 .. v[leaves[i]] |-> leaves[i]]
    IN  upto[Len(leaves)]

Pick(w) ==
    /\ searching /\ worker[w].at = "gather" /\ MutexFree(w) /\ Outstanding < MaxUnits
    /\ \E d \in Deals(MaxUnits - Outstanding) :
         LET t == EnsureTwoFoldsCorrect(tree, SetToSeq(DOMAIN d))
         IN  \E v \in [DOMAIN d -> 0 .. MaxUnits] :
               /\ \A n \in DOMAIN d : v[n] \in VisitsOf(t, n, d[n])
               /\ visits' = visits + Total(v) /\ visits' <= MaxVisits
               /\ tree' = [n \in Positions |->
                              [AddInFlight(t, d)[n] EXCEPT
                                  !.flight = @ + (IF n \in DOMAIN d THEN v[n] ELSE 0)]]
               /\ worker' = [worker EXCEPT
                     ![w].at = "process",
                     ![w].picked = Visits(SetToSeq(DOMAIN d), v),
                     ![w].met = [n \in Positions |-> IF n \in DOMAIN d THEN d[n] - v[n] ELSE 0]]
    /\ UNCHANGED <<head, root, searching, shared, lost, moves>>

\* By rule no game is over at the root: thinking about it is the point.
ExtendNode(x, n) ==
    IF n \in Over /\ (Children(n) = {} \/ n # root)
         THEN MakeTerminal(x, Outcome[n], "EndOfGame")
    ELSE IF n # root /\ n \in DOMAIN Cycle /\ Depth(n) >= Cycle[n]
         THEN MakeTerminal(x, 0, "TwoFold")
    ELSE IF n # root /\ n \in Tablebase /\ root \notin Tablebase
         THEN MakeTerminal(x, Outcome[n], "Tablebase")
    ELSE [x EXCEPT !.edges = Children(n)]

\* ProcessPickedTask for one leaf. No mutex is held: the others leave it alone.
Extend(w) ==
    LET x == worker[w]
        n == Head(x.picked)
    IN  /\ x.at = "process" /\ x.picked # << >>
        /\ tree' = [tree EXCEPT ![n] = IF Terminal(@) THEN @ ELSE ExtendNode(@, n)]
        /\ worker' = [worker EXCEPT ![w].picked = Tail(@), ![w].ready = Append(@, n)]
        /\ UNCHANGED <<head, root, searching, shared, lost, visits, moves>>

\* The gather loop goes on for more or is content with the minibatch.
Further(x) == {[x EXCEPT !.at = p] : p \in {"gather", "collect"}}

\* The leaves whose value is known before any evaluation, ooo_completed.
Known(x) ==
    {i \in DOMAIN x.ready :
        OutOfOrderEval /\ (Terminal(tree[x.ready[i]]) \/ x.ready[i] \in Cached)}

\* All visits of a call are processed. If the value of some is known (some_ooo), the thread
\* goes through the call under nodes_mutex_ from the last to the first, and cancels all
\* collisions and backs up all such visits as it meets them.
Settle(w) ==
    LET x == worker[w]
    IN  /\ x.at = "process" /\ x.picked = << >> /\ Known(x) # {} /\ MutexFree(w)
        /\ worker' = [worker EXCEPT ![w].at = "settle"]
        /\ UNCHANGED <<tree, head, root, searching, shared, lost, visits, moves>>

CancelCollision(w) ==
    LET x == worker[w]
    IN  /\ x.at = "settle"
        /\ \E n \in Some(x.met) : \E units \in 1 .. x.met[n] :
             /\ tree' = Cancel(tree, [m \in Positions |-> IF m = n THEN units ELSE 0])
             /\ worker' = [worker EXCEPT ![w].met[n] = @ - units]
        /\ UNCHANGED <<head, root, searching, shared, lost, visits, moves>>

\* The rest of the minibatch is pointed to, its collisions included.
BackupEarly(w) ==
    LET x == worker[w]
        i == Max(Known(x))
        y == [x EXCEPT !.ready = RemoveAt(@, i), !.ooo = TRUE]
        a == BackupAll(tree, <<x.ready[i]>>, HeldByOthers(w) \cup PointedTo(y))
    IN  /\ x.at = "settle" /\ Known(x) # {}
        /\ tree' = a.t /\ lost' = a.lost
        /\ worker' = [worker EXCEPT ![w] = y]
        /\ UNCHANGED <<head, root, searching, shared, visits, moves>>

\* What no value is known of stays in the minibatch.
Keep(w) ==
    LET x == worker[w]
    IN  /\ \/ x.at = "process" /\ x.picked = << >> /\ x.ready # << >>
           \/ x.at = "settle" /\ x.met = NoCollisions
        /\ Known(x) = {}
        /\ \E y \in Further([x EXCEPT
                !.ready = << >>, !.kept = @ \o x.ready, !.met = NoCollisions,
                !.collisions = Plus(@, x.met)]) :
             worker' = [worker EXCEPT ![w] = y]
        /\ UNCHANGED <<tree, head, root, searching, shared, lost, visits, moves>>

\* A call that found nothing but one collision may make it larger.
Upsize(w) ==
    LET x == worker[w]
    IN  /\ x.at = "process" /\ x.picked = << >> /\ x.ready = << >> /\ MutexFree(w)
        /\ \E extra \in [Some(x.met) -> 0 .. 1] :
             /\ Cardinality(Some(x.met)) > 1 => \A n \in Some(x.met) : extra[n] = 0
             /\ Outstanding + Total(extra) <= MaxUnits
             /\ tree' = AddInFlight(tree, extra)
             /\ \E y \in Further([x EXCEPT !.met = NoCollisions,
                     !.collisions = [n \in Positions |-> @[n] + x.met[n] +
                                        (IF n \in DOMAIN extra THEN extra[n] ELSE 0)]]) :
                  worker' = [worker EXCEPT ![w] = y]
        /\ UNCHANGED <<head, root, searching, shared, lost, visits, moves>>

CollectCollisions(w) ==
    /\ worker[w].at = "collect" /\ MutexFree(w)
    /\ shared' = Plus(shared, worker[w].collisions)
    /\ worker' = [worker EXCEPT ![w].at = "backup", ![w].collisions = NoCollisions]
    /\ UNCHANGED <<tree, head, root, searching, lost, visits, moves>>

\* Values have been computed. A minibatch of nothing but collisions leaves them in flight.
DoBackupUpdate(w) ==
    LET x == worker[w]
        a == BackupAll(tree, x.kept, HeldByOthers(w))
        workDone == x.ooo \/ x.kept # << >>
    IN  /\ x.at = "backup" /\ MutexFree(w)
        /\ tree' = IF workDone THEN Cancel(a.t, shared) ELSE a.t
        /\ lost' = a.lost
        /\ shared' = IF workDone THEN NoCollisions ELSE shared
        /\ worker' = [worker EXCEPT ![w] = Idle]
        /\ UNCHANGED <<head, root, searching, visits, moves>>

-----------------------------------------------------------------------------
(* Between two searches: NodeTree, ClassicSearch.                          *)

\* TrimTreeAtHead
Trim(t, n) == [m \in Positions |-> IF AtOrBelow(n, m) THEN FreshNode ELSE t[m]]

\* ReleaseChildrenExceptOne of its parent; a parent that does not know the move gets it as
\* its only edge.
MakeMove(t, n) ==
    LET p == Parent(n)
        found == n \in t[p].edges
        spared == IF found /\ Terminal(t[n]) THEN MakeNotTerminal(t, n) ELSE t
    IN  [m \in Positions |->
            IF m = p THEN [t[p] EXCEPT !.solid = FALSE, !.edges = IF found THEN @ ELSE {n}]
            ELSE IF Below(p, m) /\ ~(found /\ AtOrBelow(n, m)) THEN FreshNode
            ELSE spared[m]]

\* The moves from the start of the game.
PlayLine(t, n) ==
    LET after[i \in 0 .. Len(n)] ==
            IF i = 0 THEN t ELSE MakeMove(after[i - 1], SubSeq(n, 1, i))
    IN  after[Len(n)]

\* The head is emptied unless the line goes through the old head: a node left behind has
\* lost its other children.
ResetToPosition(t, old, n) ==
    LET led == PlayLine(t, n)
    IN  IF AtOrBelow(old, n) THEN led ELSE Trim(led, n)

\* What a reset releases, or moves out of a solid block.
Uprooted(n) ==
    {m \in Positions : ~AtOrBelow(m, n) /\ ~(AtOrBelow(head, n) /\ Below(n, m))}
    \cup {m \in Positions : AtOrBelow(m, n) /\ m # << >> /\ tree[Parent(m)].solid}

Stopped == \A w \in Workers : worker[w] = Idle

\* A collision that is still shared must not be uprooted: see run search_held of LcSearch.
SetPosition ==
    /\ Stopped
    /\ \E n \in Lines :
         /\ Some(shared) \cap Uprooted(n) = {}
         /\ tree' = ResetToPosition(tree, head, n)
         /\ head' = n
         /\ moves' = moves + (IF n = head THEN 0 ELSE 1) /\ moves' <= MaxMoves
    /\ searching' = FALSE
    /\ UNCHANGED <<root, worker, shared, lost, visits>>

\* StartSearch. The old Search cancels the collisions it is left with as it goes.
Go ==
    /\ ~searching
    /\ \E clear \in BOOLEAN :
         /\ clear => \A n \in Some(shared) : ~AtOrBelow(head, n)
         /\ tree' = Cancel(IF clear THEN Trim(tree, head) ELSE tree, shared)
    /\ root' = head /\ searching' = TRUE /\ shared' = NoCollisions
    /\ UNCHANGED <<head, worker, lost, visits, moves>>

\* A first visit to a leaf, by a search of one thread.
FirstVisit(t, n) ==
    BackupOne([t |-> [m \in Positions |->
                   IF ~AtOrBelow(m, n) THEN t[m]
                   ELSE IF m = n THEN [ExtendNode(t[m], m) EXCEPT !.flight = 1]
                   ELSE [t[m] EXCEPT !.flight = 1]],
               lost |-> {}], n, {}).t

Opened(o) ==
    LET after[i \in 0 .. Len(o)] ==
            IF i = 0 THEN [n \in Positions |-> FreshNode] ELSE FirstVisit(after[i - 1], o[i])
    IN  after[Len(o)]

Init ==
    /\ head = << >> /\ root = << >>
    /\ \E o \in Openings : tree = Opened(o)
    /\ searching = FALSE
    /\ worker = [w \in Workers |-> Idle]
    /\ shared = NoCollisions /\ lost = {} /\ visits = 0 /\ moves = 0

Next ==
    \/ \E w \in Workers :
          \/ Pick(w) \/ Extend(w) \/ Settle(w) \/ CancelCollision(w)
          \/ BackupEarly(w) \/ Keep(w) \/ Upsize(w)
          \/ CollectCollisions(w) \/ DoBackupUpdate(w)
    \/ SetPosition
    \/ Go

Spec == Init /\ [][Next]_vars

-----------------------------------------------------------------------------
(* Properties.                                                             *)

\* The average of every node that goes on is that of its own evaluation and of all visits to
\* its children, as they now stand: a child proved won or lost on the way has had all its
\* earlier visits corrected at every ancestor (search.cc:2246-2331), one that is no two-fold
\* repetition any more has had them taken back (search.cc:1523-1562), and a head that is
\* searched again has lost no child it still counts (node.cc:465-520).
AverageExact ==
    \A n \in Positions :
        AtOrBelow(head, n) /\ tree[n].n > 0 /\ ~Terminal(tree[n]) =>
            /\ tree[n].n = 1 + ChildVisits(tree, n)
            /\ tree[n].w = tree[n].own - ChildValues(tree, n)

\* What MaybeSetBounds claims of a node is true of its position, whatever was visited, in
\* whatever order the values came in (search.cc:2285-2355).
BoundsSound ==
    \A n \in Positions :
        AtOrBelow(head, n) =>
            /\ tree[n].low <= GameValue[n] /\ GameValue[n] <= tree[n].up
            /\ tree[n].term \in {"EndOfGame", "Tablebase"} =>
                  tree[n].w = tree[n].n * Win * GameValue[n]

\* MakeSolid never moves a node that the minibatch of some thread, the one that backs up
\* included, or the list of shared collisions points to (node.cc:247-269): the visits in
\* flight give every such pointer away, also while a thread cancels the collisions of a call
\* and backs up its early visits in between (search.cc:1388-1408). A visit is done with its
\* own node by then.
HeldNodesStay == lost = {}

\* What a thread has in flight at a node: visits at or below it, collisions below it.
VisitsAt(leaves, n) == Cardinality({i \in DOMAIN leaves : AtOrBelow(n, leaves[i])})
InFlightOf(x, n) ==
    VisitsAt(x.picked, n) + VisitsAt(x.ready, n) + VisitsAt(x.kept, n)
        + CountBelow(x.met, n) + CountBelow(x.collisions, n)

\* The visits in flight of a node are exactly the visits at or below it, and the collisions
\* below it, of minibatches and of the shared list, so that none is cancelled twice, left
\* behind or cancelled at another node when threads share, upsize and revert their
\* collisions (search.cc:1064-1073, 1385-1434, 2009-2018, 2198).
InFlightExact ==
    \A n \in Positions :
        AtOrBelow(root, n) =>
            tree[n].flight =
                CountBelow(shared, n) + SumFunction([w \in Workers |-> InFlightOf(worker[w], n)])
=============================================================================
