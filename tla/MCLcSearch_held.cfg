CONSTANTS
    w1 = w1
    w2 = w2
    l1 = l1
    Workers <- MCWorkers
    Leaves <- MCLeaves
    NoLeaf = NoLeaf
    MaxSearchers = 1
SPECIFICATION Spec
INVARIANTS HeldNodesStay
