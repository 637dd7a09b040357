CONSTANTS
    Files = {"rbtree.c", "rbtree2.c"}
    Size = 12
    Few = 5
    Node <- MCNode
    KeyOf <- MCKeyOf
    nil = 0
SPECIFICATION MCSpec
INVARIANTS SearchTree RedBlack DeleteFreesAll
PROPERTIES LookupsAreRight EraseTakesItsKey CallsReturn
