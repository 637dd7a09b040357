SPECIFICATION Spec
CONSTANTS
    NULL = 0
    Node <- MCNode
    Value <- MCValue
    MaxItems = 3
    TreeNode <- MCTreeNode
    TreeValue <- MCValue
    MaxTree = 4
    MaxStacked = 4
    Key <- MCKey
    Expression <- MCExpression
    Programs <- MCPrograms
INVARIANT NothingLost
PROPERTY AnswersRight
CHECK_DEADLOCK FALSE
