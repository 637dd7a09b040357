---------------------------- MODULE MCExercises ----------------------------
EXTENDS Exercises

MCNode == 1 .. 9
MCValue == {-1, 1, 2}
MCTreeNode == 1 .. 5
MCKey == 1 .. 5

\* Up to four of the characters ( ) and ], some with [, and one that is no
\* bracket.
MCExpression ==
    SeqOf({40, 41, 93}, 4) \cup
    {<<91, 93>>, <<91, 41>>, <<40, 91, 93, 41>>, <<40, 91, 41, 93>>, <<97>>, <<40, 97>>}

MCPrograms ==
    {"Q1_A_LL", "Q2_A_LL", "Q3_A_LL", "Q4_A_LL", "Q5_A_LL", "Q6_A_LL", "Q7_A_LL",
     "Q1_C_SQ", "Q2_C_SQ", "Q3_C_SQ", "Q4_C_SQ", "Q5_C_SQ", "Q6_C_SQ", "Q7_C_SQ",
     "Q1_E_BT", "Q2_E_BT", "Q3_E_BT", "Q4_E_BT", "Q5_E_BT", "Q6_E_BT", "Q7_E_BT", "Q8_E_BT",
     "Q1_F_BST", "Q2_F_BST", "Q3_F_BST", "Q4_F_BST", "Q5_F_BST"}

=============================================================================
