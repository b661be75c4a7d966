------------------------------ MODULE MCDashboard ------------------------------
EXTENDS Dashboard, TLC

CONSTANTS p1, p2, n1, n2, p3, c1, c2

MCFirst == [name |-> n1, place |-> p1]
MCAnswers == {[name |-> n2, place |-> p2], [name |-> n2, place |-> p3]}

Symmetry == Permutations(Configs)
================================================================================
