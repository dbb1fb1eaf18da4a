------------------------------- MODULE MCServer -------------------------------
EXTENDS CBXCUITestServer, TLC
Symmetry == Permutations(Conn)
================================================================================
