------------------------------ MODULE MC_Selection ------------------------------
EXTENDS Selection

CONSTANTS a, b
Load == [p \in Projects |-> IF p = a THEN 4 ELSE 3]
===============================================================================
