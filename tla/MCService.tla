------------------------------ MODULE MCService ------------------------------
\* Service with the constants that its configurations give.
EXTENDS Service, TLC

\* Workers are interchangeable.
Symmetry == Permutations(Workers)
===============================================================================
