----------------------------- MODULE MCWorkerPool -----------------------------
\* WorkerPool with the constants that its configurations give.
EXTENDS WorkerPool, TLC

\* Workers, and clients, are interchangeable.
Symmetry == Permutations(Workers) \cup Permutations(Clients)
===============================================================================
