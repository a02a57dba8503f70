----------------------------- MODULE MCArchive -----------------------------
(* Archive with several processes on one space: they differ only in name.  *)
EXTENDS Archive, TLC

SymProcs == Permutations(Procs)

\* Bound of the runs with two processes: what follows an operation cut half done,
\* and what vectors add, is explored by the runs with one process only.
NoCuts == hurt = {} /\ vec = {}
============================================================================
