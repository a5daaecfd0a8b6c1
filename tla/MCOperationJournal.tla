------------------------- MODULE MCOperationJournal -------------------------
(***************************************************************************)
(* Instances of OperationJournal for TLC.                                  *)
(***************************************************************************)
EXTENDS OperationJournal, TLC

\* Every journal shares the one open Database (one process).
SharedHandle == [j \in Journals |-> CHOOSE h \in Handles : TRUE]

\* Every journal has a Database of its own (two processes on one file).
OwnHandle == CHOOSE f \in [Journals -> Handles] :
               \A j, k \in Journals : f[j] = f[k] => j = k

CallersAreAlike == Permutations(Callers)
=============================================================================
