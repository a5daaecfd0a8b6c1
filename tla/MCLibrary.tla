----------------------------- MODULE MCLibrary ------------------------------
(***************************************************************************)
(* Instances of Library for TLC.                                           *)
(***************************************************************************)
EXTENDS Library, TLC

CONSTANTS a, b, s1, s2

\* A directory, and the same directory with one file more.
TwoTrees == {{a}, {a, b}}

SkillsAreAlike == Permutations(Skills)

\* Skills that a command which ended in the middle has left half done: a part of a skill
\* without its row, or a row whose record in library.json is behind.
HalfDone ==
  {s \in Skills :
     IF s \in catalog THEN portable[s] # current[s] \/ s \in behind
     ELSE current[s] # None \/ portable[s] # Absent \/ \E v \in versions : v.skill = s}

\* Bound: between commands at most one skill is half done, and the library then holds at most
\* three versions.  The command that breaks this is explored to its end.
OneHalfDone ==
  (\A c \in Callers : ~Busy(c)) /\ HalfDone # {} =>
     Cardinality(HalfDone) = 1 /\ Cardinality(versions) <= 3

\* Bound: a prepared import waits only while no other command runs.  Nothing but the start of
\* a commit looks at it, so that preparing or dropping it beside another command does what it
\* does before or after.
PlansWaitAlone ==
  (\E c \in Callers : call[c].op \notin {"none", "import"}) => \A p \in Plans : plans[p] = None
=============================================================================
