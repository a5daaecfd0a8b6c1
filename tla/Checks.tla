------------------------------- MODULE Checks -------------------------------
(***************************************************************************)
(* Safety checks of a version: run_basic_check and run_llm_safety_check    *)
(* read the next generation in one transaction, scan outside the database  *)
(* lock, and insert the run in another; set_finding_disposition answers a  *)
(* finding of the current run.  One version is modelled, shared by the     *)
(* skills that have its content: its identifier is the hash of that        *)
(* content, and the identifier of a run names the version, not the skill.  *)
(***************************************************************************)
EXTENDS Naturals, FiniteSets

CONSTANTS
  Skills,         \* skills with this content
  Places,         \* what a scan can find
  HighRisk,       \* the places whose rule is of severity error or critical
  Checkers,       \* commands in flight
  MaxGeneration,  \* bound on re-checks of one skill
  None

VARIABLES
  registered,  \* the table of versions has this version
  dangers,     \* what the rules of the basic check match in it
  runs,        \* rows of check_runs, with their findings
  commands,    \* per checker: None, or the check that it runs
  confirmed    \* history: <<run, finding>> that the user disposed of with confirmation

check_vars == <<registered, dangers, runs, commands, confirmed>>

Kinds == {"basic", "llm"}

\* "basic-<version>-<generation>", "llm-safety-<version>-<generation>".
RunIds == Kinds \X (0..MaxGeneration)

\* A run: of its findings the open ones are those still actionable.  state is the
\* column, failure whether there is a failure_code.
Runs == [id : RunIds, skill : Skills, found : SUBSET Places, open : SUBSET Places,
         state : {"passed", "failed"}, failure : BOOLEAN]

Init ==
  /\ registered \in BOOLEAN
  /\ dangers \in SUBSET Places
  /\ runs = {} /\ confirmed = {}
  /\ commands = [c \in Checkers |-> None]

-----------------------------------------------------------------------------
(* Reading and writing runs.                                               *)

\* Fault: a run that failed is read like one that found something.
Phase_Completed(run) == "completed"

\* parse_phase.
Phase(run) == IF run.state = "failed" /\ run.failure THEN "failed" ELSE "completed"

\* derive_check_state, of a run as it is read back.
DeriveCheckState(run) ==
  IF Phase(run) = "completed" /\ run.open = {} THEN "passed" ELSE "failed"

OfVersion(s, kind) == {run \in runs : run.skill = s /\ run.id[1] = kind}

\* current_for_version_sync: the run of the newest generation.  The primary key makes
\* the later terms of its ORDER BY idle.
Current(s, kind) ==
  {run \in OfVersion(s, kind) :
     \A other \in OfVersion(s, kind) : other.id[2] <= run.id[2]}

NextGeneration(s, kind) ==
  IF OfVersion(s, kind) = {} THEN 0 ELSE (CHOOSE run \in Current(s, kind) : TRUE).id[2] + 1

\* insert_sync: the primary key and the foreign key refuse.
Inserted(run) ==
  IF registered /\ \A r \in runs : r.id # run.id THEN runs \union {run} ELSE runs

-----------------------------------------------------------------------------
(* Commands.                                                               *)

\* A model that is not configured ends the llm check before this step.
BeginCheck(c, s, kind) ==
  /\ commands[c] = None
  /\ NextGeneration(s, kind) <= MaxGeneration
  /\ commands' = [commands EXCEPT
       ![c] = [skill |-> s, id |-> <<kind, NextGeneration(s, kind)>>]]
  /\ UNCHANGED <<registered, dangers, runs, confirmed>>

\* What a scan can find: the rules always the same in one content, the model, whose
\* findings parse_safety_response numbers, one thing or another.
Findings(kind) ==
  IF kind = "basic" THEN {dangers} ELSE {{}} \union {{p} : p \in Places}

RunOf(check, found, failure) ==
  [id |-> check.id, skill |-> check.skill, found |-> found, open |-> found,
   state |-> IF found = {} /\ ~failure THEN "passed" ELSE "failed", failure |-> failure]

Insert(c, run) ==
  /\ runs' = Inserted(run)
  /\ commands' = [commands EXCEPT ![c] = None]
  /\ UNCHANGED <<registered, dangers, confirmed>>

\* The version cannot be materialized or read; the model fails or answers outside its
\* schema: the run is recorded as failed.
FailCheck(c) ==
  /\ commands[c] # None
  /\ Insert(c, RunOf(commands[c], {}, TRUE))

CompleteCheck(c) ==
  /\ commands[c] # None
  /\ \E found \in Findings(commands[c].id[1]) : Insert(c, RunOf(commands[c], found, FALSE))

\* The process ends before the check is inserted.
Stop ==
  /\ commands' = [c \in Checkers |-> None]
  /\ UNCHANGED <<registered, dangers, runs, confirmed>>

\* A finding of high risk takes a confirmation of its own.
MayDispose(place, asked) == place \in HighRisk => asked

Disposed(run, place) ==
  LET open == run.open \ {place}
  IN  [run EXCEPT !.open = open,
                  !.state = IF open = {} /\ ~run.failure THEN "passed" ELSE "failed"]

\* set_finding_disposition, one transaction under the database lock: the finding is
\* acknowledged or dismissed.  allowed_dispositions never has the way back.
SetFindingDisposition(s, kind, place, asked) ==
  \E run \in Current(s, kind) :
    /\ place \in run.found /\ MayDispose(place, asked)
    /\ runs' = (runs \ {run}) \union {Disposed(run, place)}
    /\ confirmed' = confirmed \union IF asked THEN {<<run.id, place>>} ELSE {}
    /\ UNCHANGED <<registered, dangers, commands>>

-----------------------------------------------------------------------------
Next ==
  \/ \E c \in Checkers, s \in Skills, kind \in Kinds : BeginCheck(c, s, kind)
  \/ \E c \in Checkers : FailCheck(c) \/ CompleteCheck(c)
  \/ \E s \in Skills, kind \in Kinds, place \in Places, asked \in BOOLEAN :
       SetFindingDisposition(s, kind, place, asked)
  \/ Stop

Spec == Init /\ [][Next]_check_vars

-----------------------------------------------------------------------------
(* Properties                                                              *)

TypeOK ==
  /\ registered \in BOOLEAN
  /\ dangers \subseteq Places
  /\ runs \subseteq Runs
  /\ commands \in [Checkers -> [skill : Skills, id : RunIds] \union {None}]
  /\ confirmed \subseteq RunIds \X Places

\* A check that is shown as passed did come to its end, and the user confirmed every
\* finding of high risk in it: neither a failed scan nor a newer run, nor writing the
\* state and reading it back as a phase, makes a version pass on its own.
PassedIsEarned ==
  \A s \in Skills, kind \in Kinds : \A run \in Current(s, kind) :
    DeriveCheckState(run) = "passed" =>
      ~run.failure /\ \A place \in run.found \intersect HighRisk : <<run.id, place>> \in confirmed

=============================================================================
