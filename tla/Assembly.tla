------------------------------ MODULE Assembly ------------------------------
(***************************************************************************)
(* Assembling a project: ProjectAssemblyService prepares an item for each  *)
(* skill that the shared configuration requires, the user chooses how to   *)
(* resolve conflicts, and a commit deploys the items one after the other.  *)
(* The plan travels through the user, who may commit it again: the facade  *)
(* builds a new service for every commit, so nothing is remembered.        *)
(***************************************************************************)
EXTENDS Naturals, Sequences

CONSTANTS
  Size,  \* required skills
  None

VARIABLES
  plan,    \* the plan in the user's hands, <<>> before it is prepared
  work,    \* the items of the last commit: the user's choices, and how far it has come
  at,      \* the item it has come to, 0 when no commit runs
  answer,  \* what it answered: None, "refused", "done"
  placed   \* history: the items it deployed

assembly_vars == <<plan, work, at, answer, placed>>

Kinds == {"source_ambiguity", "same_name", "high_risk", "target"}
Choices == {"acquire", "skip", "use_existing"}
Statuses == {"satisfied", "ready", "conflict", "skipped", "failed", "succeeded"}

\* AssemblyItemPlan; of version_id, whether there is one.
Items == [status : Statuses, version : BOOLEAN, kind : Kinds \union {None},
          choice : Choices \union {None}]

Item(status, version, kind) ==
  [status |-> status, version |-> version, kind |-> kind, choice |-> None]

\* AssemblyConflictKind::from_reasons never finds a high risk.
FromReasons == Kinds \ {"high_risk"}

AllowedChoices(kind) ==
  {"skip"} \union CASE kind = "source_ambiguity" -> {}
                    [] kind = "high_risk" -> {"acquire"}
                    [] OTHER -> {"use_existing"}

Conflicts(version, kinds) == {Item("conflict", version, kind) : kind \in kinds}

\* What prepare_assembly makes of a requirement, over the answers of its four ports.  The
\* first may end it: the library has the skill, or knows no single one.
FromResolution ==
  {Item("satisfied", TRUE, None), Item("failed", FALSE, None)} \union Conflicts(FALSE, FromReasons)

\* A missing skill needs a source, its content a check, its version a place.
FromSource == {Item("failed", FALSE, None)} \union Conflicts(FALSE, FromReasons)
FromChecks == {Item("failed", TRUE, None)} \union Conflicts(TRUE, {"high_risk"})
FromDeployment ==
  {Item("ready", TRUE, None), Item("failed", TRUE, None)} \union Conflicts(TRUE, FromReasons)

Prepared == FromResolution \union FromSource \union FromChecks \union FromDeployment

Init == plan = << >> /\ work = << >> /\ at = 0 /\ answer = None /\ placed = {}

-----------------------------------------------------------------------------
PrepareAssembly ==
  /\ plan = << >> /\ plan' \in [1..Size -> Prepared]
  /\ UNCHANGED <<work, at, answer, placed>>

\* The user turns to another project, or the process ends.
Forget ==
  /\ plan # << >>
  /\ plan' = << >> /\ work' = << >> /\ at' = 0 /\ answer' = None /\ placed' = {}

\* Fault: any choice resolves a conflict.
Valid_AnyChoice(item) ==
  item.status = "conflict" => item.choice # None

\* validate_choices, for one item.
Valid(item) ==
  /\ item.status = "conflict" =>
       /\ item.choice \in AllowedChoices(item.kind)
       /\ item.choice = "acquire" => item.version
  /\ item.status = "ready" => item.choice # "use_existing"

\* with_choice_for_item, for each item.
Chosen(choice) == [i \in DOMAIN plan |-> [plan[i] EXCEPT !.choice = choice[i]]]

\* commit_assembly: the complete request is validated before the deployment port is
\* touched.  The user may commit again, with other choices.
CommitAssembly(choice) ==
  /\ at = 0 /\ plan # << >>
  /\ work' = Chosen(choice)
  /\ placed' = {}
  /\ IF \A i \in DOMAIN plan : Valid(Chosen(choice)[i])
     THEN at' = 1 /\ answer' = None
     ELSE at' = 0 /\ answer' = "refused"
  /\ UNCHANGED plan

\* An item that the commit hands to commit_ready_item.
IsDeployed(item) ==
  \/ item.status = "conflict" /\ item.choice = "acquire"
  \/ item.status = "ready" /\ item.choice # "skip"

Settled(item) ==
  IF item.status \notin {"conflict", "ready"} THEN item
  ELSE [item EXCEPT !.status = IF item.choice = "skip" THEN "skipped" ELSE "succeeded"]

Running == at # 0 /\ at \in DOMAIN work

Deployed(item, ok) == [item EXCEPT !.status = IF ok THEN "succeeded" ELSE "failed"]

\* commit_ready_item: the port deploys the item or fails.
DeployItem(ok) ==
  /\ Running /\ IsDeployed(work[at])
  /\ placed' = placed \union IF ok /\ work[at].version THEN {at} ELSE {}
  /\ work' = [work EXCEPT ![at] = Deployed(@, ok /\ @.version)]
  /\ at' = at + 1
  /\ UNCHANGED <<plan, answer>>

SettleItem ==
  /\ Running /\ ~IsDeployed(work[at])
  /\ work' = [work EXCEPT ![at] = Settled(@)]
  /\ at' = at + 1
  /\ UNCHANGED <<plan, answer, placed>>

AnswerCommit ==
  /\ at = Size + 1
  /\ answer' = "done" /\ at' = 0
  /\ UNCHANGED <<plan, work, placed>>

-----------------------------------------------------------------------------
Next ==
  \/ PrepareAssembly \/ Forget \/ SettleItem \/ AnswerCommit
  \/ \E choice \in [1..Size -> Choices \union {None}] : CommitAssembly(choice)
  \/ \E ok \in BOOLEAN : DeployItem(ok)

Spec == Init /\ [][Next]_assembly_vars

-----------------------------------------------------------------------------
(* Properties                                                              *)

TypeOK ==
  /\ plan \in {<< >>} \union [1..Size -> Items]
  /\ work \in {<< >>} \union [1..Size -> Items]
  /\ at \in 0..(Size + 1)
  /\ answer \in {None, "refused", "done"}
  /\ placed \subseteq 1..Size

\* A commit that is refused has deployed nothing, not even the items before the invalid
\* one; and of a conflict only a finding the user accepted is deployed, never a skill of
\* an ambiguous source, of a taken name or on a taken target.
OnlyAcceptedConflictsAreDeployed ==
  /\ answer = "refused" => placed = {}
  /\ \A i \in placed :
       plan[i].status = "conflict" =>
         plan[i].kind = "high_risk" /\ work[i].choice = "acquire"

=============================================================================
