------------------------------ MODULE Planner ------------------------------
(***************************************************************************)
(* The plan of a deployment: the selected logical targets are looked up    *)
(* and verified (RegisteredTargetIndex, VerifiedTarget), those of one      *)
(* directory are merged, and DeploymentPlanner answers a plan or refuses.  *)
(* The facade gives the planner neither findings nor existing entries; the *)
(* module has both, as the planner takes them.                             *)
(***************************************************************************)
EXTENDS Naturals

CONSTANTS
  Targets,       \* logical targets: numbers, in the order of their selection
  Dirs,          \* directories, as the file system identifies them
  Capabilities,  \* the sets of modes that a target may support
  None

VARIABLES
  facts,      \* [Targets -> Fact]: what is registered of a target
  sensitive,  \* [Targets -> BOOLEAN]: names are compared with their case there
  request,    \* None, or what was asked
  answer,     \* None, "refused" or "planned"
  plan        \* the target plans

planner_vars == <<facts, sensitive, request, answer, plan>>

\* DeploymentMode, the preferred first.
Modes == <<"symbolic_link", "directory_junction", "managed_copy">>

\* What is at the name of the skill in a directory: the name may differ in its case.
Entries == [exact : BOOLEAN,
            owner : {"this_version", "this_skill", "other_skill", "foreign"}]

Facts == [dir : Dirs, modes : Capabilities, existing : {{}} \union {{e} : e \in Entries}]

\* DeploymentSecurityGate: blocked by a basic check of this version with a finding of high
\* risk that nobody has disposed of; any other run, or none, is clear.
Gates == {"clear", "blocked"}

ModeOf(override, modes) ==
  IF override # None THEN override
  ELSE LET able == {i \in DOMAIN Modes : Modes[i] \in modes} IN
       IF able = {} THEN None ELSE Modes[CHOOSE i \in able : \A j \in able : i <= j]

SharedModes(group) ==
  {m \in {Modes[i] : i \in DOMAIN Modes} : \A t \in group : m \in facts[t].modes}

\* Fault: what the other targets of the directory know is lost.
Known_First(group) == facts[CHOOSE t \in group : \A u \in group : t <= u].existing

\* merged_existing
Known(group) == UNION {facts[t].existing : t \in group}

\* One target of the directory that ignores the case is enough.
NamesEqual(group, e) == e.exact \/ \E t \in group : ~sensitive[t]

\* conflicts_for
Conflicts(group) ==
  {e \in Known(group) : NamesEqual(group, e) /\ e.owner \notin {"this_version", "this_skill"}}

Change(group) ==
  IF \E e \in Known(group) : NamesEqual(group, e) /\ e.owner = "this_version"
  THEN "no_op" ELSE "create"

Groups(ids) == {{t \in ids : facts[t].dir = d} : d \in {facts[t].dir : t \in ids}}

TargetPlan(group, override) ==
  [dir |-> facts[CHOOSE t \in group : TRUE].dir, targets |-> group,
   mode |-> ModeOf(override, SharedModes(group)), change |-> Change(group)]

Init ==
  /\ facts \in [Targets -> Facts]
  /\ sensitive \in [Targets -> BOOLEAN]
  /\ request = None /\ answer = None /\ plan = {}

\* RegisteredTargetIndex and VerifiedTarget: of a moved target, nothing is registered under
\* its id, or its path no longer leads to the registered directory.
Verified(t, moved) == t \notin moved

\* One target that cannot be verified refuses them all.
Resolved(ids, moved) == \A t \in ids : Verified(t, moved)

\* GetDeploymentPlan
Plan(ids, moved, override, gate) ==
  LET groups == Groups(ids)
      mode(g) == ModeOf(override, SharedModes(g)) IN
  /\ request = None
  /\ request' = [ids |-> ids, moved |-> moved, override |-> override, gate |-> gate]
  /\ answer' = IF /\ ids # {} /\ Resolved(ids, moved) /\ gate = "clear"
                  /\ \A g \in groups : mode(g) \in SharedModes(g) /\ Conflicts(g) = {}
               THEN "planned" ELSE "refused"
  /\ plan' = IF answer' = "planned" THEN {TargetPlan(g, override) : g \in groups} ELSE {}
  /\ UNCHANGED <<facts, sensitive>>

Next ==
  \E ids \in SUBSET Targets, gate \in Gates,
     override \in {Modes[i] : i \in DOMAIN Modes} \union {None} :
    \E moved \in SUBSET ids : Plan(ids, moved, override, gate)

Spec == Init /\ [][Next]_planner_vars

-----------------------------------------------------------------------------
TypeOK ==
  /\ facts \in [Targets -> Facts] /\ sensitive \in [Targets -> BOOLEAN]
  /\ answer \in {None, "refused", "planned"}
  /\ plan \subseteq [dir : Dirs, targets : SUBSET Targets, change : {"create", "no_op"},
                     mode : {Modes[i] : i \in DOMAIN Modes}]

\* A plan names every selected target once and every directory once, where the target is
\* registered and still is; with a mode that every target of the directory supports, and
\* the one that was asked for; and it stands on no entry that any of these targets knows
\* under that name, where one target that ignores the case makes names equal for all of
\* its directory, unless the entry is this skill's own
\* (src/crates/skillhub-core/src/deployment/planner.rs:62).
PlansAreSafe ==
  answer = "planned" =>
    /\ request.gate = "clear"
    /\ UNION {p.targets : p \in plan} = request.ids
    /\ \A p, q \in plan : p # q => p.dir # q.dir /\ p.targets \intersect q.targets = {}
    /\ \A p \in plan : \A t \in p.targets :
         /\ facts[t].dir = p.dir /\ t \notin request.moved
         /\ p.mode \in facts[t].modes
         /\ request.override \in {None, p.mode}
         /\ \A e \in facts[t].existing :
              e.exact \/ (\E u \in p.targets : ~sensitive[u])
                => e.owner \in {"this_version", "this_skill"}
=============================================================================
