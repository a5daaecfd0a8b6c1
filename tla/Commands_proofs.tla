-------------------------- MODULE Commands_proofs ---------------------------
(***************************************************************************)
(* The invariants of the components that serve the commands of the user:   *)
(* projects, assemblies, call policies, plans, checks, imports and backups. *)
(* Each is inductive for its component; Services_proofs concludes about the *)
(* specification.                                                          *)
(***************************************************************************)
EXTENDS Services, Integers, Sequences, TLAPS, FiniteSetTheorems, WellFoundedInduction

-----------------------------------------------------------------------------
(***************************************************************************)
(* Least and greatest members.                                             *)
(***************************************************************************)
\* A nonempty set of naturals has a least member: of the intervals below its members one
\* is minimal.
LEMMA HasMinimum ==
  ASSUME NEW T \in SUBSET Nat, T # {}
  PROVE  \E t \in T : \A u \in T : t <= u
<1> DEFINE Upto == {0 .. t : t \in T}
<1>1. Upto \subseteq FiniteSubsetsOf(Nat) /\ Upto # {}
  <2>1. ASSUME NEW t \in T PROVE 0 .. t \in FiniteSubsetsOf(Nat)
    <3>1. t \in Int /\ 0 \in Int /\ 0 .. t \subseteq Nat
      OBVIOUS
    <3>2. IsFiniteSet(0 .. t)
      BY <3>1, FS_Interval
    <3>3. QED
      BY <3>1, <3>2, Zenon DEF FiniteSubsetsOf
  <2>2. QED
    BY <2>1
<1>2. PICK x \in Upto : \A y \in Upto : ~(<<y, x>> \in StrictSubsetOrdering(Nat))
  <2> HIDE DEF Upto
  <2>1. IsWellFoundedOn(StrictSubsetOrdering(Nat), FiniteSubsetsOf(Nat))
    BY FS_StrictSubsetOrderingWellFounded
  <2>2. QED
    BY <1>1, <2>1, WFMin
<1>3. PICK t \in T : x = 0 .. t
  OBVIOUS
<1>4. ASSUME NEW u \in T PROVE t <= u
  <2> SUFFICES ASSUME u < t PROVE FALSE
    OBVIOUS
  <2>1. 0 .. u \subseteq 0 .. t /\ 0 .. u \subseteq Nat /\ 0 .. t \subseteq Nat
        /\ t \notin 0 .. u /\ t \in 0 .. t
    OBVIOUS
  <2>2. <<0 .. u, x>> \in StrictSubsetOrdering(Nat)
    BY <1>3, <2>1, Zenon DEF StrictSubsetOrdering
  <2>3. QED
    BY <1>2, <2>2
<1>5. QED
  BY <1>4

\* A finite set of naturals has a greatest member: of the sets of members above a member
\* one is minimal.
LEMMA FiniteHasMaximum ==
  ASSUME NEW T \in SUBSET Nat, T # {}, IsFiniteSet(T)
  PROVE  \E t \in T : \A u \in T : u <= t
<1> DEFINE Above(t) == {u \in T : u > t}
           Aboves == {Above(t) : t \in T}
<1>1. Aboves \subseteq FiniteSubsetsOf(Nat) /\ Aboves # {}
  <2>1. ASSUME NEW t \in T PROVE Above(t) \in FiniteSubsetsOf(Nat)
    <3>1. Above(t) \subseteq T /\ Above(t) \subseteq Nat
      OBVIOUS
    <3>2. IsFiniteSet(Above(t))
      <4> HIDE DEF Above
      <4>1. QED
        BY <3>1, FS_Subset
    <3> HIDE DEF Above
    <3>3. QED
      BY <3>1, <3>2 DEF FiniteSubsetsOf
  <2> HIDE DEF Above
  <2>2. QED
    BY <2>1
<1>2. PICK x \in Aboves : \A y \in Aboves : ~(<<y, x>> \in StrictSubsetOrdering(Nat))
  <2> HIDE DEF Aboves
  <2>1. IsWellFoundedOn(StrictSubsetOrdering(Nat), FiniteSubsetsOf(Nat))
    BY FS_StrictSubsetOrderingWellFounded
  <2>2. QED
    BY <1>1, <2>1, WFMin
<1>3. PICK t \in T : x = Above(t)
  <2> HIDE DEF Above
  <2> QED
    OBVIOUS
<1>4. ASSUME NEW u \in T PROVE u <= t
  <2> SUFFICES ASSUME u > t PROVE FALSE
    OBVIOUS
  <2>1. Above(u) \subseteq Above(t) /\ Above(u) \subseteq Nat /\ Above(t) \subseteq Nat
        /\ u \in Above(t) /\ u \notin Above(u)
    <3>1. u \in Nat /\ t \in Nat /\ \A v \in T : v \in Nat /\ (v > u => v > t)
      OBVIOUS
    <3>2. ~(u > u)
      BY <3>1
    <3>3. QED
      BY <3>1, <3>2
  <2>2. Above(u) \in Aboves
    OBVIOUS
  <2> HIDE DEF Above, Aboves
  <2>3. <<Above(u), x>> \in StrictSubsetOrdering(Nat)
    BY <1>3, <2>1, Zenon DEF StrictSubsetOrdering
  <2>4. QED
    BY <1>2, <2>2, <2>3
<1>5. QED
  BY <1>4

\* A nonempty set of naturals with a bound has a greatest member.
LEMMA HasMaximum ==
  ASSUME NEW T \in SUBSET Nat, T # {}, NEW m \in Nat, \A t \in T : t <= m
  PROVE  \E t \in T : \A u \in T : u <= t
  BY FS_BoundedSetOfNaturals, FiniteHasMaximum

-----------------------------------------------------------------------------
(***************************************************************************)
(* Projects and saved views.                                               *)
(***************************************************************************)
\* A registry names no directory twice.
OneProjectPerDir(list) ==
  \A r, q \in ProjectIds : r # q /\ list[r] # None /\ list[q] # None => list[r].dir # list[q].dir

OneViewPerName(list) ==
  \A v, w \in Views : v # w /\ list[v] # None => list[v] # list[w]

\* What a command is about to write was keyed when it was made, and a list is only ever
\* replaced as a whole.
ProjectInv ==
  /\ Project!TypeOK
  /\ OneProjectPerDir(registry) /\ OneViewPerName(views)
  /\ \A s \in Users :
       /\ project_pending[s].list = "projects" =>
            project_pending[s].value \in Project!Registries /\ OneProjectPerDir(project_pending[s].value)
       /\ project_pending[s].list = "views" =>
            project_pending[s].value \in Project!ViewLists /\ OneViewPerName(project_pending[s].value)

\* The invariant says that the lists are keyed.
LEMMA ProjectInvIsKeyed == ProjectInv => Project!ListsAreKeyed
<1> SUFFICES ASSUME ProjectInv PROVE Project!ListsAreKeyed
  OBVIOUS
<1>1. Project!Distinct([r \in ProjectIds |-> IF registry[r] = None THEN None ELSE registry[r].dir])
  BY DEF ProjectInv, OneProjectPerDir, Project!Distinct
<1>2. Project!Distinct(views)
  BY DEF ProjectInv, OneViewPerName, Project!Distinct, Project!TypeOK, Project!ViewLists
<1>3. QED
  BY <1>1, <1>2 DEF Project!ListsAreKeyed

\* The invariant of the projects holds at the start.
LEMMA ProjectInitInv == Project!Init => ProjectInv
  BY DEF Project!Init, ProjectInv, Project!TypeOK, Project!Registries, Project!ViewLists,
         Project!Pending, Project!Nothing, OneProjectPerDir, OneViewPerName

\* A command that has read a keyed list prepares a keyed list.
LEMMA ProjectPrepares ==
  ASSUME ProjectInv, NEW s \in Users, NEW list,
         \/ list.list = "projects" /\ list.value \in Project!Registries /\ OneProjectPerDir(list.value)
         \/ list.list = "views" /\ list.value \in Project!ViewLists /\ OneViewPerName(list.value),
         list = [list |-> list.list, value |-> list.value],
         project_pending' = [project_pending EXCEPT ![s] = list],
         UNCHANGED <<place, link, registry, views, config>>
  PROVE  ProjectInv'
<1>1. list \in Project!Pending
  BY DEF Project!Pending
<1>2. Project!TypeOK'
  BY <1>1 DEF ProjectInv, Project!TypeOK
<1>3. QED
  BY <1>2 DEF ProjectInv, Project!TypeOK, OneProjectPerDir, OneViewPerName

\* A project that is changed keeps its directory to itself.
LEMMA ProjectUpdateInv ==
  ASSUME ProjectInv, NEW s \in Users, NEW r \in ProjectIds, NEW p \in Paths,
         Project!Register(s, r, p) \/ Project!Update(s, r, p)
  PROVE  ProjectInv'
<1>1. PICK x \in Project!Project :
        /\ project_pending' = [project_pending EXCEPT ![s] =
             [list |-> "projects", value |-> [registry EXCEPT ![r] = x]]]
        /\ \A q \in ProjectIds : q # r /\ registry[q] # None => registry[q].dir # x.dir
  BY DEF Project!Register, Project!Update, Project!Normalized, Project!Registered,
         Project!RegisteredByOther
<1> DEFINE value == [registry EXCEPT ![r] = x]
<1>2. value \in Project!Registries /\ OneProjectPerDir(value)
  BY <1>1 DEF ProjectInv, Project!TypeOK, Project!Registries, OneProjectPerDir
<1>3. UNCHANGED <<place, link, registry, views, config>>
  BY DEF Project!Register, Project!Update
<1> HIDE DEF value
<1>4. QED
  BY <1>1, <1>2, <1>3, ProjectPrepares DEF value

\* A view that is saved keeps its name to itself.
LEMMA ProjectSaveViewInv ==
  ASSUME ProjectInv, NEW s \in Users, NEW v \in Views, NEW n \in Names, Project!SaveView(s, v, n)
  PROVE  ProjectInv'
<1> DEFINE value == [views EXCEPT ![v] = n]
<1>1. value \in Project!ViewLists /\ OneViewPerName(value)
  BY DEF Project!SaveView, ProjectInv, Project!TypeOK, Project!ViewLists, OneViewPerName
<1>2. /\ project_pending' = [project_pending EXCEPT ![s] = [list |-> "views", value |-> value]]
      /\ UNCHANGED <<place, link, registry, views, config>>
  BY DEF Project!SaveView
<1> HIDE DEF value
<1>3. QED
  BY <1>1, <1>2, ProjectPrepares

\* Every step of the projects keeps their invariant.
LEMMA ProjectStepInv == ProjectInv /\ [Project!Next]_projects => ProjectInv'
<1> SUFFICES ASSUME ProjectInv, [Project!Next]_projects PROVE ProjectInv'
  OBVIOUS
<1> USE DEF Project!TypeOK, OneProjectPerDir, OneViewPerName
<1>1. CASE UNCHANGED projects
  BY <1>1 DEF projects, ProjectInv
<1>2. ASSUME NEW d \in ProjectDirs, Project!RemoveDirectory(d) PROVE ProjectInv'
  BY <1>2 DEF Project!RemoveDirectory, ProjectInv
<1>3. ASSUME NEW d \in ProjectDirs, NEW p \in Paths, Project!MoveDirectory(d, p) PROVE ProjectInv'
  BY <1>3 DEF Project!MoveDirectory, ProjectInv
<1>4. ASSUME NEW p \in Paths, NEW q \in Paths, Project!LinkParent(p, q) PROVE ProjectInv'
  BY <1>4 DEF Project!LinkParent, ProjectInv
<1>5. ASSUME NEW s \in Users, NEW r \in ProjectIds, NEW p \in Paths,
             Project!Register(s, r, p) \/ Project!Update(s, r, p)
      PROVE  ProjectInv'
  BY <1>5, ProjectUpdateInv
<1>6. ASSUME NEW s \in Users, NEW r \in ProjectIds, Project!SetTags(s, r) PROVE ProjectInv'
  <2>1. registry[r].path \in Paths
    BY <1>6 DEF Project!SetTags, ProjectInv, Project!Registries, Project!Project
  <2>2. QED
    BY <1>6, <2>1, ProjectUpdateInv DEF Project!SetTags
<1>7. ASSUME NEW s \in Users, NEW r \in ProjectIds, Project!WriteSharedConfig(s, r)
      PROVE  ProjectInv'
  <2>1. PICK written \in ProjectIds \union {None, "cut_off"} :
          config' = [config EXCEPT ![registry[r].dir] = written]
    BY <1>7 DEF Project!WriteSharedConfig
  <2>2. UNCHANGED <<registry, views, project_pending>>
    BY <1>7 DEF Project!WriteSharedConfig
  <2>3. Project!TypeOK'
    BY <1>7, <2>1 DEF Project!WriteSharedConfig, ProjectInv
  <2>4. QED
    BY <2>2, <2>3 DEF ProjectInv
<1>8. ASSUME NEW s \in Users, NEW v \in Views, NEW n \in Names, Project!SaveView(s, v, n)
      PROVE  ProjectInv'
  BY <1>8, ProjectSaveViewInv
<1>9. ASSUME NEW s \in Users, Project!WriteValue(s) \/ Project!WriteFails(s) PROVE ProjectInv'
  <2>1. /\ project_pending' = [project_pending EXCEPT ![s] = Project!Nothing]
        /\ Project!Nothing \in Project!Pending /\ Project!Nothing.list = "none"
        /\ UNCHANGED <<place, link, config>>
    BY <1>9 DEF Project!WriteValue, Project!WriteFails, Project!Pending, Project!Nothing
  <2>2. /\ registry' \in Project!Registries /\ OneProjectPerDir(registry')
        /\ views' \in Project!ViewLists /\ OneViewPerName(views')
    BY <1>9 DEF Project!WriteValue, Project!WriteFails, ProjectInv
  <2>3. Project!TypeOK'
    BY <2>1, <2>2 DEF ProjectInv
  <2>4. ASSUME NEW t \in Users PROVE
          project_pending'[t] = project_pending[t] \/ project_pending'[t] = Project!Nothing
    BY <2>1 DEF ProjectInv
  <2>5. QED
    BY <2>1, <2>2, <2>3, <2>4 DEF ProjectInv
<1>10. QED
  BY <1>1, <1>2, <1>3, <1>4, <1>5, <1>6, <1>7, <1>8, <1>9 DEF Project!Next

\* The file is written where the path leads, and that was compared with the registration.
LEMMA ProjectWritesAtHome ==
  ASSUME ProjectInv, [Project!Next]_projects
  PROVE  Project!WrittenAtHome
<1> SUFFICES ASSUME NEW d \in ProjectDirs, config'[d] # config[d]
             PROVE  \E r \in ProjectIds : /\ registry[r] # None /\ registry[r].dir = d
                                          /\ config'[d] \in {r, "cut_off"}
  BY DEF Project!WrittenAtHome
<1>1. PICK s \in Users, r \in ProjectIds : Project!WriteSharedConfig(s, r)
  BY DEF Project!Next, projects, Project!RemoveDirectory, Project!MoveDirectory,
         Project!LinkParent, Project!Register, Project!Update, Project!SetTags, Project!SaveView,
         Project!WriteValue, Project!WriteFails
<1>2. QED
  BY <1>1 DEF Project!WriteSharedConfig, ProjectInv, Project!TypeOK

-----------------------------------------------------------------------------
(***************************************************************************)
(* Assembling a project.                                                   *)
(***************************************************************************)
\* The items that a running commit has not come to are those of the plan with a choice
\* that was validated.
StillAsChosen ==
  \A i \in 1 .. Size : i >= at =>
    /\ work[i].status = plan[i].status /\ work[i].kind = plan[i].kind
    /\ Assembler!Valid(work[i])

AssemblyInv ==
  /\ Assembler!TypeOK
  /\ plan = << >> => at = 0 /\ placed = {}
  /\ at # 0 =>
       /\ plan \in [1 .. Size -> Assembler!Items] /\ work \in [1 .. Size -> Assembler!Items]
       /\ answer = None /\ StillAsChosen
       /\ \A i \in placed : i < at
  /\ Assembler!OnlyAcceptedConflictsAreDeployed

\* The invariant of the assembly holds at the start.
LEMMA AssemblyInitInv == Assembler!Init => AssemblyInv
  BY SizeIsNatural, NoneIsNoAnswer
     DEF Assembler!Init, AssemblyInv, Assembler!TypeOK,
         Assembler!OnlyAcceptedConflictsAreDeployed

\* Of a conflict only a finding of high risk may be acquired.
LEMMA AcquiredIsHighRisk ==
  ASSUME NEW item \in Assembler!Items, Assembler!Valid(item),
         item.status = "conflict", item.choice = "acquire"
  PROVE  item.kind = "high_risk"
  BY DEF Assembler!Valid, Assembler!AllowedChoices

\* What is prepared for a commit are items of a plan.
LEMMA PreparedAreItems == Assembler!Prepared \subseteq Assembler!Items
<1>1. ASSUME NEW status \in Assembler!Statuses, NEW version \in BOOLEAN,
             NEW kind \in Assembler!Kinds \union {None}
      PROVE  Assembler!Item(status, version, kind) \in Assembler!Items
  BY <1>1 DEF Assembler!Item, Assembler!Items
<1>2. ASSUME NEW version \in BOOLEAN, NEW kinds \in SUBSET Assembler!Kinds
      PROVE  Assembler!Conflicts(version, kinds) \subseteq Assembler!Items
  BY <1>1, <1>2 DEF Assembler!Conflicts, Assembler!Statuses
<1>3. Assembler!FromReasons \subseteq Assembler!Kinds /\ {"high_risk"} \subseteq Assembler!Kinds
  BY DEF Assembler!FromReasons, Assembler!Kinds
<1>4. \A status \in {"satisfied", "failed", "ready"}, version \in BOOLEAN :
        Assembler!Item(status, version, None) \in Assembler!Items
  BY <1>1 DEF Assembler!Statuses
<1>5. QED
  BY <1>2, <1>3, <1>4 DEF Assembler!Prepared, Assembler!FromResolution, Assembler!FromSource,
     Assembler!FromChecks, Assembler!FromDeployment

\* A commit that goes through its items keeps the invariant.
LEMMA AssemblyCommitInv ==
  ASSUME AssemblyInv, NEW choice \in [1 .. Size -> Assembler!Choices \union {None}],
         Assembler!CommitAssembly(choice)
  PROVE  AssemblyInv'
<1> USE SizeIsNatural, NoneIsNoAnswer
<1>1. plan \in [1 .. Size -> Assembler!Items] /\ UNCHANGED plan /\ placed' = {} /\ plan # << >>
  BY DEF Assembler!CommitAssembly, AssemblyInv, Assembler!TypeOK
<1>2. /\ work' = [i \in 1 .. Size |-> [plan[i] EXCEPT !.choice = choice[i]]]
      /\ \A i \in 1 .. Size : /\ work'[i] \in Assembler!Items
                              /\ work'[i].status = plan[i].status
                              /\ work'[i].kind = plan[i].kind
  BY <1>1 DEF Assembler!CommitAssembly, Assembler!Chosen, Assembler!Items
<1>3. CASE at' = 1 /\ answer' = None /\ \A i \in 1 .. Size : Assembler!Valid(work'[i])
  <2>1. Assembler!TypeOK'
    BY <1>1, <1>2, <1>3 DEF AssemblyInv, Assembler!TypeOK
  <2>2. StillAsChosen'
    BY <1>1, <1>2, <1>3 DEF StillAsChosen, Assembler!Valid, Assembler!AllowedChoices
  <2>3. QED
    BY <1>1, <1>2, <1>3, <2>1, <2>2
       DEF AssemblyInv, Assembler!OnlyAcceptedConflictsAreDeployed
<1>4. CASE at' = 0 /\ answer' = "refused"
  BY <1>1, <1>2, <1>4 DEF AssemblyInv, Assembler!TypeOK,
     Assembler!OnlyAcceptedConflictsAreDeployed
<1>5. QED
  BY <1>1, <1>2, <1>3, <1>4 DEF Assembler!CommitAssembly

\* A step over the item at hand.
LEMMA AssemblyItemInv ==
  ASSUME AssemblyInv,
         (\E ok \in BOOLEAN : Assembler!DeployItem(ok)) \/ Assembler!SettleItem
  PROVE  AssemblyInv'
<1> USE SizeIsNatural, NoneIsNoAnswer
<1>1. /\ at # 0 /\ at \in 1 .. Size /\ work \in [1 .. Size -> Assembler!Items]
      /\ plan \in [1 .. Size -> Assembler!Items] /\ plan # << >> /\ answer = None
      /\ at' = at + 1 /\ UNCHANGED <<plan, answer>>
  BY DEF Assembler!DeployItem, Assembler!SettleItem, Assembler!Running, AssemblyInv,
         Assembler!TypeOK
<1>2. PICK new \in Assembler!Items :
        work' = [work EXCEPT ![at] = new] /\ new.choice = work[at].choice
  <2> DEFINE item == work[at]
  <2>1. item \in Assembler!Items
    BY <1>1
  <2>2. ASSUME NEW status \in Assembler!Statuses
        PROVE  /\ [item EXCEPT !.status = status] \in Assembler!Items
               /\ [item EXCEPT !.status = status].choice = item.choice
    BY <2>1 DEF Assembler!Items
  <2>3. \/ work' = [work EXCEPT ![at] = item]
        \/ \E status \in Assembler!Statuses :
             work' = [work EXCEPT ![at] = [item EXCEPT !.status = status]]
    BY <1>1 DEF Assembler!DeployItem, Assembler!SettleItem, Assembler!Deployed,
       Assembler!Settled, Assembler!Statuses
  <2> HIDE DEF item
  <2>4. QED
    BY <2>1, <2>2, <2>3 DEF item
<1>3. /\ placed' \subseteq placed \union {at}
      /\ at \in placed' => at \in placed \/ Assembler!IsDeployed(work[at])
  BY DEF Assembler!DeployItem, Assembler!SettleItem
<1>4. Assembler!TypeOK'
  BY <1>1, <1>2, <1>3 DEF AssemblyInv, Assembler!TypeOK
<1>5. /\ StillAsChosen
      /\ \A i \in placed : i < at /\ i \in 1 .. Size
  BY <1>1 DEF AssemblyInv, Assembler!TypeOK
<1>6. StillAsChosen'
  <2> SUFFICES ASSUME NEW i \in 1 .. Size, i >= at'
               PROVE  /\ work'[i].status = plan'[i].status /\ work'[i].kind = plan'[i].kind
                      /\ Assembler!Valid(work'[i])
    BY DEF StillAsChosen, Assembler!Valid, Assembler!AllowedChoices
  <2>1. work'[i] = work[i] /\ i >= at
    BY <1>1, <1>2
  <2>2. QED
    BY <2>1, <1>1, <1>5 DEF StillAsChosen
<1>7. ASSUME NEW i \in placed', plan[i].status = "conflict"
      PROVE  plan[i].kind = "high_risk" /\ work'[i].choice = "acquire"
  <2>1. CASE i \in placed
    BY <2>1, <1>1, <1>2, <1>5, <1>7 DEF AssemblyInv, Assembler!OnlyAcceptedConflictsAreDeployed
  <2>2. CASE i = at /\ i \notin placed
    <3>1. /\ Assembler!IsDeployed(work[at]) /\ work[at].status = "conflict"
          /\ Assembler!Valid(work[at]) /\ work[at].kind = plan[at].kind
      BY <2>2, <1>1, <1>3, <1>5, <1>7 DEF StillAsChosen
    <3>2. work[at].choice = "acquire"
      BY <3>1 DEF Assembler!IsDeployed
    <3>3. QED
      BY <1>1, <1>2, <2>2, <3>1, <3>2, AcquiredIsHighRisk
  <2>3. QED
    BY <1>3, <2>1, <2>2
<1>8. \A i \in placed' : i < at'
  BY <1>1, <1>3, <1>5
<1>9. QED
  BY <1>1, <1>2, <1>4, <1>6, <1>7, <1>8
     DEF AssemblyInv, Assembler!OnlyAcceptedConflictsAreDeployed

\* Every step of the assembly keeps its invariant.
LEMMA AssemblyStepInv == AssemblyInv /\ [Assembler!Next]_assembly => AssemblyInv'
<1> SUFFICES ASSUME AssemblyInv, [Assembler!Next]_assembly PROVE AssemblyInv'
  OBVIOUS
<1> USE SizeIsNatural, NoneIsNoAnswer
    DEF Assembler!TypeOK, Assembler!OnlyAcceptedConflictsAreDeployed
<1>1. CASE UNCHANGED assembly
  BY <1>1 DEF assembly, AssemblyInv, StillAsChosen, Assembler!Valid, Assembler!AllowedChoices
<1>2. CASE Assembler!PrepareAssembly
  <2>1. plan' \in [1 .. Size -> Assembler!Items]
    BY <1>2, PreparedAreItems DEF Assembler!PrepareAssembly
  <2>2. QED
    BY <1>2, <2>1 DEF Assembler!PrepareAssembly, AssemblyInv
<1>3. CASE Assembler!Forget
  BY <1>3 DEF Assembler!Forget, AssemblyInv
<1>4. CASE Assembler!SettleItem \/ \E ok \in BOOLEAN : Assembler!DeployItem(ok)
  BY <1>4, AssemblyItemInv
<1>5. CASE Assembler!AnswerCommit
  BY <1>5 DEF Assembler!AnswerCommit, AssemblyInv
<1>6. ASSUME NEW choice \in [1 .. Size -> Assembler!Choices \union {None}],
             Assembler!CommitAssembly(choice)
      PROVE  AssemblyInv'
  BY <1>6, AssemblyCommitInv
<1>7. QED
  BY <1>1, <1>2, <1>3, <1>4, <1>5, <1>6 DEF Assembler!Next

-----------------------------------------------------------------------------
(***************************************************************************)
(* Call policies.  FirstPolicyIsRemembered is not inductive: while a       *)
(* restore is between its halves the first policy is only in its hands,    *)
(* and no other restore of the skill can have it.  That an identifier is   *)
(* given once keeps what is remembered of a removed skill from a new one.  *)
(***************************************************************************)
\* Of a skill that no restore has in its hands.
PolicyRemembersFirst ==
  \A s \in Skills \ overlapped : ~Policy!Restoring(s) =>
    /\ originals[s] # None => originals[s] = baseline[s]
    /\ originals[s] = None /\ Policy!Exists(s) => rows[s].policy = baseline[s]

\* Of a skill that one has.
PolicyTakenIsFirst ==
  \A r \in PolicyRestores : restores[r] # None /\ restores[r].skill \notin overlapped =>
    /\ originals[restores[r].skill] = None
    /\ restores[r].policy = baseline[restores[r].skill]
    /\ \A q \in PolicyRestores :
         restores[q] # None /\ restores[q].skill = restores[r].skill => q = r

PolicyInv == Policy!TypeOK /\ PolicyRemembersFirst /\ PolicyTakenIsFirst

PolicyCommit == [id : PolicyChanges, skill : Skills, after : Policies]

\* Of a skill, what the invariant speaks of is left alone.
PolicyLeaves(s) ==
  /\ rows'[s] = None <=> rows[s] = None
  /\ rows[s] # None => rows'[s].policy = rows[s].policy
  /\ originals'[s] = originals[s] /\ baseline'[s] = baseline[s]

-----------------------------------------------------------------------------
(* Rows                                                                    *)

\* A row of which something else changes keeps its policy.
LEMMA PolicyRowKeepsItsPolicy ==
  ASSUME NEW row \in Policy!Rows, NEW t \in BOOLEAN, NEW d \in BOOLEAN
  PROVE  /\ [row EXCEPT !.trial = t] \in Policy!Rows
         /\ [row EXCEPT !.trial = t].policy = row.policy
         /\ [row EXCEPT !.due = d, !.trial = d] \in Policy!Rows
         /\ [row EXCEPT !.due = d, !.trial = d].policy = row.policy
         /\ [row EXCEPT !.member = TRUE] \in Policy!Rows
         /\ [row EXCEPT !.member = TRUE].policy = row.policy
  BY DEF Policy!Rows

\* A row can take any policy.
LEMMA PolicyRowTakesAPolicy ==
  ASSUME NEW row \in Policy!Rows, NEW p \in Policies
  PROVE  [row EXCEPT !.policy = p] \in Policy!Rows /\ [row EXCEPT !.policy = p].policy = p
  BY DEF Policy!Rows

-----------------------------------------------------------------------------
\* The first policy of a skill that nobody is restoring can be taken back.
LEMMA PolicyInvRemembers == PolicyInv => Policy!FirstPolicyIsRemembered
  BY DEF PolicyInv, PolicyRemembersFirst, Policy!FirstPolicyIsRemembered, Policy!GoesBackToFirst

\* The invariant of the call policies holds at the start.
LEMMA PolicyInitInv == Policy!Init => PolicyInv
<1> SUFFICES ASSUME Policy!Init PROVE PolicyInv
  OBVIOUS
<1>1. \A s \in Skills : Policy!Exists(s) => rows[s] \in Policy!Rows
  BY DEF Policy!Init, Policy!Exists
<1>2. \A s \in Skills : Policy!Exists(s) => rows[s].policy \in Policies
  BY <1>1 DEF Policy!Rows
<1>3. Policy!TypeOK
  BY <1>2 DEF Policy!Init, Policy!TypeOK
<1>4. PolicyRemembersFirst /\ PolicyTakenIsFirst
  BY DEF Policy!Init, PolicyRemembersFirst, PolicyTakenIsFirst
<1>5. QED
  BY <1>3, <1>4 DEF PolicyInv

\* A step that starts or ends no restore, and leaves what is said of every skill alone, keeps
\* the invariant.
LEMMA PolicyFrame ==
  ASSUME PolicyInv, Policy!TypeOK', UNCHANGED <<restores, overlapped>>,
         \A s \in Skills : PolicyLeaves(s)
  PROVE  PolicyInv'
<1>1. /\ \A s \in Skills : Policy!Restoring(s)' <=> Policy!Restoring(s)
      /\ \A r \in PolicyRestores : restores[r] # None => restores[r].skill \in Skills
  BY DEF Policy!Restoring, PolicyInv, Policy!TypeOK, Policy!Takings
<1>2. PolicyRemembersFirst'
  BY <1>1 DEF PolicyInv, PolicyRemembersFirst, PolicyLeaves, Policy!Exists
<1>3. PolicyTakenIsFirst'
  BY <1>1 DEF PolicyInv, PolicyTakenIsFirst, PolicyLeaves
<1>4. QED
  BY <1>2, <1>3 DEF PolicyInv

\* A row that is edited keeps its policy, and the rest is left alone.
LEMMA PolicyEditInv ==
  ASSUME PolicyInv, NEW s \in Skills, NEW row \in Policy!Rows, Policy!Edit(s, row),
         row.policy = rows[s].policy
  PROVE  PolicyInv'
<1>1. /\ rows' = [rows EXCEPT ![s] = row]
      /\ UNCHANGED <<prepared, commits, originals, restores, baseline, overlapped>>
  BY DEF Policy!Edit
<1>2. Policy!TypeOK'
  BY <1>1 DEF PolicyInv, Policy!TypeOK
<1>3. rows[s] # None /\ row # None
  BY DefaultIsAPolicy DEF Policy!Edit, Policy!Exists
<1>4. \A t \in Skills : PolicyLeaves(t)
  BY <1>1, <1>3 DEF PolicyInv, Policy!TypeOK, PolicyLeaves
<1>5. QED
  BY <1>1, <1>2, <1>4, PolicyFrame

\* A change of policy remembers the first one; between the halves of a restore it marks the
\* skill, of which nothing is claimed any more.
LEMMA PolicyApplyInv ==
  ASSUME PolicyInv, NEW c \in Jobs, NEW ok \in BOOLEAN, Policy!ApplyPolicy(c, ok)
  PROVE  PolicyInv'
<1>0. PICK s \in Skills : s = commits[c].skill
  BY DEF PolicyInv, Policy!TypeOK, Policy!ApplyPolicy
<1>1. /\ Policy!Exists(s) /\ rows[s] \in Policy!Rows /\ rows[s].policy \in Policies
      /\ commits[c] \in PolicyCommit /\ commits[c].after \in Policies
      /\ commits[c].id \in PolicyChanges
  BY <1>0 DEF PolicyInv, Policy!TypeOK, Policy!ApplyPolicy, Policy!Exists, Policy!Rows,
     PolicyCommit
<1>2. Policy!Remembered(s) \in Policies /\ Policy!Remembered(s) # None
  BY DefaultIsAPolicy, <1>1 DEF PolicyInv, Policy!TypeOK, Policy!Remembered
<1>3. s \notin overlapped /\ ~Policy!Restoring(s) => Policy!Remembered(s) = baseline[s]
  BY <1>1 DEF PolicyInv, PolicyRemembersFirst, Policy!Remembered
<1>4. /\ originals' = [originals EXCEPT ![s] = Policy!Remembered(s)] /\ baseline' = baseline
      /\ prepared' \in {prepared, [prepared EXCEPT ![commits[c].id] = None]}
      /\ commits' = [commits EXCEPT ![c] = None] /\ restores' = restores
      /\ overlapped' = IF Policy!Restoring(s) THEN overlapped \union {s} ELSE overlapped
  BY <1>0 DEF Policy!ApplyPolicy
<1>5. rows' = rows \/ rows' = [rows EXCEPT ![s] = [rows[s] EXCEPT !.policy = commits[c].after]]
  BY <1>0 DEF Policy!ApplyPolicy
<1>6. rows' \in [Skills -> Policy!Rows \union {None}]
  BY <1>1, <1>5, PolicyRowTakesAPolicy DEF PolicyInv, Policy!TypeOK
<1>7. Policy!TypeOK'
  BY <1>2, <1>4, <1>6 DEF PolicyInv, Policy!TypeOK
<1>8. \A t \in Skills : t # s => rows'[t] = rows[t] /\ originals'[t] = originals[t]
  BY <1>4, <1>5 DEF PolicyInv, Policy!TypeOK
<1>9. \A t \in Skills : Policy!Restoring(t)' <=> Policy!Restoring(t)
  BY <1>4 DEF Policy!Restoring
<1>10. originals'[s] = Policy!Remembered(s)
  BY <1>4 DEF PolicyInv, Policy!TypeOK
<1>11. PolicyRemembersFirst'
  BY <1>2, <1>3, <1>4, <1>8, <1>9, <1>10 DEF PolicyInv, PolicyRemembersFirst, Policy!Exists
<1>12. PolicyTakenIsFirst'
  <2>1. \A r \in PolicyRestores : restores[r] # None => restores[r].skill \in Skills
    BY DEF PolicyInv, Policy!TypeOK, Policy!Takings
  <2>2. \A r \in PolicyRestores :
          restores[r] # None /\ restores[r].skill \notin overlapped' => restores[r].skill # s
    BY <1>4 DEF Policy!Restoring
  <2>3. QED
    BY <1>4, <1>8, <2>1, <2>2 DEF PolicyInv, PolicyTakenIsFirst
<1>13. QED
  BY <1>7, <1>11, <1>12 DEF PolicyInv

\* The first half of a restore takes the first policy, and nobody has it besides.
LEMMA PolicyTakeInv ==
  ASSUME PolicyInv, NEW r \in PolicyRestores, NEW s \in Skills, Policy!TakeOriginal(r, s)
  PROVE  PolicyInv'
<1> DEFINE taken == [skill |-> s, policy |-> originals[s]]
<1>1. /\ restores[r] = None /\ originals[s] # None /\ originals[s] \in Policies
      /\ restores' = [restores EXCEPT ![r] = taken]
      /\ originals' = [originals EXCEPT ![s] = None]
      /\ UNCHANGED <<rows, prepared, commits, baseline, overlapped>>
  BY DEF Policy!TakeOriginal, PolicyInv, Policy!TypeOK
<1>2. taken \in Policy!Takings /\ taken.skill = s /\ taken.policy = originals[s]
  BY <1>1 DEF Policy!Takings
<1> HIDE DEF taken
<1>3. Policy!TypeOK' /\ taken # None
  BY <1>1, <1>2, DefaultIsAPolicy DEF PolicyInv, Policy!TypeOK
<1>4. /\ restores'[r] = taken /\ originals'[s] = None
      /\ \A q \in PolicyRestores \ {r} : restores'[q] = restores[q]
      /\ \A t \in Skills \ {s} : originals'[t] = originals[t]
  BY <1>1 DEF PolicyInv, Policy!TypeOK
<1>5. s \notin overlapped => ~Policy!Restoring(s)
  BY <1>1 DEF PolicyInv, PolicyTakenIsFirst, Policy!Restoring
<1>6. /\ Policy!Restoring(s)'
      /\ \A t \in Skills \ {s} : Policy!Restoring(t)' <=> Policy!Restoring(t)
  BY <1>1, <1>2, <1>3, <1>4 DEF Policy!Restoring
<1>7. PolicyRemembersFirst'
  BY <1>1, <1>4, <1>6 DEF PolicyInv, PolicyRemembersFirst, Policy!Exists
<1>8. s \notin overlapped => originals[s] = baseline[s]
  BY <1>1, <1>5 DEF PolicyInv, PolicyRemembersFirst
<1>9. PolicyTakenIsFirst'
  <2>1. \A q \in PolicyRestores : restores[q] # None => restores[q].skill \in Skills
    BY DEF PolicyInv, Policy!TypeOK, Policy!Takings
  <2>2. \A q \in PolicyRestores :
          restores[q] # None /\ s \notin overlapped => restores[q].skill # s
    BY <1>5 DEF Policy!Restoring
  <2>3. QED
    BY <1>1, <1>2, <1>4, <1>8, <2>1, <2>2 DEF PolicyInv, PolicyTakenIsFirst
<1>10. QED
  BY <1>3, <1>7, <1>9 DEF PolicyInv

\* The second half writes the first policy back; failed or refused, it leaves none to go back to.
LEMMA PolicyPutBackInv ==
  ASSUME PolicyInv, NEW r \in PolicyRestores,
         \/ \E ok \in BOOLEAN : Policy!PutOriginalBack(r, ok)
         \/ Policy!RefuseRestore(r)
  PROVE  PolicyInv'
<1>0. PICK s \in Skills, p \in Policies : s = restores[r].skill /\ p = restores[r].policy
  BY DEF PolicyInv, Policy!TypeOK, Policy!Takings, Policy!PutOriginalBack,
         Policy!RefuseRestore
<1>1. /\ restores[r] # None /\ restores' = [restores EXCEPT ![r] = None]
      /\ UNCHANGED <<prepared, commits, originals, overlapped>>
  BY DEF Policy!PutOriginalBack, Policy!RefuseRestore
<1>2. /\ restores'[r] = None
      /\ \A q \in PolicyRestores \ {r} : restores'[q] = restores[q]
  BY <1>1 DEF PolicyInv, Policy!TypeOK
<1>3. \/ /\ ~Policy!Exists(s) /\ UNCHANGED <<rows, baseline>>
      \/ /\ Policy!Exists(s) /\ rows' = [rows EXCEPT ![s] = [rows[s] EXCEPT !.policy = p]]
         /\ baseline' = [baseline EXCEPT ![s] = baseline[s]]
      \/ /\ Policy!Exists(s) /\ rows' = rows
         /\ baseline' = [baseline EXCEPT
              ![s] = IF originals[s] # None THEN baseline[s] ELSE rows[s].policy]
  <2>1. CASE Policy!RefuseRestore(r)
    BY <1>0, <2>1 DEF Policy!RefuseRestore
  <2>2. ASSUME NEW ok \in BOOLEAN, Policy!PutOriginalBack(r, ok)
        PROVE  /\ Policy!Exists(s)
               /\ rows' = IF ok THEN [rows EXCEPT ![s] = [rows[s] EXCEPT !.policy = p]] ELSE rows
               /\ baseline' = [baseline EXCEPT ![s] = IF ok \/ originals[s] # None
                                                      THEN baseline[s] ELSE rows[s].policy]
    BY <1>0, <2>2 DEF Policy!PutOriginalBack
  <2>3. QED
    BY <2>1, <2>2
<1>4. Policy!Exists(s) =>
        /\ rows[s] \in Policy!Rows /\ rows[s].policy \in Policies
        /\ [rows[s] EXCEPT !.policy = p] \in Policy!Rows
        /\ [rows[s] EXCEPT !.policy = p].policy = p
  BY PolicyRowTakesAPolicy DEF PolicyInv, Policy!TypeOK, Policy!Exists, Policy!Rows
<1>5. Policy!TypeOK'
  BY <1>1, <1>3, <1>4 DEF PolicyInv, Policy!TypeOK
<1>6. \A t \in Skills \ {s} : rows'[t] = rows[t] /\ baseline'[t] = baseline[t]
  BY <1>3 DEF PolicyInv, Policy!TypeOK
<1>7. s \notin overlapped =>
        /\ originals[s] = None /\ p = baseline[s]
        /\ \A q \in PolicyRestores \ {r} : restores[q] # None => restores[q].skill # s
  BY <1>0, <1>1 DEF PolicyInv, PolicyTakenIsFirst
<1>8. s \notin overlapped /\ Policy!Exists(s)' => rows'[s].policy = baseline'[s]
  BY <1>3, <1>4, <1>7 DEF PolicyInv, Policy!TypeOK, Policy!Exists
<1>9. \A t \in Skills \ {s} : Policy!Restoring(t)' <=> Policy!Restoring(t)
  BY <1>0, <1>1, <1>2 DEF Policy!Restoring
<1>10. PolicyRemembersFirst'
  BY <1>1, <1>6, <1>7, <1>8, <1>9 DEF PolicyInv, PolicyRemembersFirst, Policy!Exists
<1>11. PolicyTakenIsFirst'
  <2>1. \A q \in PolicyRestores : restores[q] # None => restores[q].skill \in Skills
    BY DEF PolicyInv, Policy!TypeOK, Policy!Takings
  <2>2. QED
    BY <1>1, <1>2, <1>6, <1>7, <2>1 DEF PolicyInv, PolicyTakenIsFirst
<1>12. QED
  BY <1>5, <1>10, <1>11 DEF PolicyInv

\* Of a skill that is created nothing is remembered: its identifier is new.
LEMMA PolicyCreateInv ==
  ASSUME PolicyInv, NEW s \in Skills, Policy!CreateSkill(s)
  PROVE  PolicyInv'
<1>1. PICK row \in Policy!Rows : /\ row.policy = Default
                                 /\ rows' = [rows EXCEPT ![s] = row]
  BY DefaultIsAPolicy DEF Policy!CreateSkill, Policy!Rows
<1>2. /\ baseline' = [baseline EXCEPT ![s] = Default] /\ baseline[s] = None
      /\ UNCHANGED <<prepared, commits, originals, restores, overlapped>>
  BY DEF Policy!CreateSkill
<1>3. Policy!TypeOK'
  BY DefaultIsAPolicy, <1>1, <1>2 DEF PolicyInv, Policy!TypeOK
<1>4. \A t \in Skills \ {s} : rows'[t] = rows[t] /\ baseline'[t] = baseline[t]
  BY <1>1, <1>2 DEF PolicyInv, Policy!TypeOK
<1>5. rows'[s].policy = baseline'[s]
  BY <1>1, <1>2 DEF PolicyInv, Policy!TypeOK
<1>6. /\ \A r \in PolicyRestores : restores[r] # None =>
           restores[r].policy # None /\ restores[r].skill \in Skills
      /\ s \notin overlapped /\ ~Policy!Restoring(s) => originals[s] = None
      /\ \A t \in Skills : Policy!Restoring(t)' <=> Policy!Restoring(t)
  BY <1>2, DefaultIsAPolicy
  DEF PolicyInv, Policy!TypeOK, Policy!Takings, PolicyRemembersFirst, Policy!Restoring
<1>7. PolicyRemembersFirst'
  BY <1>2, <1>4, <1>5, <1>6 DEF PolicyInv, PolicyRemembersFirst, Policy!Exists
<1>8. PolicyTakenIsFirst'
  BY <1>2, <1>4, <1>6 DEF PolicyInv, PolicyTakenIsFirst
<1>9. QED
  BY <1>3, <1>7, <1>8 DEF PolicyInv

\* A combination changes several rows as one change does.
LEMMA PolicyCombinationInv ==
  ASSUME PolicyInv, NEW members \in SUBSET Skills, Policy!CreateCombination(members)
  PROVE  PolicyInv'
<1>1. \A s \in members : rows[s] \in Policy!Rows
  BY DEF Policy!CreateCombination, PolicyInv, Policy!TypeOK, Policy!Exists
<1>2. /\ \A s \in members : rows'[s] \in Policy!Rows /\ rows'[s].policy = rows[s].policy
      /\ \A s \in Skills \ members : rows'[s] = rows[s]
  BY <1>1, PolicyRowKeepsItsPolicy DEF Policy!CreateCombination
<1>3. /\ rows' \in [Skills -> Policy!Rows \union {None}]
      /\ UNCHANGED <<prepared, commits, originals, restores, baseline, overlapped>>
  <2>1. \A s \in Skills : rows[s] \in Policy!Rows \union {None}
    BY DEF PolicyInv, Policy!TypeOK
  <2>2. \A s \in Skills : rows'[s] \in Policy!Rows \union {None}
    BY <1>2, <2>1
  <2>3. QED
    BY <2>2 DEF Policy!CreateCombination
<1>4. Policy!TypeOK'
  BY <1>3 DEF PolicyInv, Policy!TypeOK
<1>5. \A s \in members : rows[s] # None /\ rows'[s] # None
  BY DefaultIsAPolicy, <1>2 DEF Policy!CreateCombination, Policy!Exists
<1>6. \A s \in Skills : PolicyLeaves(s)
  BY <1>2, <1>3, <1>5 DEF PolicyLeaves
<1>7. QED
  BY <1>3, <1>4, <1>6, PolicyFrame

\* The commands that set no policy keep the invariant too.
LEMMA PolicyRestInv ==
  ASSUME PolicyInv
  PROVE  /\ \A s \in Skills : Policy!RemoveSkill(s) => PolicyInv'
         /\ \A p \in PolicyChanges, s \in Skills, after \in Policies :
              Policy!PrepareCallPolicyChange(p, s, after) => PolicyInv'
         /\ \A c \in Jobs, p \in PolicyChanges : Policy!TakePlan(c, p) => PolicyInv'
         /\ \A c \in Jobs : Policy!RefusePolicy(c) => PolicyInv'
         /\ Policy!Restart => PolicyInv'
<1>1. ASSUME NEW s \in Skills, Policy!RemoveSkill(s) PROVE PolicyInv'
  <2>1. /\ rows' = [rows EXCEPT ![s] = None]
        /\ UNCHANGED <<prepared, commits, originals, restores, baseline, overlapped>>
    BY <1>1 DEF Policy!RemoveSkill
  <2>2. Policy!TypeOK'
    BY <2>1 DEF PolicyInv, Policy!TypeOK
  <2>3. /\ rows'[s] = None /\ \A t \in Skills \ {s} : rows'[t] = rows[t]
        /\ \A t \in Skills : Policy!Restoring(t)' <=> Policy!Restoring(t)
    BY <2>1 DEF PolicyInv, Policy!TypeOK, Policy!Restoring
  <2>4. PolicyRemembersFirst' /\ PolicyTakenIsFirst'
    BY <2>1, <2>3 DEF PolicyInv, PolicyRemembersFirst, PolicyTakenIsFirst, Policy!Exists
  <2>5. QED
    BY <2>2, <2>4 DEF PolicyInv
<1>2. ASSUME NEW p \in PolicyChanges, NEW s \in Skills, NEW after \in Policies,
             Policy!PrepareCallPolicyChange(p, s, after)
      PROVE  PolicyInv'
  <2>1. [skill |-> s, after |-> after] \in Policy!Changes
    BY DEF Policy!Changes
  <2>2. Policy!TypeOK'
    BY <1>2, <2>1 DEF Policy!PrepareCallPolicyChange, PolicyInv, Policy!TypeOK
  <2>3. QED
    BY <1>2, <2>2, PolicyFrame DEF Policy!PrepareCallPolicyChange, PolicyLeaves
<1>3. ASSUME NEW c \in Jobs, NEW p \in PolicyChanges, Policy!TakePlan(c, p)
      PROVE  PolicyInv'
  <2>1. prepared[p] \in Policy!Changes
    BY <1>3 DEF Policy!TakePlan, PolicyInv, Policy!TypeOK
  <2>2. [id |-> p, skill |-> prepared[p].skill, after |-> prepared[p].after] \in PolicyCommit
    BY <2>1 DEF Policy!Changes, PolicyCommit
  <2>3. Policy!TypeOK'
    BY <1>3, <2>2 DEF Policy!TakePlan, PolicyInv, Policy!TypeOK, PolicyCommit
  <2>4. QED
    BY <1>3, <2>3, PolicyFrame DEF Policy!TakePlan, PolicyLeaves
<1>4. ASSUME NEW c \in Jobs, Policy!RefusePolicy(c) PROVE PolicyInv'
  <2>1. Policy!TypeOK'
    BY <1>4 DEF Policy!RefusePolicy, PolicyInv, Policy!TypeOK
  <2>2. QED
    BY <1>4, <2>1, PolicyFrame DEF Policy!RefusePolicy, PolicyLeaves
<1>5. ASSUME Policy!Restart PROVE PolicyInv'
  <2>1. \A s \in Skills : Policy!Exists(s) => rows[s].policy \in Policies
    BY DEF PolicyInv, Policy!TypeOK, Policy!Rows, Policy!Exists
  <2>2. Policy!TypeOK'
    BY <1>5, <2>1 DEF Policy!Restart, PolicyInv, Policy!TypeOK
  <2>3. PolicyRemembersFirst' /\ PolicyTakenIsFirst'
    BY <1>5 DEF Policy!Restart, PolicyRemembersFirst, PolicyTakenIsFirst, Policy!Exists
  <2>4. QED
    BY <2>2, <2>3 DEF PolicyInv
<1>6. QED
  BY <1>1, <1>2, <1>3, <1>4, <1>5

\* Every step of the catalog keeps its invariant.
LEMMA PolicyStepInv ==
  PolicyInv /\ [Policy!Next]_catalog => PolicyInv'
<1> SUFFICES ASSUME PolicyInv, [Policy!Next]_catalog PROVE PolicyInv'
  OBVIOUS
<1>1. ASSUME NEW s \in Skills, NEW b \in BOOLEAN, Policy!SetMetadata(s,
     b) \/ Policy!SetTrial(s, b)
      PROVE  PolicyInv'
  <2>1. rows[s] \in Policy!Rows
    BY <1>1 DEF PolicyInv, Policy!TypeOK, Policy!SetMetadata, Policy!SetTrial, Policy!Exists
  <2>2. CASE Policy!SetMetadata(s, b)
    <3>1. Policy!Edit(s, [rows[s] EXCEPT !.trial = b])
      BY <2>2 DEF Policy!SetMetadata
    <3>2. /\ [rows[s] EXCEPT !.trial = b] \in Policy!Rows
          /\ [rows[s] EXCEPT !.trial = b].policy = rows[s].policy
      BY <2>1, PolicyRowKeepsItsPolicy
    <3>3. QED
      BY <3>1, <3>2, PolicyEditInv
  <2>3. CASE Policy!SetTrial(s, b)
    <3>1. Policy!Edit(s, [rows[s] EXCEPT !.due = b, !.trial = b])
      BY <2>3 DEF Policy!SetTrial
    <3>2. /\ [rows[s] EXCEPT !.due = b, !.trial = b] \in Policy!Rows
          /\ [rows[s] EXCEPT !.due = b, !.trial = b].policy = rows[s].policy
      BY <2>1, PolicyRowKeepsItsPolicy
    <3>3. QED
      BY <3>1, <3>2, PolicyEditInv
  <2>4. QED
    BY <1>1, <2>2, <2>3
<1>2. CASE UNCHANGED catalog
  <2>1. Policy!TypeOK'
    BY <1>2 DEF catalog, PolicyInv, Policy!TypeOK
  <2>2. QED
    BY <1>2, <2>1, PolicyFrame DEF catalog, PolicyLeaves
<1>3. QED
  BY <1>1, <1>2, PolicyCreateInv, PolicyTakeInv, PolicyPutBackInv, PolicyCombinationInv,
     PolicyApplyInv, PolicyRestInv DEF Policy!Next

-----------------------------------------------------------------------------
(***************************************************************************)
(* Plans of deployments.  The argument is about the groups of the selected *)
(* targets: they divide them, one group for one directory, and what the    *)
(* planner demands of a group holds for each target in it.                 *)
(***************************************************************************)
LEMMA PlannerGroupsDivide ==
  ASSUME NEW ids \in SUBSET Targets
  PROVE  /\ UNION Plans!Groups(ids) = ids
         /\ \A g \in Plans!Groups(ids) :
              /\ g # {} /\ g \subseteq ids
              /\ \A t, u \in g : facts[t].dir = facts[u].dir
         /\ \A g, h \in Plans!Groups(ids) : \A t \in g,
              u \in h : facts[t].dir = facts[u].dir => g = h
<1>1. \A t \in ids : {u \in ids : facts[u].dir = facts[t].dir} \in Plans!Groups(ids)
  BY DEF Plans!Groups
<1>2. \A g \in Plans!Groups(ids) : \E t \in ids : g = {u \in ids : facts[u].dir = facts[t].dir}
  BY DEF Plans!Groups
<1>3. \A g \in Plans!Groups(ids) : g # {} /\ g \subseteq ids
  BY <1>2
<1>4. UNION Plans!Groups(ids) = ids
  <2>1. \A t \in ids : \E g \in Plans!Groups(ids) : t \in g
    BY <1>1
  <2>2. QED
    BY <2>1, <1>3
<1>5. ASSUME NEW g \in Plans!Groups(ids), NEW h \in Plans!Groups(ids), NEW t \in g, NEW u \in h,
             facts[t].dir = facts[u].dir
      PROVE  g = h
  <2>1. PICK v \in ids : g = {x \in ids : facts[x].dir = facts[v].dir}
    BY <1>2
  <2>2. PICK w \in ids : h = {x \in ids : facts[x].dir = facts[w].dir}
    BY <1>2
  <2>3. facts[v].dir = facts[w].dir
    BY <2>1, <2>2, <1>5
  <2>4. QED
    BY <2>1, <2>2, <2>3
<1>6. \A g \in Plans!Groups(ids) : \A t, u \in g : facts[t].dir = facts[u].dir
  BY <1>2
<1>7. QED
  BY <1>3, <1>4, <1>5, <1>6

\* What the planner demands of a group holds for each target in it.
LEMMA PlannerOfAGroup ==
  ASSUME NEW ids \in SUBSET Targets, NEW g \in Plans!Groups(ids), NEW override
  PROVE  LET p == Plans!TargetPlan(g, override)
         IN  /\ p.targets = g /\ p.mode = Plans!ModeOf(override, Plans!SharedModes(g))
              /\ p.change = Plans!Change(g)
             /\ \A t \in g : p.dir = facts[t].dir
<1>1. (CHOOSE t \in g : TRUE) \in g
  BY PlannerGroupsDivide
<1>2. \A t \in g : facts[CHOOSE u \in g : TRUE].dir = facts[t].dir
  BY <1>1, PlannerGroupsDivide
<1>3. QED
  BY <1>2 DEF Plans!TargetPlan

\* A planned answer is complete and safe.
LEMMA PlannerStep ==
  ASSUME Plans!TypeOK, NEW ids \in SUBSET Targets, NEW moved \in SUBSET ids,
         NEW override, NEW gate, Plans!Plan(ids, moved, override, gate)
  PROVE  Plans!TypeOK' /\ Plans!PlansAreSafe'
<1> DEFINE mode(g) == Plans!ModeOf(override, Plans!SharedModes(g))
<1>0. UNCHANGED <<facts, sensitive>>
  BY DEF Plans!Plan
<1>1. CASE planner_answer' # "planned"
  <2>1. planner_plan' = {} /\ planner_answer' \in {None, "refused", "planned"}
    BY <1>1 DEF Plans!Plan
  <2>2. Plans!TypeOK'
    BY <2>1, <1>0 DEF Plans!TypeOK
  <2>3. QED
    BY <1>1, <2>2 DEF Plans!PlansAreSafe
<1>2. CASE planner_answer' = "planned"
  <2>1. /\ gate = "clear" /\ \A t \in ids : t \notin moved
        /\ \A g \in Plans!Groups(ids) : mode(g) \in Plans!SharedModes(g)
             /\ Plans!Conflicts(g) = {}
    BY <1>2 DEF Plans!Plan, Plans!Resolved, Plans!Verified
  <2>2. /\ request' = [ids |-> ids, moved |-> moved, override |-> override, gate |-> gate]
        /\ planner_plan' = {Plans!TargetPlan(g, override) : g \in Plans!Groups(ids)}
    BY <1>2 DEF Plans!Plan
  <2>3. UNION {p.targets : p \in planner_plan'} = ids
    <3>1. \A g \in Plans!Groups(ids) : Plans!TargetPlan(g, override).targets = g
      BY PlannerOfAGroup
    <3>2. {p.targets : p \in planner_plan'} = Plans!Groups(ids)
      BY <2>2, <3>1
    <3>3. QED
      BY <3>2, PlannerGroupsDivide
  <2>4. ASSUME NEW p \in planner_plan', NEW q \in planner_plan', p # q
        PROVE  p.dir # q.dir /\ p.targets \intersect q.targets = {}
    <3>1. PICK g \in Plans!Groups(ids), h \in Plans!Groups(ids) :
            p = Plans!TargetPlan(g, override) /\ q = Plans!TargetPlan(h, override)
      BY <2>2
    <3>2. g # h
      BY <3>1, <2>4
    <3>3. PICK t \in g, u \in h : TRUE
      BY PlannerGroupsDivide
    <3>4. p.targets = g /\ q.targets = h /\ p.dir = facts[t].dir /\ q.dir = facts[u].dir
      BY <3>1, PlannerOfAGroup
    <3>5. g \intersect h = {} /\ facts[t].dir # facts[u].dir
      BY <3>2, PlannerGroupsDivide
    <3>6. QED
      BY <3>4, <3>5
  <2>5. ASSUME NEW p \in planner_plan', NEW t \in p.targets
        PROVE  /\ facts[t].dir = p.dir /\ t \notin moved
               /\ p.mode \in facts[t].modes /\ override \in {None, p.mode}
               /\ \A e \in facts[t].existing :
                    e.exact \/ (\E u \in p.targets : ~sensitive[u])
                      => e.owner \in {"this_version", "this_skill"}
    <3>1. PICK g \in Plans!Groups(ids) : p = Plans!TargetPlan(g, override)
      BY <2>2
    <3>2. t \in g /\ p.targets = g /\ t \in ids /\ p.mode = mode(g) /\ p.dir = facts[t].dir
      BY <3>1, PlannerOfAGroup, PlannerGroupsDivide
    <3>3. p.mode \in facts[t].modes
      BY <3>2, <2>1 DEF Plans!SharedModes
    <3>4. override \in {None, p.mode}
      BY <3>2 DEF Plans!ModeOf
    <3>5. \A e \in facts[t].existing : e \in Plans!Known(g)
      BY <3>2 DEF Plans!Known
    <3>6. \A e \in Plans!Known(g) : Plans!NamesEqual(g, e) => e.owner \in {"this_version",
         "this_skill"}
      BY <2>1 DEF Plans!Conflicts
    <3>7. QED
      BY <2>1, <3>2, <3>3, <3>4, <3>5, <3>6 DEF Plans!NamesEqual
  <2>6. Plans!PlansAreSafe'
    BY <1>0, <2>1, <2>2, <2>3, <2>4, <2>5 DEF Plans!PlansAreSafe
  <2>7. Plans!TypeOK'
    <3>1. ASSUME NEW g \in Plans!Groups(ids)
          PROVE  Plans!TargetPlan(g, override) \in
                   [dir : Dirs, targets : SUBSET Targets, change : {"create", "no_op"},
                    mode : {Plans!Modes[i] : i \in DOMAIN Plans!Modes}]
      <4>1. PICK t \in g : t \in ids
        BY PlannerGroupsDivide
      <4>2. facts[t].dir \in Dirs
        BY <4>1 DEF Plans!TypeOK, Plans!Facts
      <4>3. mode(g) \in {Plans!Modes[i] : i \in DOMAIN Plans!Modes}
        BY <2>1 DEF Plans!SharedModes
      <4>4. g \in SUBSET Targets
        BY PlannerGroupsDivide
      <4>5. Plans!Change(g) \in {"create", "no_op"}
        BY DEF Plans!Change
      <4>6. Plans!TargetPlan(g, override) = [dir |-> facts[t].dir, targets |-> g,
                                       mode |-> mode(g), change |-> Plans!Change(g)]
        BY <4>1, PlannerOfAGroup DEF Plans!TargetPlan
      <4>7. QED
        BY <4>2, <4>3, <4>4, <4>5, <4>6
    <3>2. QED
      BY <1>0, <1>2, <2>2, <3>1 DEF Plans!TypeOK
  <2>8. QED
    BY <2>6, <2>7
<1>3. QED
  BY <1>1, <1>2

PlannerInv == Plans!TypeOK /\ Plans!PlansAreSafe

\* There is no plan at the start.
LEMMA PlannerInitInv == Plans!Init => PlannerInv
  BY NoneIsNoAnswer DEF Plans!Init, PlannerInv, Plans!TypeOK, Plans!PlansAreSafe

\* Every step of the planner keeps its invariant.
LEMMA PlannerStepInv == PlannerInv /\ [Plans!Next]_planner => PlannerInv'
<1> SUFFICES ASSUME PlannerInv, [Plans!Next]_planner PROVE PlannerInv'
  OBVIOUS
<1>1. CASE Plans!Next
  <2>1. PICK ids \in SUBSET Targets, gate \in Plans!Gates,
             override \in {Plans!Modes[i] : i \in DOMAIN Plans!Modes} \union {None} :
               \E moved \in SUBSET ids : Plans!Plan(ids, moved, override, gate)
    BY <1>1 DEF Plans!Next
  <2>2. PICK moved \in SUBSET ids : Plans!Plan(ids, moved, override, gate)
    BY <2>1
  <2>3. QED
    BY <2>2, PlannerStep DEF PlannerInv
<1>2. CASE UNCHANGED planner
  BY <1>2 DEF planner, PlannerInv, Plans!TypeOK, Plans!PlansAreSafe
<1>3. QED
  BY <1>1, <1>2

-----------------------------------------------------------------------------
(***************************************************************************)
(* Safety checks.                                                          *)
(***************************************************************************)
\* A failed run stays failed, and a finding of high risk is open until it is confirmed.
EarnedRun(run) ==
  /\ run.failure => run.state = "failed"
  /\ \A p \in run.found \intersect HighRisk : p \in run.open \/ <<run.id, p>> \in confirmed

CheckInv ==
  /\ Checker!TypeOK
  /\ \A run \in runs : EarnedRun(run)

\* The invariant says that what is passed was earned.
LEMMA CheckInvIsEarned == CheckInv => Checker!PassedIsEarned
<1> SUFFICES ASSUME CheckInv, NEW s \in Twins, NEW kind \in Checker!Kinds,
                    NEW run \in Checker!Current(s, kind),
                    Checker!DeriveCheckState(run) = "passed"
             PROVE  /\ ~run.failure
                    /\ \A p \in run.found \intersect HighRisk : <<run.id, p>> \in confirmed
  BY DEF Checker!PassedIsEarned
<1>1. run \in runs /\ run \in Checker!Runs /\ EarnedRun(run)
  BY DEF Checker!Current, Checker!OfVersion, CheckInv, Checker!TypeOK
<1>2. Checker!Phase(run) = "completed" /\ run.open = {}
  BY DEF Checker!DeriveCheckState
<1>3. QED
  BY <1>1, <1>2 DEF EarnedRun, Checker!Phase, Checker!Runs

\* Generations are bounded, so a version that was checked has a newest run.
LEMMA NextGenerationIsNatural ==
  ASSUME CheckInv, NEW s \in Twins, NEW kind \in Checker!Kinds
  PROVE  Checker!NextGeneration(s, kind) \in Nat
<1> DEFINE of == Checker!OfVersion(s, kind)
           generations == {run.id[2] : run \in of}
<1>1. \A run \in of : run.id[2] \in 0 .. MaxGeneration
  BY DEF Checker!OfVersion, CheckInv, Checker!TypeOK, Checker!Runs, Checker!RunIds
<1>2. CASE of = {}
  BY <1>2 DEF Checker!NextGeneration
<1>3. CASE of # {}
  <2>1. generations \subseteq Nat /\ generations # {} /\ \A g \in generations : g <= MaxGeneration
    BY <1>1, <1>3, GenerationsAreNatural
  <2>2. PICK g \in generations : \A o \in generations : o <= g
    <3> HIDE DEF generations
    <3> QED
      BY <2>1, HasMaximum, GenerationsAreNatural
  <2>3. Checker!Current(s, kind) # {}
    BY <2>2 DEF Checker!Current
  <2>4. (CHOOSE run \in Checker!Current(s, kind) : TRUE) \in of
    BY <2>3 DEF Checker!Current
  <2>5. QED
    BY <1>1, <1>3, <2>4, GenerationsAreNatural DEF Checker!NextGeneration
<1>4. QED
  BY <1>2, <1>3

\* The invariant of the checks holds at the start.
LEMMA CheckInitInv == Checker!Init => CheckInv
  BY DEF Checker!Init, CheckInv, Checker!TypeOK

\* A run that is recorded has earned its state.
LEMMA CheckInsertInv ==
  ASSUME CheckInv, NEW c \in Jobs, NEW run \in Checker!Runs, EarnedRun(run), Checker!Insert(c, run)
  PROVE  CheckInv'
<1>1. runs' \subseteq runs \union {run} /\ UNCHANGED confirmed
  BY DEF Checker!Insert, Checker!Inserted
<1>2. Checker!TypeOK'
  BY <1>1 DEF Checker!Insert, CheckInv, Checker!TypeOK
<1>3. QED
  BY <1>1, <1>2 DEF CheckInv, EarnedRun

\* What a check has found is open, and a failed check has not passed.
LEMMA NewRunIsEarned ==
  ASSUME NEW check \in [skill : Twins, id : Checker!RunIds], NEW found \in SUBSET Places,
         NEW failure \in BOOLEAN
  PROVE  /\ Checker!RunOf(check, found, failure) \in Checker!Runs
         /\ EarnedRun(Checker!RunOf(check, found, failure))
<1> DEFINE state == IF found = {} /\ ~failure THEN "passed" ELSE "failed"
           run == [id |-> check.id, skill |-> check.skill, found |-> found, open |-> found,
                   state |-> state, failure |-> failure]
<1>1. state \in {"passed", "failed"} /\ (failure => state = "failed")
  OBVIOUS
<1> HIDE DEF state
<1>2. run \in Checker!Runs /\ EarnedRun(run)
  BY <1>1 DEF Checker!Runs, EarnedRun
<1>3. QED
  BY <1>2 DEF Checker!RunOf, state

\* A disposition confirms findings, and passes only with all of them.
LEMMA CheckDisposeInv ==
  ASSUME CheckInv, NEW s \in Twins, NEW kind \in Checker!Kinds, NEW p \in Places,
         NEW asked \in BOOLEAN, Checker!SetFindingDisposition(s, kind, p, asked)
  PROVE  CheckInv'
<1>1. PICK run \in runs :
        /\ Checker!MayDispose(p, asked)
        /\ runs' = (runs \ {run}) \union {Checker!Disposed(run, p)}
        /\ confirmed' = confirmed \union IF asked THEN {<<run.id, p>>} ELSE {}
        /\ UNCHANGED <<registered, dangers, commands>>
  BY DEF Checker!SetFindingDisposition, Checker!Current, Checker!OfVersion
<1> DEFINE new == Checker!Disposed(run, p)
<1>2. run \in Checker!Runs /\ EarnedRun(run)
  BY DEF CheckInv, Checker!TypeOK
<1>3. /\ new \in Checker!Runs /\ new.id = run.id /\ new.found = run.found
      /\ new.open = run.open \ {p} /\ (new.failure => new.state = "failed")
  BY <1>2 DEF Checker!Disposed, Checker!Runs
<1>4. confirmed \subseteq confirmed' /\ (p \in HighRisk => <<run.id, p>> \in confirmed')
  BY <1>1 DEF Checker!MayDispose
<1>5. EarnedRun(new)'
  BY <1>2, <1>3, <1>4 DEF EarnedRun
<1>6. \A r \in runs \ {run} : EarnedRun(r)'
  BY <1>4 DEF CheckInv, EarnedRun
<1>7. confirmed' \subseteq Checker!RunIds \X Places
  BY <1>1, <1>2 DEF CheckInv, Checker!TypeOK, Checker!Runs
<1>8. Checker!TypeOK'
  BY <1>1, <1>3, <1>7 DEF CheckInv, Checker!TypeOK
<1> HIDE DEF new
<1>9. \A r \in runs' : EarnedRun(r)'
  BY <1>1, <1>5, <1>6 DEF new
<1>10. QED
  BY <1>8, <1>9 DEF CheckInv

\* Every step of the checks keeps their invariant.
LEMMA CheckStepInv == CheckInv /\ [Checker!Next]_checks => CheckInv'
<1> SUFFICES ASSUME CheckInv, [Checker!Next]_checks PROVE CheckInv'
  OBVIOUS
<1>1. CASE UNCHANGED checks
  BY <1>1 DEF checks, CheckInv, Checker!TypeOK, EarnedRun
<1>2. ASSUME NEW c \in Jobs, NEW s \in Twins, NEW kind \in Checker!Kinds,
             Checker!BeginCheck(c, s, kind)
      PROVE  CheckInv'
  <2>1. <<kind, Checker!NextGeneration(s, kind)>> \in Checker!RunIds
    BY <1>2, NextGenerationIsNatural, GenerationsAreNatural DEF Checker!BeginCheck, Checker!RunIds
  <2>2. QED
    BY <1>2, <2>1 DEF Checker!BeginCheck, CheckInv, Checker!TypeOK, EarnedRun
<1>3. ASSUME NEW c \in Jobs, Checker!FailCheck(c) PROVE CheckInv'
  <2>1. commands[c] \in [skill : Twins, id : Checker!RunIds]
    BY <1>3 DEF Checker!FailCheck, CheckInv, Checker!TypeOK
  <2>2. QED
    BY <1>3, <2>1, NewRunIsEarned, CheckInsertInv DEF Checker!FailCheck
<1>4. ASSUME NEW c \in Jobs, Checker!CompleteCheck(c) PROVE CheckInv'
  <2>1. commands[c] \in [skill : Twins, id : Checker!RunIds]
    BY <1>4 DEF Checker!CompleteCheck, CheckInv, Checker!TypeOK
  <2>2. PICK found \in SUBSET Places : Checker!Insert(c, Checker!RunOf(commands[c], found, FALSE))
    BY <1>4 DEF Checker!CompleteCheck, Checker!Findings, CheckInv, Checker!TypeOK
  <2>3. QED
    BY <2>1, <2>2, NewRunIsEarned, CheckInsertInv
<1>5. ASSUME NEW s \in Twins, NEW kind \in Checker!Kinds, NEW p \in Places, NEW asked \in BOOLEAN,
             Checker!SetFindingDisposition(s, kind, p, asked)
      PROVE  CheckInv'
  BY <1>5, CheckDisposeInv
<1>6. CASE Checker!Stop
  BY <1>6 DEF Checker!Stop, CheckInv, Checker!TypeOK, EarnedRun
<1>7. QED
  BY <1>1, <1>2, <1>3, <1>4, <1>5, <1>6 DEF Checker!Next

-----------------------------------------------------------------------------
(***************************************************************************)
(* Imports.                                                                *)
(***************************************************************************)
\* All the innermost directories around the candidate are the user's to write.
InnermostIsOurs ==
  \E depth \in Depths :
    /\ \A r \in roots : r[1] <= depth
    /\ \E r \in roots : r[1] = depth
    /\ \A r \in roots : r[1] = depth => r[2] \in {"agent", "project"}

\* A call that takes the candidate over has come no further than its copy allows.
CallKeeps(call) ==
  /\ call.at <= Len(Importer!Steps(call.decision))
  /\ call.copy = "intact" => "intact" \in import_copies
  /\ call.decision = "take_over_after_verify" =>
       InnermostIsOurs /\ (call.at > 2 => call.copy = "intact")

ImportInv ==
  /\ Importer!TypeOK
  /\ import_plan # None /\ "take_over_after_verify" \in import_plan => InnermostIsOurs
  /\ \A c \in Users : import_calls[c] # None => CallKeeps(import_calls[c])
  /\ ~original => "intact" \in import_copies /\ InnermostIsOurs

RankOf(r) == 7 * r[1] + Importer!Rank(r[2])

\* Ranks of roots are naturals.
LEMMA RanksAreNatural ==
  ASSUME NEW kind \in Importer!RootKinds
  PROVE  Importer!Rank(kind) \in 3 .. 6
  BY DEF Importer!RootKinds, Importer!Rank

\* There is a longest path.
LEMMA DepthsHaveAMaximum == \E m \in Nat : \A d \in Depths : d <= m
<1>1. CASE Depths = {}
  BY <1>1
<1>2. CASE Depths # {}
  BY <1>2, DepthsAreBounded, FiniteHasMaximum
<1>3. QED
  BY <1>1, <1>2

\* There is an innermost and strictest match, since paths are bounded.
LEMMA NearestExists ==
  ASSUME ImportInv, roots # {}
  PROVE  \E r \in roots : \A q \in roots : Importer!Nearer(r, q)
<1>1. PICK m \in Nat : \A d \in Depths : d <= m
  BY DepthsHaveAMaximum
<1>2. ASSUME NEW r \in roots
      PROVE  /\ r[1] \in Nat /\ r[1] <= m /\ Importer!Rank(r[2]) \in 3 .. 6
             /\ RankOf(r) \in Nat /\ RankOf(r) <= 7 * m + 6
  <2>1. r[1] \in Nat /\ r[1] <= m /\ Importer!Rank(r[2]) \in 3 .. 6
    BY <1>1, RanksAreNatural, DepthsAreBounded DEF ImportInv, Importer!TypeOK
  <2>2. QED
    BY <2>1 DEF RankOf
<1> DEFINE ranks == {RankOf(r) : r \in roots}
<1>3. ranks \subseteq Nat /\ ranks # {} /\ \A t \in ranks : t <= 7 * m + 6
  BY <1>2
<1>4. PICK t \in ranks : \A u \in ranks : u <= t
  <2>1. 7 * m + 6 \in Nat
    OBVIOUS
  <2> HIDE DEF ranks
  <2>2. QED
    BY <1>3, <2>1, HasMaximum
<1>5. PICK r \in roots : t = RankOf(r)
  OBVIOUS
<1>6. ASSUME NEW q \in roots PROVE Importer!Nearer(r, q)
  <2>1. RankOf(q) <= RankOf(r)
    BY <1>4, <1>5
  <2>2. QED
    BY <2>1, <1>2 DEF RankOf, Importer!Nearer
<1>7. QED
  BY <1>6

\* Only what an agent or a project of the user owns can be taken over.
LEMMA TakeoverIsOurs ==
  ASSUME ImportInv, Importer!SupportsTakeover(Importer!Classified)
  PROVE  InnermostIsOurs
<1>1. ~remote /\ roots # {}
  BY DEF Importer!SupportsTakeover, Importer!Classified
<1>2. PICK r \in roots :
        /\ \A q \in roots : Importer!Nearer(r, q)
        /\ Importer!Classified = Importer!Ownership(r[2])
  <2> DEFINE chosen == CHOOSE r \in roots : \A q \in roots : Importer!Nearer(r, q)
  <2>1. chosen \in roots /\ \A q \in roots : Importer!Nearer(chosen, q)
    BY <1>1, NearestExists
  <2>2. Importer!Classified = Importer!Ownership(chosen[2])
    BY <1>1 DEF Importer!Classified
  <2> HIDE DEF chosen
  <2>3. QED
    BY <2>1, <2>2
<1>3. \A q \in roots : q[1] \in Depths /\ q[1] \in Nat /\ q[2] \in Importer!RootKinds
  BY DepthsAreBounded DEF ImportInv, Importer!TypeOK
<1>4. r[2] \in {"agent", "project"}
  BY <1>2, <1>3 DEF Importer!SupportsTakeover, Importer!Ownership, Importer!RootKinds
<1>5. ASSUME NEW q \in roots, q[1] = r[1] PROVE q[2] \in {"agent", "project"}
  BY <1>2, <1>3, <1>4, <1>5 DEF Importer!Nearer, Importer!Rank, Importer!RootKinds
<1>6. \A q \in roots : q[1] <= r[1]
  BY <1>2, <1>3 DEF Importer!Nearer
<1>7. QED
  BY <1>3, <1>5, <1>6 DEF InnermostIsOurs

\* A skill of the library with evidence has a strongest piece of evidence.
LEMMA BasisIsEvidence ==
  ASSUME NEW e
  PROVE  Importer!Basis(e) \in 0 .. 4
<1> DEFINE found == {n \in DOMAIN Importer!Evidence : Importer!Evidence[n] \in records[e]}
<1>1. found \subseteq 1 .. 4
  BY DEF Importer!Evidence
<1>2. CASE found # {}
  <2>1. PICK m \in found : \A j \in found : m <= j
    <3> HIDE DEF found
    <3> QED
      BY <1>1, <1>2, HasMinimum
  <2>2. (CHOOSE i \in found : \A j \in found : i <= j) \in found
    BY <2>1
  <2>3. QED
    BY <1>1, <1>2, <2>2 DEF Importer!Basis
<1>3. CASE found = {}
  BY <1>3 DEF Importer!Basis
<1>4. QED
  BY <1>2, <1>3

\* The root that decides is one around the candidate.
LEMMA PrimaryIsAMatch ==
  ASSUME Importer!Matches # {}
  PROVE  Importer!Primary \in Importer!Matches
<1> DEFINE bases == {Importer!Basis(e) : e \in Importer!Matches}
<1>1. bases \subseteq Nat /\ bases # {}
  BY BasisIsEvidence
<1>2. PICK b \in bases : \A c \in bases : b <= c
  <2> HIDE DEF bases
  <2> QED
    BY <1>1, HasMinimum
<1> DEFINE best == {e \in Importer!Matches : Importer!Basis(e) = b}
<1>3. best \subseteq Nat /\ best # {}
  BY DepthsAreBounded DEF Importer!Matches
<1>4. PICK e \in best : \A o \in best : e <= o
  <2> HIDE DEF best
  <2> QED
    BY <1>3, HasMinimum
<1>5. ASSUME NEW o \in Importer!Matches
      PROVE  \/ Importer!Basis(e) < Importer!Basis(o)
             \/ Importer!Basis(e) = Importer!Basis(o) /\ e <= o
  BY <1>1, <1>2, <1>4
<1>6. QED
  BY <1>4, <1>5 DEF Importer!Primary

\* The decisions that a plan allows are decisions.
LEMMA ActionsAreDecisions ==
  ASSUME ImportInv
  PROVE  /\ Importer!Actions(Importer!Classified) \subseteq Importer!Decisions
         /\ "take_over_after_verify" \in Importer!Actions(Importer!Classified) => InnermostIsOurs
<1> DEFINE takeover == IF Importer!SupportsTakeover(Importer!Classified)
                       THEN {"take_over_after_verify"} ELSE {}
           basis == IF Importer!Matches = {} THEN "none"
                    ELSE Importer!Evidence[Importer!Basis(Importer!Primary)]
<1>1. basis \in {"none", "hash", "name", "source", "terms"}
  <2>1. CASE Importer!Matches # {}
    <3>1. Importer!Basis(Importer!Primary) \in 1 .. 4
      BY <2>1, PrimaryIsAMatch, BasisIsEvidence DEF Importer!Matches
    <3>2. QED
      BY <2>1, <3>1 DEF Importer!Evidence
  <2>2. QED
    BY <2>1
<1>2. takeover \subseteq {"take_over_after_verify"} /\ (takeover # {} => InnermostIsOurs)
  BY TakeoverIsOurs
<1>3. \/ Importer!Actions(Importer!Classified) \subseteq
           Importer!Decisions \ {"take_over_after_verify"}
      \/ Importer!Actions(Importer!Classified) \subseteq
           (Importer!Decisions \ {"take_over_after_verify"}) \union takeover
  <2> HIDE DEF takeover
  <2>1. QED
    BY <1>1 DEF Importer!Actions, Importer!Decisions, takeover
<1>4. QED
  BY <1>2, <1>3 DEF Importer!Decisions

\* The invariant of the imports holds at the start.
LEMMA ImportInitInv == Importer!Init => ImportInv
  BY DEF Importer!Init, ImportInv, Importer!TypeOK

\* A call goes on: what it had reached, it still has.
LEMMA ImportCallInv ==
  ASSUME ImportInv, NEW c \in Users, NEW call \in Importer!Calls \union {None},
         import_calls' = [import_calls EXCEPT ![c] = call],
         (call # None => CallKeeps(call))', import_copies \subseteq import_copies',
         import_copies' \subseteq {"intact", "damaged"},
         UNCHANGED <<roots, remote, records>>,
         import_plan' \in {import_plan, None}, original' \in BOOLEAN,
         ~original' => "intact" \in import_copies' /\ InnermostIsOurs
  PROVE  ImportInv'
<1>1. Importer!TypeOK'
  BY DEF ImportInv, Importer!TypeOK
<1>2. ASSUME NEW d \in Users, import_calls'[d] # None PROVE CallKeeps(import_calls[d])'
  <2>1. CASE d = c
    BY <2>1, <1>2 DEF ImportInv, Importer!TypeOK
  <2>2. CASE d # c
    <3>1. import_calls'[d] = import_calls[d]
      BY <2>2 DEF ImportInv, Importer!TypeOK
    <3>2. QED
      BY <3>1, <1>2 DEF ImportInv, CallKeeps, InnermostIsOurs
  <2>3. QED
    BY <2>1, <2>2
<1>3. QED
  BY <1>1, <1>2 DEF ImportInv, InnermostIsOurs

\* The steps that a decision takes.
LEMMA StepsOfADecision ==
  ASSUME NEW d \in Importer!Decisions
  PROVE  /\ Len(Importer!Steps(d)) \in 1 .. 4
         /\ Importer!Steps(d)[Len(Importer!Steps(d))] = "close"
         /\ \A i \in 1 .. Len(Importer!Steps(d)) :
              Importer!Steps(d)[i] # "close" => i < Len(Importer!Steps(d))
         /\ d = "take_over_after_verify" =>
              Importer!Steps(d) = <<"copy", "verify", "remove", "close">>
         /\ \A i \in 1 .. Len(Importer!Steps(d)) :
              Importer!Steps(d)[i] = "remove" => d = "take_over_after_verify"
  BY DEF Importer!Decisions, Importer!Steps

\* A step that is not the last leads to another one.
LEMMA CallGoesOn ==
  ASSUME ImportInv, NEW c \in Users, NEW step \in {"copy", "verify", "relate", "remove"},
         Importer!At(c, step)
  PROVE  /\ import_calls[c] \in Importer!Calls /\ CallKeeps(import_calls[c])
         /\ import_calls[c].at < Len(Importer!Steps(import_calls[c].decision))
         /\ import_calls[c].at < 4
         /\ import_calls[c].decision = "take_over_after_verify" =>
              step = <<"copy", "verify", "remove", "close">>[import_calls[c].at]
         /\ step = "remove" => import_calls[c].decision = "take_over_after_verify"
<1>1. import_calls[c] \in Importer!Calls /\ CallKeeps(import_calls[c])
  BY DEF ImportInv, Importer!TypeOK, Importer!At
<1> DEFINE call == import_calls[c]
<1>2. /\ call.decision \in Importer!Decisions /\ call.at \in 1 .. 4
      /\ call.at <= Len(Importer!Steps(call.decision))
      /\ Importer!Steps(call.decision)[call.at] = step
  BY <1>1 DEF Importer!Calls, CallKeeps, Importer!At
<1> HIDE DEF call
<1>3. call.at \in 1 .. Len(Importer!Steps(call.decision))
  BY <1>2, StepsOfADecision
<1>4. QED
  BY <1>1, <1>2, <1>3, StepsOfADecision DEF call

\* Every step of an import keeps the invariant.
LEMMA ImportStepInv == ImportInv /\ [Importer!Next]_imports => ImportInv'
<1> SUFFICES ASSUME ImportInv, [Importer!Next]_imports PROVE ImportInv'
  OBVIOUS
<1>1. CASE UNCHANGED imports
  BY <1>1 DEF imports, ImportInv, Importer!TypeOK, CallKeeps, InnermostIsOurs
<1>2. CASE Importer!Prepare \/ Importer!Cancel
  <2>1. /\ import_plan' = None \/ (import_plan' \subseteq Importer!Decisions
             /\ ("take_over_after_verify" \in import_plan' => InnermostIsOurs))
        /\ UNCHANGED <<roots, remote, records, import_calls, original, import_copies>>
    BY <1>2, ActionsAreDecisions DEF Importer!Prepare, Importer!Cancel
  <2>2. QED
    BY <2>1 DEF ImportInv, Importer!TypeOK, CallKeeps, InnermostIsOurs
<1>3. ASSUME NEW c \in Users, NEW decision \in import_plan, import_plan # None,
             Importer!Commit(c, decision)
      PROVE  ImportInv'
  <2> DEFINE call == [decision |-> decision, at |-> 1, copy |-> None]
  <2>1. /\ decision \in Importer!Decisions
        /\ decision = "take_over_after_verify" => InnermostIsOurs
    BY <1>3 DEF ImportInv, Importer!TypeOK
  <2>2. 1 <= Len(Importer!Steps(decision))
    BY <2>1, StepsOfADecision
  <2>3. call \in Importer!Calls
    BY <2>1 DEF Importer!Calls
  <2>4. /\ import_calls' = [import_calls EXCEPT ![c] = call]
        /\ UNCHANGED <<roots, remote, records, import_plan, original, import_copies>>
    BY <1>3 DEF Importer!Commit
  <2>5. CallKeeps(call)'
    BY <2>1, <2>2, <2>4, NoneIsNoAnswer DEF CallKeeps, InnermostIsOurs
  <2> HIDE DEF call
  <2>6. QED
    BY <2>3, <2>4, <2>5, ImportCallInv DEF ImportInv, Importer!TypeOK
<1>4. ASSUME NEW c \in Users, Importer!Fails(c) \/ Importer!Close(c) PROVE ImportInv'
  <2>1. /\ import_calls' = [import_calls EXCEPT ![c] = None]
        /\ UNCHANGED <<roots, remote, records, original, import_copies>>
        /\ import_plan' \in {import_plan, None}
    BY <1>4 DEF Importer!Fails, Importer!Close
  <2>2. QED
    BY <2>1, ImportCallInv DEF ImportInv, Importer!TypeOK
<1>5. ASSUME NEW c \in Users, Importer!Copy(c) PROVE ImportInv'
  <2>1. PICK kind \in {"intact", "damaged"} :
          /\ import_copies' = import_copies \union {kind}
          /\ import_calls' = [import_calls EXCEPT ![c].at = @ + 1, ![c].copy = kind]
          /\ UNCHANGED <<roots, remote, records, import_plan, original>>
    BY <1>5 DEF Importer!Copy
  <2> PICK call : call = [import_calls[c] EXCEPT !.at = @ + 1, !.copy = kind]
    OBVIOUS
  <2>2. /\ import_calls[c] \in Importer!Calls /\ CallKeeps(import_calls[c])
        /\ import_calls[c].at < Len(Importer!Steps(import_calls[c].decision))
        /\ import_calls[c].at < 4
        /\ import_calls[c].decision = "take_over_after_verify" => import_calls[c].at = 1
    <3>1. Importer!At(c, "copy")
      BY <1>5 DEF Importer!Copy
    <3>2. /\ import_calls[c] \in Importer!Calls /\ CallKeeps(import_calls[c])
          /\ import_calls[c].at < Len(Importer!Steps(import_calls[c].decision))
          /\ import_calls[c].at < 4
      BY <3>1, CallGoesOn
    <3>3. ASSUME import_calls[c].decision = "take_over_after_verify" PROVE import_calls[c].at = 1
      <4>1. <<"copy", "verify", "remove", "close">>[import_calls[c].at] = "copy"
        BY <3>1, <3>3, CallGoesOn
      <4>2. import_calls[c].at \in 1 .. 4
        BY <3>2 DEF Importer!Calls
      <4>3. QED
        BY <4>1, <4>2
    <3>4. QED
      BY <3>2, <3>3
  <2>3. call \in Importer!Calls
    <3>1. call = [decision |-> import_calls[c].decision, at |-> import_calls[c].at + 1,
                  copy |-> kind]
      BY <2>2 DEF Importer!Calls
    <3>2. import_calls[c].decision \in Importer!Decisions /\ import_calls[c].at + 1 \in 1 .. 4
      BY <2>2 DEF Importer!Calls
    <3>3. QED
      BY <3>1, <3>2 DEF Importer!Calls
  <2>4. /\ call.at = import_calls[c].at + 1 /\ call.copy = kind
        /\ call.decision = import_calls[c].decision /\ call.at \in Nat
    BY <2>2 DEF Importer!Calls
  <2>5. import_calls' = [import_calls EXCEPT ![c] = call]
    BY <2>1, <2>2 DEF ImportInv, Importer!TypeOK
  <2>6. CallKeeps(call)'
    BY <2>1, <2>2, <2>4 DEF CallKeeps, InnermostIsOurs, Importer!Calls
  <2>7. QED
    BY <2>1, <2>3, <2>5, <2>6, ImportCallInv DEF ImportInv, Importer!TypeOK
<1>6. ASSUME NEW c \in Users, Importer!Verify(c) \/ Importer!Relate(c) \/ Importer!RemoveOriginal(c)
      PROVE  ImportInv'
  <2>1. /\ import_calls' = [import_calls EXCEPT ![c].at = @ + 1]
        /\ UNCHANGED <<roots, remote, records, import_plan, import_copies>>
    BY <1>6 DEF Importer!Verify, Importer!Relate, Importer!RemoveOriginal
  <2> PICK call : call = [import_calls[c] EXCEPT !.at = @ + 1]
    OBVIOUS
  <2>2. /\ import_calls[c] \in Importer!Calls /\ CallKeeps(import_calls[c])
        /\ import_calls[c].at < Len(Importer!Steps(import_calls[c].decision))
        /\ import_calls[c].at < 4
    BY <1>6, CallGoesOn DEF Importer!Verify, Importer!Relate, Importer!RemoveOriginal
  <2>3. import_calls[c].decision = "take_over_after_verify" => import_calls[c].copy = "intact"
    <3>1. CASE Importer!Verify(c)
      BY <3>1 DEF Importer!Verify
    <3>2. CASE Importer!Relate(c)
      <4>1. import_calls[c].decision # "take_over_after_verify"
        BY <3>2, <2>2, CallGoesOn DEF Importer!Relate, Importer!Calls
      <4>2. QED
        BY <4>1
    <3>3. CASE Importer!RemoveOriginal(c)
      <4>1. import_calls[c].decision = "take_over_after_verify" => import_calls[c].at > 2
        BY <3>3, <2>2, CallGoesOn DEF Importer!RemoveOriginal, Importer!Calls
      <4>2. QED
        BY <4>1, <2>2 DEF CallKeeps
    <3>4. QED
      BY <1>6, <3>1, <3>2, <3>3
  <2>4. original' \in BOOLEAN /\ (~original' => "intact" \in import_copies' /\ InnermostIsOurs)
    <3>1. CASE Importer!RemoveOriginal(c)
      <4>1. import_calls[c].decision = "take_over_after_verify"
        BY <3>1, CallGoesOn DEF Importer!RemoveOriginal
      <4>2. QED
        BY <3>1, <4>1, <2>1, <2>2, <2>3 DEF Importer!RemoveOriginal, CallKeeps
    <3>2. CASE original' = original
      BY <3>2, <2>1 DEF ImportInv, Importer!TypeOK
    <3>3. QED
      BY <1>6, <3>1, <3>2 DEF Importer!Verify, Importer!Relate
  <2>5. call \in Importer!Calls
    BY <2>2 DEF Importer!Calls
  <2>6. /\ call.at = import_calls[c].at + 1 /\ call.copy = import_calls[c].copy
        /\ call.decision = import_calls[c].decision /\ call.at \in Nat
    BY <2>2 DEF Importer!Calls
  <2>7. import_calls' = [import_calls EXCEPT ![c] = call]
    BY <2>1, <2>2 DEF ImportInv, Importer!TypeOK
  <2>8. CallKeeps(call)'
    BY <2>1, <2>2, <2>3, <2>6 DEF CallKeeps, InnermostIsOurs, Importer!Calls
  <2>9. QED
    BY <2>1, <2>4, <2>5, <2>7, <2>8, ImportCallInv DEF ImportInv, Importer!TypeOK
<1>7. QED
  BY <1>1, <1>2, <1>3, <1>4, <1>5, <1>6 DEF Importer!Next

\* The invariant says of what was removed that it was ours and is kept.
LEMMA ImportInvIsKept == ImportInv => Importer!TakenOverIsOursAndKept
  BY DEF ImportInv, InnermostIsOurs, Importer!TakenOverIsOursAndKept

-----------------------------------------------------------------------------
(***************************************************************************)
(* Backup, retention and restore.                                          *)
(***************************************************************************)
HoldsKept(tree) ==
  tree \in BackupFiles!Trees /\ \A h \in kept : tree.files[h[1]] = h[2]

\* Of the tree that was there before: when there was none, nothing is to be kept.
HeldKept(tree) == IF tree = None THEN kept = {} ELSE HoldsKept(tree)

\* Where a restore has come to, and which trees have everything it was not told to replace.
RestoreKeeps ==
  /\ restore.step = "none" => restore.stage = None /\ restore.previous = None
  /\ restore.step = "staged" =>
       HeldKept(library) /\ HoldsKept(restore.stage) /\ restore.previous = None
  /\ restore.step = "moved" =>
       library = None /\ HoldsKept(restore.stage) /\ HeldKept(restore.previous)
  /\ restore.step = "switched" =>
       HoldsKept(library) /\ restore.previous \in BackupFiles!Trees \union {None}

MarksSensitive(package) ==
  \A s \in Skills : package.files[s] \in Sensitive => package.marked

\* A manifest was made of files that were marked; before it is written nothing touches them.
ManifestsAreMarked ==
  /\ \A p \in Backups : packages[p] # None /\ packages[p].manifest # None =>
       \A s \in Skills : packages[p].manifest[s] \in Sensitive => packages[p].marked
  /\ making # 0 => packages[making] # None /\ MarksSensitive(packages[making]) /\ doomed = {}

\* Retention spares a package that is newer than all it removes.
SomeNewerOneIsValid ==
  doomed # {} => \E q \in Backups \ doomed : BackupFiles!Valid(q) /\ \A p \in doomed : q > p

BackupInv ==
  /\ BackupFiles!TypeOK
  /\ RestoreKeeps /\ BackupFiles!UndecidedContentSurvives
  /\ ManifestsAreMarked /\ SomeNewerOneIsValid
  /\ \A p \in doomed : packages[p] # None

\* Packages have numbers.
LEMMA BackupNumbers ==
  /\ 0 \notin Backups
  /\ \A p \in Backups : p \in Nat
  BY BackupsAreNumbered

\* A tree with no files is a tree, and so are a new library and one with an index.
LEMMA EmptyTreeIsATree ==
  /\ BackupFiles!NoFiles \in BackupFiles!Trees
  /\ BackupFiles!EmptyTree \in BackupFiles!Trees
  /\ [BackupFiles!EmptyTree EXCEPT !.files["index"] = "edited"] \in BackupFiles!Trees
<1>1. BackupFiles!NoFiles \in BackupFiles!Trees
  BY DEF BackupFiles!NoFiles, BackupFiles!Trees
<1>2. ASSUME NEW t \in BackupFiles!Trees, NEW f \in BackupFiles!Files, NEW x \in BackupFiles!Texts
      PROVE  [t EXCEPT !.files[f] = x] \in BackupFiles!Trees
  <2>1. [t.files EXCEPT ![f] = x] \in [BackupFiles!Files -> BackupFiles!Texts \union {None}]
    BY DEF BackupFiles!Trees
  <2>2. QED
    BY <2>1 DEF BackupFiles!Trees
<1>3. /\ "store" \in BackupFiles!Files /\ "index" \in BackupFiles!Files
      /\ "empty" \in BackupFiles!Texts /\ "edited" \in BackupFiles!Texts
  BY DEF BackupFiles!Files, BackupFiles!Texts
<1>4. BackupFiles!EmptyTree \in BackupFiles!Trees
  BY <1>1, <1>2, <1>3 DEF BackupFiles!EmptyTree
<1>5. QED
  BY <1>1, <1>2, <1>3, <1>4

\* A tree is not None.
LEMMA TreesAreNotNone == \A t \in BackupFiles!Trees : t # None
  BY BackupsAreNumbered

\* No packages are no packages to count.
LEMMA NoPackagesAreNone == BackupFiles!Cardinality({}) = 0
  BY FS_EmptySet DEF BackupFiles!Cardinality, Cardinality

\* The newest of the valid packages is spared.
LEMMA RetentionSparesTheNewest ==
  ASSUME NEW max \in {0, 1}, NEW p \in BackupFiles!Doomed(max)
  PROVE  \E q \in Backups \ BackupFiles!Doomed(max) :
           BackupFiles!Valid(q) /\ \A o \in BackupFiles!Doomed(max) : q > o
<1> DEFINE valid == {q \in Backups : BackupFiles!Valid(q)}
           newer(o) == {q \in Backups : BackupFiles!Valid(q) /\ q > o}
<1>1. valid \subseteq Nat /\ p \in valid /\ valid \subseteq Backups
  BY BackupsAreNumbered DEF BackupFiles!Doomed
<1>2. PICK q \in valid : \A o \in valid : o <= q
  <2> HIDE DEF valid
  <2>1. IsFiniteSet(valid)
    BY <1>1, FS_Subset, BackupsAreNumbered
  <2>2. QED
    BY <1>1, <2>1, FiniteHasMaximum
<1>3. newer(q) = {}
  BY <1>1, <1>2
<1>4. BackupFiles!Cardinality(newer(q)) = 0
  BY <1>3, NoPackagesAreNone
<1>5. ASSUME NEW o \in BackupFiles!Doomed(max)
      PROVE  o \in valid /\ BackupFiles!Cardinality(newer(o)) >= 1
  <2>1. (IF max = 0 THEN 1 ELSE max) = 1
    OBVIOUS
  <2>2. o \in valid
    BY DEF BackupFiles!Doomed
  <2>3. o \in {b \in Backups : BackupFiles!Valid(b)
                  /\ BackupFiles!Cardinality(newer(b)) >= (IF max = 0 THEN 1 ELSE max)}
    BY Zenon DEF BackupFiles!Doomed
  <2> HIDE DEF newer
  <2>4. QED
    BY <2>1, <2>2, <2>3
<1> HIDE DEF newer
<1>6. \A o \in BackupFiles!Doomed(max) : o \in valid /\ o # q
  BY <1>4, <1>5
<1>7. QED
  BY <1>1, <1>2, <1>6

\* The invariant of the backups holds at the start.
LEMMA BackupInitInv == BackupFiles!Init => BackupInv
<1> SUFFICES ASSUME BackupFiles!Init PROVE BackupInv
  OBVIOUS
<1> USE DEF BackupFiles!Init, BackupFiles!NoRestore
<1>1. BackupFiles!TypeOK
  BY EmptyTreeIsATree DEF BackupFiles!TypeOK, BackupFiles!Restore
<1>2. RestoreKeeps /\ BackupFiles!UndecidedContentSurvives
  BY DEF RestoreKeeps, BackupFiles!UndecidedContentSurvives
<1>3. ManifestsAreMarked /\ SomeNewerOneIsValid
  BY DEF ManifestsAreMarked, SomeNewerOneIsValid
<1>4. QED
  BY <1>1, <1>2, <1>3 DEF BackupInv

\* While packages are written, checked or removed the library stands, and the other way round.
LEMMA LibraryFrame ==
  ASSUME BackupInv, UNCHANGED <<library, restore, aside, kept>>
  PROVE  RestoreKeeps' /\ BackupFiles!UndecidedContentSurvives'
  BY DEF BackupInv, RestoreKeeps, HeldKept, HoldsKept, BackupFiles!UndecidedContentSurvives

\* While packages and doomed ones are left alone, so is what holds of them.
LEMMA PackagesFrame ==
  ASSUME BackupInv, UNCHANGED <<packages, making, doomed>>
  PROVE  ManifestsAreMarked' /\ SomeNewerOneIsValid' /\ \A p \in doomed' : packages'[p] # None
  BY DEF BackupInv, ManifestsAreMarked, MarksSensitive, SomeNewerOneIsValid, BackupFiles!Valid,
         BackupFiles!Exists

\* A package begins with no manifest.
LEMMA CreateBackupInv ==
  ASSUME BackupInv, NEW content \in BackupFiles!Packed,
         NEW decision \in [Skills -> BackupFiles!SensitiveDecisions],
         BackupFiles!CreateBackup(content, decision)
  PROVE  BackupInv'
<1> DEFINE chosen == BackupFiles!Included(content, decision)
           files == [s \in Skills |-> IF s \in chosen THEN content[s] ELSE None]
           marked == \E s \in chosen : content[s] \in Sensitive
           new == [files |-> files, manifest |-> None, marked |-> marked]
<1>1. PICK p \in Backups :
        /\ making' \in {0, p} /\ packages' = [packages EXCEPT ![p] = new]
        /\ UNCHANGED <<doomed, library, restore, aside, kept>>
        /\ doomed = {} /\ making = 0
  BY DEF BackupFiles!CreateBackup, BackupFiles!Quiet
<1>2. files \in BackupFiles!Packed /\ marked \in BOOLEAN
  BY DEF BackupFiles!Packed
<1>3. new \in BackupFiles!Package /\ new # None /\ new.manifest = None
      /\ new.files = files /\ new.marked = marked
  <2> HIDE DEF files, marked
  <2>1. new \in BackupFiles!Package
    BY <1>2 DEF BackupFiles!Package
  <2>2. QED
    BY <2>1, BackupsAreNumbered
<1>4. MarksSensitive(new)
  BY BackupsAreNumbered DEF MarksSensitive, BackupFiles!Texts
<1> HIDE DEF new
<1>5. BackupFiles!TypeOK'
  BY <1>1, <1>3 DEF BackupInv, BackupFiles!TypeOK
<1>6. ManifestsAreMarked'
  BY <1>1, <1>3, <1>4 DEF BackupInv, BackupFiles!TypeOK, ManifestsAreMarked, MarksSensitive
<1>7. SomeNewerOneIsValid'
  BY <1>1 DEF SomeNewerOneIsValid
<1>8. QED
  BY <1>1, <1>5, <1>6, <1>7, LibraryFrame DEF BackupInv

\* A package that is made gets its manifest last.
LEMMA BackupMakingInv ==
  ASSUME BackupInv, BackupFiles!BackupFails \/ BackupFiles!WriteManifest
  PROVE  BackupInv'
<1>1. /\ making \in Backups /\ making' = 0 /\ doomed = {} /\ doomed' = {}
      /\ packages[making] \in BackupFiles!Package /\ MarksSensitive(packages[making])
      /\ UNCHANGED <<library, restore, aside, kept>>
  BY DEF BackupFiles!BackupFails, BackupFiles!WriteManifest, BackupInv, ManifestsAreMarked,
         BackupFiles!TypeOK
<1> DEFINE new == [packages[making] EXCEPT !.manifest = packages[making].files]
<1>2. /\ new \in BackupFiles!Package /\ new.manifest = packages[making].files
      /\ new.marked = packages[making].marked
  BY <1>1 DEF BackupFiles!Package
<1>3. packages' = packages \/ packages' = [packages EXCEPT ![making] = new]
  BY <1>1 DEF BackupFiles!BackupFails, BackupFiles!WriteManifest, BackupInv, BackupFiles!TypeOK
<1> HIDE DEF new
<1>4. BackupFiles!TypeOK'
  BY <1>1, <1>2, <1>3 DEF BackupInv, BackupFiles!TypeOK
<1>5. ManifestsAreMarked'
  BY <1>1, <1>2, <1>3 DEF BackupInv, BackupFiles!TypeOK, ManifestsAreMarked, MarksSensitive
<1>6. SomeNewerOneIsValid'
  BY <1>1 DEF SomeNewerOneIsValid
<1>7. QED
  BY <1>1, <1>4, <1>5, <1>6, LibraryFrame DEF BackupInv

\* Retention dooms only packages that have a newer valid one.
LEMMA ApplyRetentionInv ==
  ASSUME BackupInv, NEW max \in {0, 1}, BackupFiles!ApplyRetention(max)
  PROVE  BackupInv'
<1>1. /\ doomed' = BackupFiles!Doomed(max) /\ making = 0
      /\ UNCHANGED <<packages, making, library, restore, aside, kept>>
  BY DEF BackupFiles!ApplyRetention, BackupFiles!Quiet
<1>2. \A p \in doomed' : p \in Backups /\ packages[p] # None
  BY <1>1 DEF BackupFiles!Doomed, BackupFiles!Valid, BackupFiles!Exists
<1>3. SomeNewerOneIsValid'
  BY <1>1, RetentionSparesTheNewest DEF SomeNewerOneIsValid, BackupFiles!Valid,
     BackupFiles!Exists
<1>4. QED
  BY <1>1, <1>2, <1>3, LibraryFrame DEF BackupInv, BackupFiles!TypeOK, ManifestsAreMarked

\* A doomed package goes; the newest valid one does not.
LEMMA RemovePackageInv ==
  ASSUME BackupInv, BackupFiles!RemovePackage
  PROVE  BackupInv'
<1>1. PICK p \in doomed :
        /\ \A q \in doomed : q <= p
        /\ \/ packages' = [packages EXCEPT ![p] = None] /\ doomed' = doomed \ {p}
           \/ /\ packages' = [packages EXCEPT ![p].files = [s \in Skills |-> None]]
              /\ doomed' = {}
        /\ UNCHANGED <<making, library, restore, aside, kept>>
  BY DEF BackupFiles!RemovePackage
<1>2. p \in Backups /\ packages[p] \in BackupFiles!Package /\ making = 0
  BY DEF BackupInv, BackupFiles!TypeOK, ManifestsAreMarked
<1> DEFINE left == [packages[p] EXCEPT !.files = [s \in Skills |-> None]]
<1>3. /\ left \in BackupFiles!Package /\ left.manifest = packages[p].manifest
      /\ left.marked = packages[p].marked
  <2>1. [s \in Skills |-> None] \in BackupFiles!Packed
    BY DEF BackupFiles!Packed
  <2>2. QED
    BY <1>2, <2>1 DEF BackupFiles!Package
<1>4. \/ packages' = [packages EXCEPT ![p] = None]
      \/ packages' = [packages EXCEPT ![p] = left] /\ doomed' = {}
  BY <1>1, <1>2 DEF BackupInv, BackupFiles!TypeOK
<1> HIDE DEF left
<1>5. \A q \in Backups \ {p} : packages'[q] = packages[q]
  BY <1>4 DEF BackupInv, BackupFiles!TypeOK
<1>6. BackupFiles!TypeOK'
  BY <1>1, <1>2, <1>3, <1>4 DEF BackupInv, BackupFiles!TypeOK
<1>7. ManifestsAreMarked'
  BY <1>1, <1>2, <1>3, <1>4 DEF BackupInv, BackupFiles!TypeOK, ManifestsAreMarked
<1>8. SomeNewerOneIsValid'
  BY <1>1, <1>5 DEF BackupInv, SomeNewerOneIsValid, BackupFiles!Valid, BackupFiles!Exists
<1>9. \A q \in doomed' : packages'[q] # None
  BY <1>1, <1>5 DEF BackupInv, BackupFiles!TypeOK
<1>10. QED
  BY <1>1, <1>6, <1>7, <1>8, <1>9, LibraryFrame DEF BackupInv

\* A damaged package is not valid any more.
LEMMA DamageInv ==
  ASSUME BackupInv, NEW p \in Backups, NEW s \in Skills, BackupFiles!Damage(p, s)
  PROVE  BackupInv'
<1>1. PICK x \in Payloads \union {None} :
        /\ packages' = [packages EXCEPT ![p].files[s] = x]
        /\ packages[p] # None /\ making = 0 /\ doomed = {}
        /\ UNCHANGED <<making, doomed, library, restore, aside, kept>>
  BY DEF BackupFiles!Damage, BackupFiles!Quiet, BackupFiles!Exists
<1> DEFINE files == [packages[p].files EXCEPT ![s] = x]
           new == [packages[p] EXCEPT !.files = files]
<1>2. packages[p] \in BackupFiles!Package
  BY <1>1 DEF BackupInv, BackupFiles!TypeOK
<1>3. /\ new \in BackupFiles!Package /\ new.manifest = packages[p].manifest
      /\ new.marked = packages[p].marked
  BY <1>1, <1>2 DEF BackupFiles!Package, BackupFiles!Packed
<1>4. packages' = [packages EXCEPT ![p] = new]
  BY <1>1, <1>2 DEF BackupInv, BackupFiles!TypeOK, BackupFiles!Package
<1> HIDE DEF new
<1>5. BackupFiles!TypeOK'
  BY <1>1, <1>3, <1>4 DEF BackupInv, BackupFiles!TypeOK
<1>6. ManifestsAreMarked'
  BY <1>1, <1>3, <1>4 DEF BackupInv, BackupFiles!TypeOK, ManifestsAreMarked
<1>7. SomeNewerOneIsValid'
  BY <1>1 DEF SomeNewerOneIsValid
<1>8. QED
  BY <1>1, <1>5, <1>6, <1>7, LibraryFrame DEF BackupInv

\* What a restore stages has everything that it was not told to replace, and the rest of it
\* is as a valid package recorded it.
LEMMA StagedTree ==
  ASSUME BackupInv, NEW p \in Backups, NEW d \in [Skills -> BackupFiles!RestoreDecisions],
         BackupFiles!CommitRestore(p, d)
  PROVE  LET before == BackupFiles!Standing
             stage == BackupFiles!Restored(before, packages[p], d) IN
         /\ before \in BackupFiles!Trees /\ stage \in BackupFiles!Trees
         /\ kept' \subseteq BackupFiles!Held(before)
         /\ \A h \in kept' : stage.files[h[1]] = h[2]
         /\ \A s \in Skills : stage.files[s] # before.files[s] =>
              packages[p].manifest[s] # None /\ stage.files[s] = packages[p].manifest[s]
<1> DEFINE before == BackupFiles!Standing
           package == packages[p]
           taken == BackupFiles!Taken(package, d)
           copied == {s \in taken : d[s] = "keep_both"}
           files == [f \in BackupFiles!Files |->
                       IF f \in taken \ copied THEN package.files[f]
                       ELSE IF f = "index" THEN "portable" ELSE before.files[f]]
           copies_of == {<<s, package.files[s]>> : s \in copied}
           stage == BackupFiles!Restored(before, package, d)
<1>1. /\ before \in BackupFiles!Trees /\ package \in BackupFiles!Package
      /\ package.manifest \in BackupFiles!Packed
      /\ BackupFiles!Valid(p)
      /\ \A s \in Skills : package.manifest[s] # None /\ before.files[s] # None => d[s] # None
  BY EmptyTreeIsATree
  DEF BackupFiles!CommitRestore, BackupFiles!Standing, BackupInv, BackupFiles!TypeOK,
      BackupFiles!Valid, BackupFiles!Exists, BackupFiles!Package
<1>2. stage = [files |-> files, copies |-> before.copies \union copies_of]
  BY DEF BackupFiles!Restored
<1>8. kept' = {h \in BackupFiles!Held(before) : h[1] \notin BackupFiles!Replaced(package, d)}
  BY DEF BackupFiles!CommitRestore
<1> HIDE DEF before
<1>3. \A s \in taken : /\ s \in Skills /\ package.manifest[s] # None /\ d[s] # "skip"
                       /\ package.files[s] = package.manifest[s] /\ package.files[s] \in Payloads
  BY <1>1 DEF BackupFiles!Taken, BackupFiles!Valid, BackupFiles!Packed
<1>4. before.files \in [BackupFiles!Files -> BackupFiles!Texts \union {None}]
      /\ before.copies \subseteq Skills \X Payloads
  BY <1>1 DEF BackupFiles!Trees
<1>5. files \in [BackupFiles!Files -> BackupFiles!Texts \union {None}]
  BY <1>3, <1>4 DEF BackupFiles!Texts
<1>6. copies_of \subseteq Skills \X Payloads
  BY <1>3
<1>7. stage \in BackupFiles!Trees
  <2> HIDE DEF files, copies_of, stage
  <2>1. before.copies \union copies_of \in SUBSET (Skills \X Payloads)
    BY <1>4, <1>6
  <2>2. QED
    BY <1>2, <1>5, <2>1 DEF BackupFiles!Trees
<1>9. ASSUME NEW h \in kept' PROVE files[h[1]] = h[2]
  <2>1. /\ h[1] \in BackupFiles!Files /\ before.files[h[1]] = h[2] /\ h[2] # None
        /\ h[1] # "index"
        /\ ~(h[1] \in Skills /\ package.manifest[h[1]] # None /\ d[h[1]] = "overwrite")
    BY <1>8, BackupsAreNumbered DEF BackupFiles!Held, BackupFiles!Replaced
  <2>2. h[1] \notin taken \ copied
    BY <1>1, <1>3, <2>1 DEF BackupFiles!RestoreDecisions
  <2>3. QED
    BY <2>1, <2>2
<1>10. ASSUME NEW s \in Skills, s # "index", files[s] # before.files[s]
       PROVE  package.manifest[s] # None /\ files[s] = package.manifest[s]
  <2>1. s \in BackupFiles!Files
    BY DEF BackupFiles!Files
  <2>2. s \in taken \ copied /\ files[s] = package.files[s]
    BY <1>10, <2>1
  <2>3. QED
    BY <1>3, <2>2
<1>11. /\ stage.files = files
       /\ \A s \in Skills : s # "index"
       /\ kept' \subseteq BackupFiles!Held(before)
  BY <1>2, <1>8, BackupsAreNumbered
<1>12. /\ before \in BackupFiles!Trees /\ stage \in BackupFiles!Trees
       /\ kept' \subseteq BackupFiles!Held(before)
       /\ \A h \in kept' : stage.files[h[1]] = h[2]
       /\ \A s \in Skills : stage.files[s] # before.files[s] =>
            packages[p].manifest[s] # None /\ stage.files[s] = packages[p].manifest[s]
  <2> HIDE DEF files, stage
  <2>1. QED
    BY <1>1, <1>7, <1>9, <1>10, <1>11
<1>13. QED
  BY <1>12 DEF before

\* A committed restore replaces what it was told to.
LEMMA CommitRestoreInv ==
  ASSUME BackupInv, NEW p \in Backups, NEW d \in [Skills -> BackupFiles!RestoreDecisions],
         BackupFiles!CommitRestore(p, d)
  PROVE  BackupInv'
<1> DEFINE before == BackupFiles!Standing
           stage == BackupFiles!Restored(before, packages[p], d)
<1>1. /\ restore' = [step |-> "staged", stage |-> stage, previous |-> None]
      /\ UNCHANGED <<packages, making, doomed, library, aside>>
  BY DEF BackupFiles!CommitRestore
<1>2. /\ before \in BackupFiles!Trees /\ stage \in BackupFiles!Trees
      /\ kept' \subseteq BackupFiles!Held(before)
      /\ \A h \in kept' : stage.files[h[1]] = h[2]
  BY StagedTree
<1>3. library # None => before = library
  BY DEF BackupFiles!Standing
<1>4. library = None => kept' = {}
  <2>1. library = None => \A f \in BackupFiles!Files : before.files[f] = None
    BY DEF BackupFiles!Standing, BackupFiles!NoFiles
  <2> HIDE DEF before, stage
  <2>2. QED
    BY <1>2, <2>1, BackupsAreNumbered DEF BackupFiles!Held
<1> HIDE DEF stage, before
<1>5. kept' \subseteq BackupFiles!Files \X BackupFiles!Texts
  BY <1>2 DEF BackupFiles!Held
<1>6. BackupFiles!TypeOK'
  BY <1>1, <1>2, <1>5 DEF BackupInv, BackupFiles!TypeOK, BackupFiles!Restore
<1>7. HeldKept(library)'
  BY <1>1, <1>2, <1>3, <1>4 DEF HeldKept, HoldsKept, BackupFiles!Held
<1>8. RestoreKeeps' /\ BackupFiles!UndecidedContentSurvives'
  BY <1>1, <1>2, <1>7, TreesAreNotNone
     DEF RestoreKeeps, HeldKept, HoldsKept, BackupFiles!UndecidedContentSurvives
<1>9. QED
  BY <1>1, <1>6, <1>8, PackagesFrame DEF BackupInv

\* The steps of a restore that runs.
LEMMA RestoreStepInv ==
  ASSUME BackupInv,
         \/ BackupFiles!MoveAside \/ BackupFiles!Switch \/ BackupFiles!SwitchFails
         \/ BackupFiles!RemovePrevious \/ BackupFiles!Crash \/ BackupFiles!InitializeLibrary
  PROVE  BackupInv'
<1> USE DEF RestoreKeeps, HeldKept, HoldsKept, BackupFiles!NoRestore
<1>1. UNCHANGED <<packages, making, doomed>> /\ kept' = kept
  BY DEF BackupFiles!MoveAside, BackupFiles!Switch, BackupFiles!SwitchFails,
         BackupFiles!RemovePrevious, BackupFiles!Crash, BackupFiles!InitializeLibrary
<1>2. RestoreKeeps /\ BackupFiles!UndecidedContentSurvives /\ restore \in BackupFiles!Restore
      /\ library \in BackupFiles!Trees \union {None} /\ aside \subseteq BackupFiles!Trees
  BY DEF BackupInv, BackupFiles!TypeOK
<1>3. /\ library' \in BackupFiles!Trees \union {None} /\ restore' \in BackupFiles!Restore
      /\ aside' \subseteq BackupFiles!Trees /\ RestoreKeeps'
      /\ BackupFiles!UndecidedContentSurvives'
  <2>1. CASE BackupFiles!MoveAside
    <3>1. /\ library' = None /\ restore' = [restore EXCEPT !.step = "moved", !.previous = library]
          /\ aside' = aside /\ restore.step = "staged"
      BY <2>1 DEF BackupFiles!MoveAside
    <3>2. /\ restore'.step = "moved" /\ restore'.previous = library
          /\ restore'.stage = restore.stage /\ restore' \in BackupFiles!Restore
      BY <3>1, <1>2 DEF BackupFiles!Restore
    <3>3. QED
      BY <3>1, <3>2, <1>1, <1>2, TreesAreNotNone DEF BackupFiles!UndecidedContentSurvives
  <2>2. CASE BackupFiles!Switch
    <3>1. /\ library' = restore.stage
          /\ restore' = [restore EXCEPT !.step = "switched", !.stage = None]
          /\ aside' = aside /\ restore.step = "moved"
      BY <2>2 DEF BackupFiles!Switch
    <3>2. /\ restore'.step = "switched" /\ restore'.previous = restore.previous
          /\ restore' \in BackupFiles!Restore
      BY <3>1, <1>2 DEF BackupFiles!Restore
    <3>3. QED
      BY <3>1, <3>2, <1>1, <1>2, TreesAreNotNone DEF BackupFiles!UndecidedContentSurvives
  <2>3. CASE BackupFiles!SwitchFails
    <3>1. /\ restore.step = "moved"
          /\ restore' = [step |-> "none", stage |-> None, previous |-> None]
          /\ restore.previous \in BackupFiles!Trees \union {None}
      BY <2>3, <1>2 DEF BackupFiles!SwitchFails
    <3>2. restore' \in BackupFiles!Restore
      BY <3>1 DEF BackupFiles!Restore
    <3>3. restore.previous \in aside' \union {library'}
      BY <2>3 DEF BackupFiles!SwitchFails
    <3>4. /\ library' \in BackupFiles!Trees \union {None} /\ aside' \subseteq BackupFiles!Trees
      BY <2>3, <3>1, <1>2 DEF BackupFiles!SwitchFails
    <3>5. QED
      BY <3>1, <3>2, <3>3, <3>4, <1>1, <1>2, TreesAreNotNone
         DEF BackupFiles!UndecidedContentSurvives
  <2>4. CASE BackupFiles!RemovePrevious
    <3>1. /\ restore.step = "switched" /\ UNCHANGED <<library, aside>>
          /\ restore' = [step |-> "none", stage |-> None, previous |-> None]
      BY <2>4 DEF BackupFiles!RemovePrevious
    <3>2. restore' \in BackupFiles!Restore
      BY <3>1 DEF BackupFiles!Restore
    <3>3. QED
      BY <3>1, <3>2, <1>1, <1>2, TreesAreNotNone DEF BackupFiles!UndecidedContentSurvives
  <2>5. CASE BackupFiles!Crash
    <3>1. /\ UNCHANGED library
          /\ restore' = [step |-> "none", stage |-> None, previous |-> None]
          /\ aside \subseteq aside' /\ aside' \subseteq aside \union {restore.previous}
          /\ restore.previous # None => restore.previous \in aside'
          /\ restore.previous = None => aside' = aside
      BY <2>5 DEF BackupFiles!Crash
    <3>2. restore' \in BackupFiles!Restore /\ aside' \subseteq BackupFiles!Trees
      BY <3>1, <1>2 DEF BackupFiles!Restore
    <3>3. BackupFiles!UndecidedContentSurvives'
      BY <3>1, <1>1, <1>2 DEF BackupFiles!UndecidedContentSurvives
    <3>4. QED
      BY <3>1, <3>2, <3>3, <1>1, <1>2
  <2>6. CASE BackupFiles!InitializeLibrary
    <3>1. /\ library = None /\ library' = BackupFiles!EmptyTree /\ UNCHANGED <<restore, aside>>
          /\ restore.step = "none"
      BY <2>6 DEF BackupFiles!InitializeLibrary
    <3>2. BackupFiles!UndecidedContentSurvives'
      BY <3>1, <1>1, <1>2 DEF BackupFiles!UndecidedContentSurvives
    <3>3. QED
      BY <3>1, <3>2, <1>1, <1>2, EmptyTreeIsATree
  <2>7. QED
    BY <2>1, <2>2, <2>3, <2>4, <2>5, <2>6
<1>4. BackupFiles!TypeOK'
  BY <1>1, <1>3 DEF BackupInv, BackupFiles!TypeOK
<1>5. QED
  BY <1>1, <1>3, <1>4, PackagesFrame DEF BackupInv

\* The user may edit the library at any moment of a restore.
LEMMA EditInv ==
  ASSUME BackupInv, NEW f \in BackupFiles!Files, NEW x \in BackupFiles!Written(f),
         BackupFiles!Edit(f, x)
  PROVE  BackupInv'
<1>1. /\ library \in BackupFiles!Trees /\ restore.step = "none"
      /\ library' = [library EXCEPT !.files[f] = x]
      /\ kept' = {h \in kept : h[1] # f}
      /\ UNCHANGED <<packages, making, doomed, restore, aside>>
  BY DEF BackupFiles!Edit, BackupFiles!Quiet, BackupInv, BackupFiles!TypeOK
<1>0. x \in BackupFiles!Texts
  BY DEF BackupFiles!Written, BackupFiles!Texts
<1>2. /\ library' \in BackupFiles!Trees
      /\ \A g \in BackupFiles!Files \ {f} : library'.files[g] = library.files[g]
  BY <1>0, <1>1 DEF BackupFiles!Trees
<1>3. \A h \in kept' : h \in kept /\ h[1] \in BackupFiles!Files \ {f}
  BY <1>1 DEF BackupInv, BackupFiles!TypeOK
<1>4. BackupFiles!UndecidedContentSurvives'
  <2> SUFFICES ASSUME NEW h \in kept'
               PROVE  \E t \in (aside' \union {library', restore'.previous}) \ {None} :
                        t.files[h[1]] = h[2]
    BY DEF BackupFiles!UndecidedContentSurvives
  <2>1. PICK t \in (aside \union {library, restore.previous}) \ {None} : t.files[h[1]] = h[2]
    BY <1>3 DEF BackupInv, BackupFiles!UndecidedContentSurvives
  <2>2. CASE t = library
    BY <2>1, <2>2, <1>2, <1>3, TreesAreNotNone
  <2>3. CASE t # library
    BY <2>1, <2>3, <1>1
  <2>4. QED
    BY <2>2, <2>3
<1>5. RestoreKeeps'
  BY <1>1 DEF BackupInv, RestoreKeeps
<1>6. BackupFiles!TypeOK'
  BY <1>1, <1>2 DEF BackupInv, BackupFiles!TypeOK
<1>7. QED
  BY <1>1, <1>4, <1>5, <1>6, PackagesFrame DEF BackupInv

\* Every step of the backups keeps their invariant.
LEMMA BackupStepInv == BackupInv /\ [BackupFiles!Next]_backup => BackupInv'
<1> SUFFICES ASSUME BackupInv, [BackupFiles!Next]_backup PROVE BackupInv'
  OBVIOUS
<1>1. CASE UNCHANGED backup
  <2>1. BackupFiles!TypeOK'
    BY <1>1 DEF backup, BackupInv, BackupFiles!TypeOK
  <2>2. QED
    BY <1>1, <2>1, LibraryFrame, PackagesFrame DEF backup, BackupInv
<1>2. CASE BackupFiles!Next
  BY <1>2, CreateBackupInv, BackupMakingInv, ApplyRetentionInv, RemovePackageInv, DamageInv,
     CommitRestoreInv, RestoreStepInv, EditInv DEF BackupFiles!Next
<1>3. QED
  BY <1>1, <1>2

\* Only a commit stages a tree.
LEMMA RestoresRecordedContent ==
  ASSUME BackupInv, [BackupFiles!Next]_backup
  PROVE  BackupFiles!RestoresWhatWasRecorded
<1> SUFFICES ASSUME restore.step = "none", restore'.step = "staged", NEW s \in Skills,
                    restore'.stage.files[s] # BackupFiles!Standing.files[s]
             PROVE  \E p \in Backups :
                      /\ packages[p] # None /\ packages[p].manifest # None
                      /\ packages[p].manifest[s] = restore'.stage.files[s]
                      /\ packages[p].manifest[s] \in Sensitive => packages[p].marked
  BY DEF BackupFiles!RestoresWhatWasRecorded, BackupFiles!Exists
<1>1. PICK p \in Backups, d \in [Skills -> BackupFiles!RestoreDecisions] :
        BackupFiles!CommitRestore(p, d)
  BY DEF BackupFiles!Next, backup, BackupFiles!CreateBackup, BackupFiles!BackupFails,
         BackupFiles!WriteManifest, BackupFiles!RemovePackage, BackupFiles!ApplyRetention,
         BackupFiles!Damage, BackupFiles!MoveAside, BackupFiles!Switch, BackupFiles!SwitchFails,
         BackupFiles!RemovePrevious, BackupFiles!Crash, BackupFiles!InitializeLibrary,
         BackupFiles!Edit, BackupFiles!NoRestore
<1>2. /\ restore'.stage = BackupFiles!Restored(BackupFiles!Standing, packages[p], d)
      /\ packages[p] # None /\ packages[p].manifest # None
  BY <1>1 DEF BackupFiles!CommitRestore, BackupFiles!Valid, BackupFiles!Exists
<1>3. packages[p].manifest[s] = restore'.stage.files[s]
  BY <1>1, <1>2, StagedTree
<1>4. QED
  BY <1>2, <1>3 DEF BackupInv, ManifestsAreMarked

\* A package that is no longer valid was removed by retention, which spares a newer one.
LEMMA RetentionKeepsANewerOne ==
  ASSUME BackupInv, [BackupFiles!Next]_backup
  PROVE  BackupFiles!KeepsANewerOne
<1> SUFFICES ASSUME NEW p \in doomed
             PROVE  \E q \in Backups : q > p /\ BackupFiles!Valid(q)
  BY DEF BackupFiles!KeepsANewerOne
<1>1. QED
  BY DEF BackupInv, SomeNewerOneIsValid

=============================================================================
