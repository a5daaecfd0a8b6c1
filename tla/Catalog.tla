------------------------------ MODULE Catalog ------------------------------
(***************************************************************************)
(* Rows of skills and what hangs on them: the commands that edit a skill   *)
(* read it, change one part and write it whole; CallPolicyService prepares *)
(* and commits changes of the call policy and takes the first of them back *)
(* from what it keeps in memory; combinations name their members.          *)
(* The commands hold the database lock from reading to writing; commits of *)
(* the call policy take their plan before it and drop it after, restores   *)
(* take what they write back before it.                                    *)
(***************************************************************************)
EXTENDS FiniteSets

CONSTANTS
  Skills,    \* identifiers of skills
  Policies,  \* call policies
  Default,   \* the policy of a new skill, one of Policies
  Plans,     \* prepared changes of a call policy
  Commits,   \* commits in flight
  Restores,  \* restores in flight
  None

VARIABLES
  rows,       \* per skill: None, or its row
  prepared,   \* per plan: None, or the change
  commits,    \* per commit: None, or the plan that it has taken
  originals,  \* per skill: None, or the policy to go back to
  restores,   \* per restore: None, or the policy that it has taken and its skill
  baseline,   \* history: the policy of a skill when this process had not changed it
  overlapped  \* history: skills with a change between the two halves of a restore

catalog_vars == <<rows, prepared, commits, originals, restores, baseline, overlapped>>

\* Of a skill: the tag temporary_trial, whether a trial is due, its call policy, and
\* whether a combination has it as a member.
Rows == [trial : BOOLEAN, due : BOOLEAN, policy : Policies, member : BOOLEAN]

Exists(s) == rows[s] # None

Init ==
  /\ rows \in [Skills -> Rows \union {None}]
  /\ \A s \in Skills : Exists(s) => rows[s].trial = rows[s].due /\ ~rows[s].member
  /\ prepared = [p \in Plans |-> None]
  /\ commits = [c \in Commits |-> None]
  /\ originals = [s \in Skills |-> None]
  /\ restores = [r \in Restores |-> None]
  /\ baseline = [s \in Skills |-> IF Exists(s) THEN rows[s].policy ELSE None]
  /\ overlapped = {}

-----------------------------------------------------------------------------
(* Editing a row.                                                          *)

\* Skill::validate.
Valid(row) == row.trial = row.due

\* update_catalog_skill: the row is read, changed, validated and written under the lock.
\* Refused or failed, the command leaves it.
Edit(s, row) ==
  /\ Exists(s) /\ Valid(row)
  /\ rows' = [rows EXCEPT ![s] = row]
  /\ UNCHANGED <<prepared, commits, originals, restores, baseline, overlapped>>

\* set_metadata replaces the tags.
SetMetadata(s, trial) == Exists(s) /\ Edit(s, [rows[s] EXCEPT !.trial = trial])

\* set_trial_due sets or removes the tag with the date.
SetTrial(s, due) == Exists(s) /\ Edit(s, [rows[s] EXCEPT !.due = due, !.trial = due])

\* An identifier is given once.
CreateSkill(s) ==
  /\ ~Exists(s) /\ baseline[s] = None
  /\ rows' = [rows EXCEPT
       ![s] = [trial |-> FALSE, due |-> FALSE, policy |-> Default, member |-> FALSE]]
  /\ baseline' = [baseline EXCEPT ![s] = Default]
  /\ UNCHANGED <<prepared, commits, originals, restores, overlapped>>

\* remove_sync: tags, metadata and, by the foreign keys, memberships go with the skill.
\* What CallPolicyService has of it in memory stays.
RemoveSkill(s) ==
  /\ Exists(s)
  /\ rows' = [rows EXCEPT ![s] = None]
  /\ UNCHANGED <<prepared, commits, originals, restores, baseline, overlapped>>

\* CombinationRepository::create: one transaction looks up every member.
CreateCombination(members) ==
  /\ members # {} /\ \A s \in members : Exists(s)
  /\ rows' = [s \in Skills |-> IF s \in members THEN [rows[s] EXCEPT !.member = TRUE] ELSE rows[s]]
  /\ UNCHANGED <<prepared, commits, originals, restores, baseline, overlapped>>

-----------------------------------------------------------------------------
(* CallPolicyService.                                                      *)

PrepareCallPolicyChange(p, s, after) ==
  /\ prepared[p] = None /\ Exists(s)
  /\ prepared' = [prepared EXCEPT ![p] = [skill |-> s, after |-> after]]
  /\ UNCHANGED <<rows, commits, originals, restores, baseline, overlapped>>

\* commit takes a copy of the plan, which stays until the change is applied: a second
\* commit may take it too.
TakePlan(c, p) ==
  /\ commits[c] = None /\ prepared[p] # None
  /\ commits' = [commits EXCEPT ![c] = [id |-> p, skill |-> prepared[p].skill,
                                        after |-> prepared[p].after]]
  /\ UNCHANGED <<rows, prepared, originals, restores, baseline, overlapped>>

\* Fault: every change is remembered.
Remembered_Last(s) == rows[s].policy

\* originals.entry(skill_id).or_insert_with.
Remembered(s) == IF originals[s] = None THEN rows[s].policy ELSE originals[s]

\* A restore of the skill has taken what it writes back, and has not written it.
Restoring(s) == \E r \in Restores : restores[r] # None /\ restores[r].skill = s

\* apply: the original is remembered before the row is written; the write may fail, and
\* the plan stays for another commit.
ApplyPolicy(c, ok) ==
  /\ commits[c] # None /\ Exists(commits[c].skill)
  /\ LET s == commits[c].skill
     IN  /\ originals' = [originals EXCEPT ![s] = Remembered(s)]
         /\ rows' = IF ok THEN [rows EXCEPT ![s].policy = commits[c].after] ELSE rows
         /\ prepared' = IF ok THEN [prepared EXCEPT ![commits[c].id] = None] ELSE prepared
         /\ overlapped' = IF Restoring(s) THEN overlapped \union {s} ELSE overlapped
  /\ commits' = [commits EXCEPT ![c] = None]
  /\ UNCHANGED <<restores, baseline>>

\* The skill of the plan was removed.
RefusePolicy(c) ==
  /\ commits[c] # None /\ ~Exists(commits[c].skill)
  /\ commits' = [commits EXCEPT ![c] = None]
  /\ UNCHANGED <<rows, prepared, originals, restores, baseline, overlapped>>

\* restore_original takes and forgets the policy to go back to under the lock of the
\* originals, which it drops before it takes the database's.
TakeOriginal(r, s) ==
  /\ restores[r] = None /\ originals[s] # None
  /\ restores' = [restores EXCEPT ![r] = [skill |-> s, policy |-> originals[s]]]
  /\ originals' = [originals EXCEPT ![s] = None]
  /\ UNCHANGED <<rows, prepared, commits, baseline, overlapped>>

\* Then it reads the row and writes it with that policy.  When the write fails, the policy
\* stays what it is; with no other remembered, it becomes the one to go back to.
PutOriginalBack(r, ok) ==
  /\ restores[r] # None /\ Exists(restores[r].skill)
  /\ LET s == restores[r].skill
     IN  /\ rows' = IF ok THEN [rows EXCEPT ![s].policy = restores[r].policy] ELSE rows
         /\ baseline' = [baseline EXCEPT
              ![s] = IF ok \/ originals[s] # None THEN @ ELSE rows[s].policy]
  /\ restores' = [restores EXCEPT ![r] = None]
  /\ UNCHANGED <<prepared, commits, originals, overlapped>>

\* The skill was removed: there is nothing to put back.
RefuseRestore(r) ==
  /\ restores[r] # None /\ ~Exists(restores[r].skill)
  /\ restores' = [restores EXCEPT ![r] = None]
  /\ UNCHANGED <<rows, prepared, commits, originals, baseline, overlapped>>

\* The process ends, and another begins with no plan and nothing to go back to.
Restart ==
  /\ prepared' = [p \in Plans |-> None]
  /\ commits' = [c \in Commits |-> None]
  /\ originals' = [s \in Skills |-> None]
  /\ restores' = [r \in Restores |-> None]
  /\ baseline' = [s \in Skills |-> IF Exists(s) THEN rows[s].policy ELSE None]
  /\ overlapped' = {}
  /\ UNCHANGED rows

-----------------------------------------------------------------------------
Next ==
  \/ \E s \in Skills :
       \/ CreateSkill(s) \/ RemoveSkill(s)
       \/ \E b \in BOOLEAN : SetMetadata(s, b) \/ SetTrial(s, b)
  \/ \E members \in SUBSET Skills : CreateCombination(members)
  \/ \E p \in Plans, s \in Skills, after \in Policies : PrepareCallPolicyChange(p, s, after)
  \/ \E c \in Commits, p \in Plans : TakePlan(c, p)
  \/ \E c \in Commits, ok \in BOOLEAN : ApplyPolicy(c, ok)
  \/ \E c \in Commits : RefusePolicy(c)
  \/ \E r \in Restores, s \in Skills : TakeOriginal(r, s)
  \/ \E r \in Restores, ok \in BOOLEAN : PutOriginalBack(r, ok)
  \/ \E r \in Restores : RefuseRestore(r)
  \/ Restart

Spec == Init /\ [][Next]_catalog_vars

-----------------------------------------------------------------------------
(* Properties                                                              *)

Changes == [skill : Skills, after : Policies]
Takings == [skill : Skills, policy : Policies]

TypeOK ==
  /\ rows \in [Skills -> Rows \union {None}]
  /\ prepared \in [Plans -> Changes \union {None}]
  /\ commits \in [Commits -> [id : Plans, skill : Skills, after : Policies] \union {None}]
  /\ originals \in [Skills -> Policies \union {None}]
  /\ restores \in [Restores -> Takings \union {None}]
  /\ baseline \in [Skills -> Policies \union {None}]
  /\ overlapped \subseteq Skills

\* The policy that a restore of the skill would bring back is the one before the first
\* change of this process; when there is nothing to restore, it is the one in force.
GoesBackToFirst(s) ==
  IF originals[s] = None THEN rows[s].policy = baseline[s] ELSE originals[s] = baseline[s]

\* However many changes of a call policy are prepared, committed twice, refused, failed or
\* taken back by restores at the same time: a policy that this process has changed can be
\* taken back to what it was before the first change, not to one in between.  Left out are
\* skills with a change between the two halves of a restore; see RestoresGoBackToFirst.
FirstPolicyIsRemembered ==
  \A s \in Skills : Exists(s) /\ ~Restoring(s) /\ s \notin overlapped => GoesBackToFirst(s)

\* What the test supported_target_previews_change_and_restores_original says of one call
\* after another, of calls that overlap: restoring brings back the original policy.  A
\* change between the two locks of restore_original remembers an intermediate one.
RestoresGoBackToFirst == \A s \in Skills : Exists(s) /\ ~Restoring(s) => GoesBackToFirst(s)

=============================================================================
