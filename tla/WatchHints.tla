------------------------------ MODULE WatchHints ------------------------------
(***************************************************************************)
(* What a notification about the file system says, and the key under which *)
(* it waits: WatchHint, which the watcher of the adapters and WatchService *)
(* share.  A hint that comes later takes the place of the one under its    *)
(* key.  Skill directories are not nested here; a declared target is the   *)
(* skill that the watcher was told of.                                     *)
(***************************************************************************)
CONSTANTS
  Skills,  \* skill directories under the active roots
  Kinds    \* <<file, declared>>: the file is the "marker" SKILL.md or an "other" one;
           \* a declared hint carries a target id

Hints == {[skill |-> s, file |-> kind[1], declared |-> kind[2]] : s \in Skills, kind \in Kinds}

\* skill_root: a SKILL.md makes its directory known as a skill.
SkillRoot(h) == IF h.file = "marker" THEN {h.skill} ELSE {}

Keys == [skill : Skills, by : {"target", "skill", "path"}]

\* coalescing_key_with_skill_roots.
Key(h, roots) ==
  [skill |-> h.skill,
   by |-> IF h.declared THEN "target"
          ELSE IF h.skill \in SkillRoot(h) \union roots THEN "skill" ELSE "path"]

SkillsOf(hints) == {h.skill : h \in hints}

\* BTreeMap::insert.
Put(q, key, h) == [k \in DOMAIN q \union {key} |-> IF k = key THEN h ELSE q[k]]

=============================================================================
