------------------------------ MODULE Projects ------------------------------
(***************************************************************************)
(* The registered projects and saved views, two JSON lists in the settings *)
(* table of one database file, and the configuration each project shares   *)
(* through its directory.  Directories move, are replaced, and are reached *)
(* through links.  A command reads a whole list, changes it and writes it  *)
(* back in two statements without a transaction; the commands of one       *)
(* process exclude each other, those of two processes do not.              *)
(***************************************************************************)
EXTENDS Naturals

CONSTANTS
  Processes,  \* the desktop application and the command line
  Projects,   \* project ids
  Views,      \* ids of saved views
  Names,      \* names of saved views
  Paths,      \* absolute paths
  Dirs,       \* directories, as the file system identifies them
  None

VARIABLES
  place,     \* [Dirs -> Paths or None]: where each directory is
  link,      \* [Paths -> Paths]: what a path resolves to
  registry,  \* [Projects -> Project or None]: the setting `projects`
  views,     \* [Views -> Names or None]: the setting `saved_project_views`
  pending,   \* [Processes -> what the command will write]
  config     \* [Dirs -> .skillhub/project.json]

project_vars == <<place, link, registry, views, pending, config>>

\* Project: the canonical path and the identity of the directory.
Project == [path : Paths, dir : Dirs]
Registries == [Projects -> Project \union {None}]
ViewLists == [Views -> Names \union {None}]

\* One command at a time and process: what it read, changed.
Nothing == [list |-> "none", value |-> None]
Pending == {Nothing} \union [list : {"projects"}, value : Registries]
                     \union [list : {"views"}, value : ViewLists]

Init ==
  /\ place \in [Dirs -> Paths \union {None}]
  /\ \A d, e \in Dirs : d # e /\ place[d] # None => place[d] # place[e]
  /\ link = [p \in Paths |-> p]
  /\ registry = [r \in Projects |-> None]
  /\ views = [v \in Views |-> None]
  /\ pending = [s \in Processes |-> Nothing]
  /\ config = [d \in Dirs |-> None]

-----------------------------------------------------------------------------
(* The file system, outside the program                                    *)

Occupied(p) == \E d \in Dirs : place[d] = p

MoveDirectory(d, p) ==
  /\ ~Occupied(p) /\ link[p] = p
  /\ place' = [place EXCEPT ![d] = p]
  /\ UNCHANGED <<link, registry, views, pending, config>>

RemoveDirectory(d) ==
  /\ place[d] # None
  /\ place' = [place EXCEPT ![d] = None]
  /\ UNCHANGED <<link, registry, views, pending, config>>

\* A parent of p becomes a link, or is a directory again.
LinkParent(p, q) ==
  /\ ~Occupied(p) /\ link[q] = q /\ \A r \in Paths : link[r] = p => r = p
  /\ link[p] # q
  /\ link' = [link EXCEPT ![p] = q]
  /\ UNCHANGED <<place, registry, views, pending, config>>

\* normalize_project_path: an existing directory, by its canonical path and identity.
Normalized(p) == {x \in Project : x.path = link[p] /\ place[x.dir] = link[p]}

-----------------------------------------------------------------------------
(* Commands                                                                *)

Idle(s) == pending[s] = Nothing

Registered(dir) == \E r \in Projects : registry[r] # None /\ registry[r].dir = dir

RegisteredByOther(r, dir) ==
  \E q \in Projects \ {r} : registry[q] # None /\ registry[q].dir = dir

Register(s, r, p) ==
  /\ Idle(s)
  /\ registry[r] = None
  /\ \E x \in Normalized(p) :
       /\ ~Registered(x.dir)
       /\ pending' = [pending EXCEPT ![s] = [list |-> "projects",
                                             value |-> [registry EXCEPT ![r] = x]]]
  /\ UNCHANGED <<place, link, registry, views, config>>

\* Fault: an update trusts the project to keep its directory.
Update_AnyDirectory(s, r, p) ==
  /\ Idle(s)
  /\ registry[r] # None
  /\ \E x \in Normalized(p) :
       pending' = [pending EXCEPT ![s] = [list |-> "projects",
                                          value |-> [registry EXCEPT ![r] = x]]]
  /\ UNCHANGED <<place, link, registry, views, config>>

\* The path is looked up again, whatever the update was about.
Update(s, r, p) ==
  /\ Idle(s)
  /\ registry[r] # None
  /\ \E x \in Normalized(p) :
       /\ ~RegisteredByOther(r, x.dir)
       /\ pending' = [pending EXCEPT ![s] = [list |-> "projects",
                                             value |-> [registry EXCEPT ![r] = x]]]
  /\ UNCHANGED <<place, link, registry, views, config>>

SetTags(s, r) == registry[r] # None /\ Update(s, r, registry[r].path)

SaveView(s, v, n) ==
  /\ Idle(s)
  /\ \A w \in Views \ {v} : views[w] # n
  /\ pending' = [pending EXCEPT ![s] = [list |-> "views",
                                        value |-> [views EXCEPT ![v] = n]]]
  /\ UNCHANGED <<place, link, registry, views, config>>

\* write_value: the list that was read, changed, replaces whatever is there.
WriteValue(s) ==
  /\ ~Idle(s)
  /\ registry' = IF pending[s].list = "projects" THEN pending[s].value ELSE registry
  /\ views' = IF pending[s].list = "views" THEN pending[s].value ELSE views
  /\ pending' = [pending EXCEPT ![s] = Nothing]
  /\ UNCHANGED <<place, link, config>>

\* The statement fails, or the process ends before it.
WriteFails(s) ==
  /\ ~Idle(s)
  /\ pending' = [pending EXCEPT ![s] = Nothing]
  /\ UNCHANGED <<place, link, registry, views, config>>

\* Fault: whatever directory is at the path gets the file.
WriteSharedConfig_ByPath(s, r) ==
  /\ Idle(s)
  /\ registry[r] # None
  /\ \E x \in Normalized(registry[r].path) : config' = [config EXCEPT ![x.dir] = r]
  /\ UNCHANGED <<place, link, registry, views, pending>>

\* write_shared_config of a valid configuration: the path must still be canonical and
\* lead to the registered directory; the file is written in place and may be cut off.
WriteSharedConfig(s, r) ==
  /\ Idle(s)
  /\ registry[r] # None
  /\ registry[r] \in Normalized(registry[r].path)
  /\ \E file \in {r, "cut_off"} : config' = [config EXCEPT ![registry[r].dir] = file]
  /\ UNCHANGED <<place, link, registry, views, pending>>

-----------------------------------------------------------------------------
Next ==
  \/ \E d \in Dirs : RemoveDirectory(d) \/ \E p \in Paths : MoveDirectory(d, p)
  \/ \E p, q \in Paths : LinkParent(p, q)
  \/ \E s \in Processes :
       \/ \E r \in Projects :
            \/ \E p \in Paths : Register(s, r, p) \/ Update(s, r, p)
            \/ SetTags(s, r) \/ WriteSharedConfig(s, r)
       \/ \E v \in Views, n \in Names : SaveView(s, v, n)
       \/ WriteValue(s) \/ WriteFails(s)

Spec == Init /\ [][Next]_project_vars

-----------------------------------------------------------------------------
(* Properties                                                              *)

TypeOK ==
  /\ place \in [Dirs -> Paths \union {None}]
  /\ link \in [Paths -> Paths]
  /\ registry \in Registries /\ views \in ViewLists
  /\ pending \in [Processes -> Pending]
  /\ config \in [Dirs -> Projects \union {None, "cut_off"}]

Distinct(f) == \A a, b \in DOMAIN f : a # b /\ f[a] # None => f[a] # f[b]

\* The lists keep their keys: one directory is one project and one name one view, also
\* when two processes overwrite each other's list and directories move in between.
ListsAreKeyed ==
  /\ Distinct([r \in Projects |-> IF registry[r] = None THEN None ELSE registry[r].dir])
  /\ Distinct(views)

\* A configuration is only ever written into the directory that the project was
\* registered with, whatever was moved or linked to its path since.
WrittenAtHome ==
  \A d \in Dirs : config'[d] # config[d] =>
    \E r \in Projects : /\ registry[r] # None /\ registry[r].dir = d
                        /\ config'[d] \in {r, "cut_off"}

ConfigsAreWrittenAtHome == [][WrittenAtHome]_project_vars

=============================================================================
