------------------------------- MODULE Import -------------------------------
(***************************************************************************)
(* Importing one candidate: who owns its directory (OwnershipClassifier),  *)
(* how it relates to the skills of the library and what the user is        *)
(* offered (analyze_import), and the commit of ImportService, whose steps  *)
(* are calls of a backend.  The facade commits on its own: module Library  *)
(* has that commit.                                                        *)
(***************************************************************************)
EXTENDS Naturals, FiniteSets

CONSTANTS
  Depths,     \* of the registered directories that hold the candidate
  MaxRoots,   \* bound: such directories
  Existing,   \* skills of the library: numbers, in the order of their ids
  Callers,    \* concurrent calls of commit
  None

VARIABLES
  roots,     \* registered directories that hold the candidate: <<depth, kind>>
  remote,    \* the candidate was downloaded
  records,   \* per skill of the library: what it shares with the candidate, and whether
             \* it is read-only
  plan,      \* None, or what the prepared import offers
  calls,     \* [Callers -> Call or None]
  original,  \* the candidate's directory is there
  copies     \* the kinds of copies that commits have put into the library

import_vars == <<roots, remote, records, plan, calls, original, copies>>

-----------------------------------------------------------------------------
(***************************************************************************)
(* Ownership                                                               *)
(***************************************************************************)
RootKinds == {"central", "agent", "agent_read_only", "project", "read_only"}

Ownership(kind) ==
  CASE kind = "central" -> "central_library"
    [] kind = "agent" -> "known_agent_target"
    [] kind = "project" -> "registered_project"
    [] OTHER -> "read_only_builtin_or_plugin"

Rank(kind) ==
  CASE kind \in {"agent_read_only", "read_only"} -> 6
    [] kind = "central" -> 5
    [] kind = "project" -> 4
    [] kind = "agent" -> 3

\* Fault: of one depth, any will do.
Nearer_ByDepth(r, q) == r[1] >= q[1]

\* The order of the matches: deeper first, and of one depth the stricter first.
Nearer(r, q) == r[1] > q[1] \/ (r[1] = q[1] /\ Rank(r[2]) >= Rank(q[2]))

Classified ==
  IF remote THEN "downloaded_source"
  ELSE IF roots = {} THEN "arbitrary_local_directory"
  ELSE Ownership((CHOOSE r \in roots : \A q \in roots : Nearer(r, q))[2])

SupportsTakeover(ownership) == ownership \in {"known_agent_target", "registered_project"}

-----------------------------------------------------------------------------
(***************************************************************************)
(* Analysis                                                                *)
(***************************************************************************)
\* The evidence of a match, the strongest first.
Evidence == <<"hash", "name", "source", "terms">>

\* 0 stands for no match.
Basis(e) ==
  LET found == {i \in DOMAIN Evidence : Evidence[i] \in records[e]} IN
  IF found = {} THEN 0 ELSE CHOOSE i \in found : \A j \in found : i <= j

Matches == {e \in Existing : Basis(e) # 0}

\* The first of the sorted matches.
Primary ==
  CHOOSE e \in Matches :
    \A o \in Matches : Basis(e) < Basis(o) \/ (Basis(e) = Basis(o) /\ e <= o)

Actions(ownership) ==
  LET takeover == IF SupportsTakeover(ownership) THEN {"take_over_after_verify"} ELSE {}
      basis    == IF Matches = {} THEN "none" ELSE Evidence[Basis(Primary)] IN
  CASE basis = "none"   -> {"copy_into_library", "skip"} \union takeover
    [] basis = "hash"   -> IF "read_only" \in records[Primary]
                           THEN {"copy_as_independent_managed_skill", "skip"}
                           ELSE {"reuse_existing", "establish_managed_relation",
                                 "copy_into_library", "skip"}
    [] basis = "name"   -> {"keep_independent", "skip"} \union takeover
    [] basis = "source" -> {"establish_managed_relation", "keep_independent", "skip"}
                           \union takeover
    [] basis = "terms"  -> {"copy_into_library", "keep_independent", "skip"}

Init ==
  /\ roots \in {r \in SUBSET (Depths \X RootKinds) : Cardinality(r) <= MaxRoots}
  /\ remote \in BOOLEAN /\ (remote => roots = {})
  /\ records \in [Existing -> SUBSET {"hash", "name", "source", "terms", "read_only"}]
  /\ plan = None
  /\ calls = [c \in Callers |-> None]
  /\ original = TRUE
  /\ copies = {}

Prepare ==
  /\ plan = None /\ original
  /\ plan' = Actions(Classified)
  /\ UNCHANGED <<roots, remote, records, calls, original, copies>>

Cancel ==
  /\ plan # None
  /\ plan' = None
  /\ UNCHANGED <<roots, remote, records, calls, original, copies>>

-----------------------------------------------------------------------------
(***************************************************************************)
(* Commit                                                                  *)
(***************************************************************************)
Steps(decision) ==
  CASE decision \in {"skip", "reuse_existing"} -> <<"close">>
    [] decision = "establish_managed_relation" -> <<"relate", "close">>
    [] decision = "take_over_after_verify" -> <<"copy", "verify", "remove", "close">>
    [] OTHER -> <<"copy", "close">>

\* A call works on the plan that it has read, whatever becomes of the plan meanwhile.
Commit(c, decision) ==
  /\ plan # None /\ decision \in plan
  /\ calls[c] = None
  /\ calls' = [calls EXCEPT ![c] = [decision |-> decision, at |-> 1, copy |-> None]]
  /\ UNCHANGED <<roots, remote, records, plan, original, copies>>

At(c, step) == calls[c] # None /\ Steps(calls[c].decision)[calls[c].at] = step

\* An error ends the call; the plan stays for a retry.
Fails(c) ==
  /\ calls[c] # None /\ ~At(c, "close")
  /\ calls' = [calls EXCEPT ![c] = None]
  /\ UNCHANGED <<roots, remote, records, plan, original, copies>>

\* The backend copies the candidate, not always well.
Copy(c) ==
  /\ At(c, "copy") /\ original
  /\ \E kind \in {"intact", "damaged"} :
       /\ copies' = copies \union {kind}
       /\ calls' = [calls EXCEPT ![c].at = @ + 1, ![c].copy = kind]
  /\ UNCHANGED <<roots, remote, records, plan, original>>

Verify(c) ==
  /\ At(c, "verify") /\ calls[c].copy = "intact"
  /\ calls' = [calls EXCEPT ![c].at = @ + 1]
  /\ UNCHANGED <<roots, remote, records, plan, original, copies>>

Relate(c) ==
  /\ At(c, "relate")
  /\ calls' = [calls EXCEPT ![c].at = @ + 1]
  /\ UNCHANGED <<roots, remote, records, plan, original, copies>>

RemoveOriginal(c) ==
  /\ At(c, "remove") /\ original
  /\ original' = FALSE
  /\ calls' = [calls EXCEPT ![c].at = @ + 1]
  /\ UNCHANGED <<roots, remote, records, plan, copies>>

Close(c) ==
  /\ At(c, "close")
  /\ plan' = None
  /\ calls' = [calls EXCEPT ![c] = None]
  /\ UNCHANGED <<roots, remote, records, original, copies>>

Next ==
  \/ Prepare \/ Cancel
  \/ \E c \in Callers :
       \/ plan # None /\ \E decision \in plan : Commit(c, decision)
       \/ Fails(c) \/ Copy(c) \/ Verify(c) \/ Relate(c) \/ RemoveOriginal(c) \/ Close(c)

Spec == Init /\ [][Next]_import_vars

-----------------------------------------------------------------------------
Decisions == {"reuse_existing", "establish_managed_relation", "copy_into_library",
              "take_over_after_verify", "keep_independent",
              "copy_as_independent_managed_skill", "skip"}

Calls == [decision : Decisions, at : 1 .. 4, copy : {"intact", "damaged", None}]

\* The state of an import.
TypeOK ==
  /\ roots \subseteq Depths \X RootKinds /\ remote \in BOOLEAN
  /\ plan = None \/ plan \subseteq Decisions
  /\ records \in [Existing -> SUBSET {"hash", "name", "source", "terms", "read_only"}]
  /\ calls \in [Callers -> Calls \union {None}]
  /\ original \in BOOLEAN /\ copies \subseteq {"intact", "damaged"}

\* The original of an import is only removed when the innermost of the registered
\* directories around it is an agent's writable one or a project, none of that depth is
\* read-only or the library itself, and the library has an intact copy; also when several
\* calls commit one plan, fail half-way and are tried again
\* (src/crates/skillhub-core/tests/import_flow.rs:97,
\* src/crates/skillhub-adapters/src/import/ownership.rs:137).
TakenOverIsOursAndKept ==
  ~original =>
    /\ "intact" \in copies
    /\ \E depth \in Depths :
         /\ \A r \in roots : r[1] <= depth
         /\ \E r \in roots : r[1] = depth
         /\ \A r \in roots : r[1] = depth => r[2] \in {"agent", "project"}
=============================================================================
