------------------------------ MODULE Coalescer ------------------------------
(***************************************************************************)
(* The watcher of the adapters: Watcher filters the notifications of the   *)
(* system and asks for a compensation where some were dropped, and its     *)
(* WatchCoalescer keeps one hint per key until the key has been quiet for  *)
(* the stable window.  The caller decides when to flush.                   *)
(***************************************************************************)
EXTENDS Functions, WatchHints

VARIABLES
  running,   \* Watcher.running
  pending,   \* WatchCoalescer.pending: key -> hint
  quiet,     \* the keys whose last hint is older than stable_window
  roots,     \* WatchCoalescer.recognized_skill_roots
  overflow,  \* Watcher.compensation_pending
  unread     \* history: skills changed, with a hint accepted, and not handed out since

coalescer_vars == <<running, pending, quiet, roots, overflow, unread>>

Nothing == << >>

Init ==
  /\ running = FALSE /\ pending = Nothing /\ quiet = {} /\ roots = {} /\ overflow = FALSE
  /\ unread = {}

-----------------------------------------------------------------------------
WatcherStart ==
  /\ running' = TRUE
  /\ UNCHANGED <<pending, quiet, roots, overflow, unread>>

\* stop: a new coalescer, which knows no skill directory either.
WatcherStop ==
  /\ running' = FALSE
  /\ pending' = Nothing /\ quiet' = {} /\ roots' = {} /\ overflow' = FALSE
  /\ unread' = {}

\* set_recognized_skill_roots: what waits keeps its key.
SetRecognizedSkillRoots(known) ==
  /\ roots' = known
  /\ UNCHANGED <<running, pending, quiet, overflow, unread>>

\* Watcher::push and WatchCoalescer::push.
Push(h) ==
  LET known == roots \union SkillRoot(h)
      key == Key(h, known)
  IN /\ running
     /\ roots' = known
     /\ pending' = Put(pending, key, h) /\ quiet' = quiet \ {key}
     /\ unread' = unread \union {h.skill}
     /\ UNCHANGED <<running, overflow>>

\* on_overflow, on_app_resumed, on_reconnected, request_compensation_scan.
RequestCompensationScan ==
  /\ running
  /\ overflow' = TRUE /\ unread' = Skills
  /\ UNCHANGED <<running, pending, quiet, roots>>

\* Time: the stable window of a key passes.
Quiets(key) ==
  /\ key \in DOMAIN pending \ quiet /\ quiet' = quiet \union {key}
  /\ UNCHANGED <<running, pending, roots, overflow, unread>>

\* The hints under these keys go to the caller, which reads their skills.
HandOut(keys) ==
  /\ pending' = Restrict(pending, DOMAIN pending \ keys)
  /\ unread' = unread \ SkillsOf({pending[k] : k \in keys})
  /\ quiet' = quiet \ keys
  /\ UNCHANGED <<running, roots, overflow>>

\* Watcher::flush, WatchCoalescer::flush and flush_after_stable.
Flush == running /\ HandOut(DOMAIN pending)

FlushReady == HandOut(quiet)

TakeCompensationScan ==
  /\ overflow /\ overflow' = FALSE
  /\ unread' = {}
  /\ UNCHANGED <<running, pending, quiet, roots>>

Next ==
  \/ WatcherStart \/ WatcherStop \/ RequestCompensationScan
  \/ Flush \/ FlushReady \/ TakeCompensationScan
  \/ \E known \in SUBSET Skills : SetRecognizedSkillRoots(known)
  \/ \E h \in Hints : Push(h)
  \/ \E key \in Keys : Quiets(key)

Spec == Init /\ [][Next]_coalescer_vars

-----------------------------------------------------------------------------
TypeOK ==
  /\ running \in BOOLEAN /\ overflow \in BOOLEAN
  /\ DOMAIN pending \subseteq Keys /\ Range(pending) \subseteq Hints
  /\ quiet \subseteq DOMAIN pending
  /\ roots \subseteq Skills /\ unread \subseteq Skills

\* A change whose hint was accepted waits under some key until its skill is handed out, or
\* everything is about to be read: also when its directory becomes known as a skill, or is
\* forgotten, while it waits, and when only the quiet keys are flushed.
PushedHintsAreHandedOut == \A s \in unread : overflow \/ s \in SkillsOf(Range(pending))

=============================================================================
