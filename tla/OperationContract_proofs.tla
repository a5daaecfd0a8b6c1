----------------------- MODULE OperationContract_proofs ----------------------
(***************************************************************************)
(* What callers were told stays true, and the journal implements           *)
(* OperationContract: for any number of calls, ids and journals of one     *)
(* process and every set of disturbances.                                  *)
(***************************************************************************)
EXTENDS OperationJournal_proofs

\* The calls share one open database.
OneProcess == \A g, h \in Handles : g = h

\* A call that will write the row it has read or claimed.
WriteSteps == RunOwnerSteps \union UndoOwnerSteps \union {"cancel_write"}

Before == {"run_planned", "mutation", "undo_begin", "undo_apply"}
After == {"mutated", "run_verifying", "undo_applied", "undo_verifying"}

\* A row, the effects of its id, and whether the id was answered or cancelled.
RowSettled(r, n, isAnswered, isCancelled) ==
  /\ n \in {0, 1}
  /\ r.result => n = 1
  /\ r.phase \in {"absent", "prepared"} => n = 0
  /\ isAnswered => n = 1 /\ r.phase = "committed" /\ r.result
  /\ isCancelled => r.phase = "rolled_back"

\* What a call that may write knows of the row r of its id and of the n effects.
CallSettled(k, r, n, isAnswered, isCancelled) ==
  /\ ~isAnswered /\ ~isCancelled
  /\ Exists(r) /\ k.record.fingerprint = r.fingerprint
  /\ k.record.result => n = 1
  /\ k.step \in Before => n = 0
  /\ k.step \in After \/ (k.step = "run_returned" /\ k.outcome = "ok") => n = 1
  /\ k.step \notin {"undo_begin", "cancel_write"} => r.phase # "prepared"
  /\ k.step \in {"mutation", "mutated"} => k.record.phase = "applying"
  /\ k.step = "undo_verifying" => k.record.result

RowOK(id) == RowSettled(rows[id], effects[id], id \in answered, id \in cancelled)

CallOK(c) ==
  call[c].step \in WriteSteps =>
    CallSettled(call[c], RowOf(c), effects[call[c].id],
                call[c].id \in answered, call[c].id \in cancelled)

Settled ==
  /\ \A id \in AllIds : RowOK(id)
  /\ \A c \in Callers : CallOK(c)

-----------------------------------------------------------------------------
(* A step of the contract                                                  *)

SameVerdict(id) == (id \in answered' <=> id \in answered) /\ (id \in cancelled' <=> id \in cancelled)
SameClaim(id) ==
  /\ Exists(rows'[id]) <=> Exists(rows[id])
  /\ Exists(rows[id]) => rows'[id].fingerprint = rows[id].fingerprint
Open(id) == id \notin answered /\ id \notin cancelled

\* What a step may do to one id, as the contract sees it.
Promise(id) ==
  \/ SameClaim(id) /\ effects'[id] = effects[id] /\ SameVerdict(id)
  \/ /\ ~Exists(rows[id]) /\ Exists(rows'[id])
     /\ effects'[id] = effects[id] /\ SameVerdict(id)
  \/ /\ SameClaim(id) /\ Exists(rows[id]) /\ Open(id) /\ SameVerdict(id)
     /\ effects[id] = 0 /\ effects'[id] = 1
  \/ /\ SameClaim(id) /\ Open(id) /\ id \in answered' /\ id \notin cancelled'
     /\ effects[id] = 1 /\ effects'[id] = 1
  \/ /\ SameClaim(id) /\ Exists(rows[id]) /\ Open(id) /\ id \in cancelled' /\ id \notin answered'
     /\ effects'[id] = effects[id]

Same(id) == rows'[id] = rows[id] /\ effects'[id] = effects[id] /\ SameVerdict(id)

\* A step of the call c that touches the row, the effects and the answers of one id.
Touches(c, id) ==
  /\ \A d \in Callers \ {c} : call'[d] = call[d]
  /\ \A other \in AllIds \ {id} : Same(other)
  /\ RowOK(id)' /\ CallOK(c)'
  /\ Promise(id)

\* No other call works beside c.
LEMMA Alone ==
  ASSUME TypeInv, PermitHeld, OneProcess, NEW c \in Callers, NEW d \in Callers,
         call[c].step \in HoldSteps, call[d].step \in HoldSteps
  PROVE  c = d
<1>1. Handle(c) \in Handles /\ Handle(d) \in Handles
  BY ConstantsAssumption DEF TypeInv, CallsTyped, Call, Handle
<1>2. QED
  BY <1>1 DEF PermitHeld, OneProcess

LEMMA WritersHold == WriteSteps \subseteq HoldSteps
  BY DEF WriteSteps, HoldSteps

LEMMA TouchKeeps ==
  ASSUME TypeInv, PermitHeld, OneProcess, Settled, NEW c \in Callers, NEW id \in AllIds,
         call[c].step \in HoldSteps, Touches(c, id)
  PROVE  Settled'
<1>1. ASSUME NEW other \in AllIds PROVE RowOK(other)'
  BY DEF Touches, Settled, RowOK, Same, SameVerdict
<1>2. ASSUME NEW d \in Callers PROVE CallOK(d)'
  <2>1. CASE d = c
    BY <2>1 DEF Touches
  <2>2. CASE d # c
    BY <2>2, Alone, WritersHold DEF Touches, CallOK
  <2>3. QED
    BY <2>1, <2>2
<1>3. QED
  BY <1>1, <1>2 DEF Settled

-----------------------------------------------------------------------------
(* What one call does to the row of its id                                 *)

LEMMA WriterIds ==
  ASSUME TypeInv, NEW c \in Callers, call[c].step # "idle"
  PROVE  call[c].id \in AllIds
  BY DEF TypeInv, CallsTyped, Consistent

LEMMA PhaseOf ==
  ASSUME NEW r \in Row, NEW phase \in Phases
  PROVE  LET n == [r EXCEPT !.phase = phase]
             m == [r EXCEPT !.phase = phase, !.result = TRUE] IN
         /\ n.phase = phase /\ n.result = r.result /\ n.fingerprint = r.fingerprint
         /\ m.phase = phase /\ m.result = TRUE /\ m.fingerprint = r.fingerprint
         /\ Exists(n) /\ Exists(m)
<1>1. "absent" \notin Phases
  BY DEF Phases, Unfinished, TerminalPhases
<1>2. QED
  BY <1>1 DEF Row, Exists

LEMMA ErrorOf ==
  ASSUME NEW r \in Row, NEW kind
  PROVE  LET n == WithError(r, kind) IN
         n.phase = "needs_recovery" /\ n.result = r.result /\ n.fingerprint = r.fingerprint
         /\ Exists(n)
  BY DEF Row, WithError, Exists

LEMMA Saved ==
  ASSUME TypeInv, NEW c \in Callers, NEW id \in AllIds, id = call[c].id, NEW r, Save(c, r)
  PROVE  rows'[id] = r /\ \A other \in AllIds \ {id} : rows'[other] = rows[other]
  BY DEF TypeInv, TypeOK, Save

LEMMA Ended ==
  ASSUME TypeInv, NEW c \in Callers, Finish(c)
  PROVE  CallOK(c)' /\ \A d \in Callers \ {c} : call'[d] = call[d]
<1>1. call \in [Callers -> Call]
  BY DEF TypeInv, CallsTyped
<1>2. call'[c] = Idle /\ \A d \in Callers \ {c} : call'[d] = call[d]
  BY <1>1 DEF Finish
<1>3. "idle" \notin WriteSteps
  BY DEF WriteSteps, RunOwnerSteps, UndoOwnerSteps
<1>4. QED
  BY <1>2, <1>3, IdleTyped DEF CallOK

LEMMA Moved ==
  ASSUME TypeInv, NEW c \in Callers, NEW s, NEW r,
         call' = [call EXCEPT ![c].step = s, ![c].record = r]
  PROVE  /\ \A d \in Callers \ {c} : call'[d] = call[d]
         /\ call'[c].step = s /\ call'[c].record = r
         /\ call'[c].id = call[c].id /\ call'[c].outcome = call[c].outcome
  BY DEF TypeInv, CallsTyped, Call

LEMMA Gone ==
  ASSUME TypeInv, NEW c \in Callers, NEW s, Goto(c, s)
  PROVE  /\ \A d \in Callers \ {c} : call'[d] = call[d]
         /\ call'[c].step = s /\ call'[c].record = call[c].record
         /\ call'[c].id = call[c].id /\ call'[c].outcome = call[c].outcome
  BY DEF TypeInv, CallsTyped, Call, Goto

\* A call that writes nothing and answers nothing.
LEMMA Silent ==
  ASSUME TypeInv, Settled, NEW c \in Callers, NEW id \in AllIds, id = call[c].id,
         UNCHANGED <<rows, effects, history>>, CallOK(c)',
         \A d \in Callers \ {c} : call'[d] = call[d]
  PROVE  Touches(c, id)
  BY DEF Settled, Touches, RowOK, Same, SameVerdict, SameClaim, Promise, history

\* What a writing call knows.
LEMMA Knows ==
  ASSUME TypeInv, Settled, NEW c \in Callers, call[c].step \in WriteSteps
  PROVE  /\ call[c].id \in AllIds /\ call[c] \in Call /\ call[c].record \in Row
         /\ effects[call[c].id] \in {0, 1} /\ Exists(RowOf(c))
         /\ CallSettled(call[c], RowOf(c), effects[call[c].id],
                        call[c].id \in answered, call[c].id \in cancelled)
         /\ RowSettled(RowOf(c), effects[call[c].id],
                       call[c].id \in answered, call[c].id \in cancelled)
<1>1. call[c].step # "idle"
  BY DEF WriteSteps, RunOwnerSteps, UndoOwnerSteps
<1>2. QED
  BY <1>1, WriterIds, RecordsAreRows DEF Settled, RowOK, CallOK, CallSettled, RowSettled, RowOf

\* The owner of a row writes it and ends.
LEMMA WriteEnds ==
  ASSUME TypeInv, Settled, NEW c \in Callers, NEW id \in AllIds,
         id = call[c].id, call[c].step \in WriteSteps, NEW r,
         Save(c, r), Finish(c), UNCHANGED effects,
         r.phase \notin {"absent", "prepared"},
         r.fingerprint = call[c].record.fingerprint, r.result => effects[id] = 1,
         \/ UNCHANGED history
         \/ /\ answered' = answered \union {id} /\ UNCHANGED cancelled
            /\ r.phase = "committed" /\ r.result
         \/ /\ cancelled' = cancelled \union {id} /\ UNCHANGED answered
            /\ r.phase = "rolled_back"
  PROVE  Touches(c, id)
<1>1. /\ id \notin answered /\ id \notin cancelled
      /\ Exists(rows[id]) /\ rows[id].fingerprint = r.fingerprint /\ effects[id] \in {0, 1}
  BY Knows DEF CallSettled, RowOf
<1>2. rows'[id] = r /\ \A other \in AllIds \ {id} : rows'[other] = rows[other]
  BY <1>1, Saved
<1>3. CallOK(c)' /\ \A d \in Callers \ {c} : call'[d] = call[d]
  BY Ended
<1>4. \A other \in AllIds \ {id} : Same(other)
  BY <1>2 DEF Same, SameVerdict, history
<1>5. RowOK(id)'
  BY <1>1, <1>2 DEF RowOK, RowSettled, history
<1>6. SameClaim(id)
  BY <1>1, <1>2 DEF SameClaim, Exists
<1>7. Promise(id)
  BY <1>1, <1>6 DEF Promise, Open, SameVerdict, history
<1>8. QED
  BY <1>3, <1>4, <1>5, <1>7 DEF Touches

\* The owner of a row writes it and goes on.
LEMMA WriteGoesOn ==
  ASSUME TypeInv, Settled, NEW c \in Callers, NEW id \in AllIds,
         id = call[c].id, call[c].step \in WriteSteps, NEW r,
         Save(c, r), UNCHANGED <<effects, history>>,
         \A d \in Callers \ {c} : call'[d] = call[d],
         call'[c].id = id, call'[c].record = r,
         r.phase \notin {"absent", "prepared"},
         r.fingerprint = call[c].record.fingerprint, r.result => effects[id] = 1,
         call'[c].step \in Before => effects[id] = 0,
         call'[c].step \in After \/ (call'[c].step = "run_returned" /\ call'[c].outcome = "ok")
           => effects[id] = 1,
         call'[c].step \in {"mutation", "mutated"} => r.phase = "applying",
         call'[c].step = "undo_verifying" => r.result
  PROVE  Touches(c, id)
<1>1. /\ id \notin answered /\ id \notin cancelled
      /\ Exists(rows[id]) /\ rows[id].fingerprint = r.fingerprint /\ effects[id] \in {0, 1}
  BY Knows DEF CallSettled, RowOf
<1>2. rows'[id] = r /\ \A other \in AllIds \ {id} : rows'[other] = rows[other]
  BY <1>1, Saved
<1>3. \A other \in AllIds \ {id} : Same(other)
  BY <1>2 DEF Same, SameVerdict, history
<1>4. RowOK(id)'
  BY <1>1, <1>2 DEF RowOK, RowSettled, history
<1>5. Exists(r)
  BY DEF Exists
<1>6. CallOK(c)'
  BY <1>1, <1>2, <1>5 DEF CallOK, CallSettled, RowOf, history
<1>7. Promise(id)
  BY <1>1, <1>2, <1>5 DEF Promise, SameClaim, SameVerdict, history
<1>8. QED
  BY <1>3, <1>4, <1>6, <1>7 DEF Touches

\* The mutation or the inverse takes effect.
LEMMA EffectTouches ==
  ASSUME TypeInv, Settled, NEW c \in Callers, NEW id \in AllIds, id = call[c].id, NEW s,
         \/ call[c].step = "mutation" /\ s = "mutated"
         \/ call[c].step = "undo_apply" /\ s = "undo_applied",
         effects' = [effects EXCEPT ![id] = @ + 1], Goto(c, s),
         UNCHANGED <<rows, history>>
  PROVE  Touches(c, id)
<1>0. effects \in [AllIds -> Nat]
  BY DEF TypeInv, TypeOK
<1>1. call[c].step \in WriteSteps /\ call[c].step \in Before
  BY DEF WriteSteps, RunOwnerSteps, UndoOwnerSteps, Before
<1>2. /\ CallSettled(call[c], rows[id], effects[id], id \in answered, id \in cancelled)
      /\ RowSettled(rows[id], effects[id], id \in answered, id \in cancelled)
  BY <1>1, Knows DEF RowOf
<1>3. effects[id] = 0 /\ effects'[id] = 1 /\ \A other \in AllIds \ {id} : effects'[other] = effects[other]
  BY <1>0, <1>1, <1>2 DEF CallSettled
<1>4. /\ \A d \in Callers \ {c} : call'[d] = call[d]
      /\ call'[c].step = s /\ call'[c].record = call[c].record /\ call'[c].id = id
  BY Gone
<1>5. \A other \in AllIds \ {id} : Same(other)
  BY <1>3 DEF Same, SameVerdict, history
<1>6. Exists(rows[id]) /\ rows[id].phase # "prepared"
  BY <1>2 DEF CallSettled
<1>7. RowOK(id)'
  BY <1>2, <1>3, <1>6 DEF RowOK, RowSettled, CallSettled, Exists, history
<1>8. CallOK(c)'
  BY <1>2, <1>3, <1>4 DEF CallOK, CallSettled, RowOf, Before, history
<1>9. Promise(id)
  BY <1>2, <1>3 DEF Promise, SameClaim, SameVerdict, Open, CallSettled, history
<1>10. QED
  BY <1>4, <1>5, <1>7, <1>8, <1>9 DEF Touches

\* An answer that repeats what the row says.
LEMMA AnswerTouches ==
  ASSUME TypeInv, Settled, NEW c \in Callers, NEW id \in AllIds, id = call[c].id,
         UNCHANGED <<rows, effects>>, Finish(c),
         \/ RunAnswer(c) /\ UNCHANGED cancelled
         \/ /\ RowOf(c).phase = "rolled_back"
            /\ cancelled' = cancelled \union {id} /\ UNCHANGED answered
  PROVE  Touches(c, id)
<1>1. RowSettled(rows[id], effects[id], id \in answered, id \in cancelled)
  BY DEF Settled, RowOK
<1>2. CallOK(c)' /\ \A d \in Callers \ {c} : call'[d] = call[d]
  BY Ended
<1>3. \/ answered' = answered /\ cancelled' = cancelled
      \/ /\ answered' = answered \union {id} /\ cancelled' = cancelled
         /\ rows[id].phase = "committed" /\ rows[id].result
      \/ /\ cancelled' = cancelled \union {id} /\ answered' = answered
         /\ rows[id].phase = "rolled_back"
  BY DEF RunAnswer, Replayable, RowOf
<1>4. \A other \in AllIds \ {id} : Same(other)
  BY <1>3 DEF Same, SameVerdict
<1>5. RowOK(id)'
  BY <1>1, <1>3 DEF RowOK, RowSettled
<1>6. Promise(id)
  BY <1>1, <1>3 DEF Promise, SameClaim, SameVerdict, Open, RowSettled, Exists
<1>7. QED
  BY <1>2, <1>4, <1>5, <1>6 DEF Touches

-----------------------------------------------------------------------------
(* Every step of a call touches one id                                     *)

\* A call inserts the row of an id that has none.
LEMMA InsertTouches ==
  ASSUME TypeInv, Settled, NEW c \in Callers, NEW id \in AllIds, ~Exists(rows[id]),
         rows'[id].phase \in {"planned", "prepared"}, ~rows'[id].result,
         \A other \in AllIds \ {id} : rows'[other] = rows[other],
         UNCHANGED <<effects, history>>,
         \A d \in Callers \ {c} : call'[d] = call[d],
         \/ Finish(c)
         \/ /\ call'[c].step = "run_planned" /\ call'[c].id = id
            /\ call'[c].record = rows'[id] /\ rows'[id].phase = "planned"
  PROVE  Touches(c, id)
<1>1. /\ effects[id] = 0 /\ id \notin answered /\ id \notin cancelled
  BY DEF Settled, RowOK, RowSettled, Exists
<1>2. \A other \in AllIds \ {id} : Same(other)
  BY DEF Same, SameVerdict, history
<1>3. RowOK(id)'
  BY <1>1 DEF RowOK, RowSettled, history
<1>4. Exists(rows'[id])
  BY DEF Exists
<1>5. CallOK(c)'
  <2>1. CASE Finish(c)
    BY <2>1, Ended
  <2>2. CASE ~Finish(c)
    BY <1>1, <1>4, <2>2 DEF CallOK, CallSettled, RowOf, After, history
  <2>3. QED
    BY <2>1, <2>2
<1>6. Promise(id)
  BY <1>1, <1>4 DEF Promise, SameVerdict, history
<1>7. QED
  BY <1>2, <1>3, <1>5, <1>6 DEF Touches

LEMMA RunTouches ==
  ASSUME TypeInv, Settled, NEW c \in Callers, NEW id \in AllIds, id = call[c].id,
         \/ RunLookup(c) \/ RunPoll(c) \/ RunInsert(c) \/ RunApplying(c)
         \/ ContextCheckpoint(c) \/ MutationEffect(c) \/ RunReturned(c) \/ RunCommit(c)
         \/ \E outcome \in {"ok"} \union ErrorKinds : MutationReturn(c, outcome)
  PROVE  Touches(c, id)
<1> DEFINE k == call[c]
<1>0. k \in Call /\ k.record \in Row
  BY RecordsAreRows
<1>1. ASSUME NEW s \in {"run_insert", "run_poll"}, Goto(c, s), UNCHANGED <<rows, effects, history>>
      PROVE  Touches(c, id)
  <2>1. CallOK(c)'
    BY <1>1, Gone DEF CallOK, WriteSteps, RunOwnerSteps, UndoOwnerSteps
  <2>2. QED
    BY <1>1, <2>1, Gone, Silent
<1>2. CASE RunLookup(c)
  <2>1. CASE RunAnswer(c)
    BY <1>2, <2>1, AnswerTouches DEF RunLookup, RunAnswer
  <2>2. QED
    BY <1>1, <1>2, <2>1 DEF RunLookup, history
<1>3. CASE RunPoll(c)
  <2>1. CASE RunAnswer(c)
    BY <1>3, <2>1, AnswerTouches DEF RunPoll, RunAnswer
  <2>2. CASE Finish(c) /\ UNCHANGED answered
    BY <1>3, <2>2, Ended, Silent DEF RunPoll, history
  <2>3. CASE call' = [call EXCEPT ![c].rereads = @ + 1] /\ UNCHANGED answered
    <3>1. /\ \A d \in Callers \ {c} : call'[d] = call[d]
          /\ call'[c].step = "run_poll" /\ call'[c].id = id
      BY <1>0, <1>3, <2>3 DEF RunPoll, TypeInv, CallsTyped, Call
    <3>2. CallOK(c)'
      BY <3>1, Gone DEF CallOK, WriteSteps, RunOwnerSteps, UndoOwnerSteps
    <3>3. QED
      BY <1>3, <2>3, <3>1, <3>2, Silent DEF RunPoll, history
  <2>4. QED
    BY <1>3, <2>1, <2>2, <2>3 DEF RunPoll, RunReread, RunGiveUp
<1>4. CASE RunInsert(c)
  <2>0. PICK p : p = Planned(k.fingerprint)
    OBVIOUS
  <2>1. CASE /\ ~Exists(RowOf(c)) /\ Save(c, p)
             /\ call' = [call EXCEPT ![c].step = "run_planned", ![c].record = p]
             /\ UNCHANGED <<writer, answered>>
    <3>1. p.phase = "planned" /\ ~p.result
      BY <2>0 DEF Planned
    <3>2. ~Exists(rows[id]) /\ rows'[id] = p
          /\ \A other \in AllIds \ {id} : rows'[other] = rows[other]
      BY <2>1, Saved DEF RowOf
    <3>3. UNCHANGED <<effects, history>>
      BY <1>4, <2>1 DEF RunInsert, history
    <3>4. call' = [call EXCEPT ![c].step = "run_planned", ![c].record = p]
      BY <2>1
    <3>5. /\ \A d \in Callers \ {c} : call'[d] = call[d]
          /\ call'[c].step = "run_planned" /\ call'[c].id = id /\ call'[c].record = p
      BY <3>4 DEF TypeInv, CallsTyped, Call
    <3>6. QED
      BY <3>1, <3>2, <3>3, <3>5, InsertTouches
  <2>2. CASE RunAnswer(c) /\ UNCHANGED rows
    BY <1>4, <2>2, AnswerTouches DEF RunInsert, RunAnswer
  <2>3. QED
    BY <1>1, <1>4, <2>0, <2>1, <2>2 DEF RunInsert, history
<1>5. CASE RunApplying(c)
  <2> DEFINE r == [k.record EXCEPT !.phase = "applying"]
  <2>1. k.step = "run_planned" /\ k.step \in WriteSteps /\ k.step \in Before
    BY <1>5 DEF RunApplying, WriteSteps, RunOwnerSteps, Before
  <2>2. r.phase = "applying" /\ r.result = k.record.result
        /\ r.fingerprint = k.record.fingerprint
    BY <1>0, PhaseOf DEF Phases, Unfinished
  <2>3. effects[id] = 0 /\ (k.record.result => effects[id] = 1)
    BY <2>1, Knows DEF CallSettled
  <2>4. /\ \A d \in Callers \ {c} : call'[d] = call[d]
        /\ call'[c].step = "mutation" /\ call'[c].record = r /\ call'[c].id = id
    BY <1>5, Moved DEF RunApplying
  <2>5. Save(c, r) /\ UNCHANGED <<effects, history>>
    BY <1>5 DEF RunApplying
  <2> HIDE DEF r
  <2>6. QED
    BY <2>1, <2>2, <2>3, <2>4, <2>5, WriteGoesOn DEF After
<1>6. CASE MutationEffect(c)
  BY <1>6, EffectTouches DEF MutationEffect
<1>7. CASE ContextCheckpoint(c)
  <2>1. PICK inverse \in {k.record.inverse}
                    \union (IF k.step = "mutation"
                            THEN {[preconditions |-> k.fingerprint, facts |-> fact]}
                            ELSE {}), saved \in BOOLEAN :
          /\ call' = [call EXCEPT ![c].record = [k.record EXCEPT !.inverse = inverse],
                                  ![c].checkpointFailed = @ \/ ~saved]
          /\ IF saved THEN Save(c, [k.record EXCEPT !.inverse = inverse]) ELSE UNCHANGED rows
    BY <1>7 DEF ContextCheckpoint
  <2> DEFINE r == [k.record EXCEPT !.inverse = inverse]
  <2>2. k.step \in {"mutation", "mutated"} /\ k.step \in WriteSteps
        /\ UNCHANGED <<effects, history>>
    BY <1>7 DEF ContextCheckpoint, WriteSteps, RunOwnerSteps
  <2>3. /\ r.phase = k.record.phase /\ r.result = k.record.result
        /\ r.fingerprint = k.record.fingerprint
    BY <1>0 DEF Row
  <2>4. call' = [call EXCEPT ![c] = [k EXCEPT !.record = r,
                                              !.checkpointFailed = @ \/ ~saved]]
    BY <2>1 DEF TypeInv, CallsTyped, Call
  <2>5. /\ \A d \in Callers \ {c} : call'[d] = call[d]
        /\ call'[c].step = k.step /\ call'[c].record = r /\ call'[c].id = id
    BY <1>0, <2>4 DEF TypeInv, CallsTyped, Call
  <2>6. CallSettled(k, rows[id], effects[id], id \in answered, id \in cancelled)
    BY <2>2, Knows DEF RowOf
  <2> HIDE DEF r
  <2>7. CASE Save(c, r)
    BY <2>2, <2>3, <2>5, <2>6, <2>7, WriteGoesOn DEF CallSettled
  <2>8. CASE UNCHANGED rows
    <3>1. CallOK(c)'
      BY <2>2, <2>3, <2>5, <2>6, <2>8 DEF CallOK, CallSettled, RowOf, history
    <3>2. QED
      BY <2>2, <2>5, <2>8, <3>1, Silent
  <2>9. QED
    BY <2>1, <2>7, <2>8 DEF r
<1>8. CASE RunReturned(c)
  <2>1. k.step = "run_returned" /\ k.step \in WriteSteps /\ UNCHANGED <<effects, history>>
    BY <1>8 DEF RunReturned, WriteSteps, RunOwnerSteps
  <2>2. (k.record.result => effects[id] = 1) /\ (k.outcome = "ok" => effects[id] = 1)
    BY <2>1, Knows DEF CallSettled
  <2>3. ASSUME NEW kind, Save(c, WithError(k.record, kind)), Finish(c) PROVE Touches(c, id)
    <3> DEFINE r == WithError(k.record, kind)
    <3>1. r.phase = "needs_recovery" /\ r.result = k.record.result
          /\ r.fingerprint = k.record.fingerprint
      BY <1>0, ErrorOf
    <3>2. Save(c, r)
      BY <2>3
    <3> HIDE DEF r
    <3>3. QED
      BY <2>1, <2>2, <2>3, <3>1, <3>2, WriteEnds
  <2>4. CASE Save(c, [k.record EXCEPT !.phase = "rolled_back"]) /\ Finish(c)
    <3> DEFINE r == [k.record EXCEPT !.phase = "rolled_back"]
    <3>1. r.phase = "rolled_back" /\ r.result = k.record.result
          /\ r.fingerprint = k.record.fingerprint
      BY <1>0, PhaseOf DEF Phases, TerminalPhases
    <3>2. Save(c, r)
      BY <2>4
    <3> HIDE DEF r
    <3>3. QED
      BY <2>1, <2>2, <2>4, <3>1, <3>2, WriteEnds
  <2>5. CASE /\ k.outcome = "ok"
             /\ LET r == [k.record EXCEPT !.phase = "verifying"] IN
                  /\ Save(c, r)
                  /\ call' = [call EXCEPT ![c].step = "run_verifying", ![c].record = r]
    <3> DEFINE r == [k.record EXCEPT !.phase = "verifying"]
    <3>1. r.phase = "verifying" /\ r.result = k.record.result
          /\ r.fingerprint = k.record.fingerprint
      BY <1>0, PhaseOf DEF Phases, Unfinished
    <3>2. Save(c, r) /\ call' = [call EXCEPT ![c].step = "run_verifying", ![c].record = r]
      BY <2>5
    <3> HIDE DEF r
    <3>3. /\ \A d \in Callers \ {c} : call'[d] = call[d]
          /\ call'[c].step = "run_verifying" /\ call'[c].record = r /\ call'[c].id = id
      BY <3>2 DEF TypeInv, CallsTyped, Call
    <3>4. QED
      BY <2>1, <2>2, <2>5, <3>1, <3>2, <3>3, WriteGoesOn DEF Before
  <2>6. QED
    BY <1>8, <2>3, <2>4, <2>5 DEF RunReturned
<1>9. CASE RunCommit(c)
  <2> DEFINE r == [k.record EXCEPT !.phase = "committed", !.result = TRUE]
  <2>1. k.step = "run_verifying" /\ k.step \in WriteSteps /\ k.step \in After
    BY <1>9 DEF RunCommit, WriteSteps, RunOwnerSteps, After
  <2>2. effects[id] = 1
    BY <2>1, Knows DEF CallSettled
  <2>3. r.phase = "committed" /\ r.result /\ r.fingerprint = k.record.fingerprint
    BY <1>0, PhaseOf DEF Phases, TerminalPhases
  <2>4. /\ Save(c, r) /\ Finish(c) /\ UNCHANGED <<effects, cancelled>>
        /\ answered' = answered \union {id}
    BY <1>9 DEF RunCommit
  <2> HIDE DEF r
  <2>5. QED
    BY <2>1, <2>2, <2>3, <2>4, WriteEnds
<1>10. ASSUME NEW outcome \in {"ok"} \union ErrorKinds, MutationReturn(c, outcome)
       PROVE  Touches(c, id)
  <2>1. /\ k.step \in {"mutation", "mutated"} /\ k.step \in WriteSteps
        /\ outcome = "ok" => k.step \in After
        /\ UNCHANGED <<rows, effects, history>>
    BY <1>10 DEF MutationReturn, WriteSteps, RunOwnerSteps, After
  <2>2. /\ \A d \in Callers \ {c} : call'[d] = call[d]
        /\ call'[c].step = "run_returned" /\ call'[c].outcome = outcome
        /\ call'[c].record = k.record /\ call'[c].id = id
    <3>1. call' = [call EXCEPT ![c] = [k EXCEPT !.step = "run_returned", !.outcome = outcome]]
      BY <1>10 DEF MutationReturn, TypeInv, CallsTyped, Call
    <3>2. QED
      BY <1>0, <3>1 DEF TypeInv, CallsTyped, Call
  <2>3. CallSettled(k, rows[id], effects[id], id \in answered, id \in cancelled)
    BY <2>1, Knows DEF RowOf
  <2>4. CallOK(c)'
    BY <2>1, <2>2, <2>3 DEF CallOK, CallSettled, RowOf, Before, After, history
  <2>5. QED
    BY <2>1, <2>2, <2>4, Silent
<1>11. QED
  BY <1>2, <1>3, <1>4, <1>5, <1>6, <1>7, <1>8, <1>9, <1>10

LEMMA OtherTouches ==
  ASSUME TypeInv, Settled, NEW c \in Callers, NEW id \in AllIds, id = call[c].id,
         CancelLookup(c) \/ CancelWrite(c) \/ PrepareCheck(c)
  PROVE  \E touched \in AllIds : Touches(c, touched)
<1> DEFINE k == call[c]
<1>0. k \in Call /\ k.record \in Row /\ RowOf(c) \in Row /\ RowOf(c) = rows[id]
  BY RecordsAreRows DEF RowOf
<1>1. RowSettled(rows[id], effects[id], id \in answered, id \in cancelled)
  BY DEF Settled, RowOK
<1>2. ASSUME Finish(c), UNCHANGED <<rows, effects, history>> PROVE Touches(c, id)
  BY <1>2, Ended, Silent
<1>3. CASE CancelLookup(c)
  <2>1. CASE Finish(c) /\ UNCHANGED cancelled
    BY <1>2, <1>3, <2>1 DEF CancelLookup, history
  <2>2. CASE Finish(c) /\ RowOf(c).phase = "rolled_back" /\ cancelled' = cancelled \union {id}
    BY <1>3, <2>2, AnswerTouches DEF CancelLookup
  <2>3. CASE /\ Readable(RowOf(c)) /\ ~IsTerminal(RowOf(c)) /\ UNCHANGED cancelled
             /\ call' = [call EXCEPT ![c].step = "cancel_write", ![c].record = RowOf(c)]
    <3>1. /\ \A d \in Callers \ {c} : call'[d] = call[d]
          /\ call'[c].step = "cancel_write" /\ call'[c].record = rows[id] /\ call'[c].id = id
      BY <1>0, <2>3 DEF TypeInv, CallsTyped, Call
    <3>2. UNCHANGED <<rows, effects, history>>
      BY <1>3, <2>3 DEF CancelLookup, history
    <3>3. Exists(rows[id]) /\ rows[id].phase \notin TerminalPhases
      BY <1>0, <2>3 DEF Readable, IsTerminal
    <3>4. id \notin answered /\ id \notin cancelled
      BY <1>1, <3>3 DEF RowSettled, TerminalPhases
    <3>5. CallOK(c)'
      BY <1>1, <3>1, <3>2, <3>3, <3>4
         DEF CallOK, CallSettled, RowSettled, RowOf, Before, After, history
    <3>6. QED
      BY <3>1, <3>2, <3>5, Silent
  <2>4. QED
    BY <1>3, <2>1, <2>2, <2>3 DEF CancelLookup
<1>4. CASE CancelWrite(c)
  <2> DEFINE r == [k.record EXCEPT !.phase = "rolled_back"]
  <2>1. k.step \in WriteSteps
    BY <1>4 DEF CancelWrite, WriteSteps
  <2>2. k.record.result => effects[id] = 1
    BY <2>1, Knows DEF CallSettled
  <2>3. r.phase = "rolled_back" /\ r.result = k.record.result
        /\ r.fingerprint = k.record.fingerprint
    BY <1>0, PhaseOf DEF Phases, TerminalPhases
  <2>4. /\ Save(c, r) /\ Finish(c) /\ UNCHANGED <<effects, answered>>
        /\ cancelled' = cancelled \union {id}
    BY <1>4 DEF CancelWrite
  <2> HIDE DEF r
  <2>5. Touches(c, id)
    BY <2>1, <2>2, <2>3, <2>4, WriteEnds
  <2>6. QED
    BY <2>5
<1>5. CASE PrepareCheck(c)
  <2>1. CASE UNCHANGED rows
    BY <1>2, <1>5, <2>1 DEF PrepareCheck
  <2>2. CASE \E plan \in PlanIds :
               /\ ~Exists(rows[plan])
               /\ rows' = [rows EXCEPT ![plan] = UndoPlanned(RowOf(c).inverse)]
    <3>1. PICK plan \in AllIds :
               /\ ~Exists(rows[plan])
               /\ rows' = [rows EXCEPT ![plan] = UndoPlanned(RowOf(c).inverse)]
      BY <2>2 DEF AllIds
    <3>2. /\ rows'[plan].phase = "prepared" /\ ~rows'[plan].result
          /\ \A other \in AllIds \ {plan} : rows'[other] = rows[other]
      BY <3>1 DEF TypeInv, TypeOK, UndoPlanned
    <3>3. Finish(c) /\ UNCHANGED <<effects, history>>
      BY <1>5 DEF PrepareCheck
    <3>4. Touches(c, plan)
      BY <3>1, <3>2, <3>3, Ended, InsertTouches
    <3>5. QED
      BY <3>4
  <2>3. QED
    BY <1>5, <2>1, <2>2 DEF PrepareCheck
<1>6. QED
  BY <1>3, <1>4, <1>5

LEMMA UndoTouches ==
  ASSUME TypeInv, Settled, NEW c \in Callers, NEW id \in AllIds, id = call[c].id,
         \/ UndoCheck(c) \/ UndoApplying(c) \/ UndoEffect(c) \/ UndoVerify(c) \/ UndoCommit(c)
         \/ \E kind \in ErrorKinds : UndoFail(c, kind)
  PROVE  Touches(c, id)
<1> DEFINE k == call[c]
<1>0. k \in Call /\ k.record \in Row /\ RowOf(c) \in Row /\ RowOf(c) = rows[id]
  BY RecordsAreRows DEF RowOf
<1>1. RowSettled(rows[id], effects[id], id \in answered, id \in cancelled)
  BY DEF Settled, RowOK
<1>2. ASSUME NEW kind, Save(c, WithError(k.record, kind)), Finish(c), k.step \in WriteSteps,
             UNCHANGED <<effects, history>>
      PROVE  Touches(c, id)
  <2> DEFINE r == WithError(k.record, kind)
  <2>1. k.record.result => effects[id] = 1
    BY <1>2, Knows DEF CallSettled
  <2>2. r.phase = "needs_recovery" /\ r.result = k.record.result
        /\ r.fingerprint = k.record.fingerprint
    BY <1>0, ErrorOf
  <2>3. Save(c, r)
    BY <1>2
  <2> HIDE DEF r
  <2>4. QED
    BY <1>2, <2>1, <2>2, <2>3, WriteEnds
<1>3. CASE UndoCheck(c)
  <2>1. CASE Finish(c)
    BY <1>3, <2>1, Ended, Silent DEF UndoCheck
  <2>2. CASE /\ MayCommitUndo(c)
             /\ call' = [call EXCEPT ![c].step = "undo_begin", ![c].record = RowOf(c)]
    <3>1. /\ \A d \in Callers \ {c} : call'[d] = call[d]
          /\ call'[c].step = "undo_begin" /\ call'[c].record = rows[id] /\ call'[c].id = id
      BY <1>0, <2>2 DEF TypeInv, CallsTyped, Call
    <3>2. UNCHANGED <<rows, effects, history>>
      BY <1>3 DEF UndoCheck
    <3>3. Exists(rows[id]) /\ rows[id].phase = "prepared"
      BY <1>0, <2>2 DEF MayCommitUndo, Readable
    <3>4. id \notin answered /\ id \notin cancelled /\ effects[id] = 0
      BY <1>1, <3>3 DEF RowSettled
    <3>5. CallOK(c)'
      BY <1>1, <3>1, <3>2, <3>3, <3>4
         DEF CallOK, CallSettled, RowSettled, RowOf, After, history
    <3>6. QED
      BY <3>1, <3>2, <3>5, Silent
  <2>3. QED
    BY <1>3, <2>1, <2>2 DEF UndoCheck
<1>4. CASE UndoApplying(c)
  <2> DEFINE r == [k.record EXCEPT !.phase = "applying"]
  <2>1. k.step \in WriteSteps /\ k.step \in Before
    BY <1>4 DEF UndoApplying, WriteSteps, UndoOwnerSteps, Before
  <2>2. r.phase = "applying" /\ r.result = k.record.result
        /\ r.fingerprint = k.record.fingerprint
    BY <1>0, PhaseOf DEF Phases, Unfinished
  <2>3. effects[id] = 0 /\ (k.record.result => effects[id] = 1)
    BY <2>1, Knows DEF CallSettled
  <2>4. /\ \A d \in Callers \ {c} : call'[d] = call[d]
        /\ call'[c].step = "undo_apply" /\ call'[c].record = r /\ call'[c].id = id
    BY <1>4, Moved DEF UndoApplying
  <2>5. Save(c, r) /\ UNCHANGED <<effects, history>>
    BY <1>4 DEF UndoApplying
  <2> HIDE DEF r
  <2>6. QED
    BY <2>1, <2>2, <2>3, <2>4, <2>5, WriteGoesOn DEF After
<1>5. CASE UndoEffect(c)
  BY <1>5, EffectTouches DEF UndoEffect
<1>6. CASE UndoVerify(c)
  <2>1. k.step \in WriteSteps /\ k.step \in After /\ UNCHANGED <<effects, history>>
    BY <1>6 DEF UndoVerify, WriteSteps, UndoOwnerSteps, After
  <2>2. effects[id] = 1
    BY <2>1, Knows DEF CallSettled
  <2>3. CASE LET r == [k.record EXCEPT !.phase = "verifying", !.result = TRUE] IN
               /\ Save(c, r)
               /\ call' = [call EXCEPT ![c].step = "undo_verifying", ![c].record = r]
    <3> DEFINE r == [k.record EXCEPT !.phase = "verifying", !.result = TRUE]
    <3>1. r.phase = "verifying" /\ r.result /\ r.fingerprint = k.record.fingerprint
      BY <1>0, PhaseOf DEF Phases, Unfinished
    <3>2. Save(c, r) /\ call' = [call EXCEPT ![c].step = "undo_verifying", ![c].record = r]
      BY <2>3
    <3> HIDE DEF r
    <3>3. /\ \A d \in Callers \ {c} : call'[d] = call[d]
          /\ call'[c].step = "undo_verifying" /\ call'[c].record = r /\ call'[c].id = id
      BY <3>2 DEF TypeInv, CallsTyped, Call
    <3>4. QED
      BY <2>1, <2>2, <3>1, <3>2, <3>3, WriteGoesOn DEF Before
  <2>4. QED
    BY <1>2, <1>6, <2>1, <2>3 DEF UndoVerify
<1>7. CASE UndoCommit(c)
  <2> DEFINE r == [k.record EXCEPT !.phase = "committed"]
  <2>1. k.step = "undo_verifying" /\ k.step \in WriteSteps /\ k.step \in After
    BY <1>7 DEF UndoCommit, WriteSteps, UndoOwnerSteps, After
  <2>2. effects[id] = 1 /\ k.record.result
    BY <2>1, Knows DEF CallSettled
  <2>3. r.phase = "committed" /\ r.result = k.record.result
        /\ r.fingerprint = k.record.fingerprint
    BY <1>0, PhaseOf DEF Phases, TerminalPhases
  <2>4. /\ Save(c, r) /\ Finish(c) /\ UNCHANGED <<effects, cancelled>>
        /\ answered' = answered \union {id}
    BY <1>7 DEF UndoCommit
  <2> HIDE DEF r
  <2>5. QED
    BY <2>1, <2>2, <2>3, <2>4, WriteEnds
<1>8. ASSUME NEW kind \in ErrorKinds, UndoFail(c, kind) PROVE Touches(c, id)
  <2>1. k.step \in WriteSteps /\ UNCHANGED <<effects, history>>
    BY <1>8 DEF UndoFail, WriteSteps, UndoOwnerSteps
  <2>2. QED
    BY <1>2, <1>8, <2>1 DEF UndoFail
<1>9. QED
  BY <1>3, <1>4, <1>5, <1>6, <1>7, <1>8

\* Every step of a call touches the row, the effects and the answers of one id.
LEMMA CallTouches ==
  ASSUME TypeInv, Settled, NEW c \in Callers, Step(c) \/ ContextCheckpoint(c)
  PROVE  \E id \in AllIds : Touches(c, id)
<1>1. call[c].step # "idle"
  BY OwnStep DEF HoldSteps, RunOwnerSteps, UndoOwnerSteps
<1>2. PICK id \in AllIds : id = call[c].id
  BY <1>1, WriterIds
<1>3. QED
  BY <1>2, RunTouches, OtherTouches, UndoTouches DEF Step

-----------------------------------------------------------------------------
(* Every step keeps what is settled                                        *)

\* A step that answers nothing, takes no effect and at most moves rows that no
\* caller was told about to another phase.
Repaired(r, n) == \/ r = n
                  \/ /\ r.phase \in Unfinished \union {"needs_recovery"}
                     /\ n.phase \in {"committed", "rolled_back", "needs_recovery"}
                     /\ n.fingerprint = r.fingerprint /\ n.result = r.result

Background ==
  /\ UNCHANGED <<effects, history>>
  /\ \A id \in AllIds : Repaired(rows[id], rows'[id])
  /\ \A c \in Callers : call'[c] = call[c] \/ call'[c].step \notin WriteSteps

LEMMA BackgroundKeeps ==
  ASSUME TypeInv, Settled, Background
  PROVE  Settled' /\ \A id \in AllIds : SameClaim(id)
<1>1. \A id \in AllIds : RowSettled(rows[id], effects[id], id \in answered, id \in cancelled)
  BY DEF Settled, RowOK
<1>2. UNCHANGED <<effects, answered, cancelled>>
  BY DEF Background, history
<1>3. ASSUME NEW id \in AllIds
      PROVE  /\ RowOK(id)'
             /\ Exists(rows[id]) <=> Exists(rows'[id])
             /\ rows'[id].phase = "prepared" => rows[id].phase = "prepared"
             /\ Exists(rows[id]) => rows'[id].fingerprint = rows[id].fingerprint
  <2>1. Repaired(rows[id], rows'[id])
    BY DEF Background
  <2>2. CASE rows'[id] = rows[id]
    BY <1>1, <1>2, <2>2 DEF RowOK, RowSettled
  <2>3. CASE rows'[id] # rows[id]
    <3>1. /\ rows[id].phase \in Unfinished \union {"needs_recovery"}
          /\ rows'[id].phase \in {"committed", "rolled_back", "needs_recovery"}
          /\ rows'[id].fingerprint = rows[id].fingerprint
          /\ rows'[id].result = rows[id].result
      BY <2>1, <2>3 DEF Repaired
    <3>2. rows[id].phase \notin {"absent", "committed", "rolled_back"}
      BY <3>1 DEF Unfinished
    <3>3. RowOK(id)'
      BY <1>1, <1>2, <3>1, <3>2 DEF RowOK, RowSettled
    <3>4. QED
      BY <3>1, <3>2, <3>3 DEF Exists
  <2>4. QED
    BY <2>2, <2>3
<1>4. ASSUME NEW c \in Callers PROVE CallOK(c)'
  <2>1. CASE call'[c].step \notin WriteSteps
    BY <2>1 DEF CallOK
  <2>2. CASE call'[c] = call[c] /\ call[c].step \in WriteSteps
    <3>1. PICK id \in AllIds : id = call[c].id
      BY <2>2, Knows
    <3>2. CallSettled(call[c], rows[id], effects[id], id \in answered, id \in cancelled)
      BY <2>2, <3>1, Knows DEF RowOf
    <3>3. CallSettled(call[c], rows'[id], effects'[id], id \in answered', id \in cancelled')
      BY <1>2, <1>3, <3>2 DEF CallSettled
    <3>4. QED
      BY <2>2, <3>1, <3>3 DEF CallOK, RowOf
  <2>3. QED
    BY <2>1, <2>2 DEF Background
<1>5. QED
  BY <1>3, <1>4 DEF Settled, SameClaim

\* A step is one call's work on one id, or goes on in the background.
LEMMA StepKinds ==
  ASSUME TypeInv, Settled, [Next]_vars
  PROVE  \/ Background
         \/ \E c \in Callers : call[c].step \in HoldSteps /\ \E id \in AllIds : Touches(c, id)
<1>0. call \in [Callers -> Call] /\ rows \in [AllIds -> Row]
  BY DEF TypeInv, TypeOK, CallsTyped
<1>1. UNCHANGED rows => \A id \in AllIds : Repaired(rows[id], rows'[id])
  BY DEF Repaired
<1>2. ASSUME NEW c \in Callers, Step(c) \/ ContextCheckpoint(c)
      PROVE  call[c].step \in HoldSteps /\ \E id \in AllIds : Touches(c, id)
  BY <1>2, OwnStep, CallTouches
<1>3. ASSUME NEW c \in Callers, Acquire(c) PROVE Background
  <2>1. Granted[call[c].step] \notin WriteSteps
    BY <1>3 DEF Acquire, Granted, WaitSteps, WriteSteps, RunOwnerSteps, UndoOwnerSteps
  <2>2. \A d \in Callers : call'[d] = call[d] \/ call'[d].step \notin WriteSteps
    BY <1>0, <1>3, <2>1 DEF Acquire, Goto, Call
  <2>3. QED
    BY <1>1, <1>3, <2>2 DEF Acquire, Background
<1>4. ASSUME NEW c \in Callers, NEW j \in Journals, Request(c, j) PROVE Background
  <2>1. \A d \in Callers \ {c} : call'[d] = call[d]
    BY <1>4, RequestWaits
  <2>2. call'[c].step \in WaitSteps
    BY <1>4, RequestWaits
  <2>3. call'[c].step \notin WriteSteps
    BY <2>2 DEF WaitSteps, WriteSteps, RunOwnerSteps, UndoOwnerSteps
  <2>4. UNCHANGED <<rows, effects, history>>
    BY <1>4 DEF Request, RunStart, CancelStart, PrepareStart, CommitStart, UndoStart
  <2>5. QED
    BY <1>1, <2>1, <2>3, <2>4 DEF Background
<1>5. ASSUME Maintenance PROVE Background
  <2>1. UNCHANGED <<effects, history, call>>
    BY <1>5 DEF Maintenance, Resolve, HealthPrepare, HealthCommit
  <2>2. ASSUME NEW id \in AllIds, NEW phase \in {"committed", "rolled_back"}, Resolve(id, phase)
        PROVE  \A other \in AllIds : Repaired(rows[other], rows'[other])
    BY <1>0, <2>2 DEF Resolve, Repaired, Row
  <2>3. ASSUME NEW h \in Handles, HealthCommit(h)
        PROVE  \A id \in AllIds : Repaired(rows[id], rows'[id])
    BY <1>0, <2>3 DEF HealthCommit, Repaired, Row
  <2>4. QED
    BY <1>1, <1>5, <2>1, <2>2, <2>3 DEF Maintenance, HealthPrepare, Background
<1>6. ASSUME Failure PROVE Background
  <2>1. UNCHANGED <<rows, effects, history>>
    BY <1>6 DEF Failure, Abandon, Crash, ExternalEdit
  <2>2. "idle" \notin WriteSteps
    BY DEF WriteSteps, RunOwnerSteps, UndoOwnerSteps
  <2>3. \A c \in Callers : call'[c] = call[c] \/ call'[c].step \notin WriteSteps
    BY <1>0, <1>6, <2>2, IdleTyped DEF Failure, Abandon, Finish, Crash, ExternalEdit
  <2>4. QED
    BY <1>1, <2>1, <2>3 DEF Background
<1>7. CASE UNCHANGED vars
  BY <1>1, <1>7 DEF vars, Background, history
<1>8. QED
  BY <1>2, <1>3, <1>4, <1>5, <1>6, <1>7 DEF Next

LEMMA InitSettled == Init => Settled
<1> SUFFICES ASSUME Init PROVE Settled
  OBVIOUS
<1>1. \A c \in Callers : call[c].step \notin WriteSteps
  BY IdleTyped DEF Init, WriteSteps, RunOwnerSteps, UndoOwnerSteps
<1>2. QED
  BY <1>1 DEF Init, Settled, RowOK, RowSettled, CallOK, Absent

LEMMA SettledStep ==
  ASSUME OneProcess
  PROVE  TypeInv /\ PermitHeld /\ Settled /\ [Next]_vars => Settled'
  BY StepKinds, BackgroundKeeps, TouchKeeps

LEMMA SettledAlways ==
  ASSUME OneProcess
  PROVE  Spec => [](TypeInv /\ PermitHeld /\ Settled)
<1>1. Init => PermitHeld
  BY IdleTyped DEF Init, PermitHeld, HoldSteps, RunOwnerSteps, UndoOwnerSteps
<1>2. QED
  BY <1>1, InitTypeInv, StepTypeInv, PermitStep, InitSettled, SettledStep, PTL DEF Spec

-----------------------------------------------------------------------------
(* What callers were told                                                  *)

\* A call that answered Ok stands for one effect, and neither a later cancel,
\* repair, resolution nor crash takes its commit back, while one process owns
\* the library (OperationService::run, commit_undo_checked).
THEOREM AnswersStayCommitted == OneProcess => (Spec => []AnsweredStaysCommitted)
<1> SUFFICES ASSUME OneProcess PROVE Spec => []AnsweredStaysCommitted
  OBVIOUS
<1>1. TypeInv /\ Settled => AnsweredStaysCommitted
  BY DEF TypeInv, TypeOK, Settled, RowOK, RowSettled, AnsweredStaysCommitted
<1>2. QED
  BY <1>1, SettledAlways, PTL

\* Once a cancel answered that the operation is rolled back, no run or undo of
\* its id answers Ok, before or after (OperationService::cancel).
THEOREM CancelsAreFinal == OneProcess => (Spec => []CancelledNeverAnswers)
<1> SUFFICES ASSUME OneProcess PROVE Spec => []CancelledNeverAnswers
  OBVIOUS
<1>1. TypeInv /\ Settled => CancelledNeverAnswers
  BY DEF TypeInv, TypeOK, Settled, RowOK, RowSettled, CancelledNeverAnswers
<1>2. QED
  BY <1>1, SettledAlways, PTL

\* However often the commit of an undo plan is repeated, its inverse is applied
\* at most once (commit_undo_checked).
THEOREM UndoAppliesOnce == OneProcess => (Spec => []UndoPlanAppliesOnce)
<1> SUFFICES ASSUME OneProcess PROVE Spec => []UndoPlanAppliesOnce
  OBVIOUS
<1>1. Settled => UndoPlanAppliesOnce
  BY DEF Settled, RowOK, RowSettled, UndoPlanAppliesOnce, AllIds
<1>2. QED
  BY <1>1, SettledAlways, PTL

-----------------------------------------------------------------------------
(* The journal implements its contract                                     *)

claims == [id \in AllIds |-> IF Exists(rows[id]) THEN rows[id].fingerprint ELSE NoId]
verdicts == [id \in AllIds |-> CASE id \in answered -> "confirmed"
                                 [] id \in cancelled -> "withdrawn"
                                 [] OTHER -> "open"]
requests == Facts \union {UndoFingerprint}

LEMMA VerdictOf ==
  ASSUME NEW id \in AllIds, Open(id)
  PROVE  verdicts[id] = "open"
  BY DEF verdicts, Open

\* What happens to one id, while every other one stays as it is, is a step of
\* the contract.
LEMMA PromiseIsAStep ==
  ASSUME TypeInv, TypeInv', Settled, Settled', NEW id \in AllIds,
         \A other \in AllIds \ {id} : Same(other), Promise(id)
  PROVE  [Contract!Next]_(Contract!contractVars)
<1>0. /\ effects \in [AllIds -> Nat] /\ effects' \in [AllIds -> Nat]
      /\ rows'[id] \in Row /\ rows[id] \in Row /\ NoId \notin requests
  BY ConstantsAssumption DEF TypeInv, TypeOK, requests
<1>1. /\ \A other \in AllIds \ {id} :
           claims'[other] = claims[other] /\ verdicts'[other] = verdicts[other]
             /\ effects'[other] = effects[other]
  BY DEF Same, SameVerdict, claims, verdicts
<1>2. SameClaim(id) => claims' = claims
  BY <1>1 DEF claims, SameClaim
<1>3. SameVerdict(id) => verdicts' = verdicts
  BY <1>1 DEF verdicts, SameVerdict
<1>4. effects'[id] = effects[id] => effects' = effects
  BY <1>0, <1>1
<1>5. Exists(rows[id]) => claims[id] # NoId
  BY <1>0 DEF claims, Row, requests
<1>6. CASE SameClaim(id) /\ effects'[id] = effects[id] /\ SameVerdict(id)
  BY <1>2, <1>3, <1>4, <1>6 DEF Contract!contractVars, claims, verdicts
<1>7. CASE /\ ~Exists(rows[id]) /\ Exists(rows'[id])
           /\ effects'[id] = effects[id] /\ SameVerdict(id)
  <2>0. PICK next : next = rows'[id].fingerprint
    OBVIOUS
  <2>1. claims[id] = NoId /\ next \in requests
    BY <1>0, <1>7, <2>0 DEF claims, Row, requests
  <2>2. claims' = [claims EXCEPT ![id] = next]
    BY <1>1, <1>7, <2>0 DEF claims
  <2>3. effects' = effects /\ verdicts' = verdicts
    BY <1>3, <1>4, <1>7
  <2>4. Contract!Claim(id, next)
    BY <2>1, <2>2, <2>3 DEF Contract!Claim, claims, verdicts
  <2>5. QED
    BY <2>1, <2>4 DEF Contract!Next, requests
<1>8. CASE /\ SameClaim(id) /\ Exists(rows[id]) /\ Open(id) /\ SameVerdict(id)
           /\ effects[id] = 0 /\ effects'[id] = 1
  <2>1. effects' = [effects EXCEPT ![id] = 1]
    BY <1>0, <1>1, <1>8
  <2>2. Contract!TakeEffect(id)
    BY <1>2, <1>3, <1>5, <1>8, <2>1, VerdictOf DEF Contract!TakeEffect, claims, verdicts
  <2>3. QED
    BY <2>2 DEF Contract!Next
<1>9. CASE /\ SameClaim(id) /\ Open(id) /\ id \in answered' /\ id \notin cancelled'
           /\ effects[id] = 1 /\ effects'[id] = 1
  <2>1. verdicts' = [verdicts EXCEPT ![id] = "confirmed"]
    BY <1>1, <1>9 DEF verdicts
  <2>2. Contract!Confirm(id)
    BY <1>2, <1>4, <1>9, <2>1, VerdictOf DEF Contract!Confirm, claims, verdicts
  <2>3. QED
    BY <2>2 DEF Contract!Next
<1>10. CASE /\ SameClaim(id) /\ Exists(rows[id]) /\ Open(id)
            /\ id \in cancelled' /\ id \notin answered' /\ effects'[id] = effects[id]
  <2>1. verdicts' = [verdicts EXCEPT ![id] = "withdrawn"]
    BY <1>1, <1>10 DEF verdicts
  <2>2. Contract!Withdraw(id)
    BY <1>2, <1>4, <1>5, <1>10, <2>1, VerdictOf DEF Contract!Withdraw, claims, verdicts
  <2>3. QED
    BY <2>2 DEF Contract!Next
<1>11. QED
  BY <1>6, <1>7, <1>8, <1>9, <1>10 DEF Promise

LEMMA ContractStep ==
  ASSUME OneProcess
  PROVE  TypeInv /\ PermitHeld /\ Settled /\ [Next]_vars
           => [Contract!Next]_(Contract!contractVars)
<1> SUFFICES ASSUME TypeInv, PermitHeld, Settled, [Next]_vars
             PROVE  [Contract!Next]_(Contract!contractVars)
  OBVIOUS
<1>1. TypeInv' /\ Settled'
  BY StepTypeInv, SettledStep
<1>2. CASE Background
  <2>1. UNCHANGED <<effects, answered, cancelled>>
    BY <1>2 DEF Background, history
  <2>2. \A id \in AllIds : SameClaim(id)
    BY <1>2, BackgroundKeeps
  <2>3. claims' = claims /\ verdicts' = verdicts
    BY <2>1, <2>2 DEF claims, verdicts, SameClaim
  <2>4. QED
    BY <2>1, <2>3 DEF Contract!contractVars, claims, verdicts
<1>3. ASSUME NEW c \in Callers, NEW id \in AllIds, Touches(c, id)
      PROVE  [Contract!Next]_(Contract!contractVars)
  BY <1>1, <1>3, PromiseIsAStep DEF Touches
<1>4. QED
  BY <1>2, <1>3, StepKinds

LEMMA ContractInit == Init => Contract!Init
  BY DEF Init, Contract!Init, Absent, Exists

\* One claim per id, at most one effect, Ok answers that stand for it and
\* cancellations that stay: whatever calls, crashes, repairs and resolutions
\* there are, the journal of one process implements its contract.
THEOREM JournalImplementsContract == OneProcess => (Spec => ImplementsContract)
<1> SUFFICES ASSUME OneProcess PROVE Spec => Contract!Spec
  BY DEF ImplementsContract
<1>1. QED
  BY ContractInit, ContractStep, SettledAlways, PTL DEF Spec, Contract!Spec
=============================================================================
