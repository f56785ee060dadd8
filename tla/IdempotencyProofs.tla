------------------------- MODULE IdempotencyProofs -------------------------
(***************************************************************************)
(* Proofs about Idempotency, for every set of keys, fingerprints and       *)
(* requests and every TTL and batch size.                                  *)
(***************************************************************************)
EXTENDS Idempotency, TLAPS

Assumptions ==
  /\ TTL \in Nat /\ TTL > 0
  /\ Nil \notin Keys /\ Nil \notin Fingerprints /\ Nil \notin Responses

\* The constants' assumptions in the form the steps below use.
LEMMA ConstantFacts == Assumptions
  BY TTLAssumption, NilAssumption DEF Assumptions

\* A request that is being served has a key and a fingerprint.
Busy == \A p \in Reqs : ~At(p, "idle") => req[p].key \in Keys /\ req[p].fp \in Fingerprints

TypeInv == TypeOK /\ Busy

\* What Begin writes is a record.
LEMMA RecordTypes ==
  /\ NoRecord \in Record
  /\ \A f \in Fingerprints, left \in Ticks : NewRecord(f, left) \in Record
  /\ \A r \in Record : AgedRecord(r) \in Record
  /\ IdleReq \in Request
  /\ TTL \in Ticks /\ -1 \in Ticks
  /\ \A left \in Ticks : Older(left) \in Ticks
<1>1. TTL \in Ticks /\ -1 \in Ticks /\ \A left \in Ticks : Older(left) \in Ticks
  BY ConstantFacts DEF Assumptions, Ticks, Older
<1>2. NoRecord \in Record /\ IdleReq \in Request
  BY <1>1 DEF NoRecord, Record, IdleReq, Request
<1>3. \A f \in Fingerprints, left \in Ticks : NewRecord(f, left) \in Record
  BY DEF NewRecord, Record
<1>4. \A r \in Record : AgedRecord(r) \in Record
  BY <1>1, <1>2 DEF AgedRecord, Record
<1>. QED BY <1>1, <1>2, <1>3, <1>4

\* A batch consists of rows that were offered to it.
LEMMA BatchRows == ASSUME NEW rows PROVE \A ks \in Batches(rows) : ks \subseteq rows
  BY DEF Batches, kSubset

\* The empty store is well typed.
LEMMA InitType == Init => TypeInv
  BY RecordTypes DEF Init, TypeInv, TypeOK, Busy, At, IdleReq

\* A "new" answer keeps the types.
LEMMA StartType ==
  ASSUME TypeInv, NEW p \in Reqs, ~At(p, "idle"), NEW left \in Ticks, Start(p, left)
  PROVE  TypeInv'
<1>1. req[p].key \in Keys /\ req[p].fp \in Fingerprints BY DEF TypeInv, Busy
<1>2. NewRecord(req[p].fp, left) \in Record BY <1>1, RecordTypes
<1>3. rec' \in [Keys -> Record] /\ window' \in [Keys -> Ticks] /\ cleaner' \in SUBSET Keys
      /\ store' \in Stores /\ lost' \in SUBSET Keys
  BY <1>1, <1>2 DEF TypeInv, TypeOK, Start
<1>4. req' \in [Reqs -> Request]
  BY RecordTypes, ZenonT(60) DEF TypeInv, TypeOK, Start, Request
<1>5. Busy'
  BY <1>1 DEF TypeInv, TypeOK, Start, Busy, At, Request
<1>. QED BY <1>3, <1>4, <1>5 DEF TypeInv, TypeOK

\* So does any other answer.
LEMMA AnswerType ==
  ASSUME TypeInv, NEW p \in Reqs, NEW resp \in Responses \cup {Nil},
         NEW out \in {"none", "executed", "replay", "conflict", "in_progress", "error"},
         Answer(p, out, resp), UNCHANGED <<store, rec, cleaner, window, lost>>
  PROVE  TypeInv'
<1>1. req' \in [Reqs -> Request]
  BY RecordTypes, ZenonT(60) DEF TypeInv, TypeOK, Answer, Request
<1>2. Busy' BY DEF TypeInv, TypeOK, Answer, Busy, At, Request
<1>. QED BY <1>1, <1>2 DEF TypeInv, TypeOK

\* Every step keeps the types and leaves every request in service with its key.
LEMMA NextType == TypeInv /\ [Next]_vars => TypeInv'
<1> SUFFICES ASSUME TypeInv, [Next]_vars PROVE TypeInv'
  OBVIOUS
<1>0. TypeOK /\ Busy BY DEF TypeInv
<1>1. ASSUME NEW p \in Reqs, BeginRestart(p) PROVE TypeInv'
  BY <1>1, StartType, RecordTypes DEF BeginRestart, At
<1>2. ASSUME NEW p \in Reqs, BeginFresh(p) PROVE TypeInv'
  BY <1>2, StartType, RecordTypes DEF BeginFresh, At
<1>3. ASSUME NEW p \in Reqs, BeginLookup(p) PROVE TypeInv'
  <2>1. req' \in [Reqs -> Request]
    BY <1>0, <1>3, RecordTypes, ZenonT(60) DEF BeginLookup, TypeOK, Request
  <2>2. Busy' BY <1>0, <1>3 DEF BeginLookup, TypeOK, Busy, At, Request
  <2>. QED BY <1>0, <1>3, <2>1, <2>2 DEF BeginLookup, TypeInv, TypeOK
<1>4. ASSUME NEW p \in Reqs, BeginCreate(p) PROVE TypeInv'
  <2>1. req[p].left \in Ticks BY <1>0 DEF TypeOK, Request
  <2>. QED BY <1>4, <2>1, StartType DEF BeginCreate, At
<1>5. ASSUME NEW p \in Reqs, BeginRetry(p) PROVE TypeInv'
  <2>1. req' \in [Reqs -> Request]
    BY <1>0, <1>5, RecordTypes, ZenonT(60) DEF BeginRetry, TypeOK, Request
  <2>2. Busy' BY <1>0, <1>5 DEF BeginRetry, TypeOK, Busy, At, Request
  <2>. QED BY <1>0, <1>5, <2>1, <2>2 DEF BeginRetry, TypeInv, TypeOK
<1>6. ASSUME NEW p \in Reqs, BeginAnswer(p) PROVE TypeInv'
  <2> DEFINE k == req[p].key
             state == BeginResult(k, req[p].fp)
             resp == IF state = "replay" THEN rec[k].resp ELSE Nil
  <2>1. k \in Keys BY <1>0, <1>6 DEF BeginAnswer, Busy, At
  <2>2. rec[k].resp \in Responses \cup {Nil} BY <1>0, <2>1 DEF TypeOK, Record
  <2>3. state \in {"replay", "conflict", "in_progress"} BY DEF BeginResult
  <2>4. Answer(p, state, resp) /\ UNCHANGED <<store, rec, cleaner, window, lost>>
    BY <1>6 DEF BeginAnswer
  <2>. HIDE DEF state, k
  <2>. QED BY <2>2, <2>3, <2>4, AnswerType
<1>7. ASSUME NEW p \in Reqs, Handler(p) PROVE TypeInv'
  <2>1. CASE Answer(p, "error", Nil) BY <1>7, <2>1, AnswerType DEF Handler
  <2>2. ASSUME NEW o \in Outcomes,
               req' = [req EXCEPT ![p] = [@ EXCEPT !.pc = "complete", !.out = "executed",
                                    !.resp = [fp |-> req[p].fp, outcome |-> o]]]
        PROVE TypeInv'
    <3>1. [fp |-> req[p].fp, outcome |-> o] \in Responses
      BY <1>0, <1>7 DEF Handler, At, Busy, Responses
    <3>2. req' \in [Reqs -> Request]
      <4> DEFINE resp == [fp |-> req[p].fp, outcome |-> o]
                 new == [req[p] EXCEPT !.pc = "complete", !.out = "executed", !.resp = resp]
      <4>1. req' = [req EXCEPT ![p] = new] BY <2>2
      <4>2. req[p] \in Request BY <1>0 DEF TypeOK
      <4>3. new \in Request
        <5> HIDE DEF resp
        <5>1. resp \in Responses BY <3>1 DEF resp
        <5>. QED BY <4>2, <5>1 DEF Request
      <4> HIDE DEF new
      <4>. QED BY <1>0, <4>1, <4>3 DEF TypeOK
    <3>3. Busy' BY <1>0, <1>7, <2>2 DEF Handler, TypeOK, Busy, At, Request
    <3>. QED BY <1>0, <1>7, <3>2, <3>3 DEF Handler, TypeInv, TypeOK
  <2>. QED BY <1>7, <2>1, <2>2 DEF Handler
<1>8. ASSUME NEW p \in Reqs, Complete(p) PROVE TypeInv'
  <2>1. req[p].key \in Keys /\ req[p].resp \in Responses \cup {Nil}
    BY <1>0, <1>8 DEF Complete, At, Busy, TypeOK, Request
  <2> DEFINE stored == [rec[req[p].key] EXCEPT !.state = "completed",
                                               !.resp = req[p].resp, !.left = TTL]
  <2>a. stored \in Record BY <1>0, <2>1, RecordTypes DEF TypeOK, Record
  <2>b. rec' \in [Keys -> Record]
    <3>1. rec' = rec \/ rec' = [rec EXCEPT ![req[p].key] = stored] BY <1>8 DEF Complete
    <3>. HIDE DEF stored
    <3>. QED BY <1>0, <2>1, <2>a, <3>1 DEF TypeOK
  <2>2. rec' \in [Keys -> Record] /\ window' \in [Keys -> Ticks]
    BY <1>0, <1>8, <2>1, <2>b, RecordTypes DEF Complete, TypeOK
  <2>3. req' \in [Reqs -> Request] BY <1>0, <1>8 DEF Complete, Goto, TypeOK, Request
  <2>4. Busy' BY <1>0, <1>8 DEF Complete, Goto, TypeOK, Busy, At, Request
  <2>. QED BY <1>0, <1>8, <2>2, <2>3, <2>4 DEF Complete, TypeInv, TypeOK
<1>9. ASSUME NEW p \in Reqs, Fail(p) PROVE TypeInv'
  BY <1>9, AnswerType DEF Fail
<1>10. ASSUME NEW p \in Reqs, NEW k \in Keys, NEW f \in Fingerprints, Arrive(p, k, f)
       PROVE TypeInv'
  <2>1. req' \in [Reqs -> Request]
    BY <1>0, <1>10, RecordTypes DEF Arrive, TypeOK, Request, IdleReq
  <2>2. Busy' BY <1>0, <1>10 DEF Arrive, TypeOK, Busy, At, Request, IdleReq
  <2>. QED BY <1>0, <1>10, <2>1, <2>2 DEF Arrive, TypeInv, TypeOK
<1>11. ASSUME CleanupExpired PROVE TypeInv'
  <2>1. rec' \in [Keys -> Record]
    BY <1>0, <1>11, RecordTypes
    DEF CleanupExpired, CleanupSelect, CleanupDelete, TypeOK
  <2>2. cleaner' \in SUBSET Keys
    BY <1>0, <1>11, BatchRows
    DEF CleanupExpired, CleanupSelect, CleanupDelete, Cleanable, TypeOK
  <2>3. UNCHANGED <<store, req, window>> /\ lost' \in SUBSET Keys
    BY <1>0, <1>11 DEF CleanupExpired, CleanupSelect, CleanupDelete, TypeOK
  <2>. QED BY <1>0, <2>1, <2>2, <2>3 DEF TypeInv, TypeOK, Busy, At
<1>12. CASE Tick
  <2>1. rec' \in [Keys -> Record] /\ window' \in [Keys -> Ticks]
    BY <1>0, <1>12, RecordTypes DEF Tick, TypeOK
  <2>2. req' \in [Reqs -> Request] /\ Busy'
    BY <1>0, <1>12, RecordTypes DEF Tick, TypeOK, Request, Busy, At
  <2>. QED BY <1>0, <1>12, <2>1, <2>2 DEF Tick, TypeInv, TypeOK
<1>13. CASE UNCHANGED vars
  BY <1>13 DEF TypeInv, TypeOK, Busy, At, vars
<1>. QED
  BY <1>1, <1>2, <1>3, <1>4, <1>5, <1>6, <1>7, <1>8, <1>9, <1>10, <1>11, <1>12, <1>13
  DEF Next, Serve, Begin

\* Type correctness holds for every TTL, batch size, store and set of requests.
THEOREM TypeCorrect == Spec => []TypeOK
<1>1. TypeInv => TypeOK BY DEF TypeInv
<1>. QED BY InitType, NextType, <1>1, PTL DEF Spec

-----------------------------------------------------------------------------
(* Replays.  A stored response carries the fingerprint of its record, and  *)
(* so does the response a request is about to store.                       *)

OwnInv ==
  /\ \A k \in Keys : rec[k].state = "completed"
                       => rec[k].resp # Nil /\ rec[k].resp.fp = rec[k].fp
  /\ \A p \in Reqs : At(p, "complete") => req[p].resp # Nil /\ req[p].resp.fp = req[p].fp
  /\ ReplayIsOwn

\* Only the handler's result and a replay touch a request's response, and only
\* Complete, under an equal fingerprint, a record's.
LEMMA NextOwn == TypeInv /\ OwnInv /\ [Next]_vars => OwnInv'
<1> SUFFICES ASSUME TypeInv, OwnInv, [Next]_vars PROVE OwnInv'
  OBVIOUS
<1>0. TypeOK /\ Busy BY DEF TypeInv
<1>a. ASSUME NEW p \in Reqs, NEW left, ~At(p, "idle"), ~At(p, "complete"), Start(p, left)
      PROVE OwnInv'
  BY <1>0, <1>a
  DEF Start, NewRecord, OwnInv, ReplayIsOwn, At, TypeOK, Record, Request, Busy
<1>b. ASSUME NEW p \in Reqs, Answer(p, "error", Nil), UNCHANGED <<store, rec, cleaner, window, lost>>
      PROVE OwnInv'
  BY <1>0, <1>b DEF Answer, OwnInv, ReplayIsOwn, At, TypeOK, Request
<1>1. ASSUME NEW p \in Reqs, BeginRestart(p) \/ BeginFresh(p) \/ BeginCreate(p)
      PROVE OwnInv'
  BY <1>1, <1>a DEF BeginRestart, BeginFresh, BeginCreate, At
<1>2. ASSUME NEW p \in Reqs, BeginLookup(p) \/ BeginRetry(p) PROVE OwnInv'
  <2>1. \A q \in Reqs : /\ req'[q].out = req[q].out /\ req'[q].resp = req[q].resp
                        /\ req'[q].fp = req[q].fp
                        /\ req'[q].pc = "complete" => req[q].pc = "complete"
    <3> TAKE q \in Reqs
    <3>1. req[q] \in Request /\ req[p] \in Request BY <1>0 DEF TypeOK
    <3>2. CASE q = p
      <4>1. CASE BeginLookup(p) BY <1>0, <4>1, <3>1, <3>2 DEF BeginLookup, TypeOK, Request
      <4>2. CASE BeginRetry(p) BY <1>0, <4>2, <3>1, <3>2 DEF BeginRetry, TypeOK, Request
      <4>. QED BY <1>2, <4>1, <4>2
    <3>3. CASE q # p BY <1>0, <1>2, <3>3 DEF BeginLookup, BeginRetry, TypeOK
    <3>. QED BY <3>2, <3>3
  <2>2. rec' = rec BY <1>2 DEF BeginLookup, BeginRetry
  <2>3. ReplayIsOwn' BY <2>1 DEF OwnInv, ReplayIsOwn, At
  <2>4. \A q \in Reqs : At(q, "complete")' => req'[q].resp # Nil /\ req'[q].resp.fp = req'[q].fp
    BY <2>1 DEF OwnInv, At, ReplayIsOwn
  <2>. QED BY <2>2, <2>3, <2>4 DEF OwnInv
<1>3. ASSUME NEW p \in Reqs, BeginAnswer(p) PROVE OwnInv'
  <2>1. req[p].key \in Keys BY <1>0, <1>3 DEF BeginAnswer, Busy, At
  <2>2. BeginResult(req[p].key, req[p].fp) = "replay"
          => rec[req[p].key].state = "completed" /\ rec[req[p].key].fp = req[p].fp
    BY DEF BeginResult
  <2>. QED
    BY <1>0, <1>3, <2>1, <2>2
    DEF BeginAnswer, Answer, OwnInv, ReplayIsOwn, At, TypeOK, Request
<1>4. ASSUME NEW p \in Reqs, Handler(p) PROVE OwnInv'
  <2>1. CASE Answer(p, "error", Nil) BY <1>4, <2>1, <1>b DEF Handler
  <2>2. ASSUME NEW o \in Outcomes,
               req' = [req EXCEPT ![p] = [@ EXCEPT !.pc = "complete", !.out = "executed",
                                    !.resp = [fp |-> req[p].fp, outcome |-> o]]]
        PROVE OwnInv'
    <3>1. /\ req'[p].out = "executed" /\ req'[p].fp = req[p].fp
          /\ req'[p].resp = [fp |-> req[p].fp, outcome |-> o]
      BY <1>0, <2>2 DEF TypeOK, Request
    <3>2. \A q \in Reqs \ {p} : req'[q] = req[q] BY <1>0, <2>2 DEF TypeOK
    <3>3. req'[p].resp # Nil
      <4>1. req[p].fp \in Fingerprints BY <1>0, <1>4 DEF Handler, At, Busy
      <4>2. req'[p].resp \in Responses BY <3>1, <4>1 DEF Responses
      <4>. QED BY <4>2, ConstantFacts DEF Assumptions
    <3>4. rec' = rec BY <1>4 DEF Handler
    <3>. QED BY <3>1, <3>2, <3>3, <3>4 DEF OwnInv, ReplayIsOwn, At
  <2>. QED BY <1>4, <2>1, <2>2 DEF Handler
<1>5. ASSUME NEW p \in Reqs, Complete(p) PROVE OwnInv'
  <2>1. \A k \in Keys : rec'[k].state = "completed"
                           => rec'[k].resp # Nil /\ rec'[k].resp.fp = rec'[k].fp
    <3>1. CASE rec' = rec BY <3>1 DEF OwnInv
    <3>2. CASE /\ rec' = [rec EXCEPT ![req[p].key] = [@ EXCEPT !.state = "completed",
                                          !.resp = req[p].resp, !.left = TTL]]
               /\ rec[req[p].key].fp = req[p].fp
      <4>1. req[p].key \in Keys /\ rec[req[p].key] \in Record
        BY <1>0, <1>5 DEF Complete, At, Busy, TypeOK
      <4>2. /\ rec'[req[p].key].resp = req[p].resp
            /\ rec'[req[p].key].fp = req[p].fp
        BY <1>0, <3>2, <4>1 DEF TypeOK, Record
      <4>3. \A k \in Keys \ {req[p].key} : rec'[k] = rec[k] BY <1>0, <3>2 DEF TypeOK
      <4>4. req[p].resp # Nil /\ req[p].resp.fp = req[p].fp
        BY <1>5 DEF Complete, OwnInv
      <4>. QED BY <4>2, <4>3, <4>4 DEF OwnInv
    <3>. QED BY <1>5, <3>1, <3>2 DEF Complete, Completable
  <2>2. /\ \A q \in Reqs : At(q, "complete")' => req'[q].resp # Nil
                                                   /\ req'[q].resp.fp = req'[q].fp
        /\ ReplayIsOwn'
    BY <1>0, <1>5 DEF Complete, Goto, OwnInv, ReplayIsOwn, At, TypeOK, Request
  <2>. QED BY <2>1, <2>2 DEF OwnInv
<1>6. ASSUME NEW p \in Reqs, Fail(p) PROVE OwnInv'
  BY <1>6, <1>b DEF Fail
<1>7. ASSUME NEW p \in Reqs, NEW k \in Keys, NEW f \in Fingerprints, Arrive(p, k, f)
      PROVE OwnInv'
  BY <1>0, <1>7 DEF Arrive, IdleReq, OwnInv, ReplayIsOwn, At, TypeOK, Request
<1>8. ASSUME CleanupExpired PROVE OwnInv'
  <2>1. \A k \in Keys : rec'[k] = rec[k] \/ rec'[k] = NoRecord
    BY <1>8 DEF CleanupExpired, CleanupSelect, CleanupDelete
  <2>2. req' = req
    BY <1>8 DEF CleanupExpired, CleanupSelect, CleanupDelete
  <2>. QED BY <2>1, <2>2 DEF OwnInv, ReplayIsOwn, At, NoRecord
<1>9. CASE Tick
  <2>1. \A k \in Keys : \/ rec'[k] = NoRecord
                        \/ /\ rec'[k].state = rec[k].state
                           /\ rec'[k].resp = rec[k].resp /\ rec'[k].fp = rec[k].fp
    BY <1>0, <1>9 DEF Tick, AgedRecord, TypeOK, Record
  <2>2. \A p \in Reqs : /\ req'[p].pc = req[p].pc /\ req'[p].out = req[p].out
                        /\ req'[p].resp = req[p].resp /\ req'[p].fp = req[p].fp
    BY <1>0, <1>9 DEF Tick, TypeOK, Request
  <2>. QED BY <2>1, <2>2 DEF OwnInv, ReplayIsOwn, At, NoRecord
<1>10. CASE UNCHANGED vars
  BY <1>10 DEF OwnInv, ReplayIsOwn, At, vars
<1>. QED
  BY <1>1, <1>2, <1>3, <1>4, <1>5, <1>6, <1>7, <1>8, <1>9, <1>10 DEF Next, Serve, Begin

\* No request is ever replayed a response to a request with another fingerprint.
THEOREM ReplayIsOwnHolds == Spec => []ReplayIsOwn
<1>1. Init => OwnInv BY DEF Init, OwnInv, ReplayIsOwn, At, IdleReq, NoRecord
<1>2. OwnInv => ReplayIsOwn BY DEF OwnInv
<1>. QED BY InitType, NextType, NextOwn, <1>1, <1>2, PTL DEF Spec

-----------------------------------------------------------------------------
(* One execution per TTL.  A record is there at least as long as the       *)
(* window it granted, unless the cleanup has taken it away before its time.*)

WindowInv ==
  \A k \in Keys : /\ Missing(k) => window[k] <= 0 \/ k \in lost
                  /\ ~Missing(k) => window[k] <= rec[k].left

\* Every step keeps the record at least as long as its window.
LEMMA NextWindow ==
  ASSUME TypeInv, WindowInv, [Next]_vars PROVE WindowInv'
<1>0. TypeOK /\ Busy BY DEF TypeInv
<1>t. /\ \A k \in Keys : /\ window[k] \in Int /\ window[k] >= -1
                         /\ rec[k].left \in Int /\ rec[k].left >= -1
      /\ Ticks \subseteq Int /\ TTL \in Nat
  BY <1>0, ConstantFacts DEF TypeOK, Record, Ticks, Assumptions
<1>a. ASSUME NEW p \in Reqs, NEW left \in Ticks, ~At(p, "idle"), Start(p, left)
      PROVE WindowInv'
  <2>1. req[p].key \in Keys BY <1>0, <1>a DEF Busy
  <2>. QED
    BY <1>0, <1>t, <1>a, <2>1 DEF Start, NewRecord, WindowInv, Missing, TypeOK
<1>1. ASSUME NEW p \in Reqs, BeginRestart(p) \/ BeginFresh(p) \/ BeginCreate(p)
      PROVE WindowInv'
  <2>1. TTL \in Ticks /\ req[p].left \in Ticks BY <1>0, RecordTypes DEF TypeOK, Request
  <2>. QED BY <1>1, <2>1, <1>a DEF BeginRestart, BeginFresh, BeginCreate, At
<1>2. ASSUME NEW p \in Reqs, Complete(p) PROVE WindowInv'
  <2>1. req[p].key \in Keys BY <1>0, <1>2 DEF Complete, Busy, At
  <2>. QED
    <3>1. CASE UNCHANGED <<rec, window>>
      BY <1>2, <3>1 DEF Complete, WindowInv, Missing
    <3>2. CASE /\ rec' = [rec EXCEPT ![req[p].key] = [@ EXCEPT !.state = "completed",
                                          !.resp = req[p].resp, !.left = TTL]]
               /\ window' = [window EXCEPT ![req[p].key] = TTL]
      <4>1. rec[req[p].key] \in Record BY <1>0, <2>1 DEF TypeOK
      <4>2. rec'[req[p].key].left = TTL /\ rec'[req[p].key].state = "completed"
        BY <1>0, <2>1, <3>2, <4>1 DEF TypeOK, Record
      <4>3. window'[req[p].key] = TTL BY <1>0, <2>1, <3>2 DEF TypeOK
      <4>4. \A k \in Keys \ {req[p].key} : rec'[k] = rec[k] /\ window'[k] = window[k]
        BY <1>0, <3>2 DEF TypeOK
      <4>5. lost' = lost BY <1>2 DEF Complete
      <4>. QED BY <4>2, <4>3, <4>4, <4>5, <1>t DEF WindowInv, Missing
    <3>. QED BY <1>2, <3>1, <3>2 DEF Complete
<1>3. ASSUME CleanupSelect PROVE WindowInv'
  BY <1>3 DEF CleanupSelect, WindowInv, Missing
<1>6. ASSUME CleanupDelete PROVE WindowInv'
  <2>1. ASSUME NEW k \in Keys
        PROVE  /\ Missing(k)' => window'[k] <= 0 \/ k \in lost'
               /\ ~Missing(k)' => window'[k] <= rec'[k].left
    <3>1. window'[k] = window[k] /\ (k \in lost => k \in lost')
      BY <1>6 DEF CleanupDelete
    <3>2. CASE k \in cleaner
      <4>1. rec'[k].state = "none" BY <1>6, <3>2 DEF CleanupDelete, NoRecord
      <4>2. rec[k].left > 0 => k \in lost' BY <1>6, <3>2 DEF CleanupDelete
      <4>3. window[k] <= 0 \/ k \in lost \/ window[k] <= rec[k].left
        BY DEF WindowInv, Missing
      <4>. QED BY <1>t, <3>1, <4>1, <4>2, <4>3 DEF Missing
    <3>3. CASE k \notin cleaner
      <4>1. rec'[k] = rec[k] BY <1>6, <3>3 DEF CleanupDelete
      <4>. QED BY <3>1, <4>1 DEF WindowInv, Missing
    <3>. QED BY <3>2, <3>3
  <2>. QED BY <2>1 DEF WindowInv, Missing
<1>4. CASE Tick
  <2>1. \A k \in Keys : window'[k] = Older(window[k]) /\ rec'[k] = AgedRecord(rec[k])
    BY <1>4 DEF Tick
  <2>2. ASSUME NEW k \in Keys
        PROVE  /\ Missing(k)' => window'[k] <= 0 \/ k \in lost
               /\ ~Missing(k)' => window'[k] <= rec'[k].left
    <3> DEFINE w == window[k]  left == rec[k].left
    <3>0. /\ w \in Int /\ w >= -1 /\ left \in Int /\ left >= -1
          /\ Missing(k) => w <= 0 \/ k \in lost
          /\ ~Missing(k) => w <= left
      BY <1>t DEF WindowInv, Missing
    <3>1. CASE rec[k].state = "none" \/ (store = "redis" /\ rec[k].left = 0)
      <4>0. rec'[k] = NoRecord BY <2>1, <3>1 DEF AgedRecord
      <4>1. Missing(k)' BY <4>0 DEF NoRecord, Missing
      <4>2. w <= 0 \/ k \in lost BY <3>0, <3>1 DEF Missing
      <4>. QED BY <2>1, <3>0, <4>1, <4>2 DEF Older
    <3>2. CASE ~(rec[k].state = "none" \/ (store = "redis" /\ rec[k].left = 0))
      <4>1. rec'[k] = [rec[k] EXCEPT !.left = Older(rec[k].left)] /\ rec[k] \in Record
        BY <1>0, <2>1, <3>2 DEF AgedRecord, TypeOK
      <4>2. rec'[k].state # "none" /\ rec'[k].left = Older(rec[k].left)
        BY <4>1, <3>2 DEF Record
      <4>3. Older(w) <= Older(left) BY <3>0, <3>2 DEF Missing, Older
      <4>. QED BY <2>1, <4>2, <4>3 DEF Missing
    <3>. QED BY <3>1, <3>2
  <2>. QED BY <2>2, <1>4 DEF Tick, WindowInv
<1>5. CASE UNCHANGED <<store, rec, cleaner, window, lost>>
  BY <1>5 DEF WindowInv, Missing
<1>. QED
  BY <1>1, <1>2, <1>3, <1>4, <1>5, <1>6
  DEF Next, Serve, Begin, BeginLookup, BeginRetry, BeginAnswer, Handler, Fail, Arrive, vars,
      CleanupExpired

\* A handler starts only on a record that is missing or out of date.
LEMMA StartsOnce ==
  ASSUME TypeInv, WindowInv, [Next]_vars, NEW p \in Reqs, Starts(p)
  PROVE  window[req[p].key] <= 0 \/ req[p].key \in lost
<1>0. TypeOK /\ Busy BY DEF TypeInv
<1>1. PICK q \in Reqs : BeginRestart(q) \/ BeginFresh(q) \/ BeginCreate(q)
  <2>1. \A q \in Reqs : BeginLookup(q) \/ BeginRetry(q) => ~Starts(p)
    BY <1>0 DEF BeginLookup, BeginRetry, Starts, At, TypeOK, Request
  <2>2. \A q \in Reqs : BeginAnswer(q) \/ Handler(q) \/ Complete(q) \/ Fail(q) => ~Starts(p)
    <3>1. \A q \in Reqs : \A out, resp : Answer(q, out, resp) => ~Starts(p)
      BY <1>0 DEF Answer, Starts, At, TypeOK, Request
    <3>2. \A q \in Reqs : Complete(q) => ~Starts(p)
      BY <1>0 DEF Complete, Goto, Starts, At, TypeOK, Request
    <3>3. \A q \in Reqs : Handler(q) => ~Starts(p)
      <4> SUFFICES ASSUME NEW q \in Reqs, Handler(q) PROVE ~Starts(p) OBVIOUS
      <4>1. CASE Answer(q, "error", Nil) BY <4>1, <3>1
      <4>2. ASSUME NEW o \in Outcomes,
                   req' = [req EXCEPT ![q] = [@ EXCEPT !.pc = "complete", !.out = "executed",
                                        !.resp = [fp |-> req[q].fp, outcome |-> o]]]
            PROVE ~Starts(p)
        BY <1>0, <4>2 DEF Starts, At, TypeOK, Request
      <4>. QED BY <4>1, <4>2 DEF Handler
    <3>. QED BY <3>1, <3>2, <3>3 DEF BeginAnswer, Fail
  <2>3. \A q \in Reqs, k \in Keys, f \in Fingerprints : Arrive(q, k, f) => ~Starts(p)
    BY <1>0 DEF Arrive, IdleReq, Starts, At, TypeOK, Request
  <2>4. CleanupExpired \/ Tick \/ UNCHANGED vars => ~Starts(p)
    BY <1>0 DEF CleanupExpired, CleanupSelect, CleanupDelete, Tick, vars, Starts,
                At, TypeOK, Request
  <2>. QED BY <2>1, <2>2, <2>3, <2>4 DEF Next, Serve, Begin
<1>2. p = q
  BY <1>0, <1>1
  DEF BeginRestart, BeginFresh, BeginCreate, Start, Starts, At, TypeOK, Request
<1>3. req[p].key \in Keys
  BY <1>0, <1>1, <1>2 DEF BeginRestart, BeginFresh, BeginCreate, At, Busy
<1>4. window[req[p].key] \in Int /\ rec[req[p].key].left \in Int
  BY <1>0, <1>3 DEF TypeOK, Record, Ticks
<1>5. Expired(req[p].key) \/ Missing(req[p].key)
  BY <1>1, <1>2 DEF BeginRestart, BeginFresh, BeginCreate
<1>6. /\ Missing(req[p].key) => window[req[p].key] <= 0 \/ req[p].key \in lost
      /\ ~Missing(req[p].key) => window[req[p].key] <= rec[req[p].key].left
  BY <1>3 DEF WindowInv, Missing
<1>. QED BY <1>4, <1>5, <1>6 DEF Expired

\* At most one execution per key and TTL, in both stores and for any number of
\* requests, as long as the cleanup does not delete a live record of the key.
THEOREM OncePerWindowHolds == Spec => OncePerWindow
<1>1. Init => WindowInv
  BY DEF Init, WindowInv, Missing, NoRecord
<1>2. TypeInv /\ WindowInv /\ [Next]_vars => WindowInv'
  BY NextWindow
<1>3. TypeInv /\ WindowInv /\ [Next]_vars
        => [\A p \in Reqs : Starts(p) => window[req[p].key] <= 0 \/ req[p].key \in lost]_vars
  BY StartsOnce, SMTT(30)
<1>. QED BY InitType, NextType, <1>1, <1>2, <1>3, PTL DEF Spec, OncePerWindow

-----------------------------------------------------------------------------
(* Stability of a stored response.                                         *)

\* In the DB store a completed record changes its response only by being reset.
LEMMA ResponseKept ==
  ASSUME store = "db", TypeInv, [Next]_vars, NEW k \in Keys,
         rec[k].state = "completed", rec'[k].state = "completed"
  PROVE  rec'[k].resp = rec[k].resp
<1>0. TypeOK /\ Busy /\ rec[k] \in Record BY DEF TypeInv, TypeOK
<1>a. ASSUME NEW p \in Reqs, NEW left, Start(p, left) PROVE rec'[k] = rec[k]
  <2>1. CASE req[p].key = k
    <3>1. rec'[k] = NewRecord(req[p].fp, left) BY <1>0, <1>a, <2>1 DEF Start, TypeOK
    <3>. QED BY <3>1 DEF NewRecord
  <2>2. CASE req[p].key # k BY <1>0, <1>a, <2>2 DEF Start, TypeOK
  <2>. QED BY <2>1, <2>2
<1>1. ASSUME NEW p \in Reqs, BeginRestart(p) \/ BeginFresh(p) \/ BeginCreate(p)
      PROVE rec'[k] = rec[k]
  BY <1>1, <1>a DEF BeginRestart, BeginFresh, BeginCreate
<1>2. ASSUME NEW p \in Reqs, Complete(p) PROVE rec'[k] = rec[k]
  <2>1. CASE req[p].key = k BY <1>2, <2>1 DEF Complete, Completable
  <2>2. CASE req[p].key # k BY <1>0, <1>2, <2>2 DEF Complete, TypeOK
  <2>. QED BY <2>1, <2>2
<1>3. ASSUME CleanupExpired PROVE rec'[k] = rec[k]
  <2>1. rec'[k] = rec[k] \/ rec'[k] = NoRecord
    BY <1>3 DEF CleanupExpired, CleanupSelect, CleanupDelete
  <2>. QED BY <2>1 DEF NoRecord
<1>4. ASSUME Tick PROVE rec'[k].resp = rec[k].resp
  <2>1. rec'[k] = [rec[k] EXCEPT !.left = Older(rec[k].left)]
    BY <1>4 DEF Tick, AgedRecord
  <2>. QED BY <1>0, <2>1 DEF Record
<1>5. ASSUME rec' = rec PROVE rec'[k].resp = rec[k].resp
  BY <1>5
<1>. QED
  BY <1>1, <1>2, <1>3, <1>4, <1>5
  DEF Next, Serve, Begin, BeginLookup, BeginRetry, BeginAnswer, Handler, Fail, Arrive, vars

\* With the DB store the first stored response wins, also under READ COMMITTED.
THEOREM StableReplayHolds == Spec => StableReplay
<1>1. TypeInv /\ [Next]_vars
        => [\A k \in Keys : store = "db" /\ rec[k].state = "completed" /\ rec'[k].state = "completed"
                              => rec'[k].resp = rec[k].resp]_vars
  BY ResponseKept
<1>. QED BY InitType, NextType, <1>1, PTL DEF Spec, StableReplay
=============================================================================
