-------------------------- MODULE ResultCache_proofs --------------------------
(***************************************************************************)
(* Proofs about ResultCache for any users, statements, windows and bounds:    *)
(* its type invariant, and what a hit may show - the writes of its user, a      *)
(* result inside the window, and one made under rules that are in force.  And     *)
(* about ResultLimits, for rows of any sizes on any pages: what is kept stays;      *)
(* and about SqlText, for texts of any characters and length: their tokens are kept. *)
(***************************************************************************)
EXTENDS ResultCache, ResultLimits, SqlText, Integers, FiniteSetTheorems, WellFoundedInduction, TLAPS

\* A table of rows with the same ids.
LEMMA RowsType ==
  ASSUME NEW s \in Seq(Run), NEW f \in [DOMAIN s -> Run]
  PROVE  f \in Seq(Run) /\ DOMAIN f = DOMAIN s /\ Len(f) = Len(s)
<1>1. Len(s) \in Nat /\ DOMAIN s = 1..Len(s)
  OBVIOUS
<1>2. f \in [1..Len(s) -> Run]
  BY <1>1
<1> QED BY <1>1, <1>2

LEMMA RowAt ==
  ASSUME TypeOK, NEW i \in DOMAIN runs
  PROVE  runs[i] \in Run
BY DEF TypeOK

\* One row is written.
LEMMA WithType ==
  ASSUME TypeOK, NEW i \in DOMAIN runs, NEW r \in Run, With(i, r)
  PROVE  /\ runs' \in Seq(Run) /\ DOMAIN runs' = DOMAIN runs /\ Len(runs') = Len(runs)
         /\ runs'[i] = r /\ \A j \in DOMAIN runs : j # i => runs'[j] = runs[j]
<1>1. runs \in Seq(Run) /\ runs' = [runs EXCEPT ![i] = r]
  BY DEF TypeOK, With
<1>2. runs' \in [DOMAIN runs -> Run]
  BY <1>1, RowAt
<1> QED BY <1>1, <1>2, RowsType

LEMMA NewRunType ==
  ASSUME NEW q \in Request
  PROVE  /\ NewRun(q) \in Run
         /\ NewRun(q).user = q.user /\ NewRun(q).text = q.text /\ NewRun(q).key = q.text
         /\ NewRun(q).place \in {"waiting", "sent"} /\ NewRun(q).status = "Queued"
         /\ NewRun(q).kind = "executed" /\ NewRun(q).source = 0
         /\ NewRun(q).age = 0 /\ NewRun(q).old = 0
         /\ (Unsettled(q.user) => NewRun(q).began = "beside")
<1> DEFINE o == IF Unsettled(q.user) THEN "beside" ELSE "alone"
           p == IF q.cluster = "Running" THEN "sent" ELSE "waiting"
<1>1. o \in {"alone", "beside"} /\ p \in {"waiting", "sent"} /\ (Unsettled(q.user) => o = "beside")
  OBVIOUS
<1>2. NewRun(q) =
        [user |-> q.user, text |-> q.text, key |-> q.text, status |-> "Queued", place |-> p, kind |-> "executed",
         source |-> 0, age |-> 0, old |-> 0, seen |-> 0, under |-> 0,
         began |-> o, promised |-> 0, served |-> 0, allowed |-> 0, floor |-> 0, due |-> 0]
  BY DEF NewRun
<1>3. q.user \in Users /\ q.text \in Texts \union {NoText}
  BY DEF Request
<1> HIDE DEF o, p
<1>4. 0 \in 0..Long
  BY BoundsAssumption
<1> QED BY <1>1, <1>2, <1>3, <1>4 DEF Run

\* What a hit is.
LEMMA HitType ==
  ASSUME TypeOK, NEW q \in Request, NEW i \in DOMAIN runs
  PROVE  /\ Hit(q, i) \in Run
         /\ Hit(q, i).kind = "hit" /\ Hit(q, i).key = NoText /\ Hit(q, i).place = "dead"
         /\ Hit(q, i).source = i /\ Hit(q, i).status = "Finished"
         /\ Hit(q, i).seen = runs[i].seen /\ Hit(q, i).under = runs[i].under
         /\ Hit(q, i).served = runs[i].old /\ Hit(q, i).allowed = q.ttl
         /\ Hit(q, i).floor = wrote[q.user] /\ Hit(q, i).due = flushed /\ Hit(q, i).user = q.user
<1> DEFINE o == IF Unsettled(q.user) THEN "beside" ELSE "alone"
           r == runs[i]
           d == r.old
           w == wrote[q.user]
<1>1. q.user \in Users /\ q.text \in Texts \union {NoText} /\ q.ttl \in 0..Long
  BY DEF Request
<1>2. o \in {"alone", "beside"}
  OBVIOUS
<1>3. d \in 0..Long /\ r.seen \in Nat /\ r.under \in Nat
  BY RowAt DEF Run
<1>4. i \in Nat /\ w \in Nat /\ flushed \in Nat
  BY <1>1, BoundsAssumption DEF TypeOK
<1>5. Hit(q, i) = [user |-> q.user, text |-> q.text, key |-> NoText, status |-> "Finished", place |-> "dead",
        kind |-> "hit", source |-> i, age |-> 0, old |-> d, seen |-> r.seen, under |-> r.under,
        began |-> o, promised |-> 0, served |-> d, allowed |-> q.ttl, floor |-> w, due |-> flushed]
  <2> DEFINE p == IF q.cluster = "Running" THEN "sent" ELSE "waiting"
             n == NewRun(q)
             a == Answered(q, i)
  <2>1. n = [user |-> q.user, text |-> q.text, key |-> q.text, status |-> "Queued", place |-> p, kind |-> "executed",
             source |-> 0, age |-> 0, old |-> 0, seen |-> 0, under |-> 0,
             began |-> o, promised |-> 0, served |-> 0, allowed |-> 0, floor |-> 0, due |-> 0]
    BY DEF NewRun
  <2>2. a = [n EXCEPT !.status = "Finished", !.place = "dead", !.source = i, !.old = d, !.seen = r.seen,
               !.under = r.under, !.served = d, !.allowed = q.ttl, !.floor = w, !.due = flushed]
    BY DEF Answered
  <2>3. Hit(q, i) = [a EXCEPT !.kind = "hit", !.key = NoText]
    BY DEF Hit
  <2> HIDE DEF p, n, a, o, d, r, w
  <2>4. a = [user |-> q.user, text |-> q.text, key |-> q.text, status |-> "Finished", place |-> "dead",
             kind |-> "executed", source |-> i, age |-> 0, old |-> d, seen |-> r.seen, under |-> r.under,
             began |-> o, promised |-> 0, served |-> d, allowed |-> q.ttl, floor |-> w, due |-> flushed]
    BY <2>1, <2>2
  <2> QED BY ZenonT(40), <2>3, <2>4
<1>6. 0 \in 0..Long
  BY BoundsAssumption
<1> HIDE DEF o, r, d, w
<1>7. Hit(q, i) \in Run
  BY <1>1, <1>2, <1>3, <1>4, <1>5, <1>6 DEF Run
<1>8. d = runs[i].old /\ r = runs[i] /\ w = wrote[q.user]
  BY DEF d, r, w
<1> QED BY <1>5, <1>7, <1>8

-----------------------------------------------------------------------------
(* The invariant. *)

Pending == {"waiting", "sent"}

\* What a row is by itself: an executed run's result has the age of the row, it is finished
\* only after Trino carried it out, and only a read has a key; a hit has none.
Sound(r) ==
  /\ r.kind = "hit" => r.key = NoText /\ r.place = "dead"
  /\ r.kind = "executed" => r.source = 0 /\ r.age = r.old
  /\ r.kind = "executed" /\ r.status = "Finished" => r.place = "done"
  /\ r.key # NoText => r.text # NoText
Soundness == \A i \in DOMAIN runs : Sound(runs[i])

\* What may still be served: under rules as new as the last flush, and with the writes of its
\* user, unless it began beside one of them.
Valid(r, f, w) == r.key # NoText /\ r.place = "done" => /\ r.under >= f \/ r.under < r.promised
                                                        /\ r.seen >= w[r.user] \/ r.began = "beside"
Validity == \A i \in DOMAIN runs : Valid(runs[i], flushed, wrote)

\* Whoever has a key while a write of its user is unsettled began beside it.
Beside ==
  \A i, j \in DOMAIN runs :
    runs[j].text = NoText /\ runs[j].place \in Pending /\ runs[j].user = runs[i].user /\ runs[i].key # NoText
      => runs[i].began = "beside"

Behind == \A u \in Users : wrote[u] <= data

\* What a hit shows, with the row it is answered from.
Shows(r, rs) ==
  r.source # 0 => /\ r.source \in DOMAIN rs /\ r.kind = "hit" /\ rs[r.source].place \notin Pending
                  /\ r.served <= r.allowed
                  /\ r.seen >= r.floor \/ rs[r.source].began = "beside"
                  /\ r.under >= r.due \/ rs[r.source].under < rs[r.source].promised
Showing == \A i \in DOMAIN runs : Shows(runs[i], runs)

\* A hit that is found and not inserted yet shows what it will show.
Served(h, rs) == Sound(h) /\ h.key = NoText /\ h.place = "dead" /\ Shows(h, rs)
Foreseen == \A t \in Threads : \A h \in found[t] : Served(h, runs)

\* Only a read looks for a hit.
Looking == \A t \in Threads : \A q \in request[t] : q.looked \/ q.text # NoText

Inv == TypeOK /\ Soundness /\ Validity /\ Beside /\ Behind /\ Showing /\ Foreseen /\ Looking

\* What no step does to a row.
Step(a, b) ==
  /\ b.user = a.user /\ b.text = a.text /\ b.kind = a.kind /\ b.source = a.source /\ b.began = a.began
  /\ b.served = a.served /\ b.allowed = a.allowed /\ b.floor = a.floor /\ b.due = a.due
  /\ a.place \notin Pending =>
       b.place \notin Pending /\ b.seen = a.seen /\ b.under = a.under /\ b.promised = a.promised
  /\ b.key \in {a.key, NoText}

\* A step of which Trino does not hear, or only that the run is over.
Calm(a, b) == b.place \in Pending \union {"done"} => b.place = a.place \/ (a.place \in Pending /\ b.place \in Pending)

LEMMA ShowingKept ==
  ASSUME Inv, DOMAIN runs' = DOMAIN runs, \A j \in DOMAIN runs : Step(runs[j], runs'[j]),
         \A t \in Threads : found'[t] \subseteq found[t]
  PROVE  Showing' /\ Foreseen'
<1>1. ASSUME NEW h, Shows(h, runs) PROVE Shows(h, runs')
  <2> SUFFICES ASSUME h.source # 0 PROVE Shows(h, runs')
    BY DEF Shows
  <2>1. h.source \in DOMAIN runs /\ runs[h.source].place \notin Pending
    BY <1>1 DEF Shows
  <2>2. Step(runs[h.source], runs'[h.source])
    BY <2>1
  <2> QED BY <1>1, <2>1, <2>2 DEF Shows, Step
<1>2. Foreseen'
  BY <1>1 DEF Inv, Foreseen, Served
<1>3. Showing'
  <2> SUFFICES ASSUME NEW j \in DOMAIN runs PROVE Shows(runs'[j], runs')
    BY DEF Showing
  <2>1. Step(runs[j], runs'[j]) /\ Shows(runs[j], runs) /\ Sound(runs[j])
    BY DEF Inv, Showing, Soundness
  <2> SUFFICES ASSUME runs[j].source # 0 PROVE Shows(runs'[j], runs')
    BY <2>1 DEF Shows, Step
  <2>2. Shows(runs[j], runs')
    BY <1>1, <2>1
  <2>3. runs[j].place \notin Pending
    BY <2>1 DEF Shows, Sound, Pending
  <2> QED BY <2>1, <2>2, <2>3 DEF Shows, Step
<1> QED BY <1>2, <1>3

\* A calm step of every row, with nothing else that the invariant is about.
LEMMA CalmStep ==
  ASSUME Inv, DOMAIN runs' = DOMAIN runs, UNCHANGED <<found, data, wrote, flushed>>,
         \A j \in DOMAIN runs : Step(runs[j], runs'[j]) /\ Calm(runs[j], runs'[j]) /\ Sound(runs'[j])
  PROVE  (Soundness /\ Validity /\ Beside /\ Behind /\ Showing /\ Foreseen)'
<1>1. Soundness'
  BY DEF Soundness
<1>2. Validity'
  BY DEF Inv, Validity, Valid, Step, Calm, Pending
<1>3. Beside'
  <2> SUFFICES ASSUME NEW i \in DOMAIN runs, NEW j \in DOMAIN runs,
                      runs'[j].text = NoText, runs'[j].place \in Pending, runs'[j].user = runs'[i].user,
                      runs'[i].key # NoText
               PROVE  runs'[i].began = "beside"
    BY DEF Beside
  <2>1. Step(runs[j], runs'[j]) /\ Calm(runs[j], runs'[j]) /\ Step(runs[i], runs'[i])
    OBVIOUS
  <2>2. /\ runs[j].place \in Pending /\ runs[j].text = NoText /\ runs[j].user = runs[i].user
        /\ runs[i].key # NoText /\ runs'[i].began = runs[i].began
    BY <2>1 DEF Step, Calm
  <2> QED BY <2>2 DEF Inv, Beside
<1>4. Behind'
  BY DEF Inv, Behind
<1>5. Showing' /\ Foreseen'
  BY ShowingKept
<1> QED BY <1>1, <1>2, <1>3, <1>4, <1>5

LEMMA StepRefl ==
  ASSUME NEW a \in Run PROVE Step(a, a) /\ Calm(a, a)
<1>1. Step(a, a)
  BY DEF Step
<1>2. Calm(a, a)
  BY DEF Calm
<1> QED BY <1>1, <1>2

\* A calm step of one row.
LEMMA CalmWrite ==
  ASSUME Inv, NEW i \in DOMAIN runs, NEW r \in Run, With(i, r), UNCHANGED <<found, data, wrote, flushed>>,
         Step(runs[i], r), Calm(runs[i], r), Sound(r)
  PROVE  (Soundness /\ Validity /\ Beside /\ Behind /\ Showing /\ Foreseen)'
<1>1. /\ DOMAIN runs' = DOMAIN runs /\ runs'[i] = r
      /\ \A j \in DOMAIN runs : j # i => runs'[j] = runs[j]
  BY WithType DEF Inv
<1>2. ASSUME NEW j \in DOMAIN runs PROVE Step(runs[j], runs'[j]) /\ Calm(runs[j], runs'[j]) /\ Sound(runs'[j])
  <2>1. CASE j = i
    BY <1>1, <2>1
  <2>2. CASE j # i
    BY <1>1, <2>2, StepRefl, RowAt DEF Inv, Soundness
  <2> QED BY <2>1, <2>2
<1> QED BY <1>1, <1>2, CalmStep

LEMMA InitInv == Init => Inv
<1> SUFFICES ASSUME Init PROVE Inv
  OBVIOUS
<1>1. TypeOK
  <2>2. runs \in Seq(Run) /\ Len(runs) <= MaxRuns
    BY BoundsAssumption DEF Init
  <2>3. request \in [Threads -> SUBSET Request] /\ found \in [Threads -> SUBSET Run] /\ wrote \in [Users -> Nat]
    BY DEF Init
  <2>4. cluster \in {"Running", "Suspended", "Off"} /\ changing \in BOOLEAN
    BY BoundsAssumption DEF Init
  <2>5. data \in Nat /\ rules \in 0..MaxRules /\ enforced \in 0..rules /\ flushed \in 0..rules
    BY BoundsAssumption DEF Init
  <2> QED BY <2>2, <2>3, <2>4, <2>5 DEF TypeOK
<1>2. DOMAIN runs = {}
  BY DEF Init
<1> QED BY <1>1, <1>2 DEF Init, Inv, Soundness, Validity, Beside, Behind, Showing, Foreseen, Looking

LEMMA DispatchInv ==
  ASSUME Inv, NEW i \in DOMAIN runs, Dispatch(i) PROVE Inv'
<1> DEFINE a == runs[i]
           r == [a EXCEPT !.place = "sent"]
<1>1. a \in Run /\ Sound(a) /\ a.place = "waiting" /\ With(i, r)
  BY RowAt DEF Inv, Soundness, Dispatch
<1>2. UNCHANGED <<request, found, cluster, data, rules, enforced, flushed, changing, wrote>>
  BY DEF Dispatch
<1>3. a = runs[i]
  OBVIOUS
<1> HIDE DEF a
<1>4. r \in Run
  BY <1>1 DEF Run
<1>5. Step(a, r) /\ Calm(a, r) /\ Sound(r)
  BY <1>1 DEF Step, Calm, Sound, Pending, Run
<1>6. (Soundness /\ Validity /\ Beside /\ Behind /\ Showing /\ Foreseen)'
  BY <1>1, <1>2, <1>3, <1>4, <1>5, CalmWrite
<1>7. runs' \in Seq(Run) /\ Len(runs') = Len(runs)
  BY <1>1, <1>4, WithType DEF Inv
<1>8. TypeOK'
  BY <1>2, <1>7 DEF Inv, TypeOK
<1> QED BY <1>2, <1>6, <1>8 DEF Inv, Looking

LEMMA DropInv ==
  ASSUME Inv, NEW i \in DOMAIN runs, Drop(i) PROVE Inv'
<1> DEFINE a == runs[i]
           r == [a EXCEPT !.place = "dead"]
<1>1. a \in Run /\ Sound(a) /\ a.place = "sent" /\ With(i, r)
  BY RowAt DEF Inv, Soundness, Drop
<1>2. UNCHANGED <<request, found, cluster, data, rules, enforced, flushed, changing, wrote>>
  BY DEF Drop
<1>3. a = runs[i]
  OBVIOUS
<1> HIDE DEF a
<1>4. r \in Run
  BY <1>1 DEF Run
<1>5. Step(a, r) /\ Calm(a, r) /\ Sound(r)
  BY <1>1 DEF Step, Calm, Sound, Pending, Run
<1>6. (Soundness /\ Validity /\ Beside /\ Behind /\ Showing /\ Foreseen)'
  BY <1>1, <1>2, <1>3, <1>4, <1>5, CalmWrite
<1>7. runs' \in Seq(Run) /\ Len(runs') = Len(runs)
  BY <1>1, <1>4, WithType DEF Inv
<1>8. TypeOK'
  BY <1>2, <1>7 DEF Inv, TypeOK
<1> QED BY <1>2, <1>6, <1>8 DEF Inv, Looking

LEMMA FinishInv ==
  ASSUME Inv, NEW i \in DOMAIN runs, Finish(i) PROVE Inv'
<1> DEFINE a == runs[i]
           r == [a EXCEPT !.status = "Finished", !.age = 0, !.old = 0]
<1>1. a \in Run /\ Sound(a) /\ a.place = "done" /\ With(i, r)
  BY RowAt DEF Inv, Soundness, Finish
<1>2. UNCHANGED <<request, found, cluster, data, rules, enforced, flushed, changing, wrote>>
  BY DEF Finish
<1>3. a = runs[i]
  OBVIOUS
<1> HIDE DEF a
<1>4. r \in Run
  <2>1. 0 \in 0..Long
    BY BoundsAssumption
  <2> QED BY <1>1, <2>1 DEF Run
<1>5. Step(a, r) /\ Calm(a, r) /\ Sound(r)
  BY <1>1 DEF Step, Calm, Sound, Pending, Run
<1>6. (Soundness /\ Validity /\ Beside /\ Behind /\ Showing /\ Foreseen)'
  BY <1>1, <1>2, <1>3, <1>4, <1>5, CalmWrite
<1>7. runs' \in Seq(Run) /\ Len(runs') = Len(runs)
  BY <1>1, <1>4, WithType DEF Inv
<1>8. TypeOK'
  BY <1>2, <1>7 DEF Inv, TypeOK
<1> QED BY <1>2, <1>6, <1>8 DEF Inv, Looking

\* An error or a cancellation.
LEMMA EndedInv ==
  ASSUME Inv, NEW i \in DOMAIN runs, NEW p \in {"waiting", "sent", "done", "dead"},
         With(i, [Ended(runs[i]) EXCEPT !.place = p]),
         p = runs[i].place \/ p = "dead", runs[i].kind = "hit" => p = "dead",
         UNCHANGED <<request, found, cluster, data, rules, enforced, flushed, changing, wrote>>
  PROVE  Inv'
<1> DEFINE a == runs[i]
           r == [[a EXCEPT !.status = "Failed", !.place = IF a.status = "Finished" THEN "dead" ELSE @] EXCEPT !.place = p]
<1>1. a \in Run /\ Sound(a) /\ With(i, r) /\ (p = a.place \/ p = "dead") /\ (a.kind = "hit" => p = "dead")
  BY RowAt DEF Inv, Soundness, Ended
<1>3. a = runs[i]
  OBVIOUS
<1> HIDE DEF a
<1>2. r = [a EXCEPT !.status = "Failed", !.place = p]
  BY <1>1 DEF Run
<1> HIDE DEF r
<1>4. r \in Run
  BY <1>1, <1>2 DEF Run
<1>5. Step(a, r) /\ Calm(a, r) /\ Sound(r)
  BY <1>1, <1>2 DEF Step, Calm, Sound, Pending, Run
<1>6. (Soundness /\ Validity /\ Beside /\ Behind /\ Showing /\ Foreseen)'
  BY <1>1, <1>3, <1>4, <1>5, CalmWrite
<1>7. runs' \in Seq(Run) /\ Len(runs') = Len(runs)
  BY <1>1, <1>3, <1>4, WithType DEF Inv
<1>8. TypeOK'
  BY <1>7 DEF Inv, TypeOK
<1> QED BY <1>6, <1>8 DEF Inv, Looking

LEMMA FailInv ==
  ASSUME Inv, NEW i \in DOMAIN runs, Fail(i) \/ Cancel(i) PROVE Inv'
<1> DEFINE a == runs[i]
           e == Ended(a)
           w == IF e.place = "waiting" THEN "dead" ELSE e.place
<1>1. UNCHANGED <<request, found, cluster, data, rules, enforced, flushed, changing, wrote>>
  BY DEF Fail, Cancel
<1>2. a \in Run /\ Sound(a)
  BY RowAt DEF Inv, Soundness
<1>3. e.place \in {"waiting", "sent", "done", "dead"} /\ (e.place = a.place \/ e.place = "dead")
      /\ (a.kind = "hit" => e.place = "dead") /\ e = [e EXCEPT !.place = e.place]
  BY <1>2 DEF Ended, Run, Sound
<1>4. CASE Fail(i)
  <2>1. With(i, [Ended(runs[i]) EXCEPT !.place = w])
    BY <1>4 DEF Fail
  <2>2. w \in {"waiting", "sent", "done", "dead"} /\ (w = a.place \/ w = "dead") /\ (a.kind = "hit" => w = "dead")
    BY <1>3
  <2> HIDE DEF w, e
  <2> QED BY <1>1, <2>1, <2>2, EndedInv
<1>5. CASE Cancel(i)
  <2>1. With(i, [Ended(runs[i]) EXCEPT !.place = e.place])
    BY <1>3, <1>5 DEF Cancel
  <2> HIDE DEF e
  <2> QED BY <1>1, <1>3, <2>1, EndedInv
<1> QED BY <1>4, <1>5

LEMMA ExecuteInv ==
  ASSUME Inv, NEW i \in DOMAIN runs, Execute(i) PROVE Inv'
<1> DEFINE a == runs[i]
<1>1. a \in Run /\ Sound(a) /\ a.place = "sent"
  BY RowAt DEF Inv, Soundness, Execute
<1>2. UNCHANGED <<request, found, cluster, rules, enforced, flushed, changing>>
  BY DEF Execute
<1>3. enforced \in Nat /\ flushed \in Nat /\ data \in Nat /\ a.user \in Users
  BY <1>1, BoundsAssumption DEF Inv, TypeOK, Run
<1>4. wrote \in [Users -> Nat]
  BY DEF Inv, TypeOK
<1>5. CASE a.text = NoText
  <2> DEFINE r == [a EXCEPT !.place = "done"]
  <2>1. With(i, r) /\ data' = data + 1 /\ wrote' = [wrote EXCEPT ![a.user] = data + 1]
    BY <1>5 DEF Execute
  <2>2. a = runs[i] /\ a.key = NoText
    BY <1>1, <1>5 DEF Sound
  <2> HIDE DEF a
  <2>3. r \in Run /\ Step(a, r) /\ Sound(r) /\ r.place = "done" /\ r.key = NoText
    <3>1. r \in Run
      BY <1>1 DEF Run
    <3>2. Step(a, r) /\ Sound(r) /\ r.place = "done" /\ r.key = NoText
      BY <1>1, <2>2 DEF Step, Sound, Pending, Run
    <3> QED BY <3>1, <3>2
  <2> HIDE DEF r
  <2>4. /\ runs' \in Seq(Run) /\ DOMAIN runs' = DOMAIN runs /\ Len(runs') = Len(runs)
        /\ runs'[i] = r /\ \A j \in DOMAIN runs : j # i => runs'[j] = runs[j]
    BY <2>1, <2>3, WithType DEF Inv
  <2>5. TypeOK'
    <3>1. wrote' \in [Users -> Nat] /\ data' \in Nat
      BY <1>3, <1>4, <2>1
    <3> QED BY <1>2, <2>4, <3>1 DEF Inv, TypeOK
  <2>6. ASSUME NEW j \in DOMAIN runs PROVE Step(runs[j], runs'[j])
    BY <2>2, <2>3, <2>4, StepRefl, RowAt DEF Inv
  <2>7. Showing' /\ Foreseen'
    BY <1>2, <2>4, <2>6, ShowingKept
  <2>8. Soundness'
    BY <2>3, <2>4 DEF Inv, Soundness
  <2>9. Behind'
    BY <1>3, <1>4, <2>1 DEF Inv, Behind
  <2>10. Validity'
    <3> SUFFICES ASSUME NEW j \in DOMAIN runs, j # i PROVE Valid(runs'[j], flushed', wrote')
      BY <2>3, <2>4 DEF Validity, Valid
    <3>1. runs'[j] = runs[j] /\ runs[j] \in Run /\ Valid(runs[j], flushed, wrote)
      BY <2>4, RowAt DEF Inv, Validity
    <3>2. runs[j].user = a.user /\ runs[j].key # NoText => runs[j].began = "beside"
      BY <1>1, <1>5, <2>2 DEF Inv, Beside, Pending
    <3>3. runs[j].user # a.user => wrote'[runs[j].user] = wrote[runs[j].user]
      BY <1>4, <2>1, <3>1 DEF Run
    <3> QED BY <1>2, <3>1, <3>2, <3>3 DEF Valid
  <2>11. Beside'
    BY <2>3, <2>4 DEF Inv, Beside, Pending
  <2> QED BY <1>2, <2>5, <2>7, <2>8, <2>9, <2>10, <2>11 DEF Inv, Looking
<1>6. CASE a.text # NoText
  <2> DEFINE r == [a EXCEPT !.place = "done", !.seen = data, !.under = enforced, !.promised = flushed]
  <2>1. With(i, r) /\ data' = data /\ wrote' = wrote
    BY <1>6 DEF Execute
  <2>2. a = runs[i]
    OBVIOUS
  <2> HIDE DEF a
  <2>3. r \in Run
    BY <1>1, <1>3 DEF Run
  <2>4. /\ Step(a, r) /\ Sound(r) /\ r.place = "done" /\ r.user = a.user
        /\ r.seen = data /\ r.under = enforced /\ r.promised = flushed
    BY <1>1 DEF Step, Sound, Pending, Run
  <2> HIDE DEF r
  <2>5. /\ runs' \in Seq(Run) /\ DOMAIN runs' = DOMAIN runs /\ Len(runs') = Len(runs)
        /\ runs'[i] = r /\ \A j \in DOMAIN runs : j # i => runs'[j] = runs[j]
    BY <2>1, <2>3, WithType DEF Inv
  <2>6. TypeOK'
    BY <1>2, <2>1, <2>5 DEF Inv, TypeOK
  <2>7. ASSUME NEW j \in DOMAIN runs PROVE Step(runs[j], runs'[j])
    BY <2>2, <2>4, <2>5, StepRefl, RowAt DEF Inv
  <2>8. Showing' /\ Foreseen'
    BY <1>2, <2>5, <2>7, ShowingKept
  <2>9. Soundness'
    BY <2>4, <2>5 DEF Inv, Soundness
  <2>10. Behind'
    BY <2>1 DEF Inv, Behind
  <2>11. Validity'
    <3> SUFFICES ASSUME NEW j \in DOMAIN runs PROVE Valid(runs'[j], flushed', wrote')
      BY <2>5 DEF Validity
    <3>1. CASE j # i
      BY <1>2, <2>1, <2>5, <3>1 DEF Inv, Validity, Valid
    <3>2. CASE j = i
      <4>1. wrote[a.user] \in Nat /\ wrote[a.user] <= data
        BY <1>3, <1>4 DEF Inv, Behind
      <4>2. r.under >= flushed \/ r.under < r.promised
        BY <1>3, <2>4
      <4>3. r.seen >= wrote[r.user]
        BY <1>3, <2>4, <4>1
      <4> QED BY <1>2, <2>1, <2>5, <3>2, <4>2, <4>3 DEF Valid
    <3> QED BY <3>1, <3>2
  <2>12. Beside'
    <3> SUFFICES ASSUME NEW k \in DOMAIN runs, NEW j \in DOMAIN runs,
                        runs'[j].text = NoText, runs'[j].place \in Pending, runs'[j].user = runs'[k].user,
                        runs'[k].key # NoText
                 PROVE  runs'[k].began = "beside"
      BY <2>5 DEF Beside
    <3>1. j # i /\ runs'[j] = runs[j]
      BY <2>4, <2>5 DEF Pending
    <3>2. Step(runs[k], runs'[k])
      BY <2>7
    <3> QED BY <3>1, <3>2 DEF Inv, Beside, Step
  <2> QED BY <1>2, <2>6, <2>8, <2>9, <2>10, <2>11, <2>12 DEF Inv, Looking
<1> QED BY <1>5, <1>6

\* Steps that leave the rows alone.
LEMMA RowsStay ==
  ASSUME Inv, UNCHANGED <<runs, wrote, flushed, data>>, \A t \in Threads : found'[t] \subseteq found[t]
  PROVE  (Soundness /\ Validity /\ Beside /\ Behind /\ Showing /\ Foreseen)'
<1>1. UNCHANGED Soundness /\ UNCHANGED Beside /\ UNCHANGED Showing
  BY DEF Soundness, Beside, Showing, Sound, Shows
<1>2. UNCHANGED Validity /\ UNCHANGED Behind
  BY DEF Validity, Behind, Valid
<1>3. Foreseen'
  BY DEF Inv, Foreseen, Served, Shows
<1> QED BY <1>1, <1>2, <1>3 DEF Inv

LEMMA AskInv ==
  ASSUME Inv, NEW t \in Threads, Ask(t) PROVE Inv'
<1>1. PICK q : /\ request' = [request EXCEPT ![t] = {q}]
               /\ q \in Request /\ (q.looked \/ q.text # NoText)
  <2>1. PICK u \in Users, text \in Texts \union {NoText}, ttl \in Ttls, fresh \in BOOLEAN :
          LET looks == text # NoText /\ ttl > 0 /\ ~fresh IN
          request' = [request EXCEPT ![t] = {[user |-> u, text |-> text, ttl |-> IF looks THEN ttl ELSE 0,
                                              cluster |-> cluster, looked |-> ~looks]}]
    BY DEF Ask
  <2>2. PICK looks \in BOOLEAN, n \in 0..Long :
          /\ looks => text # NoText
          /\ request' = [request EXCEPT ![t] = {[user |-> u, text |-> text, ttl |-> n,
                                                 cluster |-> cluster, looked |-> ~looks]}]
    <3>1. (IF text # NoText /\ ttl > 0 /\ ~fresh THEN ttl ELSE 0) \in 0..Long
      BY BoundsAssumption
    <3> QED BY <2>1, <3>1
  <2>3. cluster \in {"Running", "Suspended", "Off"}
    BY DEF Inv, TypeOK
  <2> DEFINE q == [user |-> u, text |-> text, ttl |-> n, cluster |-> cluster, looked |-> ~looks]
  <2>4. q \in Request
    BY <2>2, <2>3 DEF Request
  <2>5. q.looked \/ q.text # NoText
    BY <2>2
  <2>6. request' = [request EXCEPT ![t] = {q}]
    BY <2>2
  <2> QED BY <2>4, <2>5, <2>6
<1>2. UNCHANGED <<runs, found, cluster, data, rules, enforced, flushed, changing, wrote>>
  BY DEF Ask
<1>3. request' \in [Threads -> SUBSET Request]
  BY <1>1 DEF Inv, TypeOK
<1>4. TypeOK'
  BY <1>2, <1>3 DEF Inv, TypeOK
<1>5. Looking'
  BY <1>1 DEF Inv, TypeOK, Looking
<1> QED BY <1>2, <1>4, <1>5, RowsStay DEF Inv

\* Administrators, the coordinator's copy, the setting, the cluster, a crash.
LEMMA OutsideInv ==
  ASSUME Inv, Change \/ Crash \/ Refresh \/ ClusterMoves \/ UNCHANGED vars PROVE Inv'
<1>1. UNCHANGED <<runs, wrote, flushed, data>>
  BY DEF Change, Crash, Refresh, ClusterMoves, vars
<1>2. TypeOK'
  <2>1. CASE Change
    <3>1. rules' \in 0..MaxRules /\ enforced \in 0..rules' /\ flushed \in 0..rules'
      BY <2>1, BoundsAssumption DEF Change, Inv, TypeOK
    <3> QED BY <2>1, <3>1 DEF Change, Inv, TypeOK
  <2>2. CASE Crash
    BY <2>2 DEF Crash, Inv, TypeOK
  <2>3. CASE Refresh
    <3>1. enforced' \in 0..rules
      BY <2>3, BoundsAssumption DEF Refresh, Inv, TypeOK
    <3> QED BY <2>3, <3>1 DEF Refresh, Inv, TypeOK
  <2>5. CASE ClusterMoves
    <3>1. enforced' \in 0..rules /\ cluster' \in {"Running", "Suspended", "Off"}
      BY <2>5, BoundsAssumption DEF ClusterMoves, Inv, TypeOK
    <3> QED BY <2>5, <3>1 DEF ClusterMoves, Inv, TypeOK
  <2>6. CASE UNCHANGED vars
    BY <2>6 DEF vars, Inv, TypeOK
  <2> QED BY <2>1, <2>2, <2>3, <2>5, <2>6
<1>3. \A t \in Threads : found'[t] \subseteq found[t] /\ request'[t] \subseteq request[t]
  BY DEF Change, Crash, Refresh, ClusterMoves, vars
<1> QED BY <1>1, <1>2, <1>3, RowsStay DEF Inv, Looking

\* A step of the whole table.
LEMMA Unkeyed ==
  ASSUME NEW a \in Run, Sound(a)
  PROVE  LET r == [a EXCEPT !.key = NoText] IN
         r \in Run /\ Step(a, r) /\ Calm(a, r) /\ Sound(r) /\ r.key = NoText
<1> DEFINE r == [a EXCEPT !.key = NoText]
<1>1. r \in Run
  BY DEF Run
<1>2. Step(a, r) /\ Calm(a, r)
  BY DEF Step, Calm, Run
<1>3. Sound(r) /\ r.key = NoText
  BY DEF Sound, Run
<1> QED BY <1>1, <1>2, <1>3

LEMMA FlushInv ==
  ASSUME Inv, Flush PROVE Inv'
<1>1. runs' = [i \in DOMAIN runs |-> [runs[i] EXCEPT !.key = NoText]]
  BY DEF Flush
<1>2. /\ flushed' = rules /\ changing' = FALSE
      /\ UNCHANGED <<request, found, cluster, data, rules, enforced, wrote>>
  BY DEF Flush
<1>3. ASSUME NEW j \in DOMAIN runs
      PROVE  runs'[j] \in Run /\ Step(runs[j], runs'[j]) /\ Sound(runs'[j]) /\ runs'[j].key = NoText
  BY <1>1, Unkeyed, RowAt DEF Inv, Soundness
<1>4. runs' \in [DOMAIN runs -> Run]
  BY <1>1, <1>3
<1>5. runs' \in Seq(Run) /\ DOMAIN runs' = DOMAIN runs /\ Len(runs') = Len(runs)
  BY <1>4, RowsType DEF Inv, TypeOK
<1>6. TypeOK'
  <2>1. rules \in 0..rules
    BY BoundsAssumption DEF Inv, TypeOK
  <2> QED BY <1>2, <1>5, <2>1 DEF Inv, TypeOK
<1>7. Showing' /\ Foreseen'
  BY <1>2, <1>3, <1>5, ShowingKept
<1>8. Soundness' /\ Validity' /\ Beside'
  BY <1>3, <1>5 DEF Soundness, Validity, Valid, Beside
<1>9. Behind'
  BY <1>2 DEF Inv, Behind
<1> QED BY <1>2, <1>6, <1>7, <1>8, <1>9 DEF Inv, Looking

LEMMA TimePassesInv ==
  ASSUME Inv, TimePasses PROVE Inv'
<1>1. UNCHANGED <<request, found, cluster, data, rules, enforced, flushed, changing, wrote>>
  BY DEF TimePasses
<1>2. runs' = [i \in DOMAIN runs |-> IF runs[i].key # NoText /\ runs[i].status = "Finished"
                                    THEN [runs[i] EXCEPT !.age = Older(@), !.old = Older(@)] ELSE runs[i]]
  BY DEF TimePasses
<1>3. ASSUME NEW j \in DOMAIN runs
      PROVE  runs'[j] \in Run /\ Step(runs[j], runs'[j]) /\ Calm(runs[j], runs'[j]) /\ Sound(runs'[j])
  <2> DEFINE a == runs[j]
  <2>1. a \in Run /\ Sound(a)
    BY RowAt DEF Inv, Soundness
  <2>2. Step(a, a) /\ Calm(a, a)
    BY <2>1, StepRefl
  <2>3. CASE a.key # NoText /\ a.status = "Finished"
    <3> DEFINE x == Older(a.age)
               y == Older(a.old)
    <3>1. x \in 0..Long /\ y \in 0..Long /\ (a.age = a.old => x = y)
      BY <2>1, BoundsAssumption DEF Older, Run
    <3>2. runs'[j] = [a EXCEPT !.age = x, !.old = y]
      BY <1>2, <2>3
    <3>3. a = runs[j]
      OBVIOUS
    <3> HIDE DEF x, y, a
    <3>4. runs'[j] \in Run
      BY <2>1, <3>1, <3>2 DEF Run
    <3>5. Step(a, runs'[j]) /\ Calm(a, runs'[j])
      BY <2>1, <3>2 DEF Step, Calm, Run
    <3>6. Sound(runs'[j])
      BY <2>1, <3>1, <3>2 DEF Sound, Run
    <3> QED BY <3>3, <3>4, <3>5, <3>6
  <2>4. CASE ~(a.key # NoText /\ a.status = "Finished")
    <3>1. runs'[j] = runs[j]
      BY <1>2, <2>4
    <3> QED BY <2>1, <2>2, <3>1
  <2> QED BY <2>3, <2>4
<1>4. runs' \in [DOMAIN runs -> Run]
  BY <1>2, <1>3
<1>5. runs' \in Seq(Run) /\ DOMAIN runs' = DOMAIN runs /\ Len(runs') = Len(runs)
  BY <1>4, RowsType DEF Inv, TypeOK
<1>6. TypeOK'
  BY <1>1, <1>5 DEF Inv, TypeOK
<1> QED BY <1>1, <1>3, <1>5, <1>6, CalmStep DEF Inv, Looking

\* A row is added.
LEMMA Appended ==
  ASSUME NEW s \in Seq(Run), NEW r \in Run
  PROVE  /\ Append(s, r) \in Seq(Run) /\ Len(Append(s, r)) = Len(s) + 1
         /\ DOMAIN Append(s, r) = DOMAIN s \union {Len(s) + 1} /\ Append(s, r)[Len(s) + 1] = r
         /\ \A j \in DOMAIN s : j # Len(s) + 1 /\ Append(s, r)[j] = s[j]
OBVIOUS

LEMMA AppendHit ==
  ASSUME Inv, NEW h \in Run, runs' = Append(runs, h), UNCHANGED <<data, wrote, flushed>>, Served(h, runs),
         \A t \in Threads : found'[t] \subseteq found[t]
  PROVE  (Soundness /\ Validity /\ Beside /\ Behind /\ Showing /\ Foreseen)'
<1> DEFINE n == Len(runs) + 1
<1>1. /\ DOMAIN runs' = DOMAIN runs \union {n} /\ runs'[n] = h
      /\ \A j \in DOMAIN runs : j # n /\ runs'[j] = runs[j]
  BY Appended DEF Inv, TypeOK
<1> HIDE DEF n
<1>2. Soundness' /\ Validity'
  BY <1>1 DEF Inv, Soundness, Validity, Valid, Served
<1>3. Beside'
  BY <1>1 DEF Inv, Beside, Pending, Served
<1>4. Behind'
  BY DEF Inv, Behind
<1>5. ASSUME NEW r, Shows(r, runs) PROVE Shows(r, runs')
  <2>1. r.source # 0 => r.source \in DOMAIN runs /\ r.source \in DOMAIN runs' /\ runs'[r.source] = runs[r.source]
    BY <1>1, <1>5 DEF Shows
  <2> QED BY <1>5, <2>1 DEF Shows
<1>6. Showing'
  BY <1>1, <1>5 DEF Inv, Showing, Served
<1>7. Foreseen'
  BY <1>5 DEF Inv, Foreseen, Served
<1> QED BY <1>2, <1>3, <1>4, <1>6, <1>7

\* create_query inserts a row that waits or goes to Trino; a write takes the keys of its user.
LEMMA AppendRun ==
  ASSUME Inv, NEW q \in Request, UNCHANGED <<data, wrote, flushed>>,
         \A t \in Threads : found'[t] \subseteq found[t],
         runs' = Expired(q.user, q.text, Append(runs, NewRun(q)))
  PROVE  /\ runs' \in Seq(Run) /\ Len(runs') = Len(runs) + 1
         /\ (Soundness /\ Validity /\ Beside /\ Behind /\ Showing /\ Foreseen)'
<1> DEFINE n == Len(runs) + 1
           u == q.user
           text == q.text
           r == NewRun(q)
           s == Append(runs, r)
<1>1. /\ r \in Run /\ r.user = u /\ r.text = text /\ r.key = text /\ r.place \in Pending /\ r.status = "Queued"
      /\ r.kind = "executed" /\ r.source = 0 /\ r.age = r.old /\ (Unsettled(u) => r.began = "beside")
  BY NewRunType DEF Pending
<1>2. /\ s \in Seq(Run) /\ Len(s) = n /\ DOMAIN s = DOMAIN runs \union {n} /\ s[n] = r
      /\ \A j \in DOMAIN runs : j # n /\ s[j] = runs[j]
  BY <1>1, Appended DEF Inv, TypeOK
<1>3. runs' = Expired(u, text, s)
  OBVIOUS
<1> HIDE DEF r, s, u, text
<1>4. Sound(r) /\ (text = NoText => r.key = NoText)
  BY <1>1 DEF Sound, Pending
<1>5. /\ runs' \in Seq(Run) /\ Len(runs') = n /\ DOMAIN runs' = DOMAIN s
      /\ \A j \in DOMAIN s : runs'[j] = IF text = NoText /\ s[j].user = u THEN [s[j] EXCEPT !.key = NoText] ELSE s[j]
  <2>1. CASE text # NoText
    BY <1>2, <1>3, <2>1 DEF Expired
  <2>2. CASE text = NoText
    <3>1. runs' = [i \in DOMAIN s |-> IF s[i].user = u THEN [s[i] EXCEPT !.key = NoText] ELSE s[i]]
      BY <1>3, <2>2 DEF Expired
    <3>2. ASSUME NEW j \in DOMAIN s PROVE [s[j] EXCEPT !.key = NoText] \in Run /\ s[j] \in Run
      <4>1. PICK a \in Run : a = s[j]
        BY <1>2
      <4>2. [a EXCEPT !.key = NoText] \in Run
        BY DEF Run
      <4> QED BY <4>1, <4>2
    <3>3. runs' \in [DOMAIN s -> Run]
      BY <3>1, <3>2
    <3>4. runs' \in Seq(Run) /\ DOMAIN runs' = DOMAIN s /\ Len(runs') = Len(s)
      BY <1>2, <3>3, RowsType
    <3> QED BY <1>2, <2>2, <3>1, <3>4
  <2> QED BY <2>1, <2>2
<1>6. ASSUME NEW j \in DOMAIN runs
      PROVE  Step(runs[j], runs'[j]) /\ Calm(runs[j], runs'[j]) /\ Sound(runs'[j])
             /\ (text = NoText /\ runs[j].user = u => runs'[j].key = NoText)
  <2>1. runs[j] \in Run /\ Sound(runs[j]) /\ j \in DOMAIN s /\ s[j] = runs[j]
    BY <1>2, RowAt DEF Inv, Soundness
  <2>2. CASE text = NoText /\ runs[j].user = u
    <3>1. runs'[j] = [runs[j] EXCEPT !.key = NoText]
      BY <1>5, <2>1, <2>2
    <3> QED BY <2>1, <3>1, Unkeyed
  <2>3. CASE ~(text = NoText /\ runs[j].user = u)
    BY <1>5, <2>1, <2>3, StepRefl
  <2> QED BY <2>2, <2>3
<1>7. Step(r, runs'[n]) /\ Calm(r, runs'[n]) /\ Sound(runs'[n]) /\ (text = NoText => runs'[n].key = NoText)
  <2>1. CASE text = NoText
    <3>1. runs'[n] = [r EXCEPT !.key = NoText]
      BY <1>1, <1>2, <1>5, <2>1
    <3> QED BY <1>1, <1>4, <3>1, Unkeyed
  <2>2. CASE text # NoText
    BY <1>1, <1>2, <1>4, <1>5, <2>2, StepRefl
  <2> QED BY <2>1, <2>2
<1>8. DOMAIN runs' = DOMAIN runs \union {n}
  BY <1>2, <1>5
<1> HIDE DEF n
<1>9. Soundness'
  BY <1>6, <1>7, <1>8 DEF Soundness
<1>10. runs'[n].place # "done" /\ runs'[n].source = 0 /\ runs'[n].user = u /\ runs'[n].text = text
  BY <1>1, <1>7 DEF Step, Calm, Pending
<1>11. Validity'
  <2> SUFFICES ASSUME NEW j \in DOMAIN runs' PROVE Valid(runs'[j], flushed', wrote')
    BY DEF Validity
  <2>1. CASE j = n
    BY <1>10, <2>1 DEF Valid
  <2>2. CASE j \in DOMAIN runs
    <3>1. Step(runs[j], runs'[j]) /\ Calm(runs[j], runs'[j]) /\ Valid(runs[j], flushed, wrote)
      BY <1>6, <2>2 DEF Inv, Validity
    <3> QED BY <3>1 DEF Valid, Step, Calm, Pending
  <2> QED BY <1>8, <2>1, <2>2
<1>12. Beside'
  <2> SUFFICES ASSUME NEW i \in DOMAIN runs', NEW j \in DOMAIN runs',
                      runs'[j].text = NoText, runs'[j].place \in Pending, runs'[j].user = runs'[i].user,
                      runs'[i].key # NoText
               PROVE  runs'[i].began = "beside"
    BY DEF Beside
  <2>1. CASE i \in DOMAIN runs /\ j \in DOMAIN runs
    <3>1. Step(runs[j], runs'[j]) /\ Calm(runs[j], runs'[j]) /\ Step(runs[i], runs'[i])
      BY <1>6, <2>1
    <3> QED BY <2>1, <3>1 DEF Inv, Beside, Step, Calm, Pending
  <2>2. CASE i \in DOMAIN runs /\ j = n
    <3>1. text = NoText /\ runs'[i].user = u
      BY <1>10, <2>2
    <3>2. runs[i].user = u
      BY <1>6, <2>2, <3>1 DEF Step
    <3> QED BY <1>6, <2>2, <3>1, <3>2
  <2>3. CASE i = n /\ j = n
    BY <1>7, <1>10, <2>3
  <2>4. CASE i = n /\ j \in DOMAIN runs
    <3>1. Step(runs[j], runs'[j]) /\ Calm(runs[j], runs'[j])
      BY <1>6, <2>4
    <3>2. runs[j].user = u /\ runs[j].text = NoText /\ runs[j].place \in Pending
      BY <1>10, <2>4, <3>1 DEF Step, Calm, Pending
    <3>3. Unsettled(u)
      BY <2>4, <3>2 DEF Unsettled, Pending
    <3> QED BY <1>1, <1>7, <2>4, <3>3 DEF Step
  <2> QED BY <1>8, <2>1, <2>2, <2>3, <2>4
<1>13. Behind'
  BY DEF Inv, Behind
<1>14. ASSUME NEW h, Shows(h, runs) PROVE Shows(h, runs')
  <2> SUFFICES ASSUME h.source # 0 PROVE Shows(h, runs')
    BY DEF Shows
  <2>1. h.source \in DOMAIN runs /\ runs[h.source].place \notin Pending
    BY <1>14 DEF Shows
  <2>2. Step(runs[h.source], runs'[h.source]) /\ h.source \in DOMAIN runs'
    BY <1>6, <1>8, <2>1
  <2> QED BY <1>14, <2>1, <2>2 DEF Shows, Step
<1>15. Foreseen'
  BY <1>14 DEF Inv, Foreseen, Served
<1>16. Showing'
  <2> SUFFICES ASSUME NEW j \in DOMAIN runs' PROVE Shows(runs'[j], runs')
    BY DEF Showing
  <2>1. CASE j = n
    BY <1>10, <2>1 DEF Shows
  <2>2. CASE j \in DOMAIN runs
    <3> SUFFICES ASSUME runs'[j].source # 0 PROVE Shows(runs'[j], runs')
      BY DEF Shows
    <3>1. Step(runs[j], runs'[j]) /\ Shows(runs[j], runs) /\ Sound(runs[j])
      BY <1>6, <2>2 DEF Inv, Showing, Soundness
    <3>2. Shows(runs[j], runs') /\ runs[j].source # 0
      BY <1>14, <3>1 DEF Step
    <3>3. runs[j].place \notin Pending
      BY <3>1, <3>2 DEF Shows, Sound, Pending
    <3> QED BY <3>1, <3>2, <3>3 DEF Shows, Step
  <2> QED BY <1>8, <2>1, <2>2
<1> QED BY <1>5, <1>9, <1>11, <1>12, <1>13, <1>15, <1>16 DEF n

\* The lookup finds what may still be served.
LEMMA LookupInv ==
  ASSUME Inv, NEW t \in Threads, Lookup(t) PROVE Inv'
<1>1. PICK q \in request[t] :
        /\ ~q.looked /\ request' = [request EXCEPT ![t] = {[q EXCEPT !.looked = TRUE]}]
        /\ \/ UNCHANGED found
           \/ \E i \in Sources(q) : found' = [found EXCEPT ![t] = {Hit(q, i)}]
  BY DEF Lookup
<1>2. UNCHANGED <<runs, cluster, data, rules, enforced, flushed, changing, wrote>>
  BY DEF Lookup
<1>3. q \in Request /\ q.text # NoText
  BY <1>1 DEF Inv, TypeOK, Looking
<1>4. [q EXCEPT !.looked = TRUE] \in Request /\ [q EXCEPT !.looked = TRUE].looked
  BY <1>3 DEF Request
<1>5. request' \in [Threads -> SUBSET Request] /\ Looking'
  BY <1>1, <1>4 DEF Inv, TypeOK, Looking
<1>6. CASE UNCHANGED found
  <2>1. TypeOK'
    BY <1>2, <1>5, <1>6 DEF Inv, TypeOK
  <2> QED BY <1>2, <1>5, <1>6, <2>1, RowsStay DEF Inv
<1>7. CASE \E i \in Sources(q) : found' = [found EXCEPT ![t] = {Hit(q, i)}]
  <2>1. PICK i \in Sources(q) : found' = [found EXCEPT ![t] = {Hit(q, i)}]
    BY <1>7
  <2>2. /\ i \in DOMAIN runs /\ runs[i].key # NoText /\ runs[i].user = q.user
        /\ runs[i].kind = "executed" /\ runs[i].status = "Finished" /\ runs[i].age <= q.ttl
    BY <1>3, <2>1 DEF Sources
  <2>3. Sound(runs[i]) /\ Valid(runs[i], flushed, wrote) /\ i # 0
    BY <2>2 DEF Inv, Soundness, Validity, TypeOK
  <2>4. PICK h \in Run : /\ h = Hit(q, i) /\ h.kind = "hit" /\ h.key = NoText /\ h.place = "dead" /\ h.source = i
                         /\ h.seen = runs[i].seen /\ h.under = runs[i].under
                         /\ h.served = runs[i].old /\ h.allowed = q.ttl /\ h.floor = wrote[q.user] /\ h.due = flushed
    BY <1>3, <2>2, HitType DEF Inv
  <2>5. Sound(h)
    BY <2>4 DEF Sound
  <2>6. Shows(h, runs)
    BY <2>2, <2>3, <2>4 DEF Shows, Sound, Valid, Pending
  <2>7. found' \in [Threads -> SUBSET Run]
    BY <2>1, <2>4 DEF Inv, TypeOK
  <2>8. \A s \in Threads : \A g \in found'[s] : g = h \/ g \in found[s]
    BY <2>1, <2>4 DEF Inv, TypeOK
  <2>9. Foreseen'
    BY <1>2, <2>4, <2>5, <2>6, <2>8 DEF Inv, Foreseen, Served, Shows
  <2>10. (Soundness /\ Validity /\ Beside /\ Behind /\ Showing)'
    <3>1. UNCHANGED Soundness /\ UNCHANGED Beside /\ UNCHANGED Showing
      BY <1>2 DEF Soundness, Beside, Showing, Sound, Shows
    <3>2. UNCHANGED Validity /\ UNCHANGED Behind
      BY <1>2 DEF Validity, Behind, Valid
    <3> QED BY <3>1, <3>2 DEF Inv
  <2>11. TypeOK'
    BY <1>2, <1>5, <2>7 DEF Inv, TypeOK
  <2> QED BY <1>5, <2>9, <2>10, <2>11 DEF Inv
<1> QED BY <1>1, <1>6, <1>7

\* The transaction, or a refusal.
LEMMA AnswersInv ==
  ASSUME Inv, NEW t \in Threads, Insert(t) \/ Refuse(t) PROVE Inv'
<1>1. Answers(t) /\ UNCHANGED <<cluster, data, rules, enforced, flushed, changing, wrote>>
  BY DEF Insert, Refuse
<1>2. /\ request' \in [Threads -> SUBSET Request] /\ found' \in [Threads -> SUBSET Run]
      /\ \A s \in Threads : found'[s] \subseteq found[s] /\ request'[s] \subseteq request[s]
  BY <1>1 DEF Answers, Inv, TypeOK
<1>3. Looking'
  BY <1>2 DEF Inv, Looking
<1>4. CASE Refuse(t)
  <2>1. UNCHANGED runs
    BY <1>4 DEF Refuse
  <2>2. TypeOK'
    BY <1>1, <1>2, <2>1 DEF Inv, TypeOK
  <2> QED BY <1>1, <1>2, <1>3, <2>1, <2>2, RowsStay DEF Inv
<1>5. CASE Insert(t)
  <2>1. PICK q \in request[t] : \/ \E hit \in found[t] : runs' = Append(runs, hit)
                                \/ runs' = Expired(q.user, q.text, Append(runs, NewRun(q)))
    BY <1>5 DEF Insert
  <2>2. Len(runs) < MaxRuns
    BY <1>5 DEF Insert
  <2>3. CASE \E hit \in found[t] : runs' = Append(runs, hit)
    <3>1. PICK h \in found[t] : runs' = Append(runs, h)
      BY <2>3
    <3>2. h \in Run /\ Served(h, runs)
      BY DEF Inv, TypeOK, Foreseen
    <3>3. (Soundness /\ Validity /\ Beside /\ Behind /\ Showing /\ Foreseen)'
      BY <1>1, <1>2, <3>1, <3>2, AppendHit
    <3>4. runs' \in Seq(Run) /\ Len(runs') <= MaxRuns
      BY <2>2, <3>1, <3>2, BoundsAssumption, Appended DEF Inv, TypeOK
    <3>5. TypeOK'
      BY <1>1, <1>2, <3>4 DEF Inv, TypeOK
    <3> QED BY <1>3, <3>3, <3>5 DEF Inv
  <2>4. CASE runs' = Expired(q.user, q.text, Append(runs, NewRun(q)))
    <3>1. q \in Request
      BY DEF Inv, TypeOK
    <3>2. /\ runs' \in Seq(Run) /\ Len(runs') = Len(runs) + 1
          /\ (Soundness /\ Validity /\ Beside /\ Behind /\ Showing /\ Foreseen)'
      BY <1>1, <1>2, <2>4, <3>1, AppendRun
    <3>3. Len(runs') <= MaxRuns
      BY <2>2, <3>2, BoundsAssumption DEF Inv, TypeOK
    <3>4. TypeOK'
      BY <1>1, <1>2, <3>2, <3>3 DEF Inv, TypeOK
    <3> QED BY <1>3, <3>2, <3>4 DEF Inv
  <2> QED BY <2>1, <2>3, <2>4
<1> QED BY <1>4, <1>5

LEMMA NextInv == Inv /\ [Next]_vars => Inv'
<1> SUFFICES ASSUME Inv, [Next]_vars PROVE Inv'
  OBVIOUS
<1>1. ASSUME NEW t \in Threads, Ask(t) \/ Lookup(t) \/ Insert(t) \/ Refuse(t) PROVE Inv'
  BY <1>1, AskInv, LookupInv, AnswersInv
<1>2. ASSUME NEW i \in DOMAIN runs,
             Dispatch(i) \/ Execute(i) \/ Drop(i) \/ Finish(i) \/ Fail(i) \/ Cancel(i)
      PROVE  Inv'
  BY <1>2, DispatchInv, ExecuteInv, DropInv, FinishInv, FailInv
<1>3. CASE Flush
  BY <1>3, FlushInv
<1>4. CASE TimePasses
  BY <1>4, TimePassesInv
<1>5. CASE Change \/ Crash \/ Refresh \/ ClusterMoves \/ UNCHANGED vars
  BY <1>5, OutsideInv
<1> QED BY <1>1, <1>2, <1>3, <1>4, <1>5 DEF Next

LEMMA AlwaysInv == Spec => []Inv
BY InitInv, NextInv, PTL DEF Spec

\* Rows, requests, answers and the rules stay in their types, and the table in its bound.
THEOREM TypeCorrect == Spec => []TypeOK
<1>1. Inv => TypeOK
  BY DEF Inv
<1> QED BY <1>1, AlwaysInv, PTL

\* A read answered from the cache shows what its user's own writes had done when it looked: a write
\* takes the keys of its user when it is inserted, so whatever has one afterwards began beside it
\* (Beside), also when the write was cancelled while it waited, and whatever had its effect before
\* it has none (Validity).
THEOREM OwnWritesSeenAlways == Spec => []OwnWritesSeen
<1>1. Inv => OwnWritesSeen
  BY DEF Inv, Showing, Shows, OwnWritesSeen, Hits
<1> QED BY <1>1, AlwaysInv, PTL

\* Hits do not extend the life of a result: a hit is never a source, and the age of what is one
\* is that of its result (Soundness).
THEOREM ServedWithinTtlAlways == Spec => []ServedWithinTtl
<1>1. Inv => ServedWithinTtl
  BY DEF Inv, Showing, Shows, ServedWithinTtl, Hits
<1> QED BY <1>1, AlwaysInv, PTL

\* A flush takes the keys of runs in flight too, so a key that a lookup finds was given under rules
\* as new as the flush, or by a coordinator that had not fetched them (Validity).
THEOREM RulesNotOutlivedAlways == Spec => []RulesNotOutlived
<1>1. Inv => RulesNotOutlived
  BY DEF Inv, Showing, Shows, RulesNotOutlived, Hits
<1> QED BY <1>1, AlwaysInv, PTL

-------------------------------------------------------------------------------
(* ResultLimits: what is kept of the rows. *)

Row == [id : Nat, size : Sizes]

\* Every non-empty set of naturals has a least element.
LessRel == {pair \in Nat \X Nat : pair[1] < pair[2]}

LEMMA LessIsWellFounded == IsWellFoundedOn(LessRel, Nat)
BY NatLessThanWellFounded DEF OpToRel, LessRel

LEMMA LessIs == ASSUME NEW n \in Nat, NEW m \in Nat, n < m PROVE <<n, m>> \in LessRel
BY DEF LessRel

LEMMA LeastElement ==
  ASSUME NEW S, S \subseteq Nat, S # {} PROVE \E m \in S : \A n \in S : m <= n
<1>1. \E m \in S : \A n \in S : ~(<<n, m>> \in LessRel)
  BY LessIsWellFounded, WFMin
<1>2. PICK m \in S : \A n \in S : <<n, m>> \notin LessRel
  BY <1>1
<1>3. ASSUME NEW n \in S PROVE m <= n
  <2>1. n \in Nat /\ m \in Nat
    OBVIOUS
  <2>2. <<n, m>> \notin LessRel
    BY <1>2
  <2>3. ~(n < m)
    BY <2>1, <2>2, LessIs
  <2> QED BY <2>1, <2>3
<1> QED BY <1>3

\* A set that holds 0, and every other number up to N whose predecessor it holds, holds all of them.
LEMMA UpTo ==
  ASSUME NEW N \in Nat, NEW S, 0 \in S, \A n \in 1 .. N : n - 1 \in S => n \in S
  PROVE  0 .. N \subseteq S
<1> DEFINE bad == {n \in 0 .. N : n \notin S}
<1>1. ASSUME bad # {} PROVE FALSE
  <2>1. PICK m \in bad : \A n \in bad : m <= n
    <3>1. bad \subseteq Nat
      OBVIOUS
    <3> HIDE DEF bad
    <3> QED BY <1>1, <3>1, LeastElement
  <2>2. m \in 1 .. N /\ m \notin S
    OBVIOUS
  <2>3. m - 1 \in 0 .. N /\ ~(m <= m - 1)
    BY <2>2
  <2>4. m - 1 \in S
    BY <2>1, <2>3
  <2> QED BY <2>2, <2>4
<1> QED BY <1>1

\* A function that is defined by its value before exists.
Recursions(N, A) == [(1 .. N) \X A -> A]

LEMMA RecursionExists ==
  ASSUME NEW A, NEW base \in A, NEW N \in Nat, NEW g \in Recursions(N, A)
  PROVE  \E f \in [0 .. N -> A] : f[0] = base /\ \A n \in 1 .. N : f[n] = g[<<n, f[n - 1]>>]
<1> DEFINE Begun(k) == {f \in [0 .. k -> A] : f[0] = base /\ \A n \in 1 .. k : f[n] = g[<<n, f[n - 1]>>]}
           good == {k \in 0 .. N : Begun(k) # {}}
<1>0. g \in [(1 .. N) \X A -> A]
  BY DEF Recursions
<1>1. 0 \in good
  <2>1. [n \in 0 .. 0 |-> base] \in Begun(0)
    OBVIOUS
  <2> QED BY <2>1
<1>2. ASSUME NEW m \in 1 .. N, m - 1 \in good PROVE m \in good
  <2>1. PICK f \in Begun(m - 1) : TRUE
    BY <1>2
  <2> DEFINE h == [n \in 0 .. m |-> IF n = m THEN g[<<m, f[m - 1]>>] ELSE f[n]]
  <2>2. m \in Nat /\ m - 1 \in Nat /\ m - 1 \in 0 .. m - 1 /\ 0 \in 0 .. m - 1
    OBVIOUS
  <2>3. f \in [0 .. m - 1 -> A] /\ f[0] = base /\ \A n \in 1 .. m - 1 : f[n] = g[<<n, f[n - 1]>>]
    BY <2>1
  <2>4. <<m, f[m - 1]>> \in (1 .. N) \X A
    BY <2>2, <2>3
  <2>5. \A n \in 0 .. m : n # m => n \in 0 .. m - 1
    OBVIOUS
  <2>6. h \in [0 .. m -> A]
    BY <1>0, <2>3, <2>4, <2>5
  <2>7. \A n \in 1 .. m : h[n] = g[<<n, h[n - 1]>>]
    <3> SUFFICES ASSUME NEW n \in 1 .. m PROVE h[n] = g[<<n, h[n - 1]>>]
      OBVIOUS
    <3>1. n \in 0 .. m /\ n - 1 \in 0 .. m /\ n - 1 # m
      OBVIOUS
    <3>2. h[n - 1] = f[n - 1]
      BY <3>1
    <3>3. CASE n = m
      BY <3>1, <3>2, <3>3
    <3>4. CASE n # m
      <4>1. n \in 1 .. m - 1
        BY <3>4
      <4> QED BY <2>3, <3>1, <3>2, <3>4, <4>1
    <3> QED BY <3>3, <3>4
  <2>8. h[0] = base
    BY <2>2, <2>3
  <2> HIDE DEF h
  <2>9. Begun(m) # {} /\ m \in 0 .. N
    BY <2>6, <2>7, <2>8
  <2> QED BY <2>9
<1> HIDE DEF good
<1>3. N \in good
  <2>1. 0 .. N \subseteq good
    BY <1>1, <1>2, UpTo
  <2> QED BY <2>1
<1>4. PICK f \in Begun(N) : TRUE
  BY <1>3 DEF good
<1> QED BY <1>4

\* The same, where the function is not wanted yet.
Recursed(A, base, N, g) == {f \in [0 .. N -> A] : f[0] = base /\ \A n \in 1 .. N : f[n] = g[<<n, f[n - 1]>>]}

LEMMA RecursedExists ==
  ASSUME NEW A, NEW base \in A, NEW N \in Nat, NEW g \in Recursions(N, A)
  PROVE  Recursed(A, base, N, g) # {}
BY RecursionExists DEF Recursed

LEMMA Limits ==
  /\ Sizes \subseteq Nat
  /\ ShownRows \in Nat /\ DownloadRows \in Nat
  /\ ShownBytes \in Nat /\ ShownBytes >= 2 /\ DownloadBytes \in Nat /\ DownloadBytes >= 2
BY LimitsAssumption

\* The size of a list of rows.
SumOf(f, rows) ==
  f \in [0 .. Len(rows) -> Nat] /\ f[0] = 0 /\ \A n \in 1 .. Len(rows) : f[n] = f[n - 1] + rows[n].size

LEMMA SumIs ==
  ASSUME NEW rows \in Seq(Row)
  PROVE  \E f : SumOf(f, rows) /\ Sum(rows) = f[Len(rows)]
<1> DEFINE N == Len(rows)
           g == [x \in (1 .. N) \X Nat |-> x[2] + rows[x[1]].size]
<1>1. N \in Nat /\ \A n \in 1 .. N : rows[n].size \in Nat
  <2>1. \A n \in 1 .. N : rows[n] \in Row
    OBVIOUS
  <2>2. \A row \in Row : row.size \in Nat
    BY Limits DEF Row
  <2>3. N \in Nat
    OBVIOUS
  <2> HIDE DEF N
  <2> QED BY <2>1, <2>2, <2>3
<1> HIDE DEF N
<1>2. \A x \in (1 .. N) \X Nat : x[2] + rows[x[1]].size \in Nat
  BY <1>1
<1>3. g \in Recursions(N, Nat) /\ \A n \in 1 .. N : \A k \in Nat : g[<<n, k>>] = k + rows[n].size
  BY <1>2 DEF Recursions
<1> HIDE DEF g
<1>4. PICK f \in [0 .. N -> Nat] : f[0] = 0 /\ \A n \in 1 .. N : f[n] = g[<<n, f[n - 1]>>]
  <2> DEFINE A == Nat
  <2>1. g \in Recursions(N, A) /\ 0 \in A
    BY <1>3
  <2> HIDE DEF A
  <2>2. Recursed(A, 0, N, g) # {}
    BY <1>1, <2>1, RecursedExists
  <2>3. PICK f \in Recursed(A, 0, N, g) : TRUE
    BY <2>2
  <2> QED BY <2>3 DEF Recursed, A
<1>5. \A n \in 1 .. N : n - 1 \in 0 .. N /\ n \in 0 .. N /\ n # 0
  BY <1>1
<1>6. \A n \in 1 .. N : f[n] = f[n - 1] + rows[n].size
  BY <1>3, <1>4, <1>5
<1>7. f = [n \in 0 .. N |-> IF n = 0 THEN 0 ELSE f[n - 1] + rows[n].size]
  <2>1. \A n \in 0 .. N : n # 0 => n \in 1 .. N
    BY <1>1
  <2> QED BY <1>4, <1>6, <2>1
<1> DEFINE all == CHOOSE h : h = [n \in 0 .. N |-> IF n = 0 THEN 0 ELSE h[n - 1] + rows[n].size]
<1>8. Sum(rows) = all[N]
  BY DEF Sum, N
<1>9. all = [n \in 0 .. N |-> IF n = 0 THEN 0 ELSE all[n - 1] + rows[n].size]
  BY <1>7
<1> HIDE DEF all
<1>10. all[0] = 0 /\ \A n \in 1 .. N : all[n] = all[n - 1] + rows[n].size
  BY <1>1, <1>5, <1>9
<1> DEFINE good == {n \in 0 .. N : all[n] \in Nat}
<1>11. 0 .. N \subseteq good
  <2>1. 0 \in good
    BY <1>1, <1>10
  <2>2. ASSUME NEW n \in 1 .. N, n - 1 \in good PROVE n \in good
    <3>1. all[n - 1] \in Nat
      BY <2>2
    <3>2. all[n] \in Nat
      <4> HIDE DEF good
      <4>1. all[n] = all[n - 1] + rows[n].size /\ rows[n].size \in Nat
        BY <1>1, <1>10
      <4> QED BY <3>1, <4>1
    <3> QED BY <1>5, <3>2
  <2> HIDE DEF good
  <2> QED BY <1>1, <2>1, <2>2, UpTo
<1>12. all \in [0 .. N -> Nat]
  BY <1>9, <1>11
<1>13. SumOf(all, rows)
  BY <1>10, <1>12 DEF SumOf, N
<1> QED BY <1>8, <1>13 DEF N

LEMMA SumsAgree ==
  ASSUME NEW rows \in Seq(Row), NEW more \in Seq(Row), NEW f, SumOf(f, rows), NEW g, SumOf(g, more),
         Len(rows) <= Len(more), \A i \in 1 .. Len(rows) : more[i] = rows[i]
  PROVE  f[Len(rows)] = g[Len(rows)]
<1> DEFINE N == Len(rows)
           good == {n \in 0 .. N : f[n] = g[n]}
<1>1. N \in Nat /\ Len(more) \in Nat
  OBVIOUS
<1>2. f[0] = g[0]
  BY DEF SumOf
<1>3. ASSUME NEW n \in 1 .. N, n - 1 \in good PROVE n \in good
  <2>1. f[n - 1] = g[n - 1] /\ n \in 0 .. N /\ n \in 1 .. Len(more)
    BY <1>1, <1>3
  <2>2. f[n] = f[n - 1] + rows[n].size /\ g[n] = g[n - 1] + more[n].size
    BY <2>1 DEF SumOf
  <2>3. f[n] = g[n]
    BY <2>1, <2>2
  <2> QED BY <2>1, <2>3
<1>4. 0 .. N \subseteq good
  <2>1. 0 \in good
    BY <1>1, <1>2
  <2> HIDE DEF good, N
  <2> QED BY <1>1, <1>3, <2>1, UpTo
<1>5. N \in 0 .. N
  BY <1>1
<1> QED BY <1>4, <1>5

LEMMA SumMore ==
  ASSUME NEW rows \in Seq(Row), NEW row \in Row
  PROVE  Sum(rows) \in Nat /\ Sum(Append(rows, row)) = Sum(rows) + row.size
<1> DEFINE more == Append(rows, row)
           N == Len(rows)
<1>1. more \in Seq(Row) /\ Len(more) = N + 1 /\ N \in Nat /\ more[N + 1] = row /\ \A i \in 1 .. N : more[i] = rows[i]
  OBVIOUS
<1> HIDE DEF more
<1>2. PICK f : SumOf(f, rows) /\ Sum(rows) = f[N]
  BY SumIs
<1>3. PICK g : SumOf(g, more) /\ Sum(more) = g[N + 1]
  BY <1>1, SumIs
<1>4. f[N] = g[N]
  BY <1>1, <1>2, <1>3, SumsAgree
<1>5. f[N] \in Nat
  <2>1. N \in 0 .. N
    BY <1>1
  <2> QED BY <1>2, <2>1 DEF SumOf
<1>6. g[N + 1] = g[N] + row.size
  <2>1. N + 1 \in 1 .. Len(more) /\ (N + 1) - 1 = N
    BY <1>1
  <2> QED BY <1>1, <1>3, <2>1 DEF SumOf
<1> QED BY <1>2, <1>3, <1>4, <1>5, <1>6 DEF more

LEMMA SumNone == Sum(<<>>) = 0
<1>1. <<>> \in Seq(Row) /\ Len(<<>>) = 0
  OBVIOUS
<1>2. PICK f : SumOf(f, <<>>) /\ Sum(<<>>) = f[0]
  BY <1>1, SumIs
<1> QED BY <1>2 DEF SumOf

LEMMA BytesType ==
  ASSUME NEW rows \in Seq(Row) PROVE Bytes(rows) \in Nat
<1>1. Len(rows) \in Nat /\ (rows # <<>> => Len(rows) >= 1)
  OBVIOUS
<1>2. Sum(rows) \in Nat
  <2>1. PICK f : SumOf(f, rows) /\ Sum(rows) = f[Len(rows)]
    BY SumIs
  <2>2. Len(rows) \in 0 .. Len(rows)
    BY <1>1
  <2> QED BY <2>1, <2>2 DEF SumOf
<1> QED BY <1>1, <1>2 DEF Bytes

\* One row more takes its size, and a comma unless it is the first.
LEMMA BytesMore ==
  ASSUME NEW rows \in Seq(Row), NEW row \in Row
  PROVE  Bytes(rows) \in Nat /\ Bytes(Append(rows, row)) \in Nat /\ Bytes(Append(rows, row)) <= Bytes(rows) + row.size + 1
<1>1. Sum(rows) \in Nat /\ Sum(Append(rows, row)) = Sum(rows) + row.size /\ row.size \in Nat
  BY SumMore, Limits DEF Row
<1>2. Len(rows) \in Nat /\ (rows # <<>> => Len(rows) >= 1) /\ Len(Append(rows, row)) = Len(rows) + 1 /\ Append(rows, row) # <<>>
  <2>1. Len(rows) \in Nat /\ (rows # <<>> => Len(rows) >= 1)
    OBVIOUS
  <2>2. Len(Append(rows, row)) = Len(rows) + 1
    OBVIOUS
  <2>3. Append(rows, row) # <<>>
    BY <2>1, <2>2
  <2> QED BY <2>1, <2>2, <2>3
<1>3. Bytes(Append(rows, row)) = 2 + (Sum(rows) + row.size) + Len(rows)
  BY <1>1, <1>2 DEF Bytes
<1>4. Bytes(rows) \in Nat /\ Bytes(rows) + 1 >= 2 + Sum(rows) + Len(rows)
  BY <1>1, <1>2 DEF Bytes
<1>5. Bytes(Append(rows, row)) \in Nat
  BY <1>1, <1>2, <1>3
<1> QED BY <1>1, <1>2, <1>3, <1>4, <1>5

LEMMA BytesNone == Bytes(<<>>) = 2
BY SumNone DEF Bytes

Lists == [rows : Seq(Row), bytes : Nat, limited : BOOLEAN]

Lacks(list) == IF list.limited = TRUE THEN 1 ELSE 0

AddsTo(list, row, maxRows, maxBytes, new) ==
  /\ new \in Lists
  /\ \/ /\ Len(list.rows) < maxRows /\ list.bytes + row.size + 1 <= maxBytes
        /\ new.rows = Append(list.rows, row) /\ new.bytes = list.bytes + row.size + 1 /\ Lacks(new) = Lacks(list)
     \/ new.rows = list.rows /\ new.bytes = list.bytes /\ Lacks(new) = 1

LEMMA AddIs ==
  ASSUME NEW list \in Lists, NEW row \in Row, NEW maxRows \in Nat, NEW maxBytes \in Nat
  PROVE  AddsTo(list, row, maxRows, maxBytes, Add(list, row, maxRows, maxBytes))
<1> DEFINE new == Add(list, row, maxRows, maxBytes)
<1>1. row.size \in Nat
  BY Limits DEF Row
<1>2. list.rows \in Seq(Row) /\ list.bytes \in Nat /\ list.limited \in BOOLEAN
      /\ list = [rows |-> list.rows, bytes |-> list.bytes, limited |-> list.limited]
  BY DEF Lists
<1>3. CASE Len(list.rows) < maxRows /\ list.bytes + row.size + 1 <= maxBytes
  <2>1. new = [rows |-> Append(list.rows, row), bytes |-> list.bytes + row.size + 1, limited |-> list.limited]
    BY <1>2, <1>3 DEF Add
  <2>2. Append(list.rows, row) \in Seq(Row) /\ list.bytes + row.size + 1 \in Nat
    BY <1>1, <1>2
  <2> HIDE DEF new
  <2>3. new \in Lists
    BY <1>2, <2>1, <2>2 DEF Lists
  <2>4. new.rows = Append(list.rows, row) /\ new.bytes = list.bytes + row.size + 1 /\ Lacks(new) = Lacks(list)
    BY <2>1 DEF Lacks
  <2>5. AddsTo(list, row, maxRows, maxBytes, new)
    BY <1>3, <2>3, <2>4 DEF AddsTo
  <2> QED BY <2>5 DEF new
<1>4. CASE ~(Len(list.rows) < maxRows /\ list.bytes + row.size + 1 <= maxBytes)
  <2>1. new = [rows |-> list.rows, bytes |-> list.bytes, limited |-> TRUE]
    BY <1>2, <1>4 DEF Add
  <2> HIDE DEF new
  <2>2. new \in Lists
    BY <1>2, <2>1 DEF Lists
  <2>3. new.rows = list.rows /\ new.bytes = list.bytes /\ Lacks(new) = 1
    BY <2>1 DEF Lacks
  <2>4. AddsTo(list, row, maxRows, maxBytes, new)
    BY <2>2, <2>3 DEF AddsTo
  <2> QED BY <2>4 DEF new
<1> QED BY <1>3, <1>4

\* What a response makes of one list: where its rows come from (the rows of the run so far, of which the first "known"
\* came before), and that the limits hold.
Loop(all, existing, maxRows, maxBytes, list, n) ==
  /\ list \in Lists
  /\ Len(list.rows) <= maxRows /\ list.bytes <= maxBytes /\ Bytes(list.rows) <= list.bytes
  /\ Len(existing) <= Len(list.rows) /\ \A i \in 1 .. Len(existing) : list.rows[i] = existing[i]
  /\ \A i, j \in DOMAIN list.rows : i < j => list.rows[i].id < list.rows[j].id
  /\ \A i \in DOMAIN list.rows : list.rows[i].id \in 1 .. n /\ list.rows[i] = all[list.rows[i].id]
  /\ Len(list.rows) <= n /\ (Lacks(list) = 1 => Len(list.rows) < n)

LEMMA LoopStep ==
  ASSUME NEW all \in Seq(Row), \A i \in DOMAIN all : all[i].id = i,
         NEW existing \in Seq(Row), NEW maxRows \in Nat, NEW maxBytes \in Nat,
         NEW list, NEW n \in Nat, n + 1 <= Len(all), Loop(all, existing, maxRows, maxBytes, list, n)
  PROVE  Loop(all, existing, maxRows, maxBytes, Add(list, all[n + 1], maxRows, maxBytes), n + 1)
<1> DEFINE row == all[n + 1]
<1> SUFFICES Loop(all, existing, maxRows, maxBytes, Add(list, row, maxRows, maxBytes), n + 1)
  OBVIOUS
<1>1. row \in Row /\ row.id = n + 1 /\ row.size \in Nat
  <2>1. n + 1 \in DOMAIN all
    OBVIOUS
  <2>2. row \in Row /\ row.id = n + 1
    BY <2>1
  <2> HIDE DEF row
  <2> QED BY <2>2, Limits DEF Row
<1>2. list \in Lists /\ list.rows \in Seq(Row) /\ list.bytes \in Nat
  BY DEF Loop, Lists
<1> DEFINE new == Add(list, row, maxRows, maxBytes)
<1> SUFFICES Loop(all, existing, maxRows, maxBytes, new, n + 1)
  OBVIOUS
<1>3. /\ new \in Lists
      /\ \/ /\ Len(list.rows) < maxRows /\ list.bytes + row.size + 1 <= maxBytes
            /\ new.rows = Append(list.rows, row) /\ new.bytes = list.bytes + row.size + 1 /\ Lacks(new) = Lacks(list)
         \/ new.rows = list.rows /\ new.bytes = list.bytes /\ Lacks(new) = 1
  <2>1. AddsTo(list, row, maxRows, maxBytes, new)
    <3> HIDE DEF row
    <3> QED BY <1>1, <1>2, AddIs
  <2> HIDE DEF new, row
  <2> QED BY <2>1 DEF AddsTo
<1>4. \A i \in 1 .. n : i \in 1 .. n + 1
  OBVIOUS
<1> HIDE DEF new, row
<1>5. CASE new.rows = list.rows /\ new.bytes = list.bytes /\ Lacks(new) = 1
  BY <1>2, <1>3, <1>4, <1>5 DEF Loop
<1>6. CASE /\ Len(list.rows) < maxRows /\ list.bytes + row.size + 1 <= maxBytes
           /\ new.rows = Append(list.rows, row) /\ new.bytes = list.bytes + row.size + 1 /\ Lacks(new) = Lacks(list)
  <2> DEFINE old == list.rows
             rows == new.rows
             m == Len(old)
  <2>1. old \in Seq(Row) /\ m \in Nat /\ rows = Append(old, row)
    BY <1>2, <1>6
  <2>2. /\ Len(old) <= n /\ (Lacks(list) = 1 => Len(old) < n)
        /\ Bytes(old) <= list.bytes
        /\ Len(existing) <= Len(old) /\ \A i \in 1 .. Len(existing) : old[i] = existing[i]
        /\ \A i, j \in DOMAIN old : i < j => old[i].id < old[j].id
        /\ \A i \in DOMAIN old : old[i].id \in 1 .. n /\ old[i] = all[old[i].id]
    BY DEF Loop
  <2> HIDE DEF old, rows
  <2>3. /\ Len(rows) = m + 1 /\ DOMAIN rows = 1 .. m + 1 /\ DOMAIN old = 1 .. m /\ rows[m + 1] = row
        /\ \A i \in 1 .. m : rows[i] = old[i]
    BY <1>1, <2>1
  <2>4. Bytes(rows) <= new.bytes /\ new.bytes <= maxBytes
    <3>1. Bytes(old) \in Nat /\ Bytes(rows) \in Nat /\ Bytes(rows) <= Bytes(old) + row.size + 1
      BY <1>1, <2>1, BytesMore
    <3> QED BY SMTT(30), <1>1, <1>2, <1>6, <2>2, <3>1
  <2>5. Len(rows) <= maxRows /\ Len(rows) <= n + 1 /\ Len(existing) <= Len(rows)
    BY <1>6, <2>1, <2>2, <2>3 DEF old
  <2>6. Lacks(new) = 1 => Len(rows) < n + 1
    <3>1. Lacks(new) = Lacks(list)
      BY <1>6
    <3>2. Lacks(list) = 1 => Len(rows) < n + 1
      BY <2>1, <2>2, <2>3
    <3> QED BY <3>1, <3>2
  <2>7. \A i \in 1 .. Len(existing) : rows[i] = existing[i]
    <3>1. \A i \in 1 .. Len(existing) : i \in 1 .. m
      BY <2>1, <2>2
    <3> QED BY <2>2, <2>3, <3>1
  <2>8. ASSUME NEW i \in DOMAIN rows PROVE rows[i].id \in 1 .. n + 1 /\ rows[i] = all[rows[i].id]
    <3>1. CASE i = m + 1
      BY <1>1, <2>3, <3>1 DEF row
    <3>2. CASE i # m + 1
      <4>1. i \in 1 .. m
        BY <2>1, <2>3, <3>2
      <4> QED BY <1>4, <2>2, <2>3, <4>1
    <3> QED BY <3>1, <3>2
  <2>9. ASSUME NEW i \in DOMAIN rows, NEW j \in DOMAIN rows, i < j PROVE rows[i].id < rows[j].id
    <3>1. i \in 1 .. m
      BY <2>1, <2>3, <2>9
    <3>2. CASE j = m + 1
      <4>1. rows[i].id \in 1 .. n
        BY <2>2, <2>3, <3>1
      <4>2. rows[j].id = n + 1
        BY <1>1, <2>3, <3>2
      <4> QED BY <4>1, <4>2
    <3>3. CASE j # m + 1
      <4>1. j \in 1 .. m
        BY <2>1, <2>3, <3>3
      <4> QED BY <2>2, <2>3, <2>9, <3>1, <4>1
    <3> QED BY <3>2, <3>3
  <2> HIDE DEF m
  <2> QED BY <1>3, <2>4, <2>5, <2>6, <2>7, <2>8, <2>9 DEF Loop, rows
<1> QED BY <1>3, <1>5, <1>6

\* A list that a response may find: rows of the first n of the run, within the limits.
ListOf(all, rows, maxRows, maxBytes, n) ==
  /\ rows \in Seq(Row) /\ Len(rows) <= maxRows /\ Bytes(rows) <= maxBytes
  /\ \A i, j \in DOMAIN rows : i < j => rows[i].id < rows[j].id
  /\ \A i \in DOMAIN rows : rows[i].id \in 1 .. n /\ rows[i] = all[rows[i].id]
  /\ Len(rows) <= n

\* The list so far is kept whole.
LEMMA StartIs ==
  ASSUME NEW all, NEW existing, NEW n \in Nat, NEW maxRows \in Nat, NEW maxBytes \in Nat,
         ListOf(all, existing, maxRows, maxBytes, n)
  PROVE  Loop(all, existing, maxRows, maxBytes, Start(existing, maxRows, maxBytes), n)
<1> DEFINE start == Start(existing, maxRows, maxBytes)
           size == Bytes(existing)
<1>1. existing \in Seq(Row) /\ Len(existing) <= maxRows /\ size <= maxBytes /\ Len(existing) \in Nat
  BY DEF ListOf
<1>2. size \in Nat
  BY <1>1, BytesType
<1>3. SubSeq(existing, 1, IF Len(existing) < maxRows THEN Len(existing) ELSE maxRows) = existing
  <2>1. (IF Len(existing) < maxRows THEN Len(existing) ELSE maxRows) = Len(existing)
    BY <1>1
  <2>2. SubSeq(existing, 1, Len(existing)) = existing
    BY <1>1
  <2> QED BY <2>1, <2>2
<1> HIDE DEF size
<1>4. start = [rows |-> existing, bytes |-> size, limited |-> FALSE]
  <2>1. ~(size > maxBytes) /\ (Len(existing) > Len(existing)) = FALSE
    BY <1>1, <1>2
  <2> QED BY <1>3, <2>1 DEF Start, size
<1> HIDE DEF start
<1>5. start \in Lists /\ start.rows = existing /\ start.bytes = size /\ Lacks(start) = 0
  BY <1>1, <1>2, <1>4 DEF Lists, Lacks
<1>6. Bytes(start.rows) <= start.bytes
  BY <1>2, <1>5 DEF size
<1>7. Loop(all, existing, maxRows, maxBytes, start, n)
  BY <1>1, <1>5, <1>6 DEF Loop, ListOf
<1> QED BY <1>7 DEF start

\* The rows of a response are added one after the other.
Responds(existing, incoming, maxRows, maxBytes) ==
  \E f : /\ f[0] = Start(existing, maxRows, maxBytes)
         /\ \A n \in 1 .. Len(incoming) : f[n] = Add(f[n - 1], incoming[n], maxRows, maxBytes)
         /\ RowsWithLimits(existing, incoming, maxRows, maxBytes) = f[Len(incoming)]

LEMMA RowsWithLimitsIs ==
  ASSUME NEW existing, NEW incoming \in Seq(Row), NEW maxRows \in Nat, NEW maxBytes \in Nat,
         Start(existing, maxRows, maxBytes) \in Lists
  PROVE  Responds(existing, incoming, maxRows, maxBytes)
<1> DEFINE N == Len(incoming)
           start == Start(existing, maxRows, maxBytes)
           Plus(list, n) == Add(list, incoming[n], maxRows, maxBytes)
           g == [x \in (1 .. N) \X Lists |-> Plus(x[2], x[1])]
<1>1. N \in Nat /\ \A n \in 1 .. N : incoming[n] \in Row
  OBVIOUS
<1>2. \A n \in 1 .. N : \A list \in Lists : Plus(list, n) \in Lists
  <2> SUFFICES ASSUME NEW n \in 1 .. N, NEW list \in Lists PROVE Plus(list, n) \in Lists
    OBVIOUS
  <2>1. incoming[n] \in Row
    BY <1>1
  <2>2. AddsTo(list, incoming[n], maxRows, maxBytes, Plus(list, n))
    BY <2>1, AddIs
  <2> HIDE DEF Plus
  <2> QED BY <2>2 DEF AddsTo
<1> HIDE DEF N, start, Plus
<1>3. \A x \in (1 .. N) \X Lists : Plus(x[2], x[1]) \in Lists
  BY <1>2
<1>4. g \in Recursions(N, Lists)
  BY <1>3 DEF Recursions
<1>5. \A n \in 1 .. N : \A list \in Lists : g[<<n, list>>] = Plus(list, n)
  OBVIOUS
<1>6. start \in Lists
  BY DEF start
<1> HIDE DEF g
<1>7. PICK f \in [0 .. N -> Lists] : f[0] = start /\ \A n \in 1 .. N : f[n] = g[<<n, f[n - 1]>>]
  BY <1>1, <1>4, <1>6, RecursionExists
<1>8. \A n \in 1 .. N : n - 1 \in 0 .. N /\ n \in 0 .. N /\ n # 0
  BY <1>1
<1>9. \A n \in 1 .. N : f[n] = Plus(f[n - 1], n)
  BY <1>5, <1>7, <1>8
<1>10. f = [n \in 0 .. N |-> IF n = 0 THEN start ELSE Plus(f[n - 1], n)]
  <2>1. \A n \in 0 .. N : n # 0 => n \in 1 .. N
    BY <1>1
  <2> QED BY <1>7, <1>9, <2>1
<1> DEFINE all == CHOOSE h : h = [n \in 0 .. N |-> IF n = 0 THEN start ELSE Plus(h[n - 1], n)]
<1>11. all = [n \in 0 .. N |-> IF n = 0 THEN start ELSE Plus(all[n - 1], n)]
  BY <1>10
<1>12. RowsWithLimits(existing, incoming, maxRows, maxBytes) = all[N]
  BY DEF RowsWithLimits, N, start, Plus
<1> HIDE DEF all
<1>13. all[0] = start /\ \A n \in 1 .. N : all[n] = Plus(all[n - 1], n)
  BY <1>1, <1>8, <1>11
<1>14. start = Start(existing, maxRows, maxBytes) /\ \A list, n : Plus(list, n) = Add(list, incoming[n], maxRows, maxBytes)
  BY DEF start, Plus
<1>15. /\ all[0] = Start(existing, maxRows, maxBytes)
       /\ \A n \in 1 .. N : all[n] = Add(all[n - 1], incoming[n], maxRows, maxBytes)
  BY <1>13, <1>14
<1> QED BY <1>12, <1>15 DEF N, Responds

LEMMA ResponseIs ==
  ASSUME NEW all \in Seq(Row), \A i \in DOMAIN all : all[i].id = i,
         NEW m \in Nat, NEW incoming \in Seq(Row), Len(all) = m + Len(incoming),
         \A i \in 1 .. Len(incoming) : incoming[i] = all[m + i],
         NEW existing, NEW maxRows \in Nat, NEW maxBytes \in Nat, ListOf(all, existing, maxRows, maxBytes, m)
  PROVE  Loop(all, existing, maxRows, maxBytes, RowsWithLimits(existing, incoming, maxRows, maxBytes), Len(all))
<1> DEFINE N == Len(incoming)
<1>1. Loop(all, existing, maxRows, maxBytes, Start(existing, maxRows, maxBytes), m)
  BY StartIs
<1>2. Start(existing, maxRows, maxBytes) \in Lists
  BY <1>1 DEF Loop
<1>3. PICK f : /\ f[0] = Start(existing, maxRows, maxBytes)
               /\ \A n \in 1 .. N : f[n] = Add(f[n - 1], incoming[n], maxRows, maxBytes)
               /\ RowsWithLimits(existing, incoming, maxRows, maxBytes) = f[N]
  <2>1. Responds(existing, incoming, maxRows, maxBytes)
    BY <1>2, RowsWithLimitsIs
  <2> QED BY <2>1 DEF Responds
<1> DEFINE good == {n \in 0 .. N : Loop(all, existing, maxRows, maxBytes, f[n], m + n)}
<1>4. N \in Nat /\ existing \in Seq(Row)
  BY DEF ListOf
<1>5. 0 \in good
  BY <1>1, <1>3, <1>4
<1>6. ASSUME NEW n \in 1 .. N, n - 1 \in good PROVE n \in good
  <2> DEFINE k == m + (n - 1)
  <2>1. Loop(all, existing, maxRows, maxBytes, f[n - 1], k)
    BY <1>6
  <2>2. k \in Nat /\ k + 1 = m + n /\ k + 1 <= Len(all) /\ n \in 0 .. N
    BY <1>4
  <2> HIDE DEF k
  <2>3. Loop(all, existing, maxRows, maxBytes, Add(f[n - 1], all[k + 1], maxRows, maxBytes), k + 1)
    BY <1>4, <2>1, <2>2, LoopStep
  <2>4. f[n] = Add(f[n - 1], all[k + 1], maxRows, maxBytes)
    BY <1>3, <2>2
  <2>5. Loop(all, existing, maxRows, maxBytes, f[n], m + n)
    BY <2>2, <2>3, <2>4
  <2> QED BY <2>2, <2>5
<1>7. N \in good
  <2> HIDE DEF good, N
  <2>1. 0 .. N \subseteq good
    BY <1>4, <1>5, <1>6, UpTo
  <2>2. N \in 0 .. N
    BY <1>4
  <2> QED BY <2>1, <2>2
<1>8. Loop(all, existing, maxRows, maxBytes, f[N], m + N)
  BY <1>7
<1> QED BY <1>3, <1>8

\* Rows of the run in their order that are as many as there are, are all of them.
LEMMA AllRows ==
  ASSUME NEW all \in Seq(Row), NEW rows \in Seq(Row), Len(rows) = Len(all),
         \A i, j \in DOMAIN rows : i < j => rows[i].id < rows[j].id,
         \A i \in DOMAIN rows : rows[i].id \in 1 .. Len(all) /\ rows[i] = all[rows[i].id]
  PROVE  rows = all
<1> DEFINE n == Len(rows)
           low == {i \in 0 .. n : i = 0 \/ rows[i].id >= i}
           high == {k \in 0 .. n - 1 : rows[n - k].id <= n - k}
<1>1. n \in Nat /\ DOMAIN rows = 1 .. n /\ DOMAIN all = 1 .. n /\ Len(all) = n
  OBVIOUS
<1>2. \A i \in 1 .. n : rows[i].id \in 1 .. n
  BY <1>1
<1> HIDE DEF n
<1>3. 0 .. n \subseteq low
  <2>1. 0 \in low
    BY <1>1
  <2>2. ASSUME NEW i \in 1 .. n, i - 1 \in low PROVE i \in low
    <3>1. i \in Nat /\ i \in 0 .. n /\ rows[i].id \in Nat /\ rows[i].id >= 1
      BY <1>1, <1>2
    <3>2. CASE i = 1
      BY <3>1, <3>2
    <3>3. CASE i # 1
      <4>1. i - 1 \in 1 .. n /\ i - 1 < i /\ i - 1 # 0
        BY <1>1, <3>3
      <4>2. rows[i - 1].id < rows[i].id /\ rows[i - 1].id \in Nat
        BY <1>1, <1>2, <4>1
      <4>3. rows[i - 1].id >= i - 1
        BY <2>2, <4>1
      <4>4. rows[i].id >= i
        <5> HIDE DEF low
        <5> QED BY <3>1, <4>2, <4>3
      <4> QED BY <3>1, <4>4
    <3> QED BY <3>2, <3>3
  <2> HIDE DEF low
  <2> QED BY <1>1, <2>1, <2>2, UpTo
<1>4. CASE n = 0
  BY <1>1, <1>4 DEF n
<1>5. CASE n # 0
  <2>1. n - 1 \in Nat
    BY <1>1, <1>5
  <2>2. 0 .. n - 1 \subseteq high
    <3>1. 0 \in high
      <4>1. n \in 1 .. n /\ n - 0 = n /\ 0 \in 0 .. n - 1
        BY <1>1, <1>5
      <4>2. rows[n].id <= n
        BY <1>2, <4>1
      <4> QED BY <4>1, <4>2
    <3>2. ASSUME NEW k \in 1 .. n - 1, k - 1 \in high PROVE k \in high
      <4>0. n - k \in 1 .. n /\ n - (k - 1) \in 1 .. n /\ n - (k - 1) = (n - k) + 1 /\ k \in 0 .. n - 1
        BY <1>1, <2>1
      <4>1. PICK i \in 1 .. n, j \in 1 .. n : i = n - k /\ j = n - (k - 1) /\ j = i + 1
        BY <4>0
      <4>2. rows[j].id <= j
        BY <3>2, <4>1
      <4> HIDE DEF high
      <4>3. rows[i].id < rows[j].id /\ rows[i].id \in Nat /\ rows[j].id \in Nat
        <5>1. i < j
          BY <1>1, <4>1
        <5> QED BY SMTT(30), <1>1, <1>2, <5>1
      <4>4. rows[i].id <= i
        BY <1>1, <4>1, <4>2, <4>3
      <4> QED BY <4>0, <4>1, <4>4 DEF high
    <3> HIDE DEF high
    <3> QED BY <2>1, <3>1, <3>2, UpTo
  <2>3. ASSUME NEW i \in 1 .. n PROVE rows[i] = all[i]
    <3>1. rows[i].id \in Nat /\ i \in Nat
      BY <1>1, <1>2
    <3>2. i \in low /\ i # 0
      BY <1>1, <1>3
    <3>3. rows[i].id >= i
      BY <3>2
    <3>4. n - i \in 0 .. n - 1 /\ n - (n - i) = i
      BY <1>1
    <3>5. rows[i].id <= i
      BY <2>2, <3>4
    <3> HIDE DEF low, high
    <3>6. rows[i].id = i
      BY <3>1, <3>3, <3>5
    <3> QED BY <1>1, <3>6
  <2> QED BY <1>1, <2>3
<1> QED BY <1>4, <1>5

\* What the property says of one list.
Honest(all, rows, before, maxRows, maxBytes, told) ==
  /\ IsPrefix(before, rows) /\ Len(rows) <= maxRows /\ Bytes(rows) <= maxBytes
  /\ \A i, j \in DOMAIN rows : i < j => rows[i].id < rows[j].id
  /\ \A i \in DOMAIN rows : rows[i] = all[rows[i].id]
  /\ told <=> rows # all

\* After a response: the list is one the next response may find, and what is said of it is true.
LEMMA ResponseKeeps ==
  ASSUME NEW all \in Seq(Row), \A i \in DOMAIN all : all[i].id = i,
         NEW existing \in Seq(Row), NEW maxRows \in Nat, NEW maxBytes \in Nat, NEW list,
         Loop(all, existing, maxRows, maxBytes, list, Len(all))
  PROVE  /\ ListOf(all, list.rows, maxRows, maxBytes, Len(all)) /\ list.bytes \in Nat
         /\ IsPrefix(existing, list.rows)
         /\ (Lacks(list) = 1 \/ Len(all) > Len(list.rows)) <=> list.rows # all
<1> DEFINE rows == list.rows
           size == Bytes(rows)
<1>1. rows \in Seq(Row) /\ list.bytes \in Nat /\ Len(rows) \in Nat /\ Len(all) \in Nat /\ Len(existing) \in Nat
  BY DEF Loop, Lists
<1>2. size \in Nat
  BY <1>1, BytesType
<1>3. size <= maxBytes
  <2>1. size <= list.bytes /\ list.bytes <= maxBytes
    BY DEF Loop
  <2> HIDE DEF size
  <2> QED BY <1>1, <1>2, <2>1
<1>4. ListOf(all, rows, maxRows, maxBytes, Len(all))
  BY <1>1, <1>3 DEF Loop, ListOf
<1>5. IsPrefix(existing, rows)
  <2>1. Len(existing) <= Len(rows) /\ \A i \in 1 .. Len(existing) : rows[i] = existing[i]
    BY DEF Loop
  <2>2. SubSeq(existing, 1, Len(existing)) = existing
    OBVIOUS
  <2>3. SubSeq(rows, 1, Len(existing)) = existing
    <3> HIDE DEF rows
    <3>1. SubSeq(rows, 1, Len(existing)) \in Seq(Row) /\ Len(SubSeq(rows, 1, Len(existing))) = Len(existing)
      BY <1>1, <2>1
    <3>2. \A i \in 1 .. Len(existing) : SubSeq(rows, 1, Len(existing))[i] = existing[i]
      BY <1>1, <2>1
    <3> QED BY <1>1, <3>1, <3>2
  <2> QED BY <2>1, <2>2, <2>3 DEF IsPrefix
<1>6. Lacks(list) = 1 \/ Len(all) > Len(rows) => rows # all
  <2>1. Lacks(list) = 1 => Len(rows) < Len(all)
    BY DEF Loop
  <2> QED BY <1>1, <2>1
<1>7. rows # all => Lacks(list) = 1 \/ Len(all) > Len(rows)
  <2> SUFFICES ASSUME ~(Len(all) > Len(rows)) PROVE rows = all
    OBVIOUS
  <2>1. Len(rows) <= Len(all)
    BY DEF Loop
  <2>2. Len(rows) = Len(all)
    BY <1>1, <2>1
  <2>3. /\ \A i, j \in DOMAIN rows : i < j => rows[i].id < rows[j].id
        /\ \A i \in DOMAIN rows : rows[i].id \in 1 .. Len(all) /\ rows[i] = all[rows[i].id]
    BY DEF Loop
  <2> HIDE DEF rows
  <2> QED BY <1>1, <2>2, <2>3, AllRows
<1> QED BY <1>1, <1>4, <1>5, <1>6, <1>7

\* The rows of the run are numbered in their order, and each list holds some of them, in their order and within its
\* limits: so the next response finds both lists short enough to keep them whole.
LimitsInv ==
  /\ given \in Seq(Row) /\ \A i \in DOMAIN given : given[i].id = i
  /\ kept.total = Len(given)
  /\ ListOf(given, kept.data, ShownRows, ShownBytes, Len(given))
  /\ ListOf(given, kept.download, DownloadRows, DownloadBytes, Len(given))
  /\ KeptForGood

\* More rows of the run change nothing for the lists there are.
LEMMA ListStays ==
  ASSUME NEW all \in Seq(Row), NEW more, NEW rows, NEW maxRows, NEW maxBytes,
         ListOf(all, rows, maxRows, maxBytes, Len(all)), \A i \in 1 .. Len(all) : more[i] = all[i]
  PROVE  ListOf(more, rows, maxRows, maxBytes, Len(all))
BY DEF ListOf

LEMMA PageLimits ==
  ASSUME LimitsInv, Page PROVE LimitsInv'
<1> DEFINE m == Len(given)
           all == given'
<1>1. given \in Seq(Row) /\ m \in Nat /\ (\A i \in DOMAIN given : given[i].id = i) /\ kept.total = m
  BY DEF LimitsInv
<1>2. PICK n \in Pages : \E sizes \in [1 .. n -> Sizes] :
        LET incoming == [i \in 1 .. n |-> [id |-> Len(given) + i, size |-> sizes[i]]] IN
        given' = given \o incoming /\ kept' = Applied(kept, incoming)
  BY DEF Page
<1>3. PICK sizes \in [1 .. n -> Sizes] :
        LET incoming == [i \in 1 .. n |-> [id |-> Len(given) + i, size |-> sizes[i]]] IN
        given' = given \o incoming /\ kept' = Applied(kept, incoming)
  BY <1>2
<1> DEFINE incoming == [i \in 1 .. n |-> [id |-> m + i, size |-> sizes[i]]]
<1>0. n \in Nat
  BY LimitsAssumption
<1>4. incoming \in Seq(Row) /\ Len(incoming) = n /\ \A i \in 1 .. n : incoming[i].id = m + i
  <2>1. \A i \in 1 .. n : [id |-> m + i, size |-> sizes[i]] \in Row
    BY <1>0, <1>1 DEF Row
  <2>2. incoming \in [1 .. n -> Row]
    BY <2>1
  <2> QED BY <1>0, <2>2
<1>5. all = given \o incoming /\ kept' = Applied(kept, incoming)
  BY <1>3
<1> HIDE DEF incoming
<1>6. /\ all \in Seq(Row) /\ Len(all) = m + n
      /\ \A i \in 1 .. m : all[i] = given[i]
      /\ \A i \in 1 .. n : incoming[i] = all[m + i]
  <2> HIDE DEF m, all
  <2>1. m = Len(given) /\ all = given \o incoming
    BY <1>5 DEF m
  <2>2. all \in Seq(Row)
    BY <1>1, <1>4, <2>1
  <2>3. Len(all) = m + n
    <3>1. given \in Seq(Row) /\ incoming \in Seq(Row) /\ Len(incoming) = n
      BY <1>1, <1>4
    <3>2. Len(given \o incoming) = Len(given) + Len(incoming)
      BY <3>1
    <3> QED BY <2>1, <3>1, <3>2
  <2>4. \A i \in 1 .. m : all[i] = given[i]
    BY <1>0, <1>1, <1>4, <2>1
  <2>5. \A i \in 1 .. n : incoming[i] = all[m + i]
    BY <1>0, <1>1, <1>4, <2>1
  <2> QED BY <2>2, <2>3, <2>4, <2>5
<1>7. \A i \in DOMAIN all : all[i].id = i
  <2> SUFFICES ASSUME NEW i \in DOMAIN all PROVE all[i].id = i
    OBVIOUS
  <2>1. CASE i \in 1 .. m
    BY <1>1, <1>6, <2>1
  <2>2. CASE i \notin 1 .. m
    <3>1. PICK j \in 1 .. n : i = m + j
      <4>1. i - m \in 1 .. n /\ i = m + (i - m)
        BY <1>0, <1>1, <1>6, <2>2
      <4> QED BY <4>1
    <3> QED BY <1>4, <1>6, <3>1
  <2> QED BY <2>1, <2>2
<1> HIDE DEF all
<1>8. ListOf(all, kept.data, ShownRows, ShownBytes, m) /\ ListOf(all, kept.download, DownloadRows, DownloadBytes, m)
  BY <1>1, <1>6, ListStays DEF LimitsInv
<1>9. kept.data \in Seq(Row) /\ kept.download \in Seq(Row)
  BY <1>8 DEF ListOf
<1> DEFINE shown == RowsWithLimits(kept.data, incoming, ShownRows, ShownBytes)
           download == RowsWithLimits(kept.download, incoming, DownloadRows, DownloadBytes)
<1>10. /\ kept'.data = shown.rows /\ kept'.download = download.rows
       /\ kept'.total = kept.total + Len(incoming)
       /\ kept'.before = <<kept.data, kept.download>>
       /\ kept'.truncated <=> (shown.limited \/ kept'.total > Len(shown.rows))
       /\ kept'.downloadTruncated <=> (download.limited \/ kept'.total > Len(download.rows))
  BY <1>5 DEF Applied
<1> HIDE DEF m, shown, download
<1>11. Loop(all, kept.data, ShownRows, ShownBytes, shown, Len(all))
  BY <1>1, <1>4, <1>6, <1>7, <1>8, Limits, ResponseIs DEF shown
<1>12. Loop(all, kept.download, DownloadRows, DownloadBytes, download, Len(all))
  BY <1>1, <1>4, <1>6, <1>7, <1>8, Limits, ResponseIs DEF download
<1>13. kept'.total = Len(all)
  BY <1>0, <1>1, <1>4, <1>6, <1>10
<1>14. /\ ListOf(all, shown.rows, ShownRows, ShownBytes, Len(all))
       /\ Honest(all, shown.rows, kept.data, ShownRows, ShownBytes, Lacks(shown) = 1 \/ Len(all) > Len(shown.rows))
  <2>1. /\ ListOf(all, shown.rows, ShownRows, ShownBytes, Len(all)) /\ IsPrefix(kept.data, shown.rows)
        /\ (Lacks(shown) = 1 \/ Len(all) > Len(shown.rows)) <=> shown.rows # all
    BY <1>6, <1>7, <1>9, <1>11, Limits, ResponseKeeps
  <2> QED BY <2>1 DEF Honest, ListOf
<1>15. /\ ListOf(all, download.rows, DownloadRows, DownloadBytes, Len(all))
       /\ Honest(all, download.rows, kept.download, DownloadRows, DownloadBytes,
                 Lacks(download) = 1 \/ Len(all) > Len(download.rows))
  <2>1. /\ ListOf(all, download.rows, DownloadRows, DownloadBytes, Len(all)) /\ IsPrefix(kept.download, download.rows)
        /\ (Lacks(download) = 1 \/ Len(all) > Len(download.rows)) <=> download.rows # all
    BY SMTT(30), <1>6, <1>7, <1>9, <1>12, Limits, ResponseKeeps
  <2> QED BY <2>1 DEF Honest, ListOf
<1>16. (kept'.truncated <=> (Lacks(shown) = 1 \/ Len(all) > Len(shown.rows)))
       /\ (kept'.downloadTruncated <=> (Lacks(download) = 1 \/ Len(all) > Len(download.rows)))
  <2>1. shown.limited \in BOOLEAN /\ download.limited \in BOOLEAN
    BY <1>11, <1>12 DEF Loop, Lists
  <2> QED BY <1>10, <1>13, <2>1 DEF Lacks
<1>17. /\ Honest(all, kept'.data, kept'.before[1], ShownRows, ShownBytes, kept'.truncated)
       /\ Honest(all, kept'.download, kept'.before[2], DownloadRows, DownloadBytes, kept'.downloadTruncated)
  BY <1>10, <1>14, <1>15, <1>16 DEF Honest
<1>18. KeptForGood'
  BY <1>17 DEF KeptForGood, Honest, all
<1> QED BY <1>6, <1>7, <1>10, <1>13, <1>14, <1>15, <1>18 DEF LimitsInv, all

LEMMA LimitsHold == LimitsSpec => []LimitsInv
<1>1. LimitsInit => LimitsInv
  <2> SUFFICES ASSUME LimitsInit PROVE LimitsInv
    OBVIOUS
  <2>1. given = <<>> /\ kept.data = <<>> /\ kept.download = <<>> /\ kept.total = 0
    BY DEF LimitsInit
  <2>2. \A rows \in Nat, bytes \in Nat : bytes >= 2 => ListOf(<<>>, <<>>, rows, bytes, 0)
    BY BytesNone DEF ListOf
  <2> QED BY <2>1, <2>2, Limits DEF LimitsInv, KeptForGood
<1>2. LimitsInv /\ [Page]_limitVars => LimitsInv'
  <2>1. LimitsInv /\ UNCHANGED limitVars => LimitsInv'
    BY DEF LimitsInv, KeptForGood, limitVars
  <2> QED BY <2>1, PageLimits
<1> QED BY <1>1, <1>2, PTL DEF LimitsSpec

\* However many rows of whatever sizes Trino returns, on however many pages: what is kept of them stays, in its order
\* and within the limits, and the run says truthfully whether something of them is missing.
THEOREM KeptForGoodAlways == LimitsSpec => []KeptForGood
<1>1. LimitsInv => KeptForGood
  BY DEF LimitsInv
<1> QED BY <1>1, LimitsHold, PTL

-------------------------------------------------------------------------------
(* SqlText: the texts, their characters, and where the scans are. *)

Chars == Alphabet \union {"a", " "}
SqlTexts == Seq(Chars)

LEMMA Ends == "" \notin Chars
BY TextAssumption DEF Chars

LEMMA AtIs ==
  ASSUME NEW s \in SqlTexts, NEW i \in Int
  PROVE  /\ i \in 1 .. Len(s) => At(s, i) = s[i] /\ s[i] \in Chars /\ s[i] # ""
         /\ i \notin 1 .. Len(s) => At(s, i) = ""
         /\ Len(s) \in Nat
<1>1. Len(s) \in Nat /\ \A k \in 1 .. Len(s) : s[k] \in Chars
  BY DEF SqlTexts
<1>2. i \in 1 .. Len(s) => s[i] \in Chars /\ s[i] # ""
  BY <1>1, Ends
<1> QED BY <1>1, <1>2 DEF At

Semicolon == ";"
Marks     == {"-", "/", "*", "'", "\""}
Unchanged == Marks \union {"", " ", "nl", Semicolon}

LEMMA LowerIs ==
  ASSUME NEW c
  PROVE  /\ c \in Chars => Lower(c) \in Chars
         /\ Lower(Lower(c)) = Lower(c)
         /\ \A x \in Unchanged : Lower(c) = x <=> c = x
         /\ Lower(c) \in Letters <=> c \in Letters
<1>1. Lower(c) = Semicolon <=> c = Semicolon
  BY DEF Lower, Semicolon
<1>2. \A x \in Marks \union {"", " ", "nl"} : Lower(c) = x <=> c = x
  BY DEF Lower, Marks
<1>3. (c \in Chars => Lower(c) \in Chars) /\ Lower(Lower(c)) = Lower(c) /\ (Lower(c) \in Letters <=> c \in Letters)
  BY DEF Lower, Chars, Letters
<1> QED BY <1>1, <1>2, <1>3 DEF Unchanged

LEMMA LeastIs ==
  ASSUME NEW S, S \subseteq Nat, S # {}
  PROVE  Least(S) \in S /\ \A k \in S : Least(S) <= k
<1>1. \E n \in S : \A k \in S : n <= k
  BY LeastElement
<1> QED BY <1>1 DEF Least

LEMMA GreatestIs ==
  ASSUME NEW N \in Nat, NEW S, S \subseteq 1 .. N, S # {}
  PROVE  Greatest(S) \in S /\ \A k \in S : k <= Greatest(S)
<1> DEFINE T == {n \in 0 .. N : N - n \in S}
<1>1. \A n \in T : n \in Nat /\ n <= N /\ N - n \in S
  OBVIOUS
<1>2. \A k \in S : k \in Nat /\ k <= N /\ N - k \in T
  OBVIOUS
<1> HIDE DEF T
<1>3. T \subseteq Nat /\ T # {}
  BY <1>1, <1>2
<1>4. PICK m \in T : \A n \in T : m <= n
  BY <1>3, LeastElement
<1>5. N - m \in S /\ \A k \in S : k <= N - m
  BY <1>1, <1>2, <1>4
<1>6. \E n \in S : \A k \in S : k <= n
  BY <1>5
<1> QED BY <1>6 DEF Greatest

\* Where what begins at i ends.
LEMMA EndIs ==
  ASSUME NEW s \in SqlTexts, NEW i \in 1 .. Len(s)
  PROVE  /\ EndOf(s, i) \in {0} \union i .. Len(s)
         /\ EndOf(s, i) # 0 =>
              Closes(s, i, EndOf(s, i)) /\ \A k \in i .. Len(s) : k < EndOf(s, i) => ~Closes(s, i, k)
         /\ \A n \in i .. Len(s) : Closes(s, i, n) /\ (\A k \in i .. n - 1 : ~Closes(s, i, k)) => EndOf(s, i) = n
<1> DEFINE ends == Closings(s, i)
<1>0. Len(s) \in Nat /\ i \in Nat \ {0}
  BY DEF SqlTexts
<1>1. \A n : n \in ends <=> n \in i .. Len(s) /\ Closes(s, i, n)
  BY DEF Closings
<1>2. ends \subseteq Nat
  BY <1>0, <1>1
<1>3. EndOf(s, i) = IF ends = {} THEN 0 ELSE Least(ends)
  BY DEF EndOf
<1> HIDE DEF ends
<1>4. ends # {} => Least(ends) \in ends /\ \A k \in ends : Least(ends) <= k
  BY <1>2, LeastIs
<1>5. CASE ends = {}
  BY <1>0, <1>1, <1>3, <1>5
<1>6. CASE ends # {}
  <2> DEFINE e == Least(ends)
  <2>1. EndOf(s, i) = e /\ e \in ends /\ \A k \in ends : e <= k
    BY <1>3, <1>4, <1>6
  <2> HIDE DEF e
  <2>2. e \in i .. Len(s) /\ Closes(s, i, e)
    BY <1>1, <2>1
  <2>3. \A k \in i .. Len(s) : k < e => ~Closes(s, i, k)
    BY <1>0, <1>1, <2>1, <2>2
  <2>4. ASSUME NEW n \in i .. Len(s), Closes(s, i, n), \A k \in i .. n - 1 : ~Closes(s, i, k) PROVE e = n
    <3>1. e <= n
      BY <1>1, <2>1, <2>4
    <3>2. ~(e < n)
      BY <1>0, <2>2, <2>4
    <3> QED BY <1>0, <2>2, <3>1, <3>2
  <2> QED BY <1>0, <2>1, <2>2, <2>3, <2>4
<1> QED BY <1>5, <1>6

WalkStates == [state : {"normal", "line", "block"} \union Quotes, ahead : {0, 1}]

LEMMA MovedType ==
  ASSUME NEW s, NEW i, NEW w \in WalkStates, NEW doubled
  PROVE  Moved(s, i, w, doubled) \in WalkStates
<1>1. w.state \in {"normal", "line", "block"} \union Quotes /\ w.ahead \in {0, 1}
  BY DEF WalkStates
<1>2. \A q \in {"normal", "line", "block"} \union Quotes : \A a \in {0, 1} : [state |-> q, ahead |-> a] \in WalkStates
  BY DEF WalkStates
<1> QED BY <1>1, <1>2 DEF Moved, Outside

\* The state after each character.

LEMMA WalkIs ==
  ASSUME NEW s \in SqlTexts, NEW doubled
  PROVE  /\ Walk(s, doubled) \in [0 .. Len(s) -> WalkStates] /\ Walk(s, doubled)[0] = Outside
         /\ \A n \in 1 .. Len(s) : Walk(s, doubled)[n] = Moved(s, n, Walk(s, doubled)[n - 1], doubled)
<1> DEFINE N == Len(s)
           A == WalkStates
           g == [x \in (1 .. N) \X A |-> Moved(s, x[1], x[2], doubled)]
           Is(h) == h = [n \in 0 .. N |-> IF n = 0 THEN Outside ELSE Moved(s, n, h[n - 1], doubled)]
<1>1. N \in Nat /\ Outside \in A
  BY DEF SqlTexts, Outside, WalkStates
<1>2. \A n \in 1 .. N : \A z \in A : Moved(s, n, z, doubled) \in A
  BY MovedType
<1> HIDE DEF N, A
<1>3. g \in Recursions(N, A)
  BY <1>2 DEF Recursions
<1>4. \A n \in 1 .. N : \A z \in A : g[<<n, z>>] = Moved(s, n, z, doubled)
  OBVIOUS
<1> HIDE DEF g
<1>5. PICK h \in [0 .. N -> A] : h[0] = Outside /\ \A n \in 1 .. N : h[n] = g[<<n, h[n - 1]>>]
  BY <1>1, <1>3, RecursionExists
<1>6. \A n \in 1 .. N : n \in 0 .. N /\ n - 1 \in 0 .. N /\ n # 0
  BY <1>1
<1>7. \A n \in 1 .. N : h[n] = Moved(s, n, h[n - 1], doubled)
  BY <1>4, <1>5, <1>6
<1>8. \A n \in 0 .. N : n # 0 => n \in 1 .. N
  BY <1>1
<1>9. Is(h)
  BY <1>5, <1>7, <1>8
<1> DEFINE all == CHOOSE f : Is(f)
<1>10. Is(all)
  BY <1>9
<1>11. Walk(s, doubled) = all
  BY DEF Walk, N
<1> HIDE DEF all
<1>12. all[0] = Outside /\ \A n \in 1 .. N : all[n] = Moved(s, n, all[n - 1], doubled)
  BY <1>1, <1>6, <1>10
<1>13. \A n \in 0 .. N : all[n] \in A
  <2> DEFINE S == {n \in 0 .. N : all[n] \in A}
  <2>1. 0 \in S
    BY <1>1, <1>12
  <2>2. ASSUME NEW n \in 1 .. N, n - 1 \in S PROVE n \in S
    BY <1>2, <1>6, <1>12, <2>2
  <2>3. 0 .. N \subseteq S
    <3> HIDE DEF S
    <3> QED BY <1>1, <2>1, <2>2, UpTo
  <2> QED BY <2>3
<1>14. all \in [0 .. N -> A]
  BY <1>10, <1>13
<1> QED BY <1>11, <1>12, <1>14 DEF N, A

LEMMA SpacedIs ==
  ASSUME NEW out \in SqlTexts
  PROVE  Spaced(out) \in SqlTexts
<1>1. " " \in Chars
  BY DEF Chars
<1>2. \A c \in Chars : Append(out, c) \in SqlTexts
  BY DEF SqlTexts
<1> QED BY <1>1, <1>2 DEF Spaced

LEMMA WrittenType ==
  ASSUME NEW s \in SqlTexts, NEW i \in 1 .. Len(s), NEW w, NEW out \in SqlTexts
  PROVE  Written(s, i, w, out) \in SqlTexts
<1>1. s[i] \in Chars
  BY DEF SqlTexts
<1>3. Lower(s[i]) \in Chars
  BY <1>1, LowerIs
<1>2. \A c \in Chars : Append(out, c) \in SqlTexts
  BY DEF SqlTexts
<1> QED BY <1>1, <1>2, <1>3, SpacedIs DEF Written

\* What has been written after each character.

LEMMA OutputIs ==
  ASSUME NEW s \in SqlTexts
  PROVE  /\ Output(s) \in [0 .. Len(s) -> SqlTexts] /\ Output(s)[0] = <<>>
         /\ \A n \in 1 .. Len(s) : Output(s)[n] = Written(s, n, Walk(s, {"'"})[n - 1], Output(s)[n - 1])
<1> DEFINE N == Len(s)
           A == SqlTexts
           g == [x \in (1 .. N) \X A |-> Written(s, x[1], Walk(s, {"'"})[x[1] - 1], x[2])]
           Is(h) == h = [n \in 0 .. N |-> IF n = 0 THEN <<>> ELSE Written(s, n, Walk(s, {"'"})[n - 1], h[n - 1])]
<1>1. N \in Nat /\ <<>> \in A
  BY DEF SqlTexts
<1>2. \A n \in 1 .. N : \A z \in A : Written(s, n, Walk(s, {"'"})[n - 1], z) \in A
  BY WrittenType
<1> HIDE DEF N, A
<1>3. g \in Recursions(N, A)
  BY <1>2 DEF Recursions
<1>4. \A n \in 1 .. N : \A z \in A : g[<<n, z>>] = Written(s, n, Walk(s, {"'"})[n - 1], z)
  OBVIOUS
<1> HIDE DEF g
<1>5. PICK h \in [0 .. N -> A] : h[0] = <<>> /\ \A n \in 1 .. N : h[n] = g[<<n, h[n - 1]>>]
  BY <1>1, <1>3, RecursionExists
<1>6. \A n \in 1 .. N : n \in 0 .. N /\ n - 1 \in 0 .. N /\ n # 0
  BY <1>1
<1>7. \A n \in 1 .. N : h[n] = Written(s, n, Walk(s, {"'"})[n - 1], h[n - 1])
  BY <1>4, <1>5, <1>6
<1>8. \A n \in 0 .. N : n # 0 => n \in 1 .. N
  BY <1>1
<1>9. Is(h)
  BY <1>5, <1>7, <1>8
<1> DEFINE all == CHOOSE f : Is(f)
<1>10. Is(all)
  BY <1>9
<1>11. Output(s) = all
  BY DEF Output, N
<1> HIDE DEF all
<1>12. all[0] = <<>> /\ \A n \in 1 .. N : all[n] = Written(s, n, Walk(s, {"'"})[n - 1], all[n - 1])
  BY <1>1, <1>6, <1>10
<1>13. \A n \in 0 .. N : all[n] \in A
  <2> DEFINE S == {n \in 0 .. N : all[n] \in A}
  <2>1. 0 \in S
    BY <1>1, <1>12
  <2>2. ASSUME NEW n \in 1 .. N, n - 1 \in S PROVE n \in S
    BY <1>2, <1>6, <1>12, <2>2
  <2>3. 0 .. N \subseteq S
    <3> HIDE DEF S
    <3> QED BY <1>1, <2>1, <2>2, UpTo
  <2> QED BY <2>3
<1>14. all \in [0 .. N -> A]
  BY <1>10, <1>13
<1> QED BY <1>11, <1>12, <1>14 DEF N, A

\* A part of a text without the white space at its ends.
LEMMA StripIs ==
  ASSUME NEW s \in SqlTexts
  PROVE  /\ Strip(s) \in SqlTexts
         /\ \/ Strip(s) = <<>> /\ \A i \in 1 .. Len(s) : s[i] \in Space
            \/ \E b, e \in 1 .. Len(s) :
                 /\ b <= e /\ Strip(s) = SubSeq(s, b, e) /\ s[b] \notin Space /\ s[e] \notin Space
                 /\ \A i \in 1 .. Len(s) : i < b \/ i > e => s[i] \in Space
<1> DEFINE shown == {i \in DOMAIN s : s[i] \notin Space}
<1>0. Len(s) \in Nat /\ DOMAIN s = 1 .. Len(s) /\ <<>> \in SqlTexts
  BY DEF SqlTexts
<1>1. \A i : i \in shown <=> i \in 1 .. Len(s) /\ s[i] \notin Space
  BY <1>0
<1>2. Strip(s) = IF shown = {} THEN <<>> ELSE SubSeq(s, Least(shown), Greatest(shown))
  BY DEF Strip
<1> HIDE DEF shown
<1>3. CASE shown = {}
  BY <1>0, <1>1, <1>2, <1>3
<1>4. CASE shown # {}
  <2> DEFINE b == Least(shown)
             e == Greatest(shown)
  <2>1. b \in shown /\ \A k \in shown : b <= k
    BY <1>0, <1>1, <1>4, LeastIs
  <2>2. e \in shown /\ \A k \in shown : k <= e
    BY <1>0, <1>1, <1>4, GreatestIs
  <2>3. Strip(s) = SubSeq(s, b, e)
    BY <1>2, <1>4
  <2> HIDE DEF b, e
  <2>4. b \in 1 .. Len(s) /\ e \in 1 .. Len(s) /\ b <= e
    BY <1>1, <2>1, <2>2
  <2>5. \A i \in 1 .. Len(s) : i < b \/ i > e => i \notin shown
    BY <1>0, <2>1, <2>2, <2>4
  <2>6. SubSeq(s, b, e) \in SqlTexts
    BY <2>4 DEF SqlTexts
  <2> QED BY <1>1, <2>1, <2>2, <2>3, <2>4, <2>5, <2>6
<1> QED BY <1>3, <1>4

LEMMA PartType ==
  ASSUME NEW s \in SqlTexts, NEW m \in Nat \ {0}, NEW n \in 0 .. Len(s)
  PROVE  SubSeq(s, m, n) \in SqlTexts /\ Strip(SubSeq(s, m, n)) \in SqlTexts
<1>1. SubSeq(s, m, n) \in SqlTexts
  BY DEF SqlTexts
<1> QED BY <1>1, StripIs

LEMMA AddToType ==
  ASSUME NEW X, NEW list \in Seq(X), NEW x, x # <<>> => x \in X
  PROVE  AddTo(list, x) \in Seq(X)
BY DEF AddTo

PieceStates == [start : Nat \ {0}, done : Seq(SqlTexts)]

LEMMA CutType ==
  ASSUME NEW s \in SqlTexts, NEW i \in 1 .. Len(s), NEW w, NEW z \in PieceStates
  PROVE  CutAt(s, i, w, z) \in PieceStates
<1>1. z.start \in Nat \ {0} /\ z.done \in Seq(SqlTexts) /\ i - 1 \in 0 .. Len(s) /\ i + 1 \in Nat \ {0}
  BY DEF PieceStates
<1>2. Strip(SubSeq(s, z.start, i - 1)) \in SqlTexts
  BY <1>1, PartType
<1>3. AddTo(z.done, Strip(SubSeq(s, z.start, i - 1))) \in Seq(SqlTexts)
  BY <1>1, <1>2, AddToType
<1> QED BY <1>1, <1>3 DEF CutAt, PieceStates

\* The statements that are complete after each character, and where the next one begins.

LEMMA PiecesIs ==
  ASSUME NEW s \in SqlTexts
  PROVE  /\ Pieces(s) \in [0 .. Len(s) -> PieceStates] /\ Pieces(s)[0] = [start |-> 1, done |-> <<>>]
         /\ \A n \in 1 .. Len(s) : Pieces(s)[n] = CutAt(s, n, Walk(s, Quotes)[n - 1], Pieces(s)[n - 1])
<1> DEFINE N == Len(s)
           A == PieceStates
           g == [x \in (1 .. N) \X A |-> CutAt(s, x[1], Walk(s, Quotes)[x[1] - 1], x[2])]
           Is(h) == h = [n \in 0 .. N |-> IF n = 0 THEN [start |-> 1, done |-> <<>>] ELSE CutAt(s, n, Walk(s, Quotes)[n - 1], h[n - 1])]
<1>1. N \in Nat /\ [start |-> 1, done |-> <<>>] \in A
  BY DEF SqlTexts, PieceStates
<1>2. \A n \in 1 .. N : \A z \in A : CutAt(s, n, Walk(s, Quotes)[n - 1], z) \in A
  BY CutType
<1> HIDE DEF N, A
<1>3. g \in Recursions(N, A)
  BY <1>2 DEF Recursions
<1>4. \A n \in 1 .. N : \A z \in A : g[<<n, z>>] = CutAt(s, n, Walk(s, Quotes)[n - 1], z)
  OBVIOUS
<1> HIDE DEF g
<1>5. PICK h \in [0 .. N -> A] : h[0] = [start |-> 1, done |-> <<>>] /\ \A n \in 1 .. N : h[n] = g[<<n, h[n - 1]>>]
  BY <1>1, <1>3, RecursionExists
<1>6. \A n \in 1 .. N : n \in 0 .. N /\ n - 1 \in 0 .. N /\ n # 0
  BY <1>1
<1>7. \A n \in 1 .. N : h[n] = CutAt(s, n, Walk(s, Quotes)[n - 1], h[n - 1])
  BY <1>4, <1>5, <1>6
<1>8. \A n \in 0 .. N : n # 0 => n \in 1 .. N
  BY <1>1
<1>9. Is(h)
  BY <1>5, <1>7, <1>8
<1> DEFINE all == CHOOSE f : Is(f)
<1>10. Is(all)
  BY <1>9
<1>11. Pieces(s) = all
  BY DEF Pieces, N
<1> HIDE DEF all
<1>12. all[0] = [start |-> 1, done |-> <<>>] /\ \A n \in 1 .. N : all[n] = CutAt(s, n, Walk(s, Quotes)[n - 1], all[n - 1])
  BY <1>1, <1>6, <1>10
<1>13. \A n \in 0 .. N : all[n] \in A
  <2> DEFINE S == {n \in 0 .. N : all[n] \in A}
  <2>1. 0 \in S
    BY <1>1, <1>12
  <2>2. ASSUME NEW n \in 1 .. N, n - 1 \in S PROVE n \in S
    BY <1>2, <1>6, <1>12, <2>2
  <2>3. 0 .. N \subseteq S
    <3> HIDE DEF S
    <3> QED BY <1>1, <2>1, <2>2, UpTo
  <2> QED BY <2>3
<1>14. all \in [0 .. N -> A]
  BY <1>10, <1>13
<1> QED BY <1>11, <1>12, <1>14 DEF N, A

Tokens == Seq(Chars \union {"unclosed"})
LexStates == [end : Nat, tokens : Seq(Tokens)]

LEMMA TokenType ==
  ASSUME NEW s \in SqlTexts, NEW i \in 1 .. Len(s), NEW n \in {0} \union i .. Len(s)
  PROVE  TokenAt(s, i, n) \in Tokens
<1>0. Len(s) \in Nat /\ (\A k \in 1 .. Len(s) : s[k] \in Chars) /\ i \in Nat \ {0} /\ s \in Seq(Chars \union {"unclosed"})
  BY DEF SqlTexts
<1>1. Unclosed \in Tokens
  BY DEF Unclosed, Tokens
<1>2. CASE n \in i .. Len(s)
  <2>1. SubSeq(s, i, n) \in Tokens
    BY <1>0, <1>2 DEF Tokens
  <2>2. n + 1 - i \in Nat /\ \A k \in 1 .. n + 1 - i : i + k - 1 \in 1 .. Len(s)
    BY <1>0, <1>2
  <2>3. \A k \in 1 .. n + 1 - i : Lower(s[i + k - 1]) \in Chars \union {"unclosed"}
    BY <1>0, <2>2, LowerIs
  <2>4. [k \in 1 .. n + 1 - i |-> Lower(s[i + k - 1])] \in Tokens
    BY <2>2, <2>3 DEF Tokens
  <2> QED BY <1>1, <2>1, <2>4 DEF TokenAt
<1> QED BY <1>1, <1>2 DEF TokenAt

LEMMA LexType ==
  ASSUME NEW s \in SqlTexts, NEW i \in 1 .. Len(s), NEW z \in LexStates
  PROVE  LexAt(s, i, z) \in LexStates
<1> DEFINE n == EndOf(s, i)
<1>1. Len(s) \in Nat /\ n \in {0} \union i .. Len(s)
  BY EndIs DEF SqlTexts
<1>2. TokenAt(s, i, n) \in Tokens
  BY <1>1, TokenType
<1>3. n \in Nat
  BY <1>1
<1> HIDE DEF n
<1>4. z.end \in Nat /\ z.tokens \in Seq(Tokens) /\ Append(z.tokens, TokenAt(s, i, n)) \in Seq(Tokens)
  BY <1>2 DEF LexStates
<1> QED BY <1>1, <1>3, <1>4 DEF LexAt, LexStates, n

\* The tokens of what begins up to each character.

LEMMA LexIs ==
  ASSUME NEW s \in SqlTexts
  PROVE  /\ LexScan(s) \in [0 .. Len(s) -> LexStates] /\ LexScan(s)[0] = [end |-> 0, tokens |-> <<>>]
         /\ \A n \in 1 .. Len(s) : LexScan(s)[n] = LexAt(s, n, LexScan(s)[n - 1])
<1> DEFINE N == Len(s)
           A == LexStates
           g == [x \in (1 .. N) \X A |-> LexAt(s, x[1], x[2])]
           Is(h) == h = [n \in 0 .. N |-> IF n = 0 THEN [end |-> 0, tokens |-> <<>>] ELSE LexAt(s, n, h[n - 1])]
<1>1. N \in Nat /\ [end |-> 0, tokens |-> <<>>] \in A
  BY DEF SqlTexts, LexStates
<1>2. \A n \in 1 .. N : \A z \in A : LexAt(s, n, z) \in A
  BY LexType
<1> HIDE DEF N, A
<1>3. g \in Recursions(N, A)
  BY <1>2 DEF Recursions
<1>4. \A n \in 1 .. N : \A z \in A : g[<<n, z>>] = LexAt(s, n, z)
  OBVIOUS
<1> HIDE DEF g
<1>5. PICK h \in [0 .. N -> A] : h[0] = [end |-> 0, tokens |-> <<>>] /\ \A n \in 1 .. N : h[n] = g[<<n, h[n - 1]>>]
  BY <1>1, <1>3, RecursionExists
<1>6. \A n \in 1 .. N : n \in 0 .. N /\ n - 1 \in 0 .. N /\ n # 0
  BY <1>1
<1>7. \A n \in 1 .. N : h[n] = LexAt(s, n, h[n - 1])
  BY <1>4, <1>5, <1>6
<1>8. \A n \in 0 .. N : n # 0 => n \in 1 .. N
  BY <1>1
<1>9. Is(h)
  BY <1>5, <1>7, <1>8
<1> DEFINE all == CHOOSE f : Is(f)
<1>10. Is(all)
  BY <1>9
<1>11. LexScan(s) = all
  BY DEF LexScan, N
<1> HIDE DEF all
<1>12. all[0] = [end |-> 0, tokens |-> <<>>] /\ \A n \in 1 .. N : all[n] = LexAt(s, n, all[n - 1])
  BY <1>1, <1>6, <1>10
<1>13. \A n \in 0 .. N : all[n] \in A
  <2> DEFINE S == {n \in 0 .. N : all[n] \in A}
  <2>1. 0 \in S
    BY <1>1, <1>12
  <2>2. ASSUME NEW n \in 1 .. N, n - 1 \in S PROVE n \in S
    BY <1>2, <1>6, <1>12, <2>2
  <2>3. 0 .. N \subseteq S
    <3> HIDE DEF S
    <3> QED BY <1>1, <2>1, <2>2, UpTo
  <2> QED BY <2>3
<1>14. all \in [0 .. N -> A]
  BY <1>10, <1>13
<1> QED BY <1>11, <1>12, <1>14 DEF N, A

LEMMA LexTokens ==
  ASSUME NEW s \in SqlTexts
  PROVE  Lex(s) \in Seq(Tokens)
<1>1. Len(s) \in Nat /\ Len(s) \in 0 .. Len(s)
  BY DEF SqlTexts
<1>2. LexScan(s)[Len(s)] \in LexStates
  BY <1>1, LexIs
<1> QED BY <1>2 DEF Lex, LexStates

LEMMA EachType ==
  ASSUME NEW texts \in Seq(SqlTexts), NEW n \in 1 .. Len(texts), NEW z \in Seq(Seq(Tokens))
  PROVE  AddTo(z, Lex(texts[n])) \in Seq(Seq(Tokens))
<1>1. texts[n] \in SqlTexts
  OBVIOUS
<1>2. Lex(texts[n]) \in Seq(Tokens)
  BY <1>1, LexTokens
<1> QED BY <1>2, AddToType

\* The tokens of the texts in a list.
LEMMA EachIs ==
  ASSUME NEW texts \in Seq(SqlTexts)
  PROVE  \E f \in [0 .. Len(texts) -> Seq(Seq(Tokens))] :
           /\ LexEach(texts) = f[Len(texts)] /\ f[0] = <<>>
           /\ \A n \in 1 .. Len(texts) : f[n] = AddTo(f[n - 1], Lex(texts[n]))
<1> DEFINE N == Len(texts)
           A == Seq(Seq(Tokens))
           g == [x \in (1 .. N) \X A |-> AddTo(x[2], Lex(texts[x[1]]))]
           Is(h) == h = [n \in 0 .. N |-> IF n = 0 THEN <<>> ELSE AddTo(h[n - 1], Lex(texts[n]))]
<1>1. N \in Nat /\ <<>> \in A
  OBVIOUS
<1>2. \A n \in 1 .. N : \A z \in A : AddTo(z, Lex(texts[n])) \in A
  BY EachType
<1> HIDE DEF N, A
<1>3. g \in Recursions(N, A)
  BY <1>2 DEF Recursions
<1>4. \A n \in 1 .. N : \A z \in A : g[<<n, z>>] = AddTo(z, Lex(texts[n]))
  OBVIOUS
<1> HIDE DEF g
<1>5. PICK h \in [0 .. N -> A] : h[0] = <<>> /\ \A n \in 1 .. N : h[n] = g[<<n, h[n - 1]>>]
  <2>1. Recursed(A, <<>>, N, g) # {}
    <3>1. N \in Nat
      BY <1>1
    <3>2. <<>> \in A
      BY <1>1
    <3> DEFINE base == <<>>
    <3>3. base \in A
      BY <3>2
    <3> HIDE DEF base
    <3>4. Recursed(A, base, N, g) # {}
      BY <1>3, <3>1, <3>3, RecursedExists
    <3> QED BY <3>4 DEF base
  <2> QED BY <2>1 DEF Recursed
<1>6. \A n \in 1 .. N : n \in 0 .. N /\ n - 1 \in 0 .. N /\ n # 0
  BY <1>1
<1>7. \A n \in 1 .. N : h[n] = AddTo(h[n - 1], Lex(texts[n]))
  BY <1>4, <1>5, <1>6
<1>8. \A n \in 0 .. N : n # 0 => n \in 1 .. N
  BY <1>1
<1>9. Is(h)
  BY <1>5, <1>7, <1>8
<1> DEFINE all == CHOOSE f : Is(f)
<1>10. Is(all)
  BY <1>9
<1>11. LexEach(texts) = all[N]
  BY DEF LexEach, N
<1> HIDE DEF all
<1>12. all[0] = <<>> /\ \A n \in 1 .. N : all[n] = AddTo(all[n - 1], Lex(texts[n]))
  BY <1>1, <1>6, <1>10
<1>13. \A n \in 0 .. N : all[n] \in A
  <2> DEFINE S == {n \in 0 .. N : all[n] \in A}
  <2>1. 0 \in S
    BY <1>1, <1>12
  <2>2. ASSUME NEW n \in 1 .. N, n - 1 \in S PROVE n \in S
    BY <1>2, <1>6, <1>12, <2>2
  <2>3. 0 .. N \subseteq S
    <3> HIDE DEF S
    <3> QED BY <1>1, <2>1, <2>2, UpTo
  <2> QED BY <2>3
<1>14. all \in [0 .. N -> A]
  BY <1>10, <1>13
<1> QED BY <1>11, <1>12, <1>14 DEF N, A

LEMMA EachNext ==
  ASSUME NEW texts \in Seq(SqlTexts), NEW x \in SqlTexts
  PROVE  LexEach(Append(texts, x)) = AddTo(LexEach(texts), Lex(x))
<1> DEFINE N == Len(texts)
           longer == Append(texts, x)
<1>1. N \in Nat /\ longer \in Seq(SqlTexts) /\ Len(longer) = N + 1 /\ longer[N + 1] = x /\ \A n \in 1 .. N : longer[n] = texts[n]
  OBVIOUS
<1> HIDE DEF N, longer
<1>2. PICK f \in [0 .. N -> Seq(Seq(Tokens))] : /\ LexEach(texts) = f[N] /\ f[0] = <<>>
                           /\ \A n \in 1 .. N : f[n] = AddTo(f[n - 1], Lex(texts[n]))
  BY EachIs DEF N
<1>3. PICK h \in [0 .. Len(longer) -> Seq(Seq(Tokens))] :
        /\ LexEach(longer) = h[Len(longer)] /\ h[0] = <<>>
        /\ \A n \in 1 .. Len(longer) : h[n] = AddTo(h[n - 1], Lex(longer[n]))
  BY <1>1, EachIs
<1> DEFINE S == {n \in 0 .. N : h[n] = f[n]}
<1>4. 0 \in S
  BY <1>1, <1>2, <1>3
<1>5. ASSUME NEW n \in 1 .. N, n - 1 \in S PROVE n \in S
  BY <1>1, <1>2, <1>3, <1>5
<1>6. N \in S
  <2> HIDE DEF S
  <2>1. 0 .. N \subseteq S
    BY <1>1, <1>4, <1>5, UpTo
  <2> QED BY <1>1, <2>1
<1>7. h[N + 1] = AddTo(h[N], Lex(x))
  <2>1. N + 1 \in 1 .. N + 1 /\ N + 1 - 1 = N
    BY <1>1
  <2> QED BY <1>1, <1>3, <1>6, <2>1
<1>8. LexEach(longer) = h[N + 1] /\ h[N] = f[N]
  BY <1>1, <1>3, <1>6
<1>9. LexEach(longer) = AddTo(LexEach(texts), Lex(x))
  BY <1>2, <1>7, <1>8
<1> QED BY <1>9 DEF longer

PartStates == [done : Seq(Seq(Tokens)), open : Seq(Tokens)]

LEMMA PartAtType ==
  ASSUME NEW t \in Tokens, NEW z \in PartStates
  PROVE  PartAt(t, z) \in PartStates
<1>1. z.done \in Seq(Seq(Tokens)) /\ z.open \in Seq(Tokens)
  BY DEF PartStates
<1>2. AddTo(z.done, z.open) \in Seq(Seq(Tokens))
  BY <1>1, AddToType
<1>3. Append(z.open, t) \in Seq(Tokens) /\ <<>> \in Seq(Tokens)
  BY <1>1
<1>4. [z EXCEPT !.open = Append(@, t)] \in PartStates
  BY <1>3 DEF PartStates
<1>5. [done |-> AddTo(z.done, z.open), open |-> <<>>] \in PartStates
  BY <1>2, <1>3 DEF PartStates
<1> QED BY <1>4, <1>5 DEF PartAt

\* The statements that tokens make up.
LEMMA PartsIs ==
  ASSUME NEW tokens \in Seq(Tokens)
  PROVE  \E f \in [0 .. Len(tokens) -> PartStates] :
           /\ Parts(tokens) = f[Len(tokens)] /\ f[0] = [done |-> <<>>, open |-> <<>>]
           /\ \A n \in 1 .. Len(tokens) : f[n] = PartAt(tokens[n], f[n - 1])
<1> DEFINE N == Len(tokens)
           A == PartStates
           g == [x \in (1 .. N) \X A |-> PartAt(tokens[x[1]], x[2])]
           Is(h) == h = [n \in 0 .. N |-> IF n = 0 THEN [done |-> <<>>, open |-> <<>>] ELSE PartAt(tokens[n], h[n - 1])]
<1>1. N \in Nat /\ [done |-> <<>>, open |-> <<>>] \in A
  BY DEF PartStates
<1>2. \A n \in 1 .. N : \A z \in A : PartAt(tokens[n], z) \in A
  BY PartAtType
<1> HIDE DEF N, A
<1>3. g \in Recursions(N, A)
  BY <1>2 DEF Recursions
<1>4. \A n \in 1 .. N : \A z \in A : g[<<n, z>>] = PartAt(tokens[n], z)
  OBVIOUS
<1> HIDE DEF g
<1>5. PICK h \in [0 .. N -> A] : h[0] = [done |-> <<>>, open |-> <<>>] /\ \A n \in 1 .. N : h[n] = g[<<n, h[n - 1]>>]
  BY <1>1, <1>3, RecursionExists
<1>6. \A n \in 1 .. N : n \in 0 .. N /\ n - 1 \in 0 .. N /\ n # 0
  BY <1>1
<1>7. \A n \in 1 .. N : h[n] = PartAt(tokens[n], h[n - 1])
  BY <1>4, <1>5, <1>6
<1>8. \A n \in 0 .. N : n # 0 => n \in 1 .. N
  BY <1>1
<1>9. Is(h)
  BY <1>5, <1>7, <1>8
<1> DEFINE all == CHOOSE f : Is(f)
<1>10. Is(all)
  BY <1>9
<1>11. Parts(tokens) = all[N]
  BY DEF Parts, N
<1> HIDE DEF all
<1>12. all[0] = [done |-> <<>>, open |-> <<>>] /\ \A n \in 1 .. N : all[n] = PartAt(tokens[n], all[n - 1])
  BY <1>1, <1>6, <1>10
<1>13. \A n \in 0 .. N : all[n] \in A
  <2> DEFINE S == {n \in 0 .. N : all[n] \in A}
  <2>1. 0 \in S
    BY <1>1, <1>12
  <2>2. ASSUME NEW n \in 1 .. N, n - 1 \in S PROVE n \in S
    BY <1>2, <1>6, <1>12, <2>2
  <2>3. 0 .. N \subseteq S
    <3> HIDE DEF S
    <3> QED BY <1>1, <2>1, <2>2, UpTo
  <2> QED BY <2>3
<1>14. all \in [0 .. N -> A]
  BY <1>10, <1>13
<1> QED BY <1>11, <1>12, <1>14 DEF N, A

LEMMA PartsNext ==
  ASSUME NEW tokens \in Seq(Tokens), NEW x \in Tokens
  PROVE  Parts(Append(tokens, x)) = PartAt(x, Parts(tokens))
<1> DEFINE N == Len(tokens)
           longer == Append(tokens, x)
<1>1. N \in Nat /\ longer \in Seq(Tokens) /\ Len(longer) = N + 1 /\ longer[N + 1] = x /\ \A n \in 1 .. N : longer[n] = tokens[n]
  OBVIOUS
<1> HIDE DEF N, longer
<1>2. PICK f \in [0 .. N -> PartStates] : /\ Parts(tokens) = f[N] /\ f[0] = [done |-> <<>>, open |-> <<>>]
                           /\ \A n \in 1 .. N : f[n] = PartAt(tokens[n], f[n - 1])
  BY PartsIs DEF N
<1>3. PICK h \in [0 .. Len(longer) -> PartStates] :
        /\ Parts(longer) = h[Len(longer)] /\ h[0] = [done |-> <<>>, open |-> <<>>]
        /\ \A n \in 1 .. Len(longer) : h[n] = PartAt(longer[n], h[n - 1])
  BY <1>1, PartsIs
<1> DEFINE S == {n \in 0 .. N : h[n] = f[n]}
<1>4. 0 \in S
  BY <1>1, <1>2, <1>3
<1>5. ASSUME NEW n \in 1 .. N, n - 1 \in S PROVE n \in S
  BY <1>1, <1>2, <1>3, <1>5
<1>6. N \in S
  <2> HIDE DEF S
  <2>1. 0 .. N \subseteq S
    BY <1>1, <1>4, <1>5, UpTo
  <2> QED BY <1>1, <2>1
<1>7. h[N + 1] = PartAt(x, h[N])
  <2>1. N + 1 \in 1 .. N + 1 /\ N + 1 - 1 = N
    BY <1>1
  <2> QED BY <1>1, <1>3, <1>6, <2>1
<1>8. Parts(longer) = h[N + 1] /\ h[N] = f[N]
  BY <1>1, <1>3, <1>6
<1>9. Parts(longer) = PartAt(x, Parts(tokens))
  BY <1>2, <1>7, <1>8
<1> QED BY <1>9 DEF longer

-------------------------------------------------------------------------------
(* The reference: where tokens begin and end. *)

LEMMA CountIs ==
  ASSUME NEW s, NEW i \in Nat
  PROVE  /\ Count(s, i, i) = 1
         /\ \A n \in Nat : n >= i => /\ Count(s, i, n) \in Nat
                                     /\ Count(s, i, n + 1) = Count(s, i, n) + (IF s[n + 1] = s[i] THEN 1 ELSE 0)
<1> DEFINE C(n) == {k \in i .. n : s[k] = s[i]}
<1>1. Cardinality(C(i)) = 1
  <2>1. C(i) = {i}
    OBVIOUS
  <2> HIDE DEF C
  <2> QED BY <2>1, FS_Singleton
<1>2. ASSUME NEW n \in Nat, n >= i
      PROVE  Cardinality(C(n)) \in Nat /\ Cardinality(C(n + 1)) = Cardinality(C(n)) + (IF s[n + 1] = s[i] THEN 1 ELSE 0)
  <2>1. C(n) \subseteq i .. n /\ IsFiniteSet(i .. n)
    BY FS_Interval
  <2>2. IsFiniteSet(C(n)) /\ n + 1 \notin C(n)
    <3>1. IsFiniteSet(C(n))
      BY <2>1, FS_Subset
    <3> QED BY <1>2, <3>1
  <2>3. C(n + 1) = IF s[n + 1] = s[i] THEN C(n) \union {n + 1} ELSE C(n)
    BY <1>2
  <2> HIDE DEF C
  <2>4. Cardinality(C(n) \union {n + 1}) = Cardinality(C(n)) + 1 /\ Cardinality(C(n)) \in Nat
    BY <2>2, FS_AddElement, FS_CardinalityType
  <2> QED BY <2>3, <2>4
<1> QED BY <1>1, <1>2 DEF Count

LEMMA LineIs ==
  ASSUME NEW s \in SqlTexts, NEW b \in 1 .. Len(s), LineStarts(s, b)
  PROVE  LET n == EndOf(s, b) IN
         /\ n \in b + 1 .. Len(s) /\ s[b] = "-" /\ s[b + 1] = "-" /\ b + 1 \in 1 .. Len(s)
         /\ s[n] = "nl" \/ n = Len(s)
         /\ \A k \in b .. n - 1 : s[k] # "nl"
<1> DEFINE n == EndOf(s, b)
           N == Len(s)
<1>0. N \in Nat /\ b \in Nat /\ b \in Int /\ 1 <= b /\ b <= N /\ N \in b .. N /\ Closes(s, b, N)
  BY DEF SqlTexts, Closes
<1>1. s[b] = "-" /\ s[b + 1] = "-" /\ b + 1 \in 1 .. N
  BY AtIs DEF LineStarts, Pair, At
<1>2. \A k : Closes(s, b, k) <=> s[k] = "nl" \/ k = N
  BY DEF Closes
<1>3. n # 0
  <2> DEFINE C == Closings(s, b)
  <2>1. C # {} /\ C \subseteq b .. N
    BY <1>0 DEF Closings
  <2>2. n = Least(C)
    BY <2>1 DEF EndOf
  <2> HIDE DEF C, n
  <2>3. C \subseteq Nat
    BY <1>0, <2>1
  <2>4. Least(C) \in C
    BY <2>1, <2>3, LeastIs
  <2> QED BY <1>0, <2>1, <2>2, <2>4
<1>4. /\ n \in {0} \union b .. N
      /\ n # 0 => Closes(s, b, n) /\ \A k \in b .. N : k < n => ~Closes(s, b, k)
  BY EndIs
<1> HIDE DEF n, N
<1>5. \A k \in b .. n - 1 : s[k] # "nl"
  BY <1>0, <1>2, <1>3, <1>4
<1>6. n # b
  BY <1>0, <1>1, <1>2, <1>3, <1>4
<1> QED BY <1>0, <1>1, <1>2, <1>3, <1>4, <1>5, <1>6 DEF n, N

LEMMA BlockIs ==
  ASSUME NEW s \in SqlTexts, NEW b \in 1 .. Len(s), BlockStarts(s, b), EndOf(s, b) # 0
  PROVE  LET n == EndOf(s, b) IN
         /\ n \in b + 3 .. Len(s) /\ s[b] = "/" /\ s[b + 1] = "*" /\ BlockEnds(s, n - 1) /\ s[n] = "/"
         /\ \A k \in b + 2 .. n - 2 : ~BlockEnds(s, k)
<1> DEFINE n == EndOf(s, b)
           N == Len(s)
<1>0. N \in Nat /\ b \in Nat /\ b \in Int /\ 1 <= b /\ b <= N
  BY DEF SqlTexts
<1>1. s[b] = "/" /\ s[b + 1] = "*"
  BY AtIs DEF BlockStarts, Pair, At
<1>2. \A k : Closes(s, b, k) <=> k >= b + 3 /\ BlockEnds(s, k - 1)
  <2>1. ~LineStarts(s, b)
    BY DEF LineStarts, BlockStarts, Pair
  <2> QED BY <2>1 DEF Closes
<1>4. /\ n \in b .. N
      /\ Closes(s, b, n) /\ \A k \in b .. N : k < n => ~Closes(s, b, k)
  BY EndIs
<1>5. s[n] = "/"
  <2>1. BlockEnds(s, n - 1) /\ n - 1 + 1 = n
    BY <1>0, <1>2, <1>4
  <2>2. At(s, n) = "/" /\ n \in 1 .. Len(s) /\ n \in Int
    <3> HIDE DEF n
    <3> QED BY <1>0, <1>4, <2>1 DEF BlockEnds, Pair
  <2> HIDE DEF n
  <2> QED BY <2>2, AtIs
<1> HIDE DEF n, N
<1>6. ASSUME NEW k \in b + 2 .. n - 2 PROVE ~BlockEnds(s, k)
  <2>1. k + 1 \in b .. N /\ k + 1 < n /\ k + 1 >= b + 3 /\ k + 1 - 1 = k
    BY <1>0, <1>4
  <2> QED BY <1>2, <1>4, <2>1
<1> QED BY <1>0, <1>1, <1>2, <1>4, <1>5, <1>6 DEF n, N

LEMMA QuoteIs ==
  ASSUME NEW s \in SqlTexts, NEW b \in 1 .. Len(s), s[b] \in Quotes, EndOf(s, b) # 0
  PROVE  LET n == EndOf(s, b) IN
         /\ n \in b + 1 .. Len(s) /\ s[n] = s[b] /\ At(s, n + 1) # s[b] /\ Count(s, b, n) % 2 = 0
         /\ \A k \in b .. n - 1 : ~(s[k] = s[b] /\ At(s, k + 1) # s[b] /\ Count(s, b, k) % 2 = 0)
<1> DEFINE n == EndOf(s, b)
           N == Len(s)
<1>0. N \in Nat /\ b \in Nat /\ b \in Int /\ 1 <= b /\ b <= N
  BY DEF SqlTexts
<1>1. At(s, b) = s[b] /\ s[b] # "-" /\ s[b] # "/"
  <2>1. At(s, b) = s[b]
    BY <1>0, AtIs
  <2>2. s[b] # "-" /\ s[b] # "/"
    BY DEF Quotes
  <2> QED BY <2>1, <2>2
<1>2. \A k : Closes(s, b, k) <=> s[k] = s[b] /\ At(s, k + 1) # s[b] /\ Count(s, b, k) % 2 = 0
  <2>1. ~LineStarts(s, b) /\ ~BlockStarts(s, b)
    BY <1>1 DEF LineStarts, BlockStarts, Pair
  <2> QED BY <2>1 DEF Closes
<1>4. /\ n \in b .. N
      /\ Closes(s, b, n) /\ \A k \in b .. N : k < n => ~Closes(s, b, k)
  BY EndIs
<1>5. Count(s, b, b) = 1
  BY <1>0, CountIs
<1> HIDE DEF n, N
<1>6. n # b
  BY <1>2, <1>4, <1>5
<1>7. \A k \in b .. n - 1 : ~Closes(s, b, k)
  BY <1>0, <1>4
<1> QED BY <1>0, <1>2, <1>4, <1>6, <1>7 DEF n, N

LEMMA WordIs ==
  ASSUME NEW s \in SqlTexts, NEW b \in 1 .. Len(s), s[b] \in Letters, EndOf(s, b) # 0
  PROVE  LET n == EndOf(s, b) IN
         /\ n \in b .. Len(s) /\ At(s, n + 1) \notin Letters
         /\ \A k \in b .. n : s[k] \in Letters
<1> DEFINE n == EndOf(s, b)
           N == Len(s)
<1>0. N \in Nat /\ b \in Nat /\ b \in Int /\ 1 <= b /\ b <= N
  BY DEF SqlTexts
<1>1. At(s, b) = s[b] /\ s[b] # "-" /\ s[b] # "/" /\ s[b] \notin Quotes
  <2>1. At(s, b) = s[b]
    BY <1>0, AtIs
  <2>2. s[b] # "-" /\ s[b] # "/" /\ s[b] \notin Quotes
    BY DEF Quotes, Letters
  <2> QED BY <2>1, <2>2
<1>2. \A k : Closes(s, b, k) <=> At(s, k + 1) \notin Letters
  <2>1. ~LineStarts(s, b) /\ ~BlockStarts(s, b)
    BY <1>1 DEF LineStarts, BlockStarts, Pair
  <2> QED BY <1>1, <2>1 DEF Closes
<1>4. /\ n \in b .. N
      /\ Closes(s, b, n) /\ \A k \in b .. N : k < n => ~Closes(s, b, k)
  BY EndIs
<1>5. ASSUME NEW k \in b .. n PROVE s[k] \in Letters
  <2>1. CASE k = b
    BY <2>1
  <2>2. CASE k # b
    <3> HIDE DEF n, N
    <3>1. k - 1 \in b .. N /\ k - 1 < n /\ k - 1 + 1 = k /\ k \in 1 .. N /\ k \in Int
      BY <1>0, <1>4, <2>2
    <3>2. At(s, k) \in Letters
      BY <1>2, <1>4, <3>1
    <3> QED BY <3>1, <3>2, AtIs DEF N
  <2> QED BY <2>1, <2>2
<1> QED BY <1>2, <1>4, <1>5

LEMMA OtherIs ==
  ASSUME NEW s \in SqlTexts, NEW b \in 1 .. Len(s), ~LineStarts(s, b), ~BlockStarts(s, b), s[b] \notin Quotes \union Letters
  PROVE  EndOf(s, b) = b
<1>1. Closes(s, b, b)
  BY DEF Closes
<1>2. b \in b .. Len(s) /\ b .. b - 1 = {}
  BY DEF SqlTexts
<1> QED BY <1>1, <1>2, EndIs

-------------------------------------------------------------------------------
(* The reference: how it goes from one item to the next. *)

Boundary(s, i) == i \in 0 .. Len(s) /\ LexScan(s)[i].end = i
Closed(s) == Unclosed \notin Range(Lex(s))

LEMMA LexStarts ==
  ASSUME NEW s \in SqlTexts
  PROVE  Boundary(s, 0) /\ LexScan(s)[0].tokens = <<>> /\ Len(s) \in Nat
<1>1. Len(s) \in Nat
  BY DEF SqlTexts
<1> QED BY <1>1, LexIs DEF Boundary

LEMMA LexEnds ==
  ASSUME NEW s \in SqlTexts
  PROVE  \A i \in 0 .. Len(s) : LexScan(s)[i].end \in i .. Len(s)
<1> DEFINE N == Len(s)
           f == LexScan(s)
           S == {i \in 0 .. N : f[i].end \in i .. N}
<1>1. N \in Nat /\ f[0] = [end |-> 0, tokens |-> <<>>] /\ \A i \in 1 .. N : f[i] = LexAt(s, i, f[i - 1])
  BY LexIs DEF SqlTexts
<1>2. \A i \in 1 .. N : EndOf(s, i) \in {0} \union i .. N
  BY EndIs
<1> HIDE DEF N, f
<1>3. 0 \in S
  BY <1>1
<1>4. ASSUME NEW i \in 1 .. N, i - 1 \in S PROVE i \in S
  <2>1. f[i] = LexAt(s, i, f[i - 1]) /\ f[i - 1].end \in i - 1 .. N
    BY <1>1, <1>4
  <2>2. EndOf(s, i) \in {0} \union i .. N
    BY <1>2
  <2>3. f[i].end = IF i <= f[i - 1].end THEN f[i - 1].end ELSE IF EndOf(s, i) = 0 THEN N ELSE EndOf(s, i)
    BY <2>1 DEF LexAt, N
  <2> QED BY <1>1, <2>1, <2>2, <2>3
<1>5. 0 .. N \subseteq S
  <2> HIDE DEF S
  <2> QED BY <1>1, <1>3, <1>4, UpTo
<1> QED BY <1>5 DEF N, f

\* After an item has begun, nothing happens until it has ended.
LEMMA LexJump ==
  ASSUME NEW s \in SqlTexts, NEW j \in 1 .. Len(s), Boundary(s, j - 1)
  PROVE  LET e == IF EndOf(s, j) = 0 THEN Len(s) ELSE EndOf(s, j) IN
         /\ e \in j .. Len(s)
         /\ \A k \in j .. e : /\ LexScan(s)[k].end = e
                              /\ LexScan(s)[k].tokens =
                                   IF Blank(s, j, EndOf(s, j)) THEN LexScan(s)[j - 1].tokens
                                   ELSE Append(LexScan(s)[j - 1].tokens, TokenAt(s, j, EndOf(s, j)))
<1> DEFINE N == Len(s)
           f == LexScan(s)
           e == IF EndOf(s, j) = 0 THEN Len(s) ELSE EndOf(s, j)
           z == LexAt(s, j, f[j - 1])
           S == {k \in 0 .. e : k >= j => f[k] = z}
<1>1. N \in Nat /\ (\A i \in 1 .. N : f[i] = LexAt(s, i, f[i - 1])) /\ j \in Nat /\ 1 <= j /\ j <= N
  BY LexIs DEF SqlTexts
<1>2. EndOf(s, j) \in {0} \union j .. N
  BY EndIs
<1>3. e \in j .. N
  BY <1>1, <1>2 DEF N
<1>4. z.end = e /\ z.tokens = IF Blank(s, j, EndOf(s, j)) THEN f[j - 1].tokens ELSE Append(f[j - 1].tokens, TokenAt(s, j, EndOf(s, j)))
  <2>1. f[j - 1].end = j - 1 /\ ~(j <= j - 1)
    BY <1>1 DEF Boundary
  <2>2. z = [end |-> e, tokens |-> IF Blank(s, j, EndOf(s, j)) THEN f[j - 1].tokens ELSE Append(f[j - 1].tokens, TokenAt(s, j, EndOf(s, j)))]
    <3> HIDE DEF f
    <3>1. ~(j <= f[j - 1].end)
      BY <2>1
    <3> QED BY <3>1 DEF LexAt
  <2> QED BY <2>2
<1> HIDE DEF N, f, e, z
<1>5. 0 \in S
  BY <1>1, <1>3
<1>6. ASSUME NEW k \in 1 .. e, k - 1 \in S PROVE k \in S
  <2>1. CASE k < j
    BY <2>1, <1>1, <1>3
  <2>2. CASE k = j
    BY <1>1, <1>3, <2>2 DEF z
  <2>3. CASE k > j
    <3>1. f[k - 1] = z /\ k \in 1 .. N /\ k <= z.end
      BY <1>1, <1>3, <1>4, <1>6, <2>3
    <3>2. LexAt(s, k, z) = z
      BY <3>1 DEF LexAt
    <3> QED BY <1>1, <3>1, <3>2
  <2> QED BY <1>1, <1>3, <2>1, <2>2, <2>3
<1>7. 0 .. e \subseteq S
  <2>1. e \in Nat
    BY <1>1, <1>3
  <2> HIDE DEF S
  <2> QED BY <1>5, <1>6, <2>1, UpTo
<1>8. \A k \in j .. e : f[k] = z
  BY <1>1, <1>3, <1>7
<1> QED BY <1>3, <1>4, <1>8 DEF e, f, N

\* Where a text is closed, every item ends.
LEMMA ItemEnds ==
  ASSUME NEW s \in SqlTexts, Closed(s), NEW j \in 1 .. Len(s), Boundary(s, j - 1)
  PROVE  /\ EndOf(s, j) \in j .. Len(s) /\ Boundary(s, EndOf(s, j))
         /\ LexScan(s)[EndOf(s, j)].tokens =
              IF Blank(s, j, EndOf(s, j)) THEN LexScan(s)[j - 1].tokens
              ELSE Append(LexScan(s)[j - 1].tokens, TokenAt(s, j, EndOf(s, j)))
<1> DEFINE n == EndOf(s, j)
<1>1. n # 0
  <2> SUFFICES ASSUME n = 0 PROVE FALSE
    OBVIOUS
  <2>1. Lex(s) = Append(LexScan(s)[j - 1].tokens, Unclosed)
    <3>1. ~Blank(s, j, n) /\ TokenAt(s, j, n) = Unclosed
      BY DEF Blank, TokenAt
    <3>2. Len(s) \in j .. Len(s)
      BY DEF SqlTexts
    <3> QED BY <3>1, <3>2, LexJump DEF Lex
  <2>2. LexScan(s)[j - 1].tokens \in Seq(Tokens)
    <3>1. j - 1 \in 0 .. Len(s)
      BY DEF Boundary
    <3>2. LexScan(s)[j - 1] \in LexStates
      BY <3>1, LexIs
    <3> QED BY <3>2 DEF LexStates
  <2> DEFINE before == LexScan(s)[j - 1].tokens
  <2> HIDE DEF before
  <2>3. Unclosed \in Range(Append(before, Unclosed))
    <3>1. before \in Seq(Tokens)
      BY <2>2 DEF before
    <3>2. Len(before) + 1 \in DOMAIN Append(before, Unclosed) /\ Append(before, Unclosed)[Len(before) + 1] = Unclosed
      BY <3>1
    <3> QED BY <3>2 DEF Range
  <2> QED BY <2>1, <2>3 DEF Closed, before
<1>2. n \in {0} \union j .. Len(s)
  BY EndIs
<1>3. n \in j .. Len(s) /\ n \in j .. n /\ n \in 0 .. Len(s)
  BY <1>1, <1>2 DEF SqlTexts
<1> QED BY <1>1, <1>3, LexJump DEF Boundary

\* Every place is in an item, or at the end of one.
LEMMA InItem ==
  ASSUME NEW s \in SqlTexts, Closed(s)
  PROVE  \A i \in 1 .. Len(s) : \E b \in 1 .. i : Boundary(s, b - 1) /\ i <= EndOf(s, b)
<1> DEFINE N == Len(s)
           In(i) == \E b \in 1 .. i : Boundary(s, b - 1) /\ i <= EndOf(s, b)
           S == {i \in 0 .. N : i > 0 => In(i)}
<1>1. N \in Nat /\ 0 \in S
  BY DEF SqlTexts
<1>2. ASSUME NEW i \in 1 .. N, i - 1 \in S PROVE i \in S
  <2>1. CASE i = 1
    <3>1. Boundary(s, 0) /\ 1 - 1 = 0 /\ EndOf(s, 1) \in 1 .. N
      <4>1. Boundary(s, 0) /\ 1 - 1 = 0
        BY LexStarts
      <4> QED BY <4>1, <2>1, ItemEnds
    <3>2. In(1)
      BY <3>1, <1>1
    <3> QED BY <2>1, <3>2
  <2>2. CASE i # 1
    <3>1. PICK b \in 1 .. i - 1 : Boundary(s, b - 1) /\ i - 1 <= EndOf(s, b)
      BY <1>1, <1>2, <2>2
    <3>2. b \in 1 .. N /\ b \in 1 .. i /\ i \in 1 .. i
      BY <1>1, <3>1
    <3>3. EndOf(s, b) \in b .. N /\ Boundary(s, EndOf(s, b))
      BY <3>1, <3>2, ItemEnds
    <3>4. CASE i <= EndOf(s, b)
      BY <3>1, <3>2, <3>4
    <3>5. CASE ~(i <= EndOf(s, b))
      <4>1. Boundary(s, i - 1)
        <5>1. EndOf(s, b) = i - 1
          BY <1>1, <3>1, <3>3, <3>5
        <5> QED BY <3>3, <5>1
      <4>2. i <= EndOf(s, i)
        BY <1>1, <4>1, ItemEnds
      <4> QED BY <3>2, <4>1, <4>2
    <3> QED BY <3>4, <3>5
  <2> QED BY <2>1, <2>2
<1>3. 0 .. N \subseteq S
  <2> HIDE DEF S, N
  <2> QED BY <1>1, <1>2, UpTo
<1> QED BY <1>1, <1>3

\* What holds at the start and goes on over each item holds at every boundary.
LEMMA Items ==
  ASSUME NEW s \in SqlTexts, Closed(s), NEW S, 0 \in S,
         \A j \in 1 .. Len(s) : Boundary(s, j - 1) /\ j - 1 \in S => EndOf(s, j) \in S
  PROVE  \A i : Boundary(s, i) => i \in S
<1> DEFINE N == Len(s)
           T == {n \in 0 .. N : \A m \in 0 .. n : Boundary(s, m) => m \in S}
<1>1. N \in Nat /\ 0 \in T
  BY DEF SqlTexts
<1>2. ASSUME NEW n \in 1 .. N, n - 1 \in T PROVE n \in T
  <2>1. ASSUME Boundary(s, n) PROVE n \in S
    <3>1. PICK b \in 1 .. n : Boundary(s, b - 1) /\ n <= EndOf(s, b)
      BY InItem
    <3>2. b \in 1 .. N /\ b - 1 \in 0 .. n - 1
      BY <1>1, <3>1
    <3>3. b - 1 \in S
      BY <1>2, <3>1, <3>2
    <3>4. EndOf(s, b) \in S
      BY <3>1, <3>2, <3>3
    <3>5. EndOf(s, b) = n
      <4>1. EndOf(s, b) # 0 /\ n \in b .. EndOf(s, b)
        BY <1>1, <3>1
      <4>2. LexScan(s)[n].end = EndOf(s, b)
        BY <3>1, <3>2, <4>1, LexJump
      <4> QED BY <2>1, <4>2 DEF Boundary
    <3> QED BY <3>4, <3>5
  <2>2. \A m \in 0 .. n : m \in 0 .. n - 1 \/ m = n
    BY <1>1
  <2> QED BY <1>1, <1>2, <2>1, <2>2
<1>3. 0 .. N \subseteq T
  <2> HIDE DEF T, N
  <2> QED BY <1>1, <1>2, UpTo
<1>4. \A i : Boundary(s, i) => i \in 0 .. N /\ i \in 0 .. i
  BY <1>1 DEF Boundary
<1> QED BY <1>3, <1>4

LEMMA LexClosed ==
  ASSUME NEW s \in SqlTexts
  PROVE  Boundary(s, Len(s)) /\ Lex(s) = LexScan(s)[Len(s)].tokens
<1>1. Len(s) \in Nat /\ Len(s) \in 0 .. Len(s)
  BY DEF SqlTexts
<1>2. LexScan(s)[Len(s)].end \in Len(s) .. Len(s)
  BY <1>1, LexEnds
<1> QED BY <1>1, <1>2 DEF Boundary, Lex

-------------------------------------------------------------------------------
(* The walk of both scans, over each kind of item. *)

State(q, a) == [state |-> q, ahead |-> a]

LEMMA WalkNext ==
  ASSUME NEW s \in SqlTexts, NEW doubled, NEW b \in 1 .. Len(s), NEW n \in b .. Len(s), Walk(s, doubled)[b - 1] = Outside
  PROVE  /\ b \in Nat /\ n \in Nat /\ 1 <= b /\ b <= n /\ n <= Len(s) /\ Len(s) \in Nat
         /\ Walk(s, doubled)[b] = Moved(s, b, Outside, doubled)
         /\ \A k \in b + 1 .. n : Walk(s, doubled)[k] = Moved(s, k, Walk(s, doubled)[k - 1], doubled)
<1>1. b \in Nat /\ n \in Nat /\ 1 <= b /\ b <= n /\ n <= Len(s) /\ Len(s) \in Nat
  BY DEF SqlTexts
<1>2. \A k \in b + 1 .. n : k \in 1 .. Len(s)
  BY <1>1
<1> QED BY <1>1, <1>2, WalkIs

LEMMA WalkLine ==
  ASSUME NEW s \in SqlTexts, NEW doubled, NEW b \in 1 .. Len(s), Walk(s, doubled)[b - 1] = Outside, LineStarts(s, b)
  PROVE  LET w == Walk(s, doubled)
             n == EndOf(s, b) IN
         /\ \A k \in b .. n - 1 : w[k] = State("line", IF k = b THEN 1 ELSE 0)
         /\ w[n] = IF s[n] = "nl" THEN Outside ELSE State("line", 0)
<1> DEFINE w == Walk(s, doubled)
           n == EndOf(s, b)
           S == {m \in 0 .. n - 1 - b : w[b + m] = State("line", IF m = 0 THEN 1 ELSE 0)}
<1>1. n \in b + 1 .. Len(s) /\ s[b + 1] = "-" /\ \A k \in b .. n - 1 : s[k] # "nl"
  BY LineIs
<1>2. n \in b .. Len(s)
  BY <1>1 DEF SqlTexts
<1>3. /\ b \in Nat /\ n \in Nat /\ 1 <= b /\ b <= n /\ n <= Len(s) /\ Len(s) \in Nat
      /\ w[b] = Moved(s, b, Outside, doubled)
      /\ \A k \in b + 1 .. n : w[k] = Moved(s, k, w[k - 1], doubled)
  BY <1>2, WalkNext
<1>4. w[b] = State("line", 1)
  BY <1>3 DEF Moved, Outside, State
<1>5. \A k : Moved(s, k, State("line", 1), doubled) = State("line", 0)
  BY DEF Moved, State
<1>6. \A k : Moved(s, k, State("line", 0), doubled) = IF s[k] = "nl" THEN Outside ELSE State("line", 0)
  BY DEF Moved, State
<1> HIDE DEF w, n
<1>7. 0 \in S
  BY <1>1, <1>3, <1>4
<1>8. ASSUME NEW m \in 1 .. n - 1 - b, m - 1 \in S PROVE m \in S
  <2>1. b + m \in b + 1 .. n /\ b + m \in b .. n - 1 /\ b + m - 1 = b + (m - 1) /\ m # 0 /\ m \in 0 .. n - 1 - b
    BY <1>1, <1>3
  <2>2. w[b + m] = Moved(s, b + m, State("line", IF m - 1 = 0 THEN 1 ELSE 0), doubled)
    BY <1>3, <1>8, <2>1
  <2>3. s[b + m] # "nl"
    BY <1>1, <2>1
  <2> QED BY <1>5, <1>6, <2>1, <2>2, <2>3
<1>9. 0 .. n - 1 - b \subseteq S
  <2>1. n - 1 - b \in Nat
    BY <1>1, <1>3
  <2> HIDE DEF S
  <2> QED BY <1>7, <1>8, <2>1, UpTo
<1>10. ASSUME NEW k \in b .. n - 1 PROVE w[k] = State("line", IF k = b THEN 1 ELSE 0)
  <2>1. k - b \in 0 .. n - 1 - b /\ b + (k - b) = k /\ (k - b = 0 <=> k = b)
    BY <1>3
  <2> QED BY <1>9, <2>1
<1>11. w[n] = IF s[n] = "nl" THEN Outside ELSE State("line", 0)
  <2>1. n \in b + 1 .. n /\ n - 1 \in b .. n - 1
    BY <1>1, <1>3
  <2>2. w[n] = Moved(s, n, State("line", IF n - 1 = b THEN 1 ELSE 0), doubled)
    BY <1>3, <1>10, <2>1
  <2>3. n - 1 = b => s[n] # "nl"
    BY <1>1, <1>3
  <2> QED BY <1>5, <1>6, <2>2, <2>3
<1> QED BY <1>10, <1>11 DEF w, n

LEMMA WalkBlock ==
  ASSUME NEW s \in SqlTexts, NEW doubled, NEW b \in 1 .. Len(s), Walk(s, doubled)[b - 1] = Outside,
         BlockStarts(s, b), EndOf(s, b) # 0
  PROVE  LET w == Walk(s, doubled)
             n == EndOf(s, b) IN
         /\ \A k \in b .. n - 2 : w[k] = State("block", IF k = b THEN 1 ELSE 0)
         /\ w[n - 1] = State("normal", 1) /\ w[n] = Outside
<1> DEFINE w == Walk(s, doubled)
           n == EndOf(s, b)
           S == {m \in 0 .. n - 2 - b : w[b + m] = State("block", IF m = 0 THEN 1 ELSE 0)}
<1>1. n \in b + 3 .. Len(s) /\ BlockEnds(s, n - 1) /\ \A k \in b + 2 .. n - 2 : ~BlockEnds(s, k)
  BY BlockIs
<1>2. n \in b .. Len(s)
  BY <1>1 DEF SqlTexts
<1>3. /\ b \in Nat /\ n \in Nat /\ 1 <= b /\ b <= n /\ n <= Len(s) /\ Len(s) \in Nat
      /\ w[b] = Moved(s, b, Outside, doubled)
      /\ \A k \in b + 1 .. n : w[k] = Moved(s, k, w[k - 1], doubled)
  BY <1>2, WalkNext
<1>4. w[b] = State("block", 1)
  <2>1. ~LineStarts(s, b)
    BY DEF LineStarts, BlockStarts, Pair
  <2> QED BY <1>3, <2>1 DEF Moved, Outside, State
<1>5. \A k, q : Moved(s, k, State(q, 1), doubled) = State(q, 0)
  BY DEF Moved, State
<1>6. \A k : Moved(s, k, State("block", 0), doubled) = IF BlockEnds(s, k) THEN State("normal", 1) ELSE State("block", 0)
  BY DEF Moved, State
<1> HIDE DEF w, n
<1>7. 0 \in S
  BY <1>1, <1>3, <1>4
<1>8. ASSUME NEW m \in 1 .. n - 2 - b, m - 1 \in S PROVE m \in S
  <2>1. b + m \in b + 1 .. n /\ b + m - 1 = b + (m - 1) /\ m # 0 /\ m \in 0 .. n - 2 - b
    BY <1>1, <1>3
  <2>2. w[b + m] = Moved(s, b + m, State("block", IF m - 1 = 0 THEN 1 ELSE 0), doubled)
    BY <1>3, <1>8, <2>1
  <2>3. m # 1 => ~BlockEnds(s, b + m)
    <3>1. m # 1 => b + m \in b + 2 .. n - 2
      BY <1>1, <1>3, <2>1
    <3> QED BY <1>1, <3>1
  <2> QED BY <1>5, <1>6, <2>1, <2>2, <2>3
<1>9. 0 .. n - 2 - b \subseteq S
  <2>1. n - 2 - b \in Nat
    BY <1>1, <1>3
  <2> HIDE DEF S
  <2> QED BY <1>7, <1>8, <2>1, UpTo
<1>10. ASSUME NEW k \in b .. n - 2 PROVE w[k] = State("block", IF k = b THEN 1 ELSE 0)
  <2>1. k - b \in 0 .. n - 2 - b /\ b + (k - b) = k /\ (k - b = 0 <=> k = b)
    BY <1>3
  <2> QED BY <1>9, <2>1
<1>11. w[n - 1] = State("normal", 1)
  <2>1. n - 1 \in b + 1 .. n /\ n - 1 - 1 = n - 2 /\ n - 2 \in b .. n - 2 /\ n - 2 # b
    BY <1>1, <1>3
  <2>2. w[n - 1] = Moved(s, n - 1, State("block", 0), doubled)
    BY <1>3, <1>10, <2>1
  <2> QED BY <1>1, <1>6, <2>2
<1>12. w[n] = Outside
  <2>1. n \in b + 1 .. n
    BY <1>1, <1>3
  <2>2. w[n] = Moved(s, n, State("normal", 1), doubled)
    BY <1>3, <1>11, <2>1
  <2> QED BY <1>5, <2>2 DEF Outside, State
<1> QED BY <1>10, <1>11, <1>12 DEF w, n

LEMMA WalkWord ==
  ASSUME NEW s \in SqlTexts, NEW doubled, NEW b \in 1 .. Len(s), Walk(s, doubled)[b - 1] = Outside,
         ~LineStarts(s, b), ~BlockStarts(s, b), s[b] \notin Quotes, EndOf(s, b) # 0
  PROVE  LET w == Walk(s, doubled)
             n == EndOf(s, b) IN
         /\ n \in b .. Len(s) /\ (n = b \/ (s[b] \in Letters /\ \A k \in b .. n : s[k] \in Letters))
         /\ \A k \in b .. n : w[k] = Outside /\ ~LineStarts(s, k) /\ ~BlockStarts(s, k) /\ s[k] \notin Quotes
<1> DEFINE w == Walk(s, doubled)
           n == EndOf(s, b)
           S == {m \in 0 .. n - b : w[b + m] = Outside}
<1>1. n \in b .. Len(s) /\ (n = b \/ (s[b] \in Letters /\ \A k \in b .. n : s[k] \in Letters))
  <2>1. CASE s[b] \in Letters
    BY <2>1, WordIs
  <2>2. CASE s[b] \notin Letters
    <3>1. n = b
      BY <2>2, OtherIs
    <3>2. b \in b .. Len(s)
      BY DEF SqlTexts
    <3> HIDE DEF n
    <3> QED BY <3>1, <3>2
  <2> QED BY <2>1, <2>2
<1>3. /\ b \in Nat /\ n \in Nat /\ 1 <= b /\ b <= n /\ n <= Len(s) /\ Len(s) \in Nat
      /\ w[b] = Moved(s, b, Outside, doubled)
      /\ \A k \in b + 1 .. n : w[k] = Moved(s, k, w[k - 1], doubled)
  BY <1>1, WalkNext
<1>4. ASSUME NEW k \in b .. n PROVE ~LineStarts(s, k) /\ ~BlockStarts(s, k) /\ s[k] \notin Quotes
  <2>1. CASE k = b
    BY <2>1
  <2>2. CASE k # b
    <3>1. s[k] \in Letters /\ k \in 1 .. Len(s) /\ k \in Int
      BY <1>1, <1>3, <2>2
    <3>2. s[k] # "-" /\ s[k] # "/" /\ s[k] \notin Quotes
      BY <3>1 DEF Letters, Quotes
    <3>3. At(s, k) = s[k]
      BY <3>1, AtIs
    <3> QED BY <3>2, <3>3 DEF LineStarts, BlockStarts, Pair
  <2> QED BY <2>1, <2>2
<1>5. \A k \in b .. n : Moved(s, k, Outside, doubled) = Outside
  BY <1>4 DEF Moved, Outside
<1> HIDE DEF w, n
<1>7. 0 \in S
  BY <1>3, <1>5
<1>8. ASSUME NEW m \in 1 .. n - b, m - 1 \in S PROVE m \in S
  <2>1. b + m \in b + 1 .. n /\ b + m \in b .. n /\ b + m - 1 = b + (m - 1) /\ m \in 0 .. n - b
    BY <1>3
  <2>2. w[b + m] = Moved(s, b + m, w[b + (m - 1)], doubled)
    BY <1>3, <2>1
  <2>3. w[b + (m - 1)] = Outside
    BY <1>8
  <2>4. w[b + m] = Outside
    BY <1>5, <2>1, <2>2, <2>3
  <2> QED BY <2>1, <2>4
<1>9. 0 .. n - b \subseteq S
  <2>1. n - b \in Nat
    BY <1>3
  <2> HIDE DEF S
  <2> QED BY <1>7, <1>8, <2>1, UpTo
<1>10. ASSUME NEW k \in b .. n PROVE w[k] = Outside
  <2>1. k - b \in 0 .. n - b /\ b + (k - b) = k
    BY <1>3
  <2> QED BY <1>9, <2>1
<1> QED BY <1>1, <1>4, <1>10 DEF w, n

LEMMA Parity ==
  ASSUME NEW c \in Nat
  PROVE  c % 2 \in {0, 1} /\ ((c + 1) % 2 = 0 <=> c % 2 = 1)
OBVIOUS

LEMMA WalkQuote ==
  ASSUME NEW s \in SqlTexts, NEW doubled, NEW b \in 1 .. Len(s), Walk(s, doubled)[b - 1] = Outside,
         s[b] \in Quotes, EndOf(s, b) # 0
  PROVE  LET w == Walk(s, doubled)
             n == EndOf(s, b) IN
         /\ \A k \in b .. n - 1 : w[k].state = s[b] \/ (w[k] = Outside /\ s[k + 1] = s[b])
         /\ w[n] = Outside
<1> DEFINE w == Walk(s, doubled)
           n == EndOf(s, b)
           q == s[b]
           odd(k) == Count(s, b, k) % 2 = 1
           Good(k) == \/ w[k] = State(q, 0) /\ odd(k)
                      \/ w[k] \in {State(q, 1), Outside} /\ ~odd(k) /\ s[k + 1] = q
           S == {m \in 0 .. n - 1 - b : Good(b + m)}
<1>1. /\ n \in b + 1 .. Len(s) /\ s[n] = q /\ At(s, n + 1) # q /\ ~odd(n)
      /\ \A k \in b .. n - 1 : ~(s[k] = q /\ At(s, k + 1) # q /\ Count(s, b, k) % 2 = 0)
  BY QuoteIs
<1>2. n \in b .. Len(s)
  BY <1>1 DEF SqlTexts
<1>3. /\ b \in Nat /\ n \in Nat /\ 1 <= b /\ b <= n /\ n <= Len(s) /\ Len(s) \in Nat
      /\ w[b] = Moved(s, b, Outside, doubled)
      /\ \A k \in b + 1 .. n : w[k] = Moved(s, k, w[k - 1], doubled)
  BY <1>2, WalkNext
<1>0. q # "normal" /\ q # "line" /\ q # "block" /\ q # "-" /\ q # "/" /\ q \in Quotes
  BY DEF Quotes
<1>4. \A k \in b .. n : At(s, k) = s[k] /\ (k < n => At(s, k + 1) = s[k + 1])
  <2>1. \A k \in b .. n : k \in 1 .. Len(s) /\ k \in Int /\ (k < n => k + 1 \in 1 .. Len(s) /\ k + 1 \in Int)
    BY <1>3
  <2> QED BY <2>1, AtIs
<1>5. /\ Count(s, b, b) = 1 /\ odd(b)
      /\ \A k \in b .. n - 1 : odd(k + 1) <=> IF s[k + 1] = q THEN ~odd(k) ELSE odd(k)
  <2>1. Count(s, b, b) = 1
    BY <1>3, CountIs
  <2>2. ASSUME NEW k \in b .. n - 1
        PROVE  Count(s, b, k) \in Nat /\ Count(s, b, k + 1) = Count(s, b, k) + (IF s[k + 1] = q THEN 1 ELSE 0)
    <3>1. k \in Nat /\ k >= b /\ b \in Nat
      BY <1>3
    <3> HIDE DEF n, w, odd
    <3>2. Count(s, b, k) \in Nat /\ Count(s, b, k + 1) = Count(s, b, k) + (IF s[k + 1] = s[b] THEN 1 ELSE 0)
      BY <3>1, CountIs
    <3> QED BY <3>2
  <2>3. ASSUME NEW k \in b .. n - 1 PROVE odd(k + 1) <=> IF s[k + 1] = q THEN ~odd(k) ELSE odd(k)
    <3> DEFINE c == Count(s, b, k)
               d == Count(s, b, k + 1)
    <3>1. c \in Nat /\ d = c + (IF s[k + 1] = q THEN 1 ELSE 0)
      BY <2>2
    <3> HIDE DEF c, d
    <3>2. d % 2 = 1 <=> IF s[k + 1] = q THEN ~(c % 2 = 1) ELSE c % 2 = 1
      <4>1. c % 2 \in {0, 1} /\ (c + 1) % 2 \in {0, 1} /\ ((c + 1) % 2 = 0 <=> c % 2 = 1)
        <5>1. c + 1 \in Nat
          BY <3>1
        <5> QED BY <3>1, <5>1, Parity
      <4>2. c + 0 = c
        BY <3>1
      <4> QED BY <3>1, <4>1, <4>2
    <3> QED BY <3>2 DEF c, d
  <2> QED BY <2>1, <2>3
<1>6. \A k \in b .. n : Count(s, b, k) % 2 = 0 <=> ~odd(k)
  <2>1. ASSUME NEW k \in b .. n PROVE Count(s, b, k) \in Nat
    <3>1. k \in Nat /\ k >= b
      BY <1>3
    <3> QED BY <1>3, <3>1, CountIs
  <2> QED BY <2>1, Parity
<1>7. \A k \in b .. n : Moved(s, k, Outside, doubled) = IF s[k] = q THEN State(q, 0) ELSE Moved(s, k, Outside, doubled)
  <2>1. \A k \in b .. n : s[k] = q => ~LineStarts(s, k) /\ ~BlockStarts(s, k)
    BY <1>0, <1>4 DEF LineStarts, BlockStarts, Pair
  <2>2. \A k \in b .. n : s[k] = q => Moved(s, k, Outside, doubled) = State(s[k], 0)
    BY <1>0, <2>1 DEF Moved, Outside, State
  <2> QED BY <2>2
<1>8. \A k : Moved(s, k, State(q, 1), doubled) = State(q, 0)
  BY DEF Moved, State
<1>9. \A k \in b .. n : Moved(s, k, State(q, 0), doubled) =
        IF s[k] = q THEN IF q \in doubled /\ At(s, k + 1) = q THEN State(q, 1) ELSE Outside ELSE State(q, 0)
  <2> SUFFICES ASSUME NEW k \in b .. n
               PROVE  Moved(s, k, State(q, 0), doubled) =
                        IF s[k] = q THEN IF q \in doubled /\ At(s, k + 1) = q THEN State(q, 1) ELSE Outside ELSE State(q, 0)
    OBVIOUS
  <2>1. State(q, 0).state = q /\ State(q, 0).ahead = 0
    BY DEF State
  <2>2. Pair(s, k, q, q) <=> s[k] = q /\ At(s, k + 1) = q
    BY <1>4 DEF Pair
  <2>3. State(q, 1) = [state |-> q, ahead |-> 1]
    BY DEF State
  <2> QED BY <1>0, <2>1, <2>2, <2>3 DEF Moved
<1> HIDE DEF w, n, q, odd
<1>10. 0 \in S
  <2>1. w[b] = State(q, 0)
    BY <1>3, <1>7 DEF q
  <2> QED BY <1>1, <1>3, <1>5, <2>1
<1>11. ASSUME NEW m \in 1 .. n - 1 - b, m - 1 \in S PROVE m \in S
  <2> DEFINE k == b + (m - 1)
  <2>1. /\ k \in b .. n - 1 /\ k + 1 = b + m /\ k + 1 \in b .. n - 1 /\ m \in 0 .. n - 1 - b
        /\ k + 1 \in b + 1 .. n /\ k + 1 \in b .. n /\ k + 1 - 1 = k /\ k + 1 < n
    BY <1>1, <1>3
  <2>2. Good(k)
    BY <1>11
  <2> HIDE DEF k
  <2>3. w[k + 1] = Moved(s, k + 1, w[k], doubled)
    BY <1>3, <2>1
  <2>4. odd(k + 1) <=> IF s[k + 1] = q THEN ~odd(k) ELSE odd(k)
    BY <1>5, <2>1
  <2>5. s[k + 1] = q /\ ~odd(k + 1) => s[k + 1 + 1] = q
    BY <1>1, <1>4, <1>6, <2>1
  <2>6. At(s, k + 1 + 1) = s[k + 1 + 1]
    BY <1>4, <2>1
  <2>7. Good(k + 1)
    <3>1. CASE w[k] = State(q, 0) /\ odd(k)
      BY <1>9, <2>1, <2>3, <2>4, <2>5, <2>6, <3>1
    <3>2. CASE w[k] = State(q, 1) /\ ~odd(k) /\ s[k + 1] = q
      BY <1>8, <2>3, <2>4, <3>2
    <3>3. CASE w[k] = Outside /\ ~odd(k) /\ s[k + 1] = q
      BY <1>7, <2>1, <2>3, <2>4, <3>3
    <3> QED BY <2>2, <3>1, <3>2, <3>3
  <2> QED BY <2>1, <2>7
<1>12. 0 .. n - 1 - b \subseteq S
  <2>1. n - 1 - b \in Nat
    BY <1>1, <1>3
  <2> HIDE DEF S
  <2> QED BY <1>10, <1>11, <2>1, UpTo
<1>13. ASSUME NEW k \in b .. n - 1 PROVE Good(k)
  <2>1. k - b \in 0 .. n - 1 - b /\ b + (k - b) = k
    BY <1>3
  <2> QED BY <1>12, <2>1
<1>14. \A k \in b .. n - 1 : w[k].state = q \/ (w[k] = Outside /\ s[k + 1] = q)
  <2>1. \A a : State(q, a).state = q
    BY DEF State
  <2>2. ASSUME NEW k \in b .. n - 1 PROVE w[k].state = q \/ (w[k] = Outside /\ s[k + 1] = q)
    <3>0. \/ w[k] = State(q, 0) /\ odd(k)
          \/ w[k] \in {State(q, 1), Outside} /\ ~odd(k) /\ s[k + 1] = q
      BY <1>13
    <3>1. w[k] = State(q, 0) \/ w[k] = State(q, 1) \/ (w[k] = Outside /\ s[k + 1] = q)
      BY <3>0
    <3> QED BY <2>1, <3>1
  <2> QED BY <2>2
<1>15. w[n] = Outside
  <2>1. n - 1 \in b .. n - 1 /\ n \in b .. n /\ n \in b + 1 .. n /\ n - 1 + 1 = n
    BY <1>1, <1>3
  <2>2. odd(n - 1)
    BY <1>1, <1>5, <2>1
  <2>3. w[n - 1] = State(q, 0)
    BY <1>13, <2>1, <2>2
  <2>4. w[n] = Moved(s, n, State(q, 0), doubled)
    BY <1>3, <2>1, <2>3
  <2> QED BY <1>1, <1>9, <2>1, <2>4
<1> QED BY <1>14, <1>15 DEF w, n, q

-------------------------------------------------------------------------------
(* What the first scan writes over an item. *)

LEMMA QuotedIs ==
  ASSUME NEW s, NEW i, NEW out, NEW w, w.state \in Quotes
  PROVE  Written(s, i, w, out) = Append(out, s[i])
<1>1. ~Gap(s, i, w) /\ Copied(s, i, w) /\ w.state # "normal"
  BY DEF Gap, Copied, Quotes
<1> QED BY <1>1 DEF Written

LEMMA WrittenIs ==
  ASSUME NEW s, NEW i, NEW out
  PROVE  /\ Written(s, i, State("line", 1), out) = out
         /\ Written(s, i, State("line", 0), out) = IF s[i] = "nl" THEN Spaced(out) ELSE out
         /\ Written(s, i, State("block", 1), out) = out
         /\ Written(s, i, State("block", 0), out) = IF BlockEnds(s, i) THEN Spaced(out) ELSE out
         /\ Written(s, i, State("normal", 1), out) = out
         /\ s[i] \in Space => Written(s, i, Outside, out) = Spaced(out)
         /\ s[i] \notin Space /\ (LineStarts(s, i) \/ BlockStarts(s, i)) => Written(s, i, Outside, out) = out
         /\ s[i] \notin Space /\ ~LineStarts(s, i) /\ ~BlockStarts(s, i) =>
              Written(s, i, Outside, out) = Append(out, Lower(s[i]))
<1>1. \A q, a : State(q, a).state = q /\ State(q, a).ahead = a
  BY DEF State
<1>2. Outside.state = "normal" /\ Outside.ahead = 0 /\ Outside = State("normal", 0)
  BY DEF Outside, State
<1>3. \A q : State(q, 1) # Outside /\ (q # "normal" => State(q, 0) # Outside)
  BY <1>1, <1>2
<1>5. \A q \in {"line", "block", "normal"} : q \notin Quotes
  BY DEF Quotes
<1> HIDE DEF State, Outside
<1>6. \A q \in {"line", "block", "normal"} : ~Copied(s, i, State(q, 1)) /\ ~Gap(s, i, State(q, 1))
  BY <1>1, <1>3, <1>5 DEF Copied, Gap
<1>7. \A q \in {"line", "block"} : ~Copied(s, i, State(q, 0))
  BY <1>1, <1>3, <1>5 DEF Copied
<1>8. (Gap(s, i, State("line", 0)) <=> s[i] = "nl") /\ (Gap(s, i, State("block", 0)) <=> BlockEnds(s, i))
  BY <1>1 DEF Gap
<1>9. /\ Gap(s, i, Outside) <=> s[i] \in Space
      /\ Copied(s, i, Outside) <=> ~LineStarts(s, i) /\ ~BlockStarts(s, i) /\ s[i] \notin Space
  BY <1>2, <1>5 DEF Gap, Copied
<1> QED BY <1>2, <1>6, <1>7, <1>8, <1>9 DEF Written

\* A scan's output only grows.
Begins(x, y) == Len(x) <= Len(y) /\ \A k \in 1 .. Len(x) : y[k] = x[k]

LEMMA OutBegins ==
  ASSUME NEW s \in SqlTexts, NEW i \in 0 .. Len(s), NEW j \in i .. Len(s)
  PROVE  Begins(Output(s)[i], Output(s)[j])
<1> DEFINE o == Output(s)
           S == {m \in 0 .. j - i : Begins(o[i], o[i + m])}
<1>0. /\ i \in Nat /\ j \in Nat /\ i <= j /\ j <= Len(s) /\ Len(s) \in Nat
      /\ o \in [0 .. Len(s) -> SqlTexts]
      /\ \A n \in 1 .. Len(s) : o[n] = Written(s, n, Walk(s, {"'"})[n - 1], o[n - 1])
  BY OutputIs DEF SqlTexts
<1>1. ASSUME NEW out \in SqlTexts
      PROVE  Begins(out, out) /\ \A c \in Chars : Begins(out, Append(out, c))
  BY DEF Begins, SqlTexts
<1> HIDE DEF o
<1>2. 0 \in S
  <2>1. 0 \in 0 .. j - i /\ i + 0 = i /\ o[i] \in SqlTexts
    BY <1>0
  <2> QED BY <1>1, <2>1
<1>3. ASSUME NEW m \in 1 .. j - i, m - 1 \in S PROVE m \in S
  <2>1. i + m \in 1 .. Len(s) /\ i + m - 1 = i + (m - 1) /\ i + (m - 1) \in 0 .. Len(s) /\ m \in 0 .. j - i
    BY <1>0
  <2>2. o[i + m] = Written(s, i + m, Walk(s, {"'"})[i + (m - 1)], o[i + (m - 1)])
    BY <1>0, <2>1
  <2>3. o[i + (m - 1)] \in SqlTexts /\ o[i + m] \in SqlTexts /\ o[i] \in SqlTexts
    BY <1>0, <2>1
  <2>4. Begins(o[i + (m - 1)], o[i + m])
    <3>1. s[i + m] \in Chars
      BY <2>1 DEF SqlTexts
    <3>2. Lower(s[i + m]) \in Chars
      BY <3>1, LowerIs
    <3>3. " " \in Chars
      BY DEF Chars
    <3> QED BY <1>1, <2>2, <2>3, <3>1, <3>2, <3>3 DEF Written, Spaced
  <2>5. Begins(o[i], o[i + (m - 1)])
    BY <1>3
  <2>6. Begins(o[i], o[i + m])
    <3> DEFINE x == o[i]
               y == o[i + (m - 1)]
               z == o[i + m]
    <3>1. Len(x) \in Nat /\ Len(y) \in Nat /\ Len(z) \in Nat /\ Begins(x, y) /\ Begins(y, z)
      BY <2>3, <2>4, <2>5 DEF SqlTexts
    <3> HIDE DEF x, y, z
    <3>2. \A k \in 1 .. Len(x) : k \in 1 .. Len(y)
      BY <3>1 DEF Begins
    <3>3. Len(x) <= Len(z) /\ \A k \in 1 .. Len(x) : z[k] = x[k]
      BY <3>1, <3>2 DEF Begins
    <3> QED BY <3>3 DEF Begins, x, z
  <2> QED BY <2>1, <2>6
<1>4. 0 .. j - i \subseteq S
  <2>1. j - i \in Nat
    BY <1>0
  <2> HIDE DEF S
  <2> QED BY <1>2, <1>3, <2>1, UpTo
<1>5. j - i \in 0 .. j - i /\ i + (j - i) = j
  BY <1>0
<1> QED BY <1>4, <1>5 DEF o

LEMMA OutNext ==
  ASSUME NEW s \in SqlTexts, NEW b \in 1 .. Len(s), NEW n \in b .. Len(s)
  PROVE  /\ b \in Nat /\ n \in Nat /\ 1 <= b /\ b <= n /\ n <= Len(s) /\ Len(s) \in Nat
         /\ \A k \in b .. n : /\ Output(s)[k] = Written(s, k, Walk(s, {"'"})[k - 1], Output(s)[k - 1])
                              /\ Output(s)[k] \in SqlTexts /\ Output(s)[k - 1] \in SqlTexts /\ k \in 1 .. Len(s)
<1>1. b \in Nat /\ n \in Nat /\ 1 <= b /\ b <= n /\ n <= Len(s) /\ Len(s) \in Nat
  BY DEF SqlTexts
<1>2. \A k \in b .. n : k \in 1 .. Len(s) /\ k - 1 \in 0 .. Len(s) /\ k \in 0 .. Len(s)
  BY <1>1
<1> QED BY <1>1, <1>2, OutputIs

\* Over white space and comments.
LEMMA OutBlank ==
  ASSUME NEW s \in SqlTexts, NEW b \in 1 .. Len(s), Walk(s, {"'"})[b - 1] = Outside, Blank(s, b, EndOf(s, b))
  PROVE  LET o == Output(s)
             n == EndOf(s, b) IN
         o[n] = Spaced(o[b - 1]) \/ (o[n] = o[b - 1] /\ n = Len(s))
<1> DEFINE o == Output(s)
           w == Walk(s, {"'"})
           n == EndOf(s, b)
<1>1. CASE LineStarts(s, b)
  <2>1. /\ n \in b + 1 .. Len(s) /\ s[b] = "-" /\ (s[n] = "nl" \/ n = Len(s))
        /\ \A k \in b .. n - 1 : s[k] # "nl"
    BY <1>1, LineIs
  <2>2. \A k \in b .. n - 1 : w[k] = State("line", IF k = b THEN 1 ELSE 0)
    BY <1>1, WalkLine
  <2>3. n \in b .. Len(s)
    BY <2>1 DEF SqlTexts
  <2>4. /\ b \in Nat /\ n \in Nat /\ 1 <= b /\ b <= n /\ n <= Len(s) /\ Len(s) \in Nat
        /\ \A k \in b .. n : o[k] = Written(s, k, w[k - 1], o[k - 1])
    BY <2>3, OutNext
  <2> DEFINE S == {m \in 0 .. n - 1 - b : o[b + m] = o[b - 1]}
  <2> HIDE DEF o, w, n
  <2>5. 0 \in S
    <3>1. b \in b .. n /\ s[b] \notin Space /\ w[b - 1] = Outside
      BY <2>1, <2>4 DEF Space, w
    <3>2. o[b] = o[b - 1]
      BY <1>1, <2>4, <3>1, WrittenIs
    <3> QED BY <2>1, <2>4, <3>2
  <2>6. ASSUME NEW m \in 1 .. n - 1 - b, m - 1 \in S PROVE m \in S
    <3>1. /\ b + m \in b .. n /\ b + m \in b .. n - 1 /\ b + m - 1 = b + (m - 1) /\ b + (m - 1) \in b .. n - 1
          /\ m \in 0 .. n - 1 - b
      BY <2>1, <2>4
    <3>2. o[b + m] = Written(s, b + m, w[b + (m - 1)], o[b - 1])
      BY <2>4, <2>6, <3>1
    <3>3. w[b + (m - 1)] = State("line", 1) \/ w[b + (m - 1)] = State("line", 0)
      BY <2>2, <3>1
    <3>4. s[b + m] # "nl"
      BY <2>1, <3>1
    <3>5. CASE w[b + (m - 1)] = State("line", 1)
      <4>1. o[b + m] = o[b - 1]
        BY <3>2, <3>5, WrittenIs
      <4> QED BY <3>1, <4>1
    <3>6. CASE w[b + (m - 1)] = State("line", 0)
      <4>1. o[b + m] = o[b - 1]
        BY <3>2, <3>4, <3>6, WrittenIs
      <4> QED BY <3>1, <4>1
    <3> QED BY <3>3, <3>5, <3>6
  <2>7. 0 .. n - 1 - b \subseteq S
    <3>1. n - 1 - b \in Nat
      BY <2>1, <2>4
    <3> HIDE DEF S
    <3> QED BY <2>5, <2>6, <3>1, UpTo
  <2>8. o[n - 1] = o[b - 1]
    <3>1. n - 1 - b \in 0 .. n - 1 - b /\ b + (n - 1 - b) = n - 1
      BY <2>1, <2>4
    <3> QED BY <2>7, <3>1
  <2>9. o[n] = Written(s, n, w[n - 1], o[b - 1]) /\ n - 1 \in b .. n - 1
    <3>1. n \in b .. n /\ n - 1 \in b .. n - 1
      BY <2>1, <2>4
    <3> QED BY <2>4, <2>8, <3>1
  <2>10. CASE n = b + 1
    <3>1. w[n - 1] = State("line", 1) /\ s[n] # "nl"
      BY <1>1, <2>2, <2>4, <2>9, <2>10, LineIs
    <3> QED BY <2>1, <2>9, <3>1, WrittenIs DEF o, n
  <2>11. CASE n # b + 1
    <3>1. w[n - 1] = State("line", 0)
      BY <2>2, <2>4, <2>9, <2>11
    <3>2. o[n] = IF s[n] = "nl" THEN Spaced(o[b - 1]) ELSE o[b - 1]
      BY <2>9, <3>1, WrittenIs
    <3> QED BY <2>1, <3>2 DEF o, n
  <2> QED BY <2>10, <2>11
<1>2. CASE BlockStarts(s, b)
  <2>1. /\ n \in b + 3 .. Len(s) /\ s[b] = "/" /\ BlockEnds(s, n - 1)
        /\ \A k \in b + 2 .. n - 2 : ~BlockEnds(s, k)
    BY <1>2, BlockIs DEF Blank
  <2>2. /\ \A k \in b .. n - 2 : w[k] = State("block", IF k = b THEN 1 ELSE 0)
        /\ w[n - 1] = State("normal", 1)
    BY <1>2, WalkBlock DEF Blank
  <2>3. n \in b .. Len(s)
    BY <2>1 DEF SqlTexts
  <2>4. /\ b \in Nat /\ n \in Nat /\ 1 <= b /\ b <= n /\ n <= Len(s) /\ Len(s) \in Nat
        /\ \A k \in b .. n : o[k] = Written(s, k, w[k - 1], o[k - 1])
    BY <2>3, OutNext
  <2> DEFINE S == {m \in 0 .. n - 2 - b : o[b + m] = o[b - 1]}
  <2>0. w[b - 1] = Outside
    OBVIOUS
  <2> HIDE DEF o, w, n
  <2>5. 0 \in S
    <3>1. b \in b .. n /\ s[b] \notin Space
      BY <2>1, <2>4 DEF Space
    <3>2. o[b] = o[b - 1]
      BY <1>2, <2>0, <2>4, <3>1, WrittenIs
    <3> QED BY <2>1, <2>4, <3>2
  <2>6. ASSUME NEW m \in 1 .. n - 2 - b, m - 1 \in S PROVE m \in S
    <3>1. /\ b + m \in b .. n /\ b + m - 1 = b + (m - 1) /\ b + (m - 1) \in b .. n - 2
          /\ m \in 0 .. n - 2 - b /\ (b + (m - 1) # b => b + m \in b + 2 .. n - 2)
      BY <2>1, <2>4
    <3>2. o[b + m] = Written(s, b + m, w[b + (m - 1)], o[b - 1])
      BY <2>4, <2>6, <3>1
    <3>3. w[b + (m - 1)] = State("block", 1) \/ (w[b + (m - 1)] = State("block", 0) /\ ~BlockEnds(s, b + m))
      BY <2>1, <2>2, <3>1
    <3>4. o[b + m] = o[b - 1]
      BY <3>2, <3>3, WrittenIs
    <3> QED BY <3>1, <3>4
  <2>7. 0 .. n - 2 - b \subseteq S
    <3>1. n - 2 - b \in Nat
      BY <2>1, <2>4
    <3> HIDE DEF S
    <3> QED BY <2>5, <2>6, <3>1, UpTo
  <2>8. o[n - 2] = o[b - 1]
    <3>1. n - 2 - b \in 0 .. n - 2 - b /\ b + (n - 2 - b) = n - 2
      BY <2>1, <2>4
    <3> QED BY <2>7, <3>1
  <2>9. n - 2 \in b .. n - 2 /\ n - 2 # b /\ n - 1 \in b .. n /\ n \in b .. n /\ n - 1 - 1 = n - 2
    BY <2>1, <2>4
  <2>10. o[n - 1] = Spaced(o[b - 1])
    <3>1. w[n - 2] = State("block", 0)
      BY <2>2, <2>9
    <3>2. o[n - 1] = Written(s, n - 1, w[n - 2], o[n - 2])
      BY <2>4, <2>9
    <3> QED BY <2>1, <2>8, <3>1, <3>2, WrittenIs
  <2>11. o[n] = o[n - 1]
    BY <2>2, <2>4, <2>9, WrittenIs
  <2> QED BY <2>10, <2>11 DEF o, n
<1>3. CASE ~LineStarts(s, b) /\ ~BlockStarts(s, b)
  <2>1. s[b] \in Space /\ s[b] \notin Quotes \union Letters
    BY <1>3 DEF Blank, Space, Quotes, Letters
  <2>2. n = b
    BY <1>3, <2>1, OtherIs
  <2>3. b \in b .. Len(s) /\ b \in b .. b
    BY DEF SqlTexts
  <2>4. o[b] = Written(s, b, w[b - 1], o[b - 1])
    BY <2>3, OutNext
  <2> QED BY <2>1, <2>2, <2>4, WrittenIs
<1> QED BY <1>1, <1>2, <1>3

\* Over what is a token.
LEMMA OutToken ==
  ASSUME NEW s \in SqlTexts, NEW b \in 1 .. Len(s), Walk(s, {"'"})[b - 1] = Outside,
         EndOf(s, b) # 0, ~Blank(s, b, EndOf(s, b))
  PROVE  LET o == Output(s)
             n == EndOf(s, b) IN
         /\ n \in b .. Len(s)
         /\ \A k \in b .. n : o[k] = Append(o[k - 1], IF s[b] \in Quotes THEN s[k] ELSE Lower(s[k]))
<1> DEFINE o == Output(s)
           w == Walk(s, {"'"})
           n == EndOf(s, b)
<1>1. n \in b .. Len(s)
  BY EndIs
<1>2. /\ b \in Nat /\ n \in Nat /\ 1 <= b /\ b <= n /\ n <= Len(s) /\ Len(s) \in Nat
      /\ \A k \in b .. n : o[k] = Written(s, k, w[k - 1], o[k - 1])
  BY <1>1, OutNext
<1>3. ~LineStarts(s, b) /\ ~BlockStarts(s, b) /\ s[b] \notin Space
  BY DEF Blank
<1>4. CASE s[b] \in Quotes
  <2>1. \A k \in b .. n - 1 : w[k].state = s[b] \/ (w[k] = Outside /\ s[k + 1] = s[b])
    BY <1>4, WalkQuote
  <2>2. w[b - 1] = Outside
    OBVIOUS
  <2> HIDE DEF o, w, n
  <2>3. ASSUME NEW k \in b .. n PROVE o[k] = Append(o[k - 1], s[k])
    <3>1. o[k] = Written(s, k, w[k - 1], o[k - 1])
      BY <1>2
    <3>2. w[k - 1].state = s[b] \/ (w[k - 1] = Outside /\ s[k] = s[b])
      <4>1. CASE k = b
        BY <2>2, <4>1
      <4>2. CASE k # b
        <5>1. k - 1 \in b .. n - 1 /\ k - 1 + 1 = k
          BY <1>2, <4>2
        <5> QED BY <2>1, <5>1
      <4> QED BY <4>1, <4>2
    <3>3. CASE w[k - 1].state = s[b]
      <4> DEFINE v == w[k - 1]
      <4>1. v.state \in Quotes
        BY <1>4, <3>3
      <4> HIDE DEF v
      <4>2. Written(s, k, v, o[k - 1]) = Append(o[k - 1], s[k])
        BY <4>1, QuotedIs
      <4> QED BY <3>1, <4>2 DEF v
    <3>4. CASE w[k - 1] = Outside /\ s[k] = s[b]
      <4>1. k \in Int /\ k \in 1 .. Len(s)
        BY <1>2
      <4>2. s[k] \notin Space /\ ~LineStarts(s, k) /\ ~BlockStarts(s, k)
        BY <1>4, <3>4, <4>1, AtIs DEF Space, Quotes, LineStarts, BlockStarts, Pair
      <4>3. Lower(s[k]) = s[k]
        BY <1>4, <3>4 DEF Lower, Quotes
      <4> QED BY <3>1, <3>4, <4>2, <4>3, WrittenIs
    <3> QED BY <3>2, <3>3, <3>4
  <2> QED BY <1>1, <1>4, <2>3 DEF o, n
<1>5. CASE s[b] \notin Quotes
  <2>1. /\ n = b \/ (s[b] \in Letters /\ \A k \in b .. n : s[k] \in Letters)
        /\ \A k \in b .. n : w[k] = Outside /\ ~LineStarts(s, k) /\ ~BlockStarts(s, k)
    BY <1>3, <1>5, WalkWord
  <2>2. w[b - 1] = Outside
    OBVIOUS
  <2> HIDE DEF o, w, n
  <2>3. ASSUME NEW k \in b .. n PROVE o[k] = Append(o[k - 1], Lower(s[k]))
    <3>1. w[k - 1] = Outside
      <4>1. k = b \/ k - 1 \in b .. n
        BY <1>2
      <4> QED BY <2>1, <2>2, <4>1
    <3>2. s[k] \notin Space
      <4>1. CASE n = b
        BY <1>2, <1>3, <4>1
      <4>2. CASE \A m \in b .. n : s[m] \in Letters
        BY <4>2 DEF Letters, Space
      <4> QED BY <2>1, <4>1, <4>2
    <3>3. o[k] = Written(s, k, Outside, o[k - 1])
      BY <1>2, <3>1
    <3>4. ~LineStarts(s, k) /\ ~BlockStarts(s, k)
      BY <2>1
    <3> QED BY <3>2, <3>3, <3>4, WrittenIs
  <2> QED BY <1>1, <1>5, <2>3 DEF o, n
<1> QED BY <1>4, <1>5

\* Between items both scans are outside comments and quotes.
LEMMA Walks ==
  ASSUME NEW s \in SqlTexts, Closed(s), NEW doubled
  PROVE  \A i : Boundary(s, i) /\ i # Len(s) => Walk(s, doubled)[i] = Outside
<1> DEFINE w == Walk(s, doubled)
           S == {i \in Nat : i = Len(s) \/ w[i] = Outside}
<1>1. 0 \in S
  BY WalkIs
<1>2. ASSUME NEW j \in 1 .. Len(s), Boundary(s, j - 1), j - 1 \in S PROVE EndOf(s, j) \in S
  <2>1. EndOf(s, j) \in j .. Len(s) /\ EndOf(s, j) \in Nat /\ EndOf(s, j) # 0
    <3>1. EndOf(s, j) \in j .. Len(s)
      BY <1>2, ItemEnds
    <3> QED BY <3>1 DEF SqlTexts
  <2>2. w[j - 1] = Outside
    <3>1. j - 1 # Len(s)
      BY DEF SqlTexts
    <3> QED BY <1>2, <3>1
  <2> SUFFICES EndOf(s, j) = Len(s) \/ w[EndOf(s, j)] = Outside
    BY <2>1
  <2>3. CASE LineStarts(s, j)
    BY <2>2, <2>3, WalkLine, LineIs
  <2>4. CASE BlockStarts(s, j)
    BY <2>1, <2>2, <2>4, WalkBlock
  <2>5. CASE ~LineStarts(s, j) /\ ~BlockStarts(s, j) /\ s[j] \in Quotes
    BY <2>1, <2>2, <2>5, WalkQuote
  <2>6. CASE ~LineStarts(s, j) /\ ~BlockStarts(s, j) /\ s[j] \notin Quotes
    <3>1. \A k \in j .. EndOf(s, j) : w[k] = Outside
      BY <2>1, <2>2, <2>6, WalkWord
    <3>2. EndOf(s, j) \in j .. EndOf(s, j)
      BY <2>1 DEF SqlTexts
    <3> QED BY <3>1, <3>2
  <2> QED BY <2>3, <2>4, <2>5, <2>6
<1> HIDE DEF S
<1>3. \A i : Boundary(s, i) => i \in S
  BY <1>1, <1>2, Items
<1> QED BY <1>3 DEF S

-------------------------------------------------------------------------------
(* An item of one text that stands in another one. *)

LEMMA SubSeqIs ==
  ASSUME NEW s \in SqlTexts, NEW b \in 1 .. Len(s), NEW n \in b .. Len(s)
  PROVE  /\ SubSeq(s, b, n) \in SqlTexts /\ Len(SubSeq(s, b, n)) = n - b + 1
         /\ \A k \in 1 .. n - b + 1 : SubSeq(s, b, n)[k] = s[b + k - 1]
BY DEF SqlTexts

LEMMA SameSeq ==
  ASSUME NEW X, NEW s \in Seq(X), NEW t \in Seq(X), Len(s) = Len(t), \A k \in 1 .. Len(s) : s[k] = t[k]
  PROVE  s = t
OBVIOUS

LEMMA SamePart ==
  ASSUME NEW a \in SqlTexts, NEW c \in SqlTexts, NEW b \in 1 .. Len(a), NEW n \in b .. Len(a), NEW d \in Int,
         b + d \in 1 .. Len(c), n + d <= Len(c), \A k \in b .. n : c[k + d] = a[k]
  PROVE  SubSeq(c, b + d, n + d) = SubSeq(a, b, n)
<1>1. b \in Nat /\ n \in Nat /\ 1 <= b /\ b <= n /\ n + d \in b + d .. Len(c) /\ n + d - (b + d) + 1 = n - b + 1
  BY DEF SqlTexts
<1>2. /\ SubSeq(c, b + d, n + d) \in SqlTexts /\ Len(SubSeq(c, b + d, n + d)) = n - b + 1
      /\ \A k \in 1 .. n - b + 1 : SubSeq(c, b + d, n + d)[k] = c[b + d + k - 1]
  BY <1>1, SubSeqIs
<1>3. /\ SubSeq(a, b, n) \in SqlTexts /\ Len(SubSeq(a, b, n)) = n - b + 1
      /\ \A k \in 1 .. n - b + 1 : SubSeq(a, b, n)[k] = a[b + k - 1]
  BY SubSeqIs
<1>4. ASSUME NEW k \in 1 .. n - b + 1 PROVE c[b + d + k - 1] = a[b + k - 1]
  <2>1. b + k - 1 \in b .. n /\ b + k - 1 + d = b + d + k - 1
    BY <1>1
  <2> QED BY <2>1
<1> QED BY <1>2, <1>3, <1>4, SameSeq DEF SqlTexts

LEMMA CountMoves ==
  ASSUME NEW a \in SqlTexts, NEW c \in SqlTexts, NEW b \in 1 .. Len(a), NEW n \in b .. Len(a), NEW d \in Int,
         b + d \in 1 .. Len(c), \A k \in b .. n : c[k + d] = a[k]
  PROVE  \A k \in b .. n : Count(c, b + d, k + d) = Count(a, b, k)
<1> DEFINE S == {m \in 0 .. n - b : Count(c, b + d, b + m + d) = Count(a, b, b + m)}
<1>1. b \in Nat /\ n \in Nat /\ 1 <= b /\ b <= n /\ b + d \in Nat
  BY DEF SqlTexts
<1>2. 0 \in S
  <2>1. b + 0 = b /\ b + 0 + d = b + d /\ 0 \in 0 .. n - b
    BY <1>1
  <2>2. Count(c, b + d, b + d) = 1 /\ Count(a, b, b) = 1
    BY <1>1, CountIs
  <2> QED BY <2>1, <2>2
<1>3. ASSUME NEW m \in 1 .. n - b, m - 1 \in S PROVE m \in S
  <2> DEFINE k == b + (m - 1)
  <2>1. /\ k \in Nat /\ k >= b /\ k + d \in Nat /\ k + d >= b + d /\ k + 1 = b + m /\ k + d + 1 = b + m + d
        /\ k + 1 \in b .. n /\ b \in b .. n /\ k + 1 + d = k + d + 1 /\ m \in 0 .. n - b
    BY <1>1
  <2>2. Count(c, b + d, k + d) = Count(a, b, k)
    BY <1>3
  <2> HIDE DEF k
  <2>3. Count(a, b, k + 1) = Count(a, b, k) + (IF a[k + 1] = a[b] THEN 1 ELSE 0)
    BY <1>1, <2>1, CountIs
  <2>6. Count(c, b + d, k + d + 1) = Count(c, b + d, k + d) + (IF c[k + d + 1] = c[b + d] THEN 1 ELSE 0)
    <3> DEFINE i == b + d
               h == k + d
    <3>1. i \in Nat /\ h \in Nat /\ h >= i
      BY <1>1, <2>1
    <3> HIDE DEF i, h
    <3>2. Count(c, i, h + 1) = Count(c, i, h) + (IF c[h + 1] = c[i] THEN 1 ELSE 0)
      BY <3>1, CountIs
    <3> QED BY <3>2 DEF i, h
  <2>4. c[k + d + 1] = a[k + 1] /\ c[b + d] = a[b]
    BY <2>1
  <2>5. Count(c, b + d, k + d + 1) = Count(a, b, k + 1)
    BY <2>2, <2>3, <2>4, <2>6
  <2> QED BY <2>1, <2>5
<1>4. 0 .. n - b \subseteq S
  <2>1. n - b \in Nat
    BY <1>1
  <2> HIDE DEF S
  <2> QED BY <1>2, <1>3, <2>1, UpTo
<1>5. ASSUME NEW k \in b .. n PROVE Count(c, b + d, k + d) = Count(a, b, k)
  <2>1. k - b \in 0 .. n - b /\ b + (k - b) = k
    BY <1>1
  <2> QED BY <1>4, <2>1
<1> QED BY <1>5

\* What a token can be followed by, besides what follows it in its own text.
Follows == {"", " ", "nl", ";"}

LEMMA FollowsIs ==
  ASSUME NEW x, Lower(x) \in Follows
  PROVE  x \notin Letters /\ x \notin Marks
BY DEF Follows, Letters, Lower, Marks

\* It is the same item there, where the case of letters may differ, but not in quotes, and where what comes next
\* does not join it.
LEMMA SameItem ==
  ASSUME NEW a \in SqlTexts, NEW c \in SqlTexts, NEW b \in 1 .. Len(a), NEW d \in Int, b + d \in 1 .. Len(c),
         ~LineStarts(a, b), EndOf(a, b) # 0, EndOf(a, b) + d <= Len(c),
         \A k \in b .. EndOf(a, b) : Lower(c[k + d]) = Lower(a[k]) /\ (a[b] \in Quotes => c[k + d] = a[k]),
         \/ Lower(At(c, EndOf(a, b) + d + 1)) \in Follows
         \/ Lower(At(c, EndOf(a, b) + d + 1)) = Lower(At(a, EndOf(a, b) + 1))
  PROVE  LET n == EndOf(a, b) IN
         /\ EndOf(c, b + d) = n + d /\ n + d # 0
         /\ Blank(c, b + d, n + d) <=> Blank(a, b, n)
         /\ TokenAt(c, b + d, n + d) = TokenAt(a, b, n)
<1> DEFINE n == EndOf(a, b)
           j == b + d
<1>1. /\ b \in Nat /\ n \in Nat /\ 1 <= b /\ b <= n /\ n <= Len(a) /\ Len(a) \in Nat /\ Len(c) \in Nat
      /\ n \in b .. Len(a) /\ 1 <= j /\ j <= n + d /\ n + d <= Len(c) /\ j \in Nat /\ n + d \in Nat
  <2>1. n \in b .. Len(a)
    BY EndIs
  <2> QED BY <2>1 DEF SqlTexts
<1>15. /\ \A x \in Marks : x \in Unchanged
      /\ " " \in Unchanged /\ "nl" \in Unchanged
      /\ "-" \in Marks /\ "/" \in Marks /\ "*" \in Marks /\ "'" \in Marks /\ "\"" \in Marks
  BY DEF Unchanged, Marks
<1>2. Closes(a, b, n) /\ \A k \in b .. Len(a) : k < n => ~Closes(a, b, k)
  BY EndIs
<1>16. BlockStarts(a, b) => n >= b + 3
  BY <1>1, BlockIs
<1> HIDE DEF n
<1>3. \A k \in b .. n : /\ At(a, k) = a[k] /\ At(c, k + d) = c[k + d] /\ k \in 1 .. Len(a) /\ k + d \in 1 .. Len(c)
                        /\ k + d \in Nat /\ a[k] \in Chars /\ c[k + d] \in Chars
  <2>1. \A k \in b .. n : k \in 1 .. Len(a) /\ k + d \in 1 .. Len(c) /\ k \in Int /\ k + d \in Int /\ k + d \in Nat
    BY <1>1
  <2> QED BY <2>1, AtIs
<1>4. \A k \in b .. n : Lower(c[k + d]) = Lower(a[k]) /\ (a[b] \in Quotes => c[k + d] = a[k])
  BY DEF n
<1>5. \A k \in b .. n : /\ \A x \in Unchanged : c[k + d] = x <=> a[k] = x
                        /\ c[k + d] \in Letters <=> a[k] \in Letters
  <2> SUFFICES ASSUME NEW k \in b .. n
               PROVE  /\ \A x \in Unchanged : c[k + d] = x <=> a[k] = x
                      /\ c[k + d] \in Letters <=> a[k] \in Letters
    OBVIOUS
  <2>1. Lower(c[k + d]) = Lower(a[k])
    BY <1>4
  <2>2. \A y : /\ \A x \in Unchanged : Lower(y) = x <=> y = x
               /\ Lower(y) \in Letters <=> y \in Letters
    BY LowerIs DEF Unchanged
  <2> QED BY <2>1, <2>2
<1>6. /\ \A x \in Marks : At(c, n + d + 1) = x => At(a, n + 1) = x
      /\ At(c, n + d + 1) \in Letters => At(a, n + 1) \in Letters
  <2>1. \A y : /\ \A x \in Marks : Lower(y) = x <=> y = x
               /\ Lower(y) \in Letters <=> y \in Letters
    BY LowerIs DEF Unchanged
  <2>2. Lower(At(c, n + d + 1)) \in Follows \/ Lower(At(c, n + d + 1)) = Lower(At(a, n + 1))
    BY DEF n
  <2>3. CASE Lower(At(c, n + d + 1)) \in Follows
    BY <2>3, FollowsIs
  <2>4. CASE Lower(At(c, n + d + 1)) = Lower(At(a, n + 1))
    <3> HIDE DEF Marks
    <3> QED BY <2>1, <2>4
  <2> QED BY <2>2, <2>3, <2>4
<1>7. \A k \in b .. n : k < n => /\ k + 1 \in b .. n /\ k + 1 + d = k + d + 1
                                 /\ At(a, k + 1) = a[k + 1] /\ At(c, k + d + 1) = c[k + 1 + d]
  <2>1. \A k \in b .. n : k < n => k + 1 \in b .. n /\ k + 1 + d = k + d + 1
    BY <1>1
  <2> QED BY <1>3, <2>1
<1>8. b \in b .. n /\ n \in b .. n /\ n + d + 1 = n + d + 1
  BY <1>1
<1>9. ~LineStarts(c, j) /\ (BlockStarts(c, j) <=> BlockStarts(a, b)) /\ (c[j] \in Quotes <=> a[b] \in Quotes)
      /\ (c[j] \in Letters <=> a[b] \in Letters)
  <2>1. /\ \A x \in Marks : c[j] = x <=> a[b] = x
        /\ At(c, j) = c[j] /\ At(a, b) = a[b] /\ (c[j] \in Letters <=> a[b] \in Letters)
    BY <1>3, <1>5, <1>8, <1>15
  <2>4. b < n => b + 1 \in b .. n /\ At(c, j + 1) = c[b + 1 + d] /\ At(a, b + 1) = a[b + 1]
    <3>1. b + d + 1 = j + 1
      OBVIOUS
    <3> QED BY <1>7, <1>8, <3>1
  <2>2. \A x \in Marks : At(c, j + 1) = x => At(a, b + 1) = x
    <3>1. CASE b = n
      BY <1>6, <3>1
    <3>2. CASE b < n
      BY <1>5, <1>15, <2>4, <3>2
    <3> QED BY <1>1, <3>1, <3>2
  <2>3. BlockStarts(a, b) => (At(c, j + 1) = "*" <=> At(a, b + 1) = "*")
    <3>1. b < n => (At(c, j + 1) = "*" <=> At(a, b + 1) = "*")
      BY <1>5, <1>15, <2>4
    <3> QED BY <1>1, <1>16, <3>1
  <2> QED BY <1>15, <2>1, <2>2, <2>3 DEF LineStarts, BlockStarts, Pair, Quotes
<1>10. Closes(c, j, n + d) /\ \A k \in b .. n : k < n => ~Closes(c, j, k + d)
  <2>1. CASE BlockStarts(a, b)
    <3>1. \A k \in b .. n : Closes(a, b, k) <=> k >= b + 3 /\ BlockEnds(a, k - 1)
      BY <2>1 DEF Closes
    <3>2. \A k \in b .. n : Closes(c, j, k + d) <=> k + d >= j + 3 /\ BlockEnds(c, k + d - 1)
      BY <1>9, <2>1 DEF Closes
    <3>3. \A k \in b .. n : k + d >= j + 3 <=> k >= b + 3
      BY <1>1
    <3>4. \A k \in b .. n : k >= b + 3 => (BlockEnds(c, k + d - 1) <=> BlockEnds(a, k - 1))
      <4> SUFFICES ASSUME NEW k \in b .. n, k >= b + 3 PROVE BlockEnds(c, k + d - 1) <=> BlockEnds(a, k - 1)
        OBVIOUS
      <4>1. k - 1 \in b .. n /\ k - 1 + d = k + d - 1 /\ k - 1 + 1 = k /\ k + d - 1 + 1 = k + d
        BY <1>1
      <4>2. /\ At(a, k - 1) = a[k - 1] /\ At(c, k + d - 1) = c[k - 1 + d] /\ At(a, k - 1 + 1) = a[k]
            /\ At(c, k + d - 1 + 1) = c[k + d]
        BY <1>3, <4>1
      <4>3. (c[k - 1 + d] = "*" <=> a[k - 1] = "*") /\ (c[k + d] = "/" <=> a[k] = "/")
        BY <1>5, <1>15, <4>1
      <4> QED BY <4>2, <4>3 DEF BlockEnds, Pair
    <3>5. \A k \in b .. n : k \in b .. Len(a)
      BY <1>1
    <3> QED BY <1>2, <1>8, <3>1, <3>2, <3>3, <3>4, <3>5
  <2>2. CASE ~BlockStarts(a, b) /\ a[b] \in Quotes
    <3>1. \A k \in b .. n : Closes(a, b, k) <=> a[k] = a[b] /\ At(a, k + 1) # a[b] /\ Count(a, b, k) % 2 = 0
      BY <2>2 DEF Closes
    <3>2. \A k \in b .. n : Closes(c, j, k + d) <=> c[k + d] = c[j] /\ At(c, k + d + 1) # c[j] /\ Count(c, j, k + d) % 2 = 0
      BY <1>9, <2>2 DEF Closes
    <3>3. \A k \in b .. n : c[k + d] = a[k]
      BY <1>4, <2>2
    <3>4. \A k \in b .. n : Count(c, j, k + d) = Count(a, b, k)
      BY <1>1, <3>3, CountMoves
    <3>5. \A k \in b .. n : k < n => At(c, k + d + 1) = At(a, k + 1)
      BY <1>7, <3>3
    <3>6. At(c, n + d + 1) = a[b] => At(a, n + 1) = a[b]
      BY <1>6, <1>15, <2>2 DEF Quotes
    <3>7. c[j] = a[b]
      BY <1>8, <3>3
    <3>8. \A k \in b .. n : k \in b .. Len(a)
      BY <1>1
    <3> QED BY <1>2, <1>8, <3>1, <3>2, <3>3, <3>4, <3>5, <3>6, <3>7, <3>8
  <2>3. CASE ~BlockStarts(a, b) /\ a[b] \notin Quotes
    <3>1. \A k \in b .. n : Closes(a, b, k) <=> (a[b] \in Letters => At(a, k + 1) \notin Letters)
      BY <2>3 DEF Closes
    <3>2. \A k \in b .. n : Closes(c, j, k + d) <=> (a[b] \in Letters => At(c, k + d + 1) \notin Letters)
      BY <1>9, <2>3 DEF Closes
    <3>3. \A k \in b .. n : k < n => (At(c, k + d + 1) \in Letters <=> At(a, k + 1) \in Letters)
      BY <1>5, <1>7
    <3>4. \A k \in b .. n : k \in b .. Len(a)
      BY <1>1
    <3> QED BY <1>2, <1>6, <1>8, <3>1, <3>2, <3>3, <3>4
  <2> QED BY <2>1, <2>2, <2>3
<1>11. EndOf(c, j) = n + d
  <2> DEFINE m == n + d
  <2>1. m \in j .. Len(c) /\ j \in 1 .. Len(c) /\ Closes(c, j, m)
    BY <1>1, <1>10
  <2>2. \A k \in j .. m - 1 : ~Closes(c, j, k)
    <3> SUFFICES ASSUME NEW k \in j .. m - 1 PROVE ~Closes(c, j, k)
      OBVIOUS
    <3>1. k - d \in b .. n /\ k - d < n /\ k - d + d = k
      BY <1>1
    <3> QED BY <1>10, <3>1
  <2> HIDE DEF j, m
  <2>3. EndOf(c, j) = m
    BY <2>1, <2>2, EndIs
  <2> QED BY <2>3 DEF m
<1>12. n + d # 0 /\ n # 0
  BY <1>1
<1>13. Blank(c, j, n + d) <=> Blank(a, b, n)
  BY <1>5, <1>8, <1>9, <1>12, <1>15 DEF Blank, Space
<1>14. TokenAt(c, j, n + d) = TokenAt(a, b, n)
  <2>1. n + 1 - b = n + d + 1 - j
    BY <1>1
  <2>2. CASE a[b] \in Quotes
    <3>1. TokenAt(c, j, n + d) = SubSeq(c, j, n + d) /\ TokenAt(a, b, n) = SubSeq(a, b, n)
      BY <1>9, <1>12, <2>2 DEF TokenAt
    <3>2. \A k \in b .. n : c[k + d] = a[k]
      BY <1>4, <2>2
    <3> QED BY <1>1, <3>1, <3>2, SamePart
  <2>3. CASE a[b] \notin Quotes
    <3>1. /\ TokenAt(c, j, n + d) = [k \in 1 .. n + d + 1 - j |-> Lower(c[j + k - 1])]
          /\ TokenAt(a, b, n) = [k \in 1 .. n + 1 - b |-> Lower(a[b + k - 1])]
      BY <1>9, <1>12, <2>3 DEF TokenAt
    <3>2. \A k \in 1 .. n + 1 - b : Lower(c[j + k - 1]) = Lower(a[b + k - 1])
      <4> SUFFICES ASSUME NEW k \in 1 .. n + 1 - b PROVE Lower(c[j + k - 1]) = Lower(a[b + k - 1])
        OBVIOUS
      <4>1. b + k - 1 \in b .. n /\ b + k - 1 + d = j + k - 1
        BY <1>1
      <4> QED BY <1>4, <4>1
    <3> QED BY <2>1, <3>1, <3>2
  <2> QED BY <2>2, <2>3
<1> QED BY <1>11, <1>12, <1>13, <1>14 DEF n

LEMMA LineItem ==
  ASSUME NEW s \in SqlTexts, NEW b \in 1 .. Len(s), LineStarts(s, b), NEW n \in b .. Len(s),
         s[n] = "nl" \/ n = Len(s), \A k \in b .. n - 1 : s[k] # "nl"
  PROVE  EndOf(s, b) = n /\ Blank(s, b, n)
<1>1. b \in Nat /\ n \in Nat /\ 1 <= b /\ b <= n /\ n <= Len(s) /\ Len(s) \in Nat
  BY DEF SqlTexts
<1>2. Closes(s, b, n)
  BY DEF Closes
<1>3. \A k \in b .. n - 1 : ~Closes(s, b, k)
  <2> SUFFICES ASSUME NEW k \in b .. n - 1 PROVE ~Closes(s, b, k)
    OBVIOUS
  <2>1. k # Len(s)
    BY <1>1
  <2> QED BY <2>1 DEF Closes
<1> QED BY <1>1, <1>2, <1>3, EndIs DEF Blank

LEMMA LexItem ==
  ASSUME NEW s \in SqlTexts, NEW j \in 1 .. Len(s), Boundary(s, j - 1), EndOf(s, j) # 0
  PROVE  /\ EndOf(s, j) \in j .. Len(s) /\ Boundary(s, EndOf(s, j))
         /\ LexScan(s)[EndOf(s, j)].tokens =
              IF Blank(s, j, EndOf(s, j)) THEN LexScan(s)[j - 1].tokens
              ELSE Append(LexScan(s)[j - 1].tokens, TokenAt(s, j, EndOf(s, j)))
<1> DEFINE n == EndOf(s, j)
<1>1. /\ n \in j .. Len(s)
      /\ \A k \in j .. n : /\ LexScan(s)[k].end = n
                           /\ LexScan(s)[k].tokens =
                                IF Blank(s, j, n) THEN LexScan(s)[j - 1].tokens
                                ELSE Append(LexScan(s)[j - 1].tokens, TokenAt(s, j, n))
  BY LexJump
<1> HIDE DEF n
<1>2. n \in j .. n /\ n \in 0 .. Len(s)
  BY <1>1 DEF SqlTexts
<1> QED BY <1>1, <1>2 DEF n, Boundary

LEMMA BoundaryIs ==
  ASSUME NEW s \in SqlTexts, NEW i, Boundary(s, i)
  PROVE  i \in 0 .. Len(s) /\ i \in Nat /\ i <= Len(s) /\ Len(s) \in Nat /\ LexScan(s)[i].tokens \in Seq(Tokens)
<1>1. i \in 0 .. Len(s) /\ Len(s) \in Nat
  BY DEF Boundary, SqlTexts
<1>2. LexScan(s)[i] \in LexStates
  BY <1>1, LexIs
<1> QED BY <1>1, <1>2 DEF LexStates

\* No item crosses a boundary.
LEMMA NoCrossing ==
  ASSUME NEW s \in SqlTexts, NEW j \in 1 .. Len(s), Boundary(s, j - 1), EndOf(s, j) # 0, NEW i, Boundary(s, i), j <= i
  PROVE  EndOf(s, j) <= i
<1> DEFINE n == EndOf(s, j)
<1>1. n \in j .. Len(s) /\ \A k \in j .. n : LexScan(s)[k].end = n
  BY LexJump
<1>2. i \in Nat /\ j \in Nat /\ Len(s) \in Nat /\ LexScan(s)[i].end = i
  BY BoundaryIs DEF Boundary
<1> HIDE DEF n
<1>3. n \in Nat
  BY <1>1, <1>2
<1>4. i <= n => i = n
  BY <1>1, <1>2, <1>3
<1> QED BY <1>2, <1>3, <1>4 DEF n

LEMMA ConcatIs ==
  ASSUME NEW X, NEW x \in Seq(X), NEW y \in Seq(X), NEW t \in X
  PROVE  x \o <<>> = x /\ <<>> \o x = x /\ x \o Append(y, t) = Append(x \o y, t) /\ x \o y \in Seq(X)
<1>1. x \o <<>> = x /\ <<>> \o x = x /\ x \o y \in Seq(X)
  OBVIOUS
<1>2. /\ x \o Append(y, t) \in Seq(X) /\ Append(x \o y, t) \in Seq(X)
      /\ Len(x \o Append(y, t)) = Len(Append(x \o y, t))
  OBVIOUS
<1>3. \A k \in 1 .. Len(Append(x \o y, t)) : (x \o Append(y, t))[k] = Append(x \o y, t)[k]
  OBVIOUS
<1> QED BY <1>1, <1>2, <1>3, SameSeq

LEMMA Cancelled ==
  ASSUME NEW X, NEW x \in Seq(X), NEW y \in Seq(X), NEW z \in Seq(X), x \o y = x \o z
  PROVE  y = z
<1>1. Len(y) = Len(z)
  <2>1. Len(x \o y) = Len(x) + Len(y) /\ Len(x \o z) = Len(x) + Len(z)
    OBVIOUS
  <2> QED BY <2>1
<1>2. ASSUME NEW k \in 1 .. Len(y) PROVE y[k] = z[k]
  <2>1. (x \o y)[Len(x) + k] = y[k] /\ (x \o z)[Len(x) + k] = z[k]
    BY <1>1
  <2> QED BY <2>1
<1> QED BY <1>1, <1>2, SameSeq

\* The tokens of a part that begins between two items.
LEMMA Window ==
  ASSUME NEW a \in SqlTexts, Closed(a), NEW c \in SqlTexts, NEW p, Boundary(a, p), p + Len(c) <= Len(a),
         \A k \in 1 .. Len(c) : c[k] = a[p + k]
  PROVE  \A i : Boundary(a, i) /\ p <= i /\ i <= p + Len(c) =>
           /\ Boundary(c, i - p)
           /\ LexScan(a)[i].tokens = LexScan(a)[p].tokens \o LexScan(c)[i - p].tokens
<1> DEFINE Kept(i) == /\ Boundary(c, i - p)
                      /\ LexScan(a)[i].tokens = LexScan(a)[p].tokens \o LexScan(c)[i - p].tokens
           S == {i \in Nat : p <= i /\ i <= p + Len(c) => Kept(i)}
<1>0. p \in Nat /\ Len(c) \in Nat /\ Len(a) \in Nat /\ LexScan(a)[p].tokens \in Seq(Tokens)
  BY BoundaryIs DEF SqlTexts
<1>1. Kept(p)
  <2>1. Boundary(c, 0) /\ LexScan(c)[0].tokens = <<>> /\ p - p = 0
    BY <1>0, LexStarts
  <2>2. LexScan(a)[p].tokens = LexScan(a)[p].tokens \o <<>>
    BY <1>0
  <2> QED BY <2>1, <2>2
<1>2. 0 \in S
  <2>1. p <= 0 => p = 0
    BY <1>0
  <2> HIDE DEF Kept
  <2> QED BY <1>1, <2>1
<1>3. ASSUME NEW j \in 1 .. Len(a), Boundary(a, j - 1), j - 1 \in S PROVE EndOf(a, j) \in S
  <2> DEFINE n == EndOf(a, j)
             d == 0 - p
  <2>1. /\ n \in j .. Len(a) /\ Boundary(a, n) /\ n # 0
        /\ LexScan(a)[n].tokens = IF Blank(a, j, n) THEN LexScan(a)[j - 1].tokens
                                  ELSE Append(LexScan(a)[j - 1].tokens, TokenAt(a, j, n))
    <3>1. n \in j .. Len(a)
      BY <1>3, ItemEnds
    <3>2. n # 0
      BY <3>1 DEF SqlTexts
    <3> QED BY <1>3, <3>1, <3>2, LexItem
  <2>2. n \in Nat /\ j \in Nat /\ 1 <= j /\ j <= n /\ n <= Len(a)
    BY <1>0, <2>1
  <2>3. CASE p < j /\ n <= p + Len(c)
    <3>1. Kept(j - 1)
      <4>1. j - 1 \in Nat /\ p <= j - 1 /\ j - 1 <= p + Len(c)
        BY <1>0, <2>2, <2>3
      <4> HIDE DEF Kept
      <4> QED BY <1>3, <4>1
    <3>2. /\ d \in Int /\ j + d \in 1 .. Len(c) /\ n + d <= Len(c) /\ j + d = j - p /\ n + d = n - p /\ j + d - 1 = j - 1 - p
          /\ n + d \in j + d .. Len(c)
      BY <1>0, <2>2, <2>3
    <3>3. \A k \in j .. n : c[k + d] = a[k]
      <4> SUFFICES ASSUME NEW k \in j .. n PROVE c[k + d] = a[k]
        OBVIOUS
      <4>1. k + d \in 1 .. Len(c) /\ p + (k + d) = k
        BY <1>0, <2>2, <2>3
      <4> QED BY <4>1
    <3>4. /\ EndOf(c, j + d) = n + d /\ n + d # 0
          /\ Blank(c, j + d, n + d) <=> Blank(a, j, n)
          /\ ~Blank(a, j, n) => TokenAt(c, j + d, n + d) = TokenAt(a, j, n)
      <4>1. CASE LineStarts(a, j)
        <5>1. /\ n \in j + 1 .. Len(a) /\ a[j] = "-" /\ a[j + 1] = "-"
              /\ a[n] = "nl" \/ n = Len(a)
              /\ \A k \in j .. n - 1 : a[k] # "nl"
          BY <4>1, LineIs
        <5>2. LineStarts(c, j + d)
          <6>1. j \in j .. n /\ j + 1 \in j .. n /\ j + 1 + d = j + d + 1 /\ j + d \in 1 .. Len(c) /\ j + d + 1 \in 1 .. Len(c)
            BY <1>0, <2>2, <3>2, <5>1
          <6>2. c[j + d] = "-" /\ c[j + d + 1] = "-"
            BY <3>3, <5>1, <6>1
          <6> QED BY <6>1, <6>2 DEF LineStarts, Pair, At
        <5>3. c[n + d] = "nl" \/ n + d = Len(c)
          <6>1. n \in j .. n
            BY <2>2
          <6>2. n = Len(a) => n + d = Len(c)
            BY <1>0, <2>2, <2>3
          <6> QED BY <3>3, <5>1, <6>1, <6>2
        <5>4. \A k \in j + d .. n + d - 1 : c[k] # "nl"
          <6> SUFFICES ASSUME NEW k \in j + d .. n + d - 1 PROVE c[k] # "nl"
            OBVIOUS
          <6>1. k - d \in j .. n /\ k - d \in j .. n - 1 /\ k - d + d = k
            BY <1>0, <2>2
          <6> QED BY <3>3, <5>1, <6>1
        <5>5. EndOf(c, j + d) = n + d /\ Blank(c, j + d, n + d)
          <6> DEFINE b == j + d
                     m == n + d
          <6>1. b \in 1 .. Len(c) /\ m \in b .. Len(c) /\ LineStarts(c, b) /\ (c[m] = "nl" \/ m = Len(c))
            BY <3>2, <5>2, <5>3
          <6>3. \A k \in b .. m - 1 : c[k] # "nl"
            <7> SUFFICES ASSUME NEW k \in b .. m - 1 PROVE c[k] # "nl"
              OBVIOUS
            <7> HIDE DEF d, n
            <7> QED BY <2>2, <3>2, <5>4
          <6> HIDE DEF b, m
          <6>2. EndOf(c, b) = m /\ Blank(c, b, m)
            BY <6>1, <6>3, LineItem
          <6> QED BY <6>2 DEF b, m
        <5>6. Blank(a, j, n) /\ n + d # 0
          BY <1>0, <2>1, <2>2, <2>3, <4>1 DEF Blank
        <5> QED BY <5>5, <5>6
      <4>2. CASE ~LineStarts(a, j)
        <5>1. /\ \A k \in j .. n : Lower(c[k + d]) = Lower(a[k]) /\ (a[j] \in Quotes => c[k + d] = a[k])
          BY <3>3
        <5>2. \/ Lower(At(c, n + d + 1)) \in Follows
              \/ Lower(At(c, n + d + 1)) = Lower(At(a, n + 1))
          <6>1. CASE n + d + 1 \in 1 .. Len(c)
            <7>1. n + 1 \in 1 .. Len(a) /\ p + (n + d + 1) = n + 1
              BY <1>0, <2>2, <6>1
            <7> QED BY <6>1, <7>1 DEF At
          <6>2. CASE n + d + 1 \notin 1 .. Len(c)
            BY <6>2 DEF At, Follows, Lower
          <6> QED BY <6>1, <6>2
        <5> HIDE DEF n, d
        <5> QED BY <2>1, <3>2, <4>2, <5>1, <5>2, SameItem DEF n
      <4> QED BY <4>1, <4>2
    <3> HIDE DEF n, d
    <3>5. Boundary(c, j + d - 1)
      BY <3>1, <3>2
    <3>6. /\ Boundary(c, n + d)
          /\ LexScan(c)[n + d].tokens = IF Blank(a, j, n) THEN LexScan(c)[j + d - 1].tokens
                                        ELSE Append(LexScan(c)[j + d - 1].tokens, TokenAt(a, j, n))
      <4>1. /\ Boundary(c, EndOf(c, j + d))
            /\ LexScan(c)[EndOf(c, j + d)].tokens =
                 IF Blank(c, j + d, EndOf(c, j + d)) THEN LexScan(c)[j + d - 1].tokens
                 ELSE Append(LexScan(c)[j + d - 1].tokens, TokenAt(c, j + d, EndOf(c, j + d)))
        BY <3>2, <3>4, <3>5, LexItem
      <4> QED BY <3>4, <4>1
    <3>7. LexScan(c)[j + d - 1].tokens \in Seq(Tokens) /\ TokenAt(a, j, n) \in Tokens
      <4>1. n \in {0} \union j .. Len(a)
        BY <2>1
      <4> QED BY <3>5, <4>1, BoundaryIs, TokenType
    <3>8. LexScan(a)[p].tokens \o Append(LexScan(c)[j + d - 1].tokens, TokenAt(a, j, n))
            = Append(LexScan(a)[p].tokens \o LexScan(c)[j + d - 1].tokens, TokenAt(a, j, n))
      <4> DEFINE x == LexScan(a)[p].tokens
                 y == LexScan(c)[j + d - 1].tokens
                 t == TokenAt(a, j, n)
      <4>1. x \in Seq(Tokens) /\ y \in Seq(Tokens) /\ t \in Tokens
        BY <1>0, <3>7
      <4> HIDE DEF x, y, t
      <4>2. x \o Append(y, t) = Append(x \o y, t)
        BY <4>1, ConcatIs
      <4> QED BY <4>2 DEF x, y, t
    <3>9. LexScan(a)[j - 1].tokens = LexScan(a)[p].tokens \o LexScan(c)[j + d - 1].tokens
      BY <3>1, <3>2
    <3>10. LexScan(a)[n].tokens = LexScan(a)[p].tokens \o LexScan(c)[n + d].tokens
      <4>1. CASE Blank(a, j, n)
        BY <2>1, <3>6, <3>9, <4>1
      <4>2. CASE ~Blank(a, j, n)
        BY <2>1, <3>6, <3>8, <3>9, <4>2
      <4> QED BY <4>1, <4>2
    <3>11. Kept(n)
      BY <3>2, <3>6, <3>10
    <3> HIDE DEF Kept
    <3> QED BY <2>2, <3>11 DEF n
  <2>4. CASE j <= p
    <3>1. n <= p
      BY <1>3, <2>1, <2>4, NoCrossing
    <3>2. p <= n => n = p
      BY <1>0, <2>2, <3>1
    <3> HIDE DEF Kept, n
    <3> QED BY <1>1, <2>2, <3>2 DEF n
  <2>5. CASE ~(n <= p + Len(c))
    BY <2>2, <2>5
  <2>6. (p < j /\ n <= p + Len(c)) \/ j <= p \/ ~(n <= p + Len(c))
    BY <1>0, <2>2
  <2> HIDE DEF S, n
  <2> QED BY <2>3, <2>4, <2>5, <2>6
<1> HIDE DEF S
<1>4. \A i : Boundary(a, i) => i \in S
  BY <1>2, <1>3, Items
<1> QED BY <1>4 DEF S

\* White space holds no token.
LEMMA SpaceRun ==
  ASSUME NEW s \in SqlTexts, NEW p, Boundary(s, p), NEW e \in p .. Len(s), \A k \in p + 1 .. e : s[k] \in Space
  PROVE  Boundary(s, e) /\ LexScan(s)[e].tokens = LexScan(s)[p].tokens
<1> DEFINE S == {m \in 0 .. e - p : Boundary(s, p + m) /\ LexScan(s)[p + m].tokens = LexScan(s)[p].tokens}
<1>1. p \in Nat /\ e \in Nat /\ p <= e /\ e <= Len(s) /\ Len(s) \in Nat
  BY BoundaryIs
<1>2. 0 \in S
  BY <1>1
<1>3. ASSUME NEW m \in 1 .. e - p, m - 1 \in S PROVE m \in S
  <2> DEFINE j == p + m
  <2>1. j \in 1 .. Len(s) /\ j \in p + 1 .. e /\ j - 1 = p + (m - 1) /\ m \in 0 .. e - p /\ j # 0 /\ j \in Int
    BY <1>1
  <2>2. Boundary(s, j - 1) /\ LexScan(s)[j - 1].tokens = LexScan(s)[p].tokens
    BY <1>3, <2>1
  <2>3. s[j] \in Space
    BY <2>1
  <2> HIDE DEF j
  <2>4. ~LineStarts(s, j) /\ ~BlockStarts(s, j) /\ s[j] \notin Quotes \union Letters
    BY <2>1, <2>3, AtIs DEF LineStarts, BlockStarts, Pair, Space, Quotes, Letters
  <2>5. EndOf(s, j) = j
    BY <2>1, <2>4, OtherIs
  <2>6. Blank(s, j, j)
    BY <2>1, <2>3 DEF Blank
  <2>7. Boundary(s, j) /\ LexScan(s)[j].tokens = LexScan(s)[j - 1].tokens
    BY <2>1, <2>2, <2>5, <2>6, LexItem
  <2> QED BY <2>1, <2>2, <2>7 DEF j
<1>4. 0 .. e - p \subseteq S
  <2>1. e - p \in Nat
    BY <1>1
  <2> HIDE DEF S
  <2> QED BY <1>2, <1>3, <2>1, UpTo
<1>5. e - p \in 0 .. e - p /\ p + (e - p) = e
  BY <1>1
<1> QED BY <1>4, <1>5

\* Only a line comment ends in white space after more than one character.
LEMMA SpaceEnds ==
  ASSUME NEW s \in SqlTexts, NEW b \in 1 .. Len(s), EndOf(s, b) # 0, EndOf(s, b) # b, s[EndOf(s, b)] \in Space
  PROVE  LineStarts(s, b)
<1> DEFINE n == EndOf(s, b)
<1>1. n \in b .. Len(s) /\ n \in b .. n
  <2>1. n \in b .. Len(s)
    BY EndIs
  <2> QED BY <2>1 DEF SqlTexts
<1>2. s[n] # "/" /\ s[n] \notin Quotes /\ s[n] \notin Letters
  BY DEF Space, Quotes, Letters
<1> SUFFICES ASSUME ~LineStarts(s, b) PROVE FALSE
  OBVIOUS
<1>3. CASE BlockStarts(s, b)
  BY <1>2, <1>3, BlockIs
<1>4. CASE ~BlockStarts(s, b) /\ s[b] \in Quotes
  BY <1>2, <1>4, QuoteIs
<1>5. CASE ~BlockStarts(s, b) /\ s[b] \notin Quotes /\ s[b] \in Letters
  <2>1. \A k \in b .. n : s[k] \in Letters
    BY <1>5, WordIs
  <2> QED BY <1>1, <1>2, <2>1
<1>6. CASE ~BlockStarts(s, b) /\ s[b] \notin Quotes /\ s[b] \notin Letters
  BY <1>6, OtherIs
<1> QED BY <1>3, <1>4, <1>5, <1>6

LEMMA LexEmpty == Lex(<<>>) = <<>> /\ <<>> \in SqlTexts
<1>1. <<>> \in SqlTexts /\ Len(<<>>) = 0
  BY DEF SqlTexts
<1>2. LexScan(<<>>)[0].tokens = <<>>
  BY <1>1, LexStarts
<1> QED BY <1>1, <1>2 DEF Lex

LEMMA StripKeeps ==
  ASSUME NEW s \in SqlTexts, Closed(s)
  PROVE  Lex(Strip(s)) = Lex(s)
<1>1. /\ Boundary(s, 0) /\ LexScan(s)[0].tokens = <<>> /\ Len(s) \in Nat
      /\ Boundary(s, Len(s)) /\ Lex(s) = LexScan(s)[Len(s)].tokens
  BY LexStarts, LexClosed
<1>2. CASE Strip(s) = <<>> /\ \A i \in 1 .. Len(s) : s[i] \in Space
  <2>1. Len(s) \in 0 .. Len(s) /\ \A k \in 0 + 1 .. Len(s) : s[k] \in Space
    BY <1>1, <1>2
  <2>2. LexScan(s)[Len(s)].tokens = LexScan(s)[0].tokens
    BY <1>1, <2>1, SpaceRun
  <2> QED BY <1>1, <1>2, <2>2, LexEmpty
<1>3. ASSUME NEW b \in 1 .. Len(s), NEW e \in 1 .. Len(s),
             b <= e, Strip(s) = SubSeq(s, b, e), s[b] \notin Space, s[e] \notin Space,
             \A i \in 1 .. Len(s) : i < b \/ i > e => s[i] \in Space
      PROVE  Lex(Strip(s)) = Lex(s)
  <2> DEFINE c == Strip(s)
             p == b - 1
  <2>1. b \in Nat /\ e \in Nat /\ 1 <= b /\ e <= Len(s) /\ p \in Nat /\ p + 1 = b
    BY <1>1
  <2>2. /\ c \in SqlTexts /\ Len(c) = e - p /\ p + Len(c) = e /\ Len(c) \in Nat /\ 1 <= Len(c)
        /\ \A k \in 1 .. Len(c) : c[k] = s[p + k]
    <3>1. e \in b .. Len(s)
      BY <1>3, <2>1
    <3>2. /\ c \in SqlTexts /\ Len(c) = e - b + 1
          /\ \A k \in 1 .. e - b + 1 : c[k] = s[b + k - 1]
      BY <1>3, <3>1, SubSeqIs
    <3>3. e - b + 1 = e - p /\ \A k \in 1 .. e - b + 1 : b + k - 1 = p + k
      BY <2>1
    <3>4. p + (e - p) = e /\ e - p \in Nat /\ 1 <= e - p
      BY <1>3, <2>1
    <3> HIDE DEF c, p
    <3> QED BY <3>2, <3>3, <3>4
  <2>3. Boundary(s, p) /\ LexScan(s)[p].tokens = <<>>
    <3>1. p \in 0 .. Len(s) /\ \A k \in 0 + 1 .. p : k \in 1 .. Len(s) /\ k < b
      BY <1>1, <2>1
    <3>2. \A k \in 0 + 1 .. p : s[k] \in Space
      BY <1>3, <3>1
    <3> HIDE DEF p
    <3> QED BY <1>1, <3>1, <3>2, SpaceRun
  <2> HIDE DEF c, p
  <2>4. \A i : Boundary(s, i) /\ p <= i /\ i <= e =>
          Boundary(c, i - p) /\ LexScan(s)[i].tokens = LexScan(c)[i - p].tokens
    <3>1. \A i : Boundary(s, i) /\ p <= i /\ i <= p + Len(c) =>
            Boundary(c, i - p) /\ LexScan(s)[i].tokens = LexScan(s)[p].tokens \o LexScan(c)[i - p].tokens
      BY <2>1, <2>2, <2>3, Window
    <3>2. \A i : Boundary(c, i - p) => <<>> \o LexScan(c)[i - p].tokens = LexScan(c)[i - p].tokens
      <4> SUFFICES ASSUME NEW i, Boundary(c, i - p) PROVE <<>> \o LexScan(c)[i - p].tokens = LexScan(c)[i - p].tokens
        OBVIOUS
      <4>1. LexScan(c)[i - p].tokens \in Seq(Tokens)
        BY <2>2, BoundaryIs
      <4> QED BY <4>1
    <3> QED BY <2>2, <2>3, <3>1, <3>2
  <2>5. PICK j \in 1 .. e : Boundary(s, j - 1) /\ e <= EndOf(s, j)
    BY InItem
  <2> DEFINE n == EndOf(s, j)
  <2>6. /\ j \in Nat /\ 1 <= j /\ j <= e /\ j \in 1 .. Len(s) /\ n \in j .. Len(s) /\ n \in Nat /\ n # 0
        /\ e <= n /\ n <= Len(s) /\ Boundary(s, n)
        /\ LexScan(s)[n].tokens = IF Blank(s, j, n) THEN LexScan(s)[j - 1].tokens
                                  ELSE Append(LexScan(s)[j - 1].tokens, TokenAt(s, j, n))
    <3>1. j \in Nat /\ 1 <= j /\ j <= e /\ j \in 1 .. Len(s)
      BY <1>1, <2>1
    <3>2. n \in j .. Len(s) /\ n \in Nat /\ n # 0
      <4>1. n \in j .. Len(s)
        BY <2>5, <3>1, ItemEnds
      <4> QED BY <3>1, <4>1
    <3> QED BY <1>1, <2>5, <3>1, <3>2, LexItem
  <2>7. p <= j - 1
    <3> SUFFICES ASSUME j <= p PROVE FALSE
      BY <2>1, <2>6
    <3>1. n <= p
      BY <2>3, <2>5, <2>6, NoCrossing
    <3> QED BY <1>3, <2>1, <2>6, <3>1
  <2>8. Lex(s) = LexScan(s)[n].tokens
    <3>1. Len(s) \in n .. Len(s) /\ \A k \in n + 1 .. Len(s) : k \in 1 .. Len(s) /\ k > e
      BY <1>1, <2>1, <2>6
    <3>2. \A k \in n + 1 .. Len(s) : s[k] \in Space
      BY <1>3, <3>1
    <3> HIDE DEF n
    <3> QED BY <1>1, <2>6, <3>1, <3>2, SpaceRun
  <2>9. CASE n = e
    <3>1. Boundary(s, e) /\ p <= e /\ e <= e /\ e - p = Len(c)
      BY <1>3, <2>1, <2>2, <2>6, <2>9
    <3>2. LexScan(s)[e].tokens = LexScan(c)[Len(c)].tokens
      BY <2>4, <3>1
    <3> QED BY <2>8, <2>9, <3>2 DEF Lex, c
  <2>10. CASE n # e
    <3>1. n > e /\ n # j /\ n \in 1 .. Len(s)
      BY <1>1, <2>1, <2>6, <2>10
    <3>2. s[n] \in Space
      BY <1>3, <3>1
    <3>3. LineStarts(s, j)
      BY <2>6, <3>1, <3>2, SpaceEnds
    <3>4. /\ s[j] = "-" /\ s[j + 1] = "-" /\ j + 1 \in 1 .. Len(s)
          /\ \A k \in j .. n - 1 : s[k] # "nl"
      BY <2>6, <3>3, LineIs
    <3>5. j + 1 <= e
      <4>1. s[j + 1] \notin Space
        BY <3>4 DEF Space
      <4> QED BY <1>3, <2>1, <2>6, <3>4, <4>1
    <3> DEFINE h == j - p
    <3>6. /\ h \in 1 .. Len(c) /\ h + 1 \in 1 .. Len(c) /\ p + h = j /\ p + (h + 1) = j + 1
          /\ Len(c) \in h .. Len(c) /\ j - 1 - p = h - 1 /\ j - 1 <= e
      BY <2>1, <2>2, <2>6, <2>7, <3>5
    <3>7. LineStarts(c, h)
      BY <2>2, <3>4, <3>6 DEF LineStarts, Pair, At
    <3>8. \A k \in h .. Len(c) - 1 : c[k] # "nl"
      <4> SUFFICES ASSUME NEW k \in h .. Len(c) - 1 PROVE c[k] # "nl"
        OBVIOUS
      <4>1. k \in 1 .. Len(c) /\ p + k \in j .. n - 1
        BY <2>1, <2>2, <2>6, <3>1, <3>6
      <4> QED BY <2>2, <3>4, <4>1
    <3>9. Boundary(c, h - 1) /\ LexScan(s)[j - 1].tokens = LexScan(c)[h - 1].tokens
      BY <2>4, <2>5, <2>7, <3>6
    <3> HIDE DEF h, n
    <3>10. EndOf(c, h) = Len(c) /\ Blank(c, h, Len(c))
      BY <2>2, <3>6, <3>7, <3>8, LineItem
    <3>11. LexScan(c)[Len(c)].tokens = LexScan(c)[h - 1].tokens
      <4>1. EndOf(c, h) # 0
        BY <2>2, <3>10
      <4> QED BY <2>2, <3>6, <3>9, <3>10, <4>1, LexItem
    <3>12. Blank(s, j, n)
      BY <2>6, <3>3 DEF Blank
    <3> QED BY <2>6, <2>8, <3>9, <3>11, <3>12 DEF Lex, c
  <2> QED BY <2>9, <2>10
<1> QED BY <1>2, <1>3, StripIs

-------------------------------------------------------------------------------
(* The first scan keeps the tokens. *)

\* The output so far is where the whole output begins.
LEMMA OutAt ==
  ASSUME NEW s \in SqlTexts, NEW i \in 0 .. Len(s)
  PROVE  LET out   == Output(s)[i]
             whole == Output(s)[Len(s)] IN
         /\ out \in SqlTexts /\ whole \in SqlTexts /\ Len(out) \in Nat /\ Len(whole) \in Nat /\ Len(out) <= Len(whole)
         /\ \A k \in 1 .. Len(out) : k \in 1 .. Len(whole) /\ whole[k] = out[k]
<1>1. Len(s) \in 0 .. Len(s) /\ Len(s) \in i .. Len(s)
  BY DEF SqlTexts
<1>2. Output(s)[i] \in SqlTexts /\ Output(s)[Len(s)] \in SqlTexts
  BY <1>1, OutputIs
<1>3. Begins(Output(s)[i], Output(s)[Len(s)])
  BY <1>1, OutBegins
<1> QED BY <1>2, <1>3 DEF Begins, SqlTexts

LEMMA AppendIs ==
  ASSUME NEW out \in SqlTexts, NEW c \in Chars
  PROVE  LET longer == Append(out, c) IN
         longer \in SqlTexts /\ Len(longer) = Len(out) + 1 /\ longer[Len(longer)] = c /\ Len(out) + 1 \in 1 .. Len(longer)
BY DEF SqlTexts

\* What comes next in the output joins a token only if what comes next in the text does.
LEMMA NextChar ==
  ASSUME NEW s \in SqlTexts, Closed(s), NEW n \in 1 .. Len(s), Boundary(s, n),
         Output(s)[n] # <<>>, Output(s)[n][Len(Output(s)[n])] \notin Space
  PROVE  LET whole == Output(s)[Len(s)] IN
         \/ Lower(At(whole, Len(Output(s)[n]) + 1)) \in Follows
         \/ Lower(At(whole, Len(Output(s)[n]) + 1)) = Lower(At(s, n + 1))
<1> DEFINE o == Output(s)
           whole == o[Len(s)]
           h == Len(o[n]) + 1
<1>0. n \in Nat /\ Len(s) \in Nat /\ 1 <= n /\ n <= Len(s) /\ n \in 0 .. Len(s) /\ Len(s) \in 0 .. Len(s)
  BY DEF SqlTexts
<1>1. \A i \in 0 .. Len(s) : /\ o[i] \in SqlTexts /\ Len(o[i]) \in Nat
                             /\ \A k \in 1 .. Len(o[i]) : k \in 1 .. Len(whole) /\ whole[k] = o[i][k]
  BY OutAt
<1> HIDE DEF o
<1>2. Lower("") \in Follows /\ Lower(" ") \in Follows
  BY DEF Follows, Lower
<1>3. whole = o[n] => Lower(At(whole, h)) \in Follows
  <2>1. whole = o[n] => h \notin 1 .. Len(whole)
    BY <1>0, <1>1
  <2> QED BY <1>2, <2>1 DEF At
<1>4. \A e \in 0 .. Len(s), x \in Chars : o[e] = Append(o[n], x) => At(whole, h) = x
  <2> SUFFICES ASSUME NEW e \in 0 .. Len(s), NEW x \in Chars, o[e] = Append(o[n], x) PROVE At(whole, h) = x
    OBVIOUS
  <2>1. h = Len(o[e]) /\ o[e][h] = x /\ h \in 1 .. Len(o[e])
    BY SMTT(30), <1>0, <1>1, AppendIs
  <2> QED BY <1>1, <2>1 DEF At
<1>5. CASE n = Len(s)
  BY <1>3, <1>5 DEF o
<1>6. CASE n # Len(s)
  <2> DEFINE j == n + 1
             e == EndOf(s, j)
  <2>1. j \in 1 .. Len(s) /\ j - 1 = n /\ j \in Int
    BY <1>0, <1>6
  <2>2. e \in j .. Len(s) /\ e # 0 /\ e \in 0 .. Len(s) /\ j \in j .. e
    <3>1. e \in j .. Len(s)
      BY <2>1, ItemEnds
    <3> QED BY <1>0, <3>1
  <2>3. Walk(s, {"'"})[j - 1] = Outside
    BY <1>6, <2>1, Walks
  <2>4. CASE Blank(s, j, e)
    <3>1. o[e] = Spaced(o[j - 1]) \/ (o[e] = o[j - 1] /\ e = Len(s))
      BY <2>1, <2>3, <2>4, OutBlank DEF o
    <3>2. " " \in Chars
      BY DEF Chars
    <3>3. CASE o[e] = Spaced(o[n])
      <4>1. o[e] = Append(o[n], " ")
        BY <3>3 DEF Spaced, o, Space
      <4>2. At(whole, h) = " "
        BY <1>4, <2>2, <3>2, <4>1
      <4> QED BY <1>2, <4>2 DEF o
    <3>4. CASE o[e] = o[n] /\ e = Len(s)
      BY <1>3, <3>4 DEF o
    <3> QED BY <2>1, <3>1, <3>3, <3>4
  <2>5. CASE ~Blank(s, j, e)
    <3> DEFINE x == IF s[j] \in Quotes THEN s[j] ELSE Lower(s[j])
    <3>1. o[j] = Append(o[n], x)
      BY <2>1, <2>2, <2>3, <2>5, OutToken DEF o
    <3>2. s[j] \in Chars /\ At(s, j) = s[j]
      BY <2>1, AtIs
    <3>3. x \in Chars /\ Lower(x) = Lower(s[j])
      BY <3>2, LowerIs
    <3>4. At(whole, h) = x
      <4>1. j \in 0 .. Len(s)
        BY <1>0, <2>1
      <4> HIDE DEF x, j
      <4> QED BY <1>4, <3>1, <3>3, <4>1
    <3> QED BY <3>2, <3>3, <3>4 DEF o
  <2> QED BY <2>4, <2>5
<1> QED BY <1>5, <1>6

\* A token's characters follow one another in the output.
LEMMA TokenOut ==
  ASSUME NEW s \in SqlTexts, NEW j \in 1 .. Len(s), NEW n \in j .. Len(s),
         \A k \in j .. n : Output(s)[k] = Append(Output(s)[k - 1], IF s[j] \in Quotes THEN s[k] ELSE Lower(s[k]))
  PROVE  LET whole == Output(s)[Len(s)]
             d     == Len(Output(s)[j - 1]) - (j - 1) IN
         /\ d \in Int
         /\ \A k \in j .. n : /\ Len(Output(s)[k]) = k + d /\ k + d \in 1 .. Len(whole)
                              /\ whole[k + d] = Output(s)[k][k + d]
                              /\ Lower(whole[k + d]) = Lower(s[k]) /\ (s[j] \in Quotes => whole[k + d] = s[k])
<1> DEFINE o == Output(s)
           whole == o[Len(s)]
           d == Len(o[j - 1]) - (j - 1)
           x(k) == IF s[j] \in Quotes THEN s[k] ELSE Lower(s[k])
           S == {m \in 0 .. n - j : Len(o[j + m]) = j + m + d}
<1>0. j \in Nat /\ n \in Nat /\ Len(s) \in Nat /\ 1 <= j /\ j <= n /\ n <= Len(s)
  BY DEF SqlTexts
<1>1. \A i \in 0 .. Len(s) : /\ o[i] \in SqlTexts /\ Len(o[i]) \in Nat
                             /\ \A k \in 1 .. Len(o[i]) : k \in 1 .. Len(whole) /\ whole[k] = o[i][k]
  BY OutAt
<1>2. \A k \in j .. n : s[k] \in Chars /\ x(k) \in Chars /\ Lower(x(k)) = Lower(s[k])
  <2> SUFFICES ASSUME NEW k \in j .. n PROVE s[k] \in Chars /\ x(k) \in Chars /\ Lower(x(k)) = Lower(s[k])
    OBVIOUS
  <2>1. k \in 1 .. Len(s)
    BY <1>0
  <2>2. s[k] \in Chars
    BY <2>1 DEF SqlTexts
  <2> QED BY <2>2, LowerIs
<1>3. \A k \in j .. n : o[k] = Append(o[k - 1], x(k))
  OBVIOUS
<1> HIDE DEF o, x
<1>4. \A k \in j .. n : Len(o[k]) = Len(o[k - 1]) + 1 /\ o[k][Len(o[k])] = x(k) /\ Len(o[k]) \in 1 .. Len(o[k])
  <2> SUFFICES ASSUME NEW k \in j .. n
               PROVE  Len(o[k]) = Len(o[k - 1]) + 1 /\ o[k][Len(o[k])] = x(k) /\ Len(o[k]) \in 1 .. Len(o[k])
    OBVIOUS
  <2>1. o[k - 1] \in SqlTexts /\ x(k) \in Chars
    <3>1. k - 1 \in 0 .. Len(s)
      BY <1>0
    <3> QED BY <1>1, <1>2, <3>1
  <2> DEFINE y == o[k - 1]
  <2>2. o[k] = Append(y, x(k))
    BY <1>3
  <2> HIDE DEF y
  <2>3. Len(Append(y, x(k))) = Len(y) + 1 /\ Append(y, x(k))[Len(Append(y, x(k)))] = x(k)
        /\ Len(y) + 1 \in 1 .. Len(Append(y, x(k)))
    BY <2>1, AppendIs DEF y
  <2> QED BY <2>2, <2>3 DEF y
<1>5. d \in Int
  <2>1. j - 1 \in 0 .. Len(s)
    BY <1>0
  <2>2. Len(o[j - 1]) \in Nat
    BY <1>1, <2>1
  <2> QED BY <1>0, <2>2
<1>6. 0 \in S
  <2>1. j \in j .. n /\ j + 0 = j /\ 0 \in 0 .. n - j /\ j - 1 \in 0 .. Len(s)
    BY <1>0
  <2>2. Len(o[j - 1]) \in Nat /\ Len(o[j]) = Len(o[j - 1]) + 1
    BY <1>1, <1>4, <2>1
  <2>3. Len(o[j]) = j + d
    BY <1>0, <2>2
  <2> QED BY <2>1, <2>3
<1> HIDE DEF d
<1>7. ASSUME NEW m \in 1 .. n - j, m - 1 \in S PROVE m \in S
  <2>1. j + m \in j .. n /\ j + m - 1 = j + (m - 1) /\ m \in 0 .. n - j
    BY <1>0
  <2>2. Len(o[j + m]) = j + (m - 1) + d + 1
    BY <1>4, <1>7, <2>1
  <2>3. j + (m - 1) + d + 1 = j + m + d
    BY <1>0, <1>5
  <2> QED BY <2>1, <2>2, <2>3
<1>8. 0 .. n - j \subseteq S
  <2>1. n - j \in Nat
    BY <1>0
  <2> HIDE DEF S
  <2> QED BY <1>6, <1>7, <2>1, UpTo
<1>9. ASSUME NEW k \in j .. n
      PROVE  /\ Len(o[k]) = k + d /\ k + d \in 1 .. Len(whole) /\ whole[k + d] = o[k][k + d]
             /\ Lower(whole[k + d]) = Lower(s[k]) /\ (s[j] \in Quotes => whole[k + d] = s[k])
  <2>1. k - j \in 0 .. n - j /\ j + (k - j) = k /\ k \in 0 .. Len(s)
    BY <1>0
  <2>2. Len(o[k]) = k + d
    BY <1>8, <2>1
  <2>3. k + d \in 1 .. Len(whole) /\ whole[k + d] = o[k][k + d] /\ o[k][k + d] = x(k)
    BY <1>1, <1>4, <2>1, <2>2
  <2>4. Lower(x(k)) = Lower(s[k]) /\ (s[j] \in Quotes => x(k) = s[k])
    BY <1>2 DEF x
  <2> QED BY <2>2, <2>3, <2>4
<1> QED BY <1>5, <1>9 DEF d, o

LEMMA OutputKeeps ==
  ASSUME NEW s \in SqlTexts, Closed(s)
  PROVE  Lex(Output(s)[Len(s)]) = Lex(s) /\ Output(s)[Len(s)] \in SqlTexts
<1> DEFINE o == Output(s)
           f == o[Len(s)]
           S == {i \in 0 .. Len(s) : Boundary(f, Len(o[i])) /\ LexScan(f)[Len(o[i])].tokens = LexScan(s)[i].tokens}
<1>1. /\ \A i \in 0 .. Len(s) : /\ o[i] \in SqlTexts /\ Len(o[i]) \in Nat /\ Len(o[i]) <= Len(f)
                                /\ \A k \in 1 .. Len(o[i]) : k \in 1 .. Len(f) /\ f[k] = o[i][k]
      /\ o[0] = <<>>
  BY OutAt, OutputIs
<1>2. Len(s) \in Nat /\ f \in SqlTexts /\ Len(f) \in Nat
  <2>1. Len(s) \in Nat /\ Len(s) \in 0 .. Len(s)
    BY DEF SqlTexts
  <2> QED BY <1>1, <2>1
<1> HIDE DEF o, f
<1>3. 0 \in S
  <2>1. Boundary(f, 0) /\ LexScan(f)[0].tokens = <<>> /\ LexScan(s)[0].tokens = <<>>
    BY <1>2, LexStarts
  <2>2. Len(o[0]) = 0 /\ 0 \in 0 .. Len(s)
    BY <1>1, <1>2
  <2> QED BY <2>1, <2>2
<1>4. ASSUME NEW j \in 1 .. Len(s), Boundary(s, j - 1), j - 1 \in S PROVE EndOf(s, j) \in S
  <2> DEFINE n == EndOf(s, j)
             p == Len(o[j - 1])
  <2>1. /\ n \in j .. Len(s) /\ n # 0 /\ Boundary(s, n)
        /\ LexScan(s)[n].tokens = IF Blank(s, j, n) THEN LexScan(s)[j - 1].tokens
                                  ELSE Append(LexScan(s)[j - 1].tokens, TokenAt(s, j, n))
    <3>1. n \in j .. Len(s)
      BY <1>4, ItemEnds
    <3>2. n # 0
      BY <1>2, <3>1
    <3> QED BY <1>4, <3>1, <3>2, LexItem
  <2>2. j \in Nat /\ n \in Nat /\ 1 <= j /\ j <= n /\ n <= Len(s) /\ j - 1 \in 0 .. Len(s) /\ n \in 0 .. Len(s) /\ n \in 1 .. Len(s)
        /\ n \in j .. n /\ j \in j .. n /\ j - 1 # Len(s)
    BY <1>2, <2>1
  <2>3. Walk(s, {"'"})[j - 1] = Outside
    BY <1>4, <2>2, Walks
  <2>4. /\ p \in Nat /\ Boundary(f, p) /\ LexScan(f)[p].tokens = LexScan(s)[j - 1].tokens
        /\ o[j - 1] \in SqlTexts /\ o[n] \in SqlTexts
    BY <1>1, <1>4, <2>2
  <2>5. CASE Blank(s, j, n)
    <3>1. o[n] = Spaced(o[j - 1]) \/ o[n] = o[j - 1]
      BY <2>3, <2>5, OutBlank DEF o
    <3>2. CASE o[n] = o[j - 1]
      BY <2>1, <2>2, <2>4, <2>5, <3>2
    <3>3. CASE o[n] = Append(o[j - 1], " ")
      <4>1. " " \in Chars /\ " " \in Space
        BY DEF Chars, Space
      <4>2. Len(o[n]) = p + 1 /\ o[n][p + 1] \in Space /\ p + 1 \in 1 .. Len(o[n])
        <5> DEFINE y == o[j - 1]
                   c == " "
        <5>1. y \in SqlTexts /\ c \in Chars /\ c \in Space /\ o[n] = Append(y, c)
          BY <2>4, <3>3, <4>1
        <5> HIDE DEF y, c, n
        <5>2. Len(o[n]) = Len(y) + 1 /\ o[n][Len(o[n])] = c /\ Len(y) + 1 \in 1 .. Len(o[n])
          BY <5>1, AppendIs
        <5> QED BY <5>1, <5>2 DEF y
      <4> HIDE DEF p, n
      <4>3. p + 1 \in 1 .. Len(f) /\ f[p + 1] \in Space
        BY <1>1, <2>2, <4>2
      <4>4. p + 1 \in p .. Len(f) /\ \A k \in p + 1 .. p + 1 : k = p + 1
        BY <1>2, <2>4, <4>3
      <4>5. \A k \in p + 1 .. p + 1 : f[k] \in Space
        BY <4>3, <4>4
      <4>6. Boundary(f, p + 1) /\ LexScan(f)[p + 1].tokens = LexScan(f)[p].tokens
        BY <1>2, <2>4, <4>4, <4>5, SpaceRun
      <4> QED BY <2>1, <2>2, <2>4, <2>5, <4>2, <4>6 DEF n
    <3> QED BY <3>1, <3>2, <3>3 DEF Spaced
  <2>6. CASE ~Blank(s, j, n)
    <3> DEFINE d == p - (j - 1)
    <3>1. \A k \in j .. n : o[k] = Append(o[k - 1], IF s[j] \in Quotes THEN s[k] ELSE Lower(s[k]))
      BY <2>1, <2>3, <2>6, OutToken DEF o
    <3>2. /\ d \in Int
          /\ \A k \in j .. n : /\ Len(o[k]) = k + d /\ k + d \in 1 .. Len(f)
                               /\ f[k + d] = o[k][k + d]
                               /\ Lower(f[k + d]) = Lower(s[k]) /\ (s[j] \in Quotes => f[k + d] = s[k])
      BY <2>1, <3>1, TokenOut DEF o, f
    <3>3. s[n] \notin Space /\ ~LineStarts(s, j)
      <4>1. ~LineStarts(s, j) /\ s[j] \notin Space
        BY <2>1, <2>6 DEF Blank
      <4>2. n # j /\ s[n] \in Space => LineStarts(s, j)
        BY <2>1, SpaceEnds
      <4> QED BY <4>1, <4>2
    <3> HIDE DEF n, p, d
    <3>4. \/ Lower(At(f, n + d + 1)) \in Follows
          \/ Lower(At(f, n + d + 1)) = Lower(At(s, n + 1))
      <4>1. Len(o[n]) = n + d /\ n + d \in 1 .. Len(f) /\ Lower(o[n][Len(o[n])]) = Lower(s[n])
        BY <2>2, <3>2
      <4>2. o[n] # <<>>
        <5>1. Len(o[n]) # 0
          BY <1>2, <4>1
        <5> QED BY <5>1
      <4>3. o[n][Len(o[n])] \notin Space
        <5>1. \A y : (Lower(y) = " " <=> y = " ") /\ (Lower(y) = "nl" <=> y = "nl")
          BY DEF Lower
        <5> QED BY <3>3, <4>1, <5>1 DEF Space
      <4> QED BY <2>1, <2>2, <4>1, <4>2, <4>3, NextChar DEF o, f
    <3>5. /\ EndOf(f, j + d) = n + d /\ n + d # 0 /\ ~Blank(f, j + d, n + d)
          /\ TokenAt(f, j + d, n + d) = TokenAt(s, j, n)
      <4>1. j + d \in 1 .. Len(f) /\ n + d <= Len(f)
        BY <1>2, <2>2, <3>2
      <4>2. \A k \in j .. n : Lower(f[k + d]) = Lower(s[k]) /\ (s[j] \in Quotes => f[k + d] = s[k])
        BY <3>2
      <4>3. /\ EndOf(f, j + d) = n + d /\ n + d # 0
            /\ Blank(f, j + d, n + d) <=> Blank(s, j, n)
            /\ TokenAt(f, j + d, n + d) = TokenAt(s, j, n)
        BY <1>2, <2>1, <3>2, <3>3, <3>4, <4>1, <4>2, SameItem DEF n
      <4> QED BY <2>6, <4>3
    <3>6. j + d \in 1 .. Len(f) /\ j + d - 1 = p
      <4>1. j + d - 1 = p
        BY <2>2, <2>4 DEF d
      <4> QED BY <2>2, <3>2, <4>1
    <3>7. /\ Boundary(f, n + d)
          /\ LexScan(f)[n + d].tokens = Append(LexScan(f)[p].tokens, TokenAt(s, j, n))
      <4>1. /\ Boundary(f, EndOf(f, j + d))
            /\ LexScan(f)[EndOf(f, j + d)].tokens =
                 IF Blank(f, j + d, EndOf(f, j + d)) THEN LexScan(f)[j + d - 1].tokens
                 ELSE Append(LexScan(f)[j + d - 1].tokens, TokenAt(f, j + d, EndOf(f, j + d)))
        <5>1. PICK h \in 1 .. Len(f) : h = j + d
          BY <3>6
        <5>2. Boundary(f, h - 1) /\ EndOf(f, h) # 0
          BY <2>2, <2>4, <3>2, <3>5, <3>6, <5>1
        <5>3. /\ Boundary(f, EndOf(f, h))
              /\ LexScan(f)[EndOf(f, h)].tokens =
                   IF Blank(f, h, EndOf(f, h)) THEN LexScan(f)[h - 1].tokens
                   ELSE Append(LexScan(f)[h - 1].tokens, TokenAt(f, h, EndOf(f, h)))
          BY <1>2, <5>2, LexItem
        <5> QED BY <2>2, <3>2, <5>1, <5>3
      <4> QED BY <3>5, <3>6, <4>1
    <3>8. Len(o[n]) = n + d
      BY <2>2, <3>2
    <3> QED BY <2>1, <2>2, <2>4, <2>6, <3>7, <3>8 DEF n
  <2> QED BY <2>5, <2>6
<1> HIDE DEF S
<1>5. \A i : Boundary(s, i) => i \in S
  BY <1>3, <1>4, Items
<1>6. Len(s) \in S
  BY <1>5, LexClosed
<1> QED BY <1>2, <1>6, LexClosed DEF S, Lex, f, o

LEMMA NormalizedKeeps ==
  ASSUME NEW s \in SqlTexts, Closed(s)
  PROVE  Lex(NormalizeSqlForCache(s)) = Lex(s)
<1>1. Lex(Output(s)[Len(s)]) = Lex(s) /\ Output(s)[Len(s)] \in SqlTexts
  BY OutputKeeps
<1>2. Closed(Output(s)[Len(s)])
  BY <1>1 DEF Closed
<1> QED BY <1>1, <1>2, StripKeeps DEF NormalizeSqlForCache

-------------------------------------------------------------------------------
(* The second scan cuts between the tokens. *)

\* What has been read stays.
LEMMA NoneUnclosed ==
  ASSUME NEW s \in SqlTexts, Closed(s), NEW i \in 0 .. Len(s)
  PROVE  Unclosed \notin Range(LexScan(s)[i].tokens)
<1> SUFFICES ASSUME Unclosed \in Range(LexScan(s)[i].tokens) PROVE FALSE
  OBVIOUS
<1> DEFINE lex == LexScan(s)
           S == {m \in 0 .. Len(s) - i : Unclosed \in Range(lex[i + m].tokens)}
<1>1. /\ i \in Nat /\ i <= Len(s) /\ Len(s) \in Nat
      /\ lex \in [0 .. Len(s) -> LexStates] /\ \A n \in 1 .. Len(s) : lex[n] = LexAt(s, n, lex[n - 1])
  BY LexIs DEF SqlTexts
<1>2. 0 \in S
  BY <1>1
<1> HIDE DEF lex
<1>3. ASSUME NEW m \in 1 .. Len(s) - i, m - 1 \in S PROVE m \in S
  <2> DEFINE n == i + m
  <2>1. n \in 1 .. Len(s) /\ n - 1 = i + (m - 1) /\ n - 1 \in 0 .. Len(s) /\ m \in 0 .. Len(s) - i
    BY <1>1
  <2>2. lex[n] = LexAt(s, n, lex[n - 1]) /\ Unclosed \in Range(lex[n - 1].tokens) /\ lex[n - 1] \in LexStates
    BY <1>1, <1>3, <2>1
  <2> HIDE DEF n
  <2>3. lex[n - 1].tokens \in Seq(Tokens)
    BY <2>2 DEF LexStates
  <2>4. ASSUME NEW t \in Tokens PROVE Unclosed \in Range(Append(lex[n - 1].tokens, t))
    <3> DEFINE x == lex[n - 1].tokens
    <3>1. x \in Seq(Tokens) /\ Unclosed \in Range(x)
      BY <2>2, <2>3
    <3> HIDE DEF x
    <3>2. PICK k \in DOMAIN x : x[k] = Unclosed
      BY <3>1 DEF Range
    <3>3. k \in DOMAIN Append(x, t) /\ Append(x, t)[k] = x[k]
      BY <3>1
    <3> QED BY <3>2, <3>3 DEF x, Range
  <2>5. TokenAt(s, n, EndOf(s, n)) \in Tokens
    BY <2>1, EndIs, TokenType
  <2>6. lex[n].tokens \in {lex[n - 1].tokens, Append(lex[n - 1].tokens, TokenAt(s, n, EndOf(s, n)))}
    BY <2>2 DEF LexAt
  <2>7. Unclosed \in Range(lex[n].tokens)
    BY <2>2, <2>4, <2>5, <2>6
  <2> QED BY <2>1, <2>7 DEF n
<1>4. 0 .. Len(s) - i \subseteq S
  <2>1. Len(s) - i \in Nat
    BY <1>1
  <2> HIDE DEF S
  <2> QED BY <1>2, <1>3, <2>1, UpTo
<1>5. Len(s) - i \in 0 .. Len(s) - i /\ i + (Len(s) - i) = Len(s)
  BY <1>1
<1>6. Unclosed \in Range(lex[Len(s)].tokens)
  BY <1>4, <1>5
<1> QED BY <1>6 DEF Closed, Lex, lex

\* A part between two items has the tokens between them, stripped or not.
LEMMA PieceKeeps ==
  ASSUME NEW s \in SqlTexts, Closed(s), NEW p, Boundary(s, p), NEW e, Boundary(s, e), p <= e,
         NEW y \in Seq(Tokens), LexScan(s)[e].tokens = LexScan(s)[p].tokens \o y
  PROVE  Lex(Strip(SubSeq(s, p + 1, e))) = y
<1> DEFINE c == SubSeq(s, p + 1, e)
<1>1. p \in Nat /\ e \in Nat /\ e <= Len(s) /\ Len(s) \in Nat /\ LexScan(s)[p].tokens \in Seq(Tokens)
  BY BoundaryIs
<1>2. c \in SqlTexts /\ Len(c) = e - p /\ \A k \in 1 .. Len(c) : c[k] = s[p + k]
  <2>1. p + 1 \in Nat \ {0} /\ e \in 0 .. Len(s)
    BY <1>1
  <2>2. c \in SqlTexts
    BY <2>1, PartType
  <2>3. CASE p = e
    <3>1. Len(c) = 0 /\ 0 = e - p
      BY <1>1, <2>3 DEF SqlTexts
    <3> HIDE DEF c
    <3> QED BY <2>2, <3>1
  <2>4. CASE p # e
    <3>1. p + 1 \in 1 .. Len(s) /\ e \in p + 1 .. Len(s) /\ e - (p + 1) + 1 = e - p
      BY <1>1, <2>4
    <3>2. Len(c) = e - (p + 1) + 1 /\ \A k \in 1 .. e - (p + 1) + 1 : c[k] = s[p + 1 + k - 1]
      BY <3>1, SubSeqIs
    <3>3. \A k \in 1 .. e - p : p + 1 + k - 1 = p + k
      BY <1>1
    <3> HIDE DEF c
    <3> QED BY <2>2, <3>1, <3>2, <3>3
  <2> QED BY <2>3, <2>4
<1> HIDE DEF c
<1>3. p + Len(c) = e /\ e <= e /\ e - p = Len(c) /\ Len(c) \in Nat
  BY <1>1, <1>2
<1>4. LexScan(s)[e].tokens = LexScan(s)[p].tokens \o LexScan(c)[Len(c)].tokens
  <2>1. \A i : Boundary(s, i) /\ p <= i /\ i <= p + Len(c) =>
          /\ Boundary(c, i - p)
          /\ LexScan(s)[i].tokens = LexScan(s)[p].tokens \o LexScan(c)[i - p].tokens
    BY <1>1, <1>2, <1>3, Window
  <2> QED BY <1>3, <2>1
<1>5. Lex(c) = y
  <2>1. Lex(c) \in Seq(Tokens) /\ Lex(c) = LexScan(c)[Len(c)].tokens
    BY <1>2, LexTokens DEF Lex
  <2> DEFINE x == LexScan(s)[p].tokens
             z == Lex(c)
  <2>2. x \in Seq(Tokens) /\ z \in Seq(Tokens) /\ x \o y = x \o z
    BY <1>1, <1>4, <2>1
  <2> HIDE DEF x, z
  <2>3. y = z
    BY <2>2, Cancelled
  <2> QED BY <2>3 DEF z
<1>6. Closed(c)
  <2> DEFINE x == LexScan(s)[p].tokens
  <2>1. Unclosed \notin Range(x \o y)
    <3>1. e \in 0 .. Len(s)
      BY <1>1
    <3> QED BY <3>1, NoneUnclosed
  <2>2. x \in Seq(Tokens)
    BY <1>1
  <2> HIDE DEF x
  <2>3. \A k \in DOMAIN y : Len(x) + k \in DOMAIN (x \o y) /\ (x \o y)[Len(x) + k] = y[k]
    BY <2>2
  <2> QED BY <1>5, <2>1, <2>3 DEF Closed, Range
<1> QED BY <1>2, <1>5, <1>6, StripKeeps DEF c

LEMMA EachAdd ==
  ASSUME NEW texts \in Seq(SqlTexts), NEW x \in SqlTexts
  PROVE  LexEach(AddTo(texts, x)) = AddTo(LexEach(texts), Lex(x))
<1>1. CASE x = <<>>
  BY <1>1, LexEmpty DEF AddTo
<1>2. CASE x # <<>>
  BY <1>2, EachNext DEF AddTo
<1> QED BY <1>1, <1>2

LEMMA SemicolonIs ==
  /\ Semicolon \notin Quotes \union Letters \union Space
  /\ Semicolon # "-" /\ Semicolon # "/" /\ Semicolon # "*"
BY DEF Semicolon, Quotes, Letters, Space

LEMMA CutIs ==
  ASSUME NEW s, NEW i, NEW w
  PROVE  Cut(s, i, w) <=> w = Outside /\ s[i] = Semicolon
BY DEF Cut, Semicolon

LEMMA PartAtIs ==
  ASSUME NEW t, NEW z \in PartStates
  PROVE  /\ t = <<Semicolon>> => PartAt(t, z) = [done |-> AddTo(z.done, z.open), open |-> <<>>]
         /\ t # <<Semicolon>> => PartAt(t, z) = [done |-> z.done, open |-> Append(z.open, t)]
<1>1. PartAt(t, z) = IF t = <<Semicolon>> THEN [done |-> AddTo(z.done, z.open), open |-> <<>>]
                     ELSE [z EXCEPT !.open = Append(@, t)]
  BY DEF PartAt, Semicolon
<1>2. [z EXCEPT !.open = Append(@, t)] = [done |-> z.done, open |-> Append(z.open, t)]
  <2>1. ASSUME NEW d, NEW o, NEW u PROVE [[done |-> d, open |-> o] EXCEPT !.open = u] = [done |-> d, open |-> u]
    OBVIOUS
  <2>2. z = [done |-> z.done, open |-> z.open]
    BY DEF PartStates
  <2>3. [z EXCEPT !.open = Append(@, t)] = [z EXCEPT !.open = Append(z.open, t)]
    OBVIOUS
  <2> QED BY <2>1, <2>2, <2>3
<1> QED BY <1>1, <1>2

\* A semicolon is a token of its own, and no other token is one.
LEMMA SemicolonItem ==
  ASSUME NEW s \in SqlTexts, NEW j \in 1 .. Len(s), EndOf(s, j) # 0
  PROVE  LET n == EndOf(s, j) IN
         /\ s[j] = Semicolon => n = j /\ ~Blank(s, j, n) /\ TokenAt(s, j, n) = <<Semicolon>>
         /\ s[j] # Semicolon => TokenAt(s, j, n) # <<Semicolon>>
<1> DEFINE n == EndOf(s, j)
<1>1. j \in Int /\ At(s, j) = s[j] /\ n \in j .. Len(s) /\ j \in Nat /\ 1 <= j
  <2>1. j \in Int /\ j \in Nat /\ 1 <= j
    BY DEF SqlTexts
  <2> QED BY <2>1, AtIs, EndIs
<1>2. CASE s[j] = Semicolon
  <2>1. ~LineStarts(s, j) /\ ~BlockStarts(s, j) /\ s[j] \notin Quotes \union Letters /\ s[j] \notin Space
    BY <1>1, <1>2, SemicolonIs DEF LineStarts, BlockStarts, Pair
  <2>2. n = j
    BY <2>1, OtherIs
  <2>3. ~Blank(s, j, j)
    BY <2>1 DEF Blank
  <2>4. TokenAt(s, j, j) = [k \in 1 .. j + 1 - j |-> Lower(s[j + k - 1])]
    BY <1>1, <2>1 DEF TokenAt
  <2>5. Lower(s[j]) = Semicolon
    BY <1>2 DEF Lower, Semicolon
  <2>6. 1 .. j + 1 - j = 1 .. 1 /\ \A k \in 1 .. 1 : j + k - 1 = j
    BY <1>1
  <2>7. TokenAt(s, j, j) = <<Semicolon>>
    BY <2>4, <2>5, <2>6
  <2> QED BY <1>2, <2>2, <2>3, <2>7
<1>3. CASE s[j] # Semicolon
  <2> SUFFICES ASSUME TokenAt(s, j, n) = <<Semicolon>> PROVE FALSE
    BY <1>3
  <2>1. <<Semicolon>>[1] = Semicolon
    OBVIOUS
  <2>2. CASE s[j] \in Quotes
    <3>1. TokenAt(s, j, n) = SubSeq(s, j, n)
      BY <2>2 DEF TokenAt
    <3>2. SubSeq(s, j, n)[1] = s[j + 1 - 1]
      <4>1. 1 \in 1 .. n - j + 1
        BY <1>1
      <4> HIDE DEF n
      <4> QED BY <1>1, <4>1, SubSeqIs
    <3>3. j + 1 - 1 = j
      BY <1>1
    <3> QED BY <1>3, <2>1, <3>1, <3>2, <3>3
  <2>3. CASE s[j] \notin Quotes
    <3>1. TokenAt(s, j, n) = [k \in 1 .. n + 1 - j |-> Lower(s[j + k - 1])]
      BY <2>3 DEF TokenAt
    <3>2. 1 \in 1 .. n + 1 - j /\ j + 1 - 1 = j
      BY <1>1
    <3>3. Lower(s[j]) = Semicolon
      <4> HIDE DEF n
      <4> QED BY <2>1, <3>1, <3>2
    <3>4. Lower(s[j]) = Semicolon => s[j] = Semicolon
      BY DEF Lower, Semicolon
    <3> QED BY <1>3, <3>3, <3>4
  <2> QED BY <2>2, <2>3
<1> QED BY <1>2, <1>3

\* Within any other item the scan cuts nowhere.
LEMMA NoCut ==
  ASSUME NEW s \in SqlTexts, NEW j \in 1 .. Len(s), Walk(s, Quotes)[j - 1] = Outside, EndOf(s, j) # 0, s[j] # Semicolon
  PROVE  Pieces(s)[EndOf(s, j)] = Pieces(s)[j - 1]
<1> DEFINE n == EndOf(s, j)
           w == Walk(s, Quotes)
           z == Pieces(s)
           S == {m \in 0 .. n + 1 - j : z[j - 1 + m] = z[j - 1]}
<1>1. n \in j .. Len(s) /\ j \in Nat /\ n \in Nat /\ 1 <= j /\ j <= n /\ n <= Len(s) /\ Len(s) \in Nat
  <2>1. n \in j .. Len(s)
    BY EndIs
  <2> QED BY <2>1 DEF SqlTexts
<1>2. w[j - 1] = Outside
  OBVIOUS
<1>3. \A q, a : q # "normal" \/ a # 0 => State(q, a) # Outside
  <2>1. \A q, a : State(q, a).state = q /\ State(q, a).ahead = a
    BY DEF State
  <2>2. Outside.state = "normal" /\ Outside.ahead = 0
    BY DEF Outside
  <2> QED BY <2>1, <2>2
<1>4. \A k \in j + 1 .. n : w[k - 1] # Outside \/ s[k] # Semicolon
  <2> SUFFICES ASSUME NEW k \in j + 1 .. n PROVE w[k - 1] # Outside \/ s[k] # Semicolon
    OBVIOUS
  <2>1. k - 1 \in j .. n - 1 /\ k \in j .. n /\ k - 1 + 1 = k /\ n # j
    BY <1>1
  <2>2. CASE LineStarts(s, j)
    <3>1. w[k - 1] = State("line", IF k - 1 = j THEN 1 ELSE 0)
      BY <2>1, <2>2, WalkLine
    <3> QED BY <1>3, <3>1
  <2>3. CASE BlockStarts(s, j)
    <3>1. /\ \A m \in j .. n - 2 : w[m] = State("block", IF m = j THEN 1 ELSE 0)
          /\ w[n - 1] = State("normal", 1)
      BY <2>3, WalkBlock
    <3>2. k - 1 = n - 1 \/ k - 1 \in j .. n - 2
      BY <1>1, <2>1
    <3> HIDE DEF n, w
    <3> QED BY <1>3, <3>1, <3>2
  <2>4. CASE ~LineStarts(s, j) /\ ~BlockStarts(s, j) /\ s[j] \in Quotes
    <3>1. w[k - 1].state = s[j] \/ (w[k - 1] = Outside /\ s[k - 1 + 1] = s[j])
      BY <2>1, <2>4, WalkQuote
    <3>2. Outside.state \notin Quotes
      BY DEF Outside, Quotes
    <3> HIDE DEF w
    <3> QED BY <2>1, <2>4, <3>1, <3>2, SemicolonIs
  <2>5. CASE ~LineStarts(s, j) /\ ~BlockStarts(s, j) /\ s[j] \notin Quotes
    <3>1. n = j \/ (s[j] \in Letters /\ \A m \in j .. n : s[m] \in Letters)
      BY <2>5, WalkWord
    <3> QED BY <2>1, <3>1, SemicolonIs
  <2> QED BY <2>2, <2>3, <2>4, <2>5
<1>5. \A k \in 1 .. Len(s) : z[k] = CutAt(s, k, w[k - 1], z[k - 1])
  BY PiecesIs
<1> HIDE DEF n, w, z
<1>6. \A k \in j .. n : z[k] = z[k - 1]
  <2> SUFFICES ASSUME NEW k \in j .. n PROVE z[k] = z[k - 1]
    OBVIOUS
  <2>1. k \in 1 .. Len(s) /\ (k = j \/ k \in j + 1 .. n)
    BY <1>1
  <2>2. ~(w[k - 1] = Outside /\ s[k] = Semicolon)
    BY <1>4, <2>1
  <2>3. ~Cut(s, k, w[k - 1])
    BY <2>2, CutIs
  <2>4. z[k] = CutAt(s, k, w[k - 1], z[k - 1])
    BY <1>5, <2>1
  <2> QED BY <2>3, <2>4 DEF CutAt
<1>7. 0 \in S
  <2>1. 0 \in 0 .. n + 1 - j /\ j - 1 + 0 = j - 1
    BY <1>1
  <2> QED BY <2>1
<1>8. ASSUME NEW m \in 1 .. n + 1 - j, m - 1 \in S PROVE m \in S
  <2>1. j - 1 + m \in j .. n /\ j - 1 + m - 1 = j - 1 + (m - 1) /\ m \in 0 .. n + 1 - j
    BY <1>1
  <2>2. z[j - 1 + m] = z[j - 1 + (m - 1)]
    BY <1>6, <2>1
  <2> QED BY <1>8, <2>1, <2>2
<1>9. 0 .. n + 1 - j \subseteq S
  <2>1. n + 1 - j \in Nat
    BY <1>1
  <2> HIDE DEF S
  <2> QED BY <1>7, <1>8, <2>1, UpTo
<1>10. n + 1 - j \in 0 .. n + 1 - j /\ j - 1 + (n + 1 - j) = n
  BY <1>1
<1> QED BY <1>9, <1>10 DEF n, z

LEMMA PartsType ==
  ASSUME NEW tokens \in Seq(Tokens)
  PROVE  Parts(tokens) \in PartStates /\ Parts(<<>>) = [done |-> <<>>, open |-> <<>>]
<1>1. Parts(tokens) \in PartStates
  <2>1. PICK f \in [0 .. Len(tokens) -> PartStates] : Parts(tokens) = f[Len(tokens)]
    BY PartsIs
  <2>2. Len(tokens) \in 0 .. Len(tokens)
    OBVIOUS
  <2> QED BY <2>1, <2>2
<1>2. Parts(<<>>) = [done |-> <<>>, open |-> <<>>]
  <2>1. <<>> \in Seq(Tokens) /\ Len(<<>>) = 0
    OBVIOUS
  <2> QED BY <2>1, PartsIs
<1> QED BY <1>1, <1>2

LEMMA SplitKeeps ==
  ASSUME NEW s \in SqlTexts, Closed(s)
  PROVE  LexEach(SplitSqlStatements(s)) = Statements(Lex(s))
<1> DEFINE z == Pieces(s)
           tokens(i) == LexScan(s)[i].tokens
           q(i) == Parts(tokens(i))
           p(i) == z[i].start - 1
           Good(i) == /\ LexEach(z[i].done) = q(i).done
                      /\ Boundary(s, p(i)) /\ p(i) <= i
                      /\ tokens(i) = tokens(p(i)) \o q(i).open
           S == {i \in 0 .. Len(s) : Good(i)}
<1>1. /\ \A i \in 0 .. Len(s) : z[i] \in PieceStates
      /\ z[0] = [start |-> 1, done |-> <<>>] /\ Len(s) \in Nat
      /\ \A k \in 1 .. Len(s) : z[k] = CutAt(s, k, Walk(s, Quotes)[k - 1], z[k - 1])
  BY PiecesIs DEF SqlTexts
<1>2. \A i : Boundary(s, i) => tokens(i) \in Seq(Tokens) /\ q(i) \in PartStates
  BY BoundaryIs, PartsType
<1>3. ASSUME NEW i, Boundary(s, i), Good(i)
      PROVE  /\ q(i).done \in Seq(Seq(Tokens)) /\ q(i).open \in Seq(Tokens)
             /\ z[i].start \in Nat \ {0} /\ z[i].done \in Seq(SqlTexts) /\ p(i) \in Nat /\ p(i) + 1 = z[i].start
             /\ Strip(SubSeq(s, z[i].start, i)) \in SqlTexts
             /\ Lex(Strip(SubSeq(s, z[i].start, i))) = q(i).open
  <2>1. i \in 0 .. Len(s) /\ i \in Nat
    BY <1>3, BoundaryIs
  <2>2. q(i).done \in Seq(Seq(Tokens)) /\ q(i).open \in Seq(Tokens)
    BY <1>2, <1>3 DEF PartStates
  <2>3. z[i].start \in Nat \ {0} /\ z[i].done \in Seq(SqlTexts)
    BY <1>1, <2>1 DEF PieceStates
  <2>4. p(i) \in Nat /\ p(i) + 1 = z[i].start
    BY <2>3
  <2>5. Strip(SubSeq(s, z[i].start, i)) \in SqlTexts
    BY <2>1, <2>3, PartType
  <2>6. Lex(Strip(SubSeq(s, p(i) + 1, i))) = q(i).open
    BY <1>3, <2>2, PieceKeeps
  <2> QED BY <2>2, <2>3, <2>4, <2>5, <2>6
<1>4. 0 \in S
  <2>1. Boundary(s, 0) /\ tokens(0) = <<>>
    BY LexStarts
  <2>2. <<>> \in Seq(Tokens) /\ <<>> \in Seq(SqlTexts) /\ Len(<<>>) = 0
    OBVIOUS
  <2>3. q(0) = [done |-> <<>>, open |-> <<>>]
    BY <2>1, <2>2, PartsType
  <2>4. LexEach(<<>>) = <<>>
    BY <2>2, EachIs
  <2>5. p(0) = 0 /\ z[0].done = <<>>
    BY <1>1
  <2>6. <<>> \o <<>> = <<>>
    OBVIOUS
  <2> HIDE DEF z, tokens, q, p
  <2>7. LexEach(z[0].done) = q(0).done /\ q(0).open = <<>>
    BY <2>3, <2>4, <2>5
  <2>8. tokens(0) = tokens(p(0)) \o q(0).open
    BY <2>1, <2>5, <2>6, <2>7
  <2>9. Boundary(s, p(0)) /\ p(0) <= 0 /\ 0 \in 0 .. Len(s)
    BY <1>1, <2>1, <2>5
  <2> QED BY <2>7, <2>8, <2>9
<1>5. ASSUME NEW j \in 1 .. Len(s), Boundary(s, j - 1), j - 1 \in S PROVE EndOf(s, j) \in S
  <2> DEFINE n == EndOf(s, j)
             t == TokenAt(s, j, n)
  <2>1. /\ n \in j .. Len(s) /\ n # 0 /\ Boundary(s, n) /\ n \in 0 .. Len(s) /\ j \in Nat /\ n \in Nat /\ j <= n /\ j - 1 # Len(s)
        /\ tokens(n) = IF Blank(s, j, n) THEN tokens(j - 1) ELSE Append(tokens(j - 1), t)
    <3>1. n \in j .. Len(s)
      BY <1>5, ItemEnds
    <3>2. n # 0 /\ n \in 0 .. Len(s) /\ j \in Nat /\ n \in Nat /\ j <= n /\ j - 1 # Len(s)
      BY <1>1, <3>1
    <3> QED BY <1>5, <3>1, <3>2, LexItem
  <2>2. Walk(s, Quotes)[j - 1] = Outside
    BY <1>5, <2>1, Walks
  <2>3. Good(j - 1)
    BY <1>5
  <2>4. /\ q(j - 1).done \in Seq(Seq(Tokens)) /\ q(j - 1).open \in Seq(Tokens)
        /\ z[j - 1].start \in Nat \ {0} /\ z[j - 1].done \in Seq(SqlTexts) /\ p(j - 1) \in Nat
        /\ Strip(SubSeq(s, z[j - 1].start, j - 1)) \in SqlTexts
        /\ Lex(Strip(SubSeq(s, z[j - 1].start, j - 1))) = q(j - 1).open
    BY <1>3, <1>5, <2>3
  <2>5. t \in Tokens /\ tokens(j - 1) \in Seq(Tokens) /\ tokens(p(j - 1)) \in Seq(Tokens) /\ q(j - 1) \in PartStates
    <3>1. n \in {0} \union j .. Len(s)
      BY <2>1
    <3>2. t \in Tokens
      BY <3>1, TokenType
    <3> QED BY <1>2, <1>5, <2>3, <3>2
  <2>6. ~Blank(s, j, n) => q(n) = PartAt(t, q(j - 1))
    BY <2>1, <2>5, PartsNext
  <2>7. /\ s[j] = Semicolon => n = j /\ ~Blank(s, j, n) /\ t = <<Semicolon>>
        /\ s[j] # Semicolon => t # <<Semicolon>>
    BY <2>1, SemicolonItem
  <2>8. CASE s[j] = Semicolon
    <3>1. n = j /\ ~Blank(s, j, n) /\ t = <<Semicolon>>
      BY <2>7, <2>8
    <3>2. q(n) = [done |-> AddTo(q(j - 1).done, q(j - 1).open), open |-> <<>>]
      BY <2>5, <2>6, <3>1, PartAtIs
    <3>3. Cut(s, j, Walk(s, Quotes)[j - 1])
      BY <2>2, <2>8, CutIs
    <3>4. z[j] = [start |-> j + 1, done |-> AddTo(z[j - 1].done, Strip(SubSeq(s, z[j - 1].start, j - 1)))]
      BY <1>1, <3>3 DEF CutAt
    <3>5. LexEach(z[j].done) = AddTo(q(j - 1).done, q(j - 1).open)
      <4>1. LexEach(z[j].done) = AddTo(LexEach(z[j - 1].done), Lex(Strip(SubSeq(s, z[j - 1].start, j - 1))))
        BY <2>4, <3>4, EachAdd
      <4> QED BY <2>3, <2>4, <4>1
    <3>6. p(j) = j
      BY <2>1, <3>4
    <3>7. tokens(j) = tokens(j) \o <<>>
      BY <1>2, <2>1, <3>1
    <3> HIDE DEF z, q, tokens, p, n
    <3> QED BY <2>1, <3>1, <3>2, <3>5, <3>6, <3>7 DEF n
  <2>9. CASE s[j] # Semicolon
    <3>1. z[n] = z[j - 1]
      BY <2>1, <2>2, <2>9, NoCut
    <3>2. p(n) = p(j - 1) /\ p(n) <= n
      <4>1. p(j - 1) <= j - 1
        BY <2>3
      <4> QED BY <2>1, <2>4, <3>1, <4>1
    <3>3. CASE Blank(s, j, n)
      <4>1. tokens(n) = tokens(j - 1)
        BY <2>1, <3>3
      <4>2. q(n) = q(j - 1)
        BY <4>1
      <4>3. Good(n)
        <5> HIDE DEF z, q, tokens, p, n
        <5> QED BY <2>3, <3>1, <3>2, <4>1, <4>2
      <4> QED BY <2>1, <4>3
    <3>4. CASE ~Blank(s, j, n)
      <4>1. q(n) = [done |-> q(j - 1).done, open |-> Append(q(j - 1).open, t)]
        BY <2>5, <2>6, <2>7, <2>9, <3>4, PartAtIs
      <4>2. tokens(n) = tokens(p(j - 1)) \o Append(q(j - 1).open, t)
        <5>1. tokens(n) = Append(tokens(p(j - 1)) \o q(j - 1).open, t)
          BY <2>1, <2>3, <3>4
        <5> DEFINE x == tokens(p(j - 1))
                   y == q(j - 1).open
        <5>2. x \in Seq(Tokens) /\ y \in Seq(Tokens) /\ t \in Tokens
          BY <2>4, <2>5
        <5> HIDE DEF x, y, t
        <5>3. x \o Append(y, t) = Append(x \o y, t)
          BY <5>2, ConcatIs
        <5> QED BY <5>1, <5>3 DEF x, y
      <4>3. Good(n)
        <5> HIDE DEF z, q, tokens, p, n, t
        <5>1. LexEach(z[n].done) = q(n).done /\ q(n).open = Append(q(j - 1).open, t)
          BY <2>3, <3>1, <4>1
        <5>2. Boundary(s, p(n)) /\ p(n) <= n
          BY <2>3, <3>2
        <5>3. tokens(n) = tokens(p(n)) \o q(n).open
          BY <3>2, <4>2, <5>1
        <5> QED BY <5>1, <5>2, <5>3
      <4> QED BY <2>1, <4>3
    <3> QED BY <3>3, <3>4
  <2> QED BY <2>8, <2>9
<1>6. \A i : Boundary(s, i) => i \in S
  <2> HIDE DEF S
  <2> QED BY <1>4, <1>5, Items
<1>7. Boundary(s, Len(s)) /\ Lex(s) = tokens(Len(s))
  BY LexClosed
<1>8. Good(Len(s))
  BY <1>6, <1>7
<1> DEFINE last == z[Len(s)]
<1>9. LexEach(AddTo(last.done, Strip(SubSeq(s, last.start, Len(s))))) = AddTo(q(Len(s)).done, q(Len(s)).open)
  <2>1. /\ last.done \in Seq(SqlTexts) /\ Strip(SubSeq(s, last.start, Len(s))) \in SqlTexts
        /\ Lex(Strip(SubSeq(s, last.start, Len(s)))) = q(Len(s)).open
    BY <1>3, <1>7, <1>8
  <2>2. LexEach(last.done) = q(Len(s)).done
    BY <1>8
  <2> HIDE DEF last, q
  <2> QED BY <2>1, <2>2, EachAdd
<1> QED BY <1>7, <1>9 DEF SplitSqlStatements, Statements

-------------------------------------------------------------------------------
SqlInv == sql \in Seq(Alphabet)

\* The texts that the cache and the split treat keep the tokens Trino reads in them, whatever their characters and
\* however long they are.
THEOREM TokensAreKeptAlways == SqlSpec => []TokensAreKept
<1>1. TextInit => SqlInv
  BY DEF TextInit, SqlInv
<1>2. SqlInv /\ [Type]_sql => SqlInv'
  BY DEF SqlInv, Type
<1>3. SqlInv => TokensAreKept
  <2> SUFFICES ASSUME SqlInv, Closed(sql)
               PROVE  /\ Lex(NormalizeSqlForCache(sql)) = Lex(sql)
                      /\ LexEach(SplitSqlStatements(sql)) = Statements(Lex(sql))
    BY DEF TokensAreKept, Closed
  <2>1. sql \in SqlTexts
    <3>1. Alphabet \subseteq Chars
      BY DEF Chars
    <3> QED BY <3>1 DEF SqlInv, SqlTexts
  <2> QED BY <2>1, NormalizedKeeps, SplitKeeps
<1> QED BY <1>1, <1>2, <1>3, PTL DEF SqlSpec
=============================================================================
