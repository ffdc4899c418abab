------------------------- MODULE ScheduledJobs_proofs -------------------------
(***************************************************************************)
(* Proofs about ScheduledJobs for any jobs, recipients, schedules, operators  *)
(* and bounds: its type invariant, that a time of a job is submitted once for  *)
(* each recipient, that a failed run is retried once but for one at most per    *)
(* mishap, and that nobody gets two emails for one time.  And about Cron, for   *)
(* any calendar and any expressions: that next_cron_run finds the first time    *)
(* that matches.                                                                *)
(***************************************************************************)
EXTENDS ScheduledJobs, Cron, SequenceTheorems, FiniteSetTheorems, WellFoundedInduction, TLAPS

USE TimeAssumption, NamesAssumption, NoJobAssumption

\* A sequence keeps its length and its type if every element is replaced by a run.
LEMMA Replaced ==
  ASSUME NEW s \in Seq(Run), NEW f \in [DOMAIN s -> Run]
  PROVE  f \in Seq(Run) /\ DOMAIN f = DOMAIN s /\ Len(f) = Len(s)
<1>1. Len(s) \in Nat /\ DOMAIN s = 1..Len(s)
  BY LenProperties
<1> QED BY <1>1

\* A handler in the middle of an execution or an edit has a job.
Pending ==
  /\ \A t \in Threads : pc[t] \in {"submit", "record"} => task[t].job \in Jobs
  /\ \A o \in Operators : pc[o] = "edit" => edit[o].job \in Jobs /\ edit[o].kind # "none"

Typing == TypeOK /\ Pending

Pcs == {"idle", "submit", "record", "edit"} \union TickPcs

LEMMA Constants ==
  /\ NoTask \in Task /\ NoEdit \in Edits /\ "poller" \in Threads /\ Operators \subseteq Threads
  /\ \A recipients \in SUBSET Recipients : Targets(recipients) \in SUBSET Who
  /\ \A s \in Schedules, t \in 0..MaxTime : NextRun(s, t) \in Nat
<1>1. NoTask \in Task
  BY DEF NoTask, Task, Who
<1>2. NoEdit \in Edits
  BY DEF NoEdit, Edits
<1> QED BY <1>1, <1>2 DEF Threads, Targets, Who

LEMMA InitTyping == Init => Typing
<1> SUFFICES ASSUME Init PROVE Typing
  OBVIOUS
<1>1. << >> \in Seq(Run)
  OBVIOUS
<1> QED BY <1>1, Constants DEF Init, Typing, TypeOK, Pending

\* What an abort leaves is typed, whatever the handler had.
LEMMA AbortTyping ==
  ASSUME Typing, NEW t \in Threads, Abort(t)
  PROVE  /\ pc' \in [Threads -> Pcs] /\ task' \in [Threads -> Task]
         /\ due' \subseteq Dues /\ list' \subseteq DOMAIN runs /\ at' \in 0..MaxTime
         /\ pc' = [pc EXCEPT ![t] = "idle"] /\ task' = [task EXCEPT ![t] = NoTask]
BY Constants DEF Abort, Goto, Typing, TypeOK, Pcs

\* A thread moves on with its execution, and edits nothing.
LEMMA Moves ==
  ASSUME Typing, NEW t \in Threads, NEW p \in Pcs \ {"edit"}, NEW k \in Task,
         pc' = [pc EXCEPT ![t] = p], task' = [task EXCEPT ![t] = k], edit' = edit,
         p \in {"submit", "record"} => k.job \in Jobs
  PROVE  /\ pc' \in [Threads -> Pcs] /\ task' \in [Threads -> Task]
         /\ edit' \in [Operators -> Edits] /\ Pending'
<1>1. pc \in [Threads -> Pcs] /\ task \in [Threads -> Task] /\ edit \in [Operators -> Edits]
  BY DEF Typing, TypeOK, Pcs
<1>2. pc' \in [Threads -> Pcs] /\ task' \in [Threads -> Task]
  BY <1>1
<1>3. \A u \in Threads : u # t => pc'[u] = pc[u] /\ task'[u] = task[u]
  BY <1>1
<1>4. pc'[t] = p /\ task'[t] = k
  BY <1>1
<1> QED BY <1>1, <1>2, <1>3, <1>4, Constants DEF Typing, Pending

\* The same for a thread whose execution stays as it is.
LEMMA Goes ==
  ASSUME Typing, NEW t \in Threads, NEW p \in Pcs \ {"edit"},
         pc' = [pc EXCEPT ![t] = p], task' = task, edit' = edit,
         p \in {"submit", "record"} => task[t].job \in Jobs
  PROVE  /\ pc' \in [Threads -> Pcs] /\ task' \in [Threads -> Task]
         /\ edit' \in [Operators -> Edits] /\ Pending'
<1>1. task[t] \in Task /\ task = [task EXCEPT ![t] = task[t]]
  BY DEF Typing, TypeOK
<1> QED BY <1>1, Moves

LEMMA ExecuteTyping ==
  ASSUME Typing, NEW t \in Threads, Submit(t) \/ Record(t)
  PROVE  Typing'
<1>1. CASE Submit(t)
  <2>1. PICK who \in task[t].todo, query \in {"none", "active"} :
          /\ task' = [task EXCEPT ![t].todo = @ \ {who}, ![t].who = who, ![t].query = query]
          /\ fired' = IF query = "active" /\ task[t].turn > 0 /\ task[t].attempt = 1
                        THEN fired \union {<<task[t].job, task[t].turn, who>>} ELSE fired
    BY <1>1 DEF Submit
  <2>2. task[t] \in Task /\ task[t].job \in Jobs /\ who \in Who
    BY <1>1, <2>1 DEF Submit, Task, Typing, TypeOK, Pending
  <2> DEFINE k == [task[t] EXCEPT !.todo = @ \ {who}, !.who = who, !.query = query]
  <2>3. k \in Task /\ k.job \in Jobs
    BY <2>1, <2>2 DEF Task
  <2>4. task' = [task EXCEPT ![t] = k]
    BY <2>1 DEF Typing, TypeOK
  <2>5. fired' \subseteq Jobs \X Nat \X Who
    BY <2>1, <2>2 DEF Task, Typing, TypeOK
  <2> HIDE DEF k
  <2>6. pc' = [pc EXCEPT ![t] = "record"] /\ "record" \in Pcs \ {"edit"}
        /\ UNCHANGED <<now, job, created, runs, due, at, list, edit, calls, mishaps>>
    BY <1>1 DEF Submit, Goto, Pcs
  <2>7. /\ pc' \in [Threads -> Pcs] /\ task' \in [Threads -> Task]
        /\ edit' \in [Operators -> Edits] /\ Pending'
    BY <2>3, <2>4, <2>6, Moves
  <2> QED BY <2>5, <2>6, <2>7 DEF Typing, TypeOK, Pcs
<1>2. CASE Record(t)
  <2>1. task[t] \in Task /\ task[t].job \in Jobs
    BY <1>2 DEF Record, Typing, TypeOK, Pending
  <2>2. CASE Exists(task[t].job)
    <3>1. NewRun(task[t]) \in Run
      BY <2>1 DEF NewRun, Run, Task
    <3>2. runs \in Seq(Run) /\ runs' = Append(runs, NewRun(task[t]))
      BY <1>2, <2>2 DEF Record, Typing, TypeOK
    <3>3. runs' \in Seq(Run) /\ DOMAIN runs \subseteq DOMAIN runs'
      BY <3>1, <3>2
    <3>4. Executed(t) \in Pcs \ {"edit"} /\ Executed(t) \notin {"submit", "record"}
      BY <2>1 DEF Executed, Task, Pcs, TickPcs
    <3>5. UNCHANGED <<due, list, at, now, job, created, edit, fired, calls, mishaps>>
      BY <1>2, <2>2 DEF Record
    <3>6. /\ pc' \in [Threads -> Pcs] /\ task' \in [Threads -> Task]
          /\ edit' \in [Operators -> Edits] /\ Pending'
      <4>1. CASE task[t].todo = {}
        BY <1>2, <2>2, <3>4, <3>5, <4>1, Moves, Constants DEF Record, Goto
      <4>2. CASE task[t].todo # {}
        <5>1. "submit" \in Pcs \ {"edit"}
          BY DEF Pcs
        <5> QED BY <1>2, <2>1, <2>2, <3>5, <4>2, <5>1, Goes DEF Record, Goto
      <4> QED BY <4>1, <4>2
    <3> QED BY <3>3, <3>5, <3>6 DEF Typing, TypeOK, Pcs
  <2>3. CASE ~Exists(task[t].job)
    <3>1. Abort(t) /\ UNCHANGED <<runs, now, job, created, edit, fired, calls, mishaps>>
      BY <1>2, <2>3 DEF Record
    <3>2. "idle" \in Pcs \ {"edit"}
      BY DEF Pcs
    <3>3. Pending' /\ edit' \in [Operators -> Edits]
      BY <3>1, <3>2, AbortTyping, Moves, Constants
    <3> QED BY <3>1, <3>3, AbortTyping DEF Typing, TypeOK, Pcs
  <2> QED BY <2>2, <2>3
<1> QED BY <1>1, <1>2

\* Writing the next time of a job numbers it.
LEMMA RowMoves ==
  ASSUME NEW row \in Row, NEW n \in Nat, NEW s \in Schedules, NEW b \in BOOLEAN
  PROVE  /\ [row EXCEPT !.next = n, !.turn = @ + 1] \in Row
         /\ [row EXCEPT !.enabled = TRUE, !.next = n, !.turn = @ + 1] \in Row
         /\ [row EXCEPT !.schedule = s, !.next = n, !.turn = @ + 1] \in Row
         /\ [row EXCEPT !.enabled = b] \in Row
<1> DEFINE m == row.turn + 1
           e == row.enabled
<1>1. m \in Nat /\ e \in BOOLEAN
  BY DEF Row
<1>2. /\ [row EXCEPT !.next = n, !.turn = @ + 1] = [row EXCEPT !.next = n, !.turn = m]
      /\ [row EXCEPT !.enabled = TRUE, !.next = n, !.turn = @ + 1] = [row EXCEPT !.enabled = TRUE, !.next = n, !.turn = m]
      /\ [row EXCEPT !.schedule = s, !.next = n, !.turn = @ + 1] = [row EXCEPT !.schedule = s, !.next = n, !.turn = m]
  BY DEF Row
<1> HIDE DEF m
<1>3. [row EXCEPT !.next = n, !.turn = m] \in Row
  BY <1>1 DEF Row
<1>4. [row EXCEPT !.enabled = TRUE, !.next = n, !.turn = m] \in Row
  BY <1>1 DEF Row
<1>5. [row EXCEPT !.schedule = s, !.next = n, !.turn = m] \in Row
  BY <1>1 DEF Row
<1>6. [row EXCEPT !.enabled = b] \in Row
  BY DEF Row
<1> QED BY <1>2, <1>3, <1>4, <1>5, <1>6

LEMMA TickTyping ==
  ASSUME Typing, TickRead \/ Take \/ SettleRead \/ TickEnd
  PROVE  Typing'
<1>1. {"fire", "settle", "submit", "idle"} \subseteq Pcs \ {"edit"}
  BY DEF Pcs, TickPcs
<1>2. CASE TickRead
  <2>1. DueRows \subseteq Dues
    BY DEF DueRows, Due, Exists, DueRow, Dues, Row, Typing, TypeOK
  <2>2. /\ pc' = [pc EXCEPT !["poller"] = "fire"] /\ at' = now /\ due' = DueRows
        /\ UNCHANGED <<now, job, created, runs, task, list, edit, fired, calls, mishaps>>
    BY <1>2 DEF TickRead, Goto
  <2>3. /\ pc' \in [Threads -> Pcs] /\ task' \in [Threads -> Task]
        /\ edit' \in [Operators -> Edits] /\ Pending'
    BY <1>1, <2>2, Goes, Constants
  <2> QED BY <2>1, <2>2, <2>3 DEF Typing, TypeOK, Pcs
<1>3. CASE Take
  <2>1. PICK d \in due :
       IF NextRun(d.schedule, at) = 0
         THEN Abort("poller") /\ UNCHANGED job
         ELSE /\ job' = Scheduled(d)
              /\ task' = [task EXCEPT !["poller"] =
                   [NoTask EXCEPT !.job = d.job, !.turn = d.turn, !.todo = Targets(d.recipients)]]
              /\ due' = due \ {d}
              /\ Goto("poller", "submit")
              /\ UNCHANGED <<list, at>>
    BY <1>3 DEF Take
  <2>2. d.job \in Jobs /\ d.schedule \in Schedules /\ d.turn \in Nat
        /\ d.recipients \in SUBSET Recipients
    BY <2>1 DEF Dues, Typing, TypeOK
  <2>3. CASE NextRun(d.schedule, at) = 0
    <3>1. Abort("poller") /\ UNCHANGED <<job, now, created, runs, edit, fired, calls, mishaps>>
      BY <1>3, <2>1, <2>3 DEF Take
    <3>2. Pending' /\ edit' \in [Operators -> Edits]
      BY <1>1, <3>1, AbortTyping, Moves, Constants
    <3> QED BY <3>1, <3>2, AbortTyping, Constants DEF Typing, TypeOK, Pcs
  <2>4. CASE NextRun(d.schedule, at) # 0
    <3>1. NextRun(d.schedule, at) \in Nat
      BY <2>2, Constants DEF Typing, TypeOK
    <3>2. Scheduled(d) \in [Jobs -> Row \union {NoJob}]
      <4>1. CASE Exists(d.job)
        <5>1. job[d.job] \in Row
          BY <2>2, <4>1 DEF Exists, Typing, TypeOK
        <5> DEFINE row == [job[d.job] EXCEPT !.next = NextRun(d.schedule, at), !.turn = @ + 1]
        <5>2. row \in Row
          BY <3>1, <5>1, RowMoves
        <5>3. Scheduled(d) = [job EXCEPT ![d.job] = row]
          BY <2>2, <4>1 DEF Scheduled, Typing, TypeOK
        <5> HIDE DEF row
        <5> QED BY <2>2, <5>2, <5>3 DEF Typing, TypeOK
      <4> QED BY <4>1 DEF Scheduled, Typing, TypeOK
    <3> DEFINE k == [NoTask EXCEPT !.job = d.job, !.turn = d.turn, !.todo = Targets(d.recipients)]
    <3>3. k \in Task /\ k.job = d.job
      BY <2>2, Constants DEF NoTask, Task, Who
    <3>4. /\ task' = [task EXCEPT !["poller"] = k] /\ pc' = [pc EXCEPT !["poller"] = "submit"]
          /\ due' \subseteq due /\ job' = Scheduled(d)
          /\ UNCHANGED <<list, at, now, created, runs, edit, fired, calls, mishaps>>
      BY <1>3, <2>1, <2>4 DEF Take, Goto
    <3> HIDE DEF k
    <3>5. /\ pc' \in [Threads -> Pcs] /\ task' \in [Threads -> Task]
          /\ edit' \in [Operators -> Edits] /\ Pending'
      BY <1>1, <2>2, <3>3, <3>4, Moves, Constants
    <3> QED BY <3>2, <3>4, <3>5 DEF Typing, TypeOK, Pcs
  <2> QED BY <2>3, <2>4
<1>4. CASE SettleRead
  <2>1. /\ pc' = [pc EXCEPT !["poller"] = "settle"] /\ at' = 0 /\ list' = Unsettled
        /\ UNCHANGED <<now, job, created, runs, task, due, edit, fired, calls, mishaps>>
    BY <1>4 DEF SettleRead, Goto
  <2>2. /\ pc' \in [Threads -> Pcs] /\ task' \in [Threads -> Task]
        /\ edit' \in [Operators -> Edits] /\ Pending'
    BY <1>1, <2>1, Goes, Constants
  <2> QED BY <2>1, <2>2 DEF Typing, TypeOK, Pcs, Unsettled
<1>5. CASE TickEnd
  <2>1. /\ pc' = [pc EXCEPT !["poller"] = "idle"]
        /\ UNCHANGED <<now, job, created, runs, task, due, at, list, edit, fired, calls, mishaps>>
    BY <1>5 DEF TickEnd, Goto
  <2>2. /\ pc' \in [Threads -> Pcs] /\ task' \in [Threads -> Task]
        /\ edit' \in [Operators -> Edits] /\ Pending'
    BY <1>1, <2>1, Goes, Constants
  <2> QED BY <2>1, <2>2 DEF Typing, TypeOK, Pcs
<1> QED BY <1>2, <1>3, <1>4, <1>5

\* A write of one run leaves runs.
LEMMA RunIsWritten ==
  ASSUME NEW s \in Seq(Run), NEW r, NEW x, r \in DOMAIN s => x \in Run
  PROVE  [s EXCEPT ![r] = x] \in Seq(Run) /\ DOMAIN [s EXCEPT ![r] = x] = DOMAIN s
<1>1. s \in [1..Len(s) -> Run] /\ DOMAIN s = 1..Len(s) /\ Len(s) \in Nat
  BY LenProperties
<1>2. [s EXCEPT ![r] = x] \in [DOMAIN s -> Run]
  BY <1>1
<1> HIDE DEF Run
<1> QED BY <1>1, <1>2, Replaced

LEMMA RunFields ==
  ASSUME NEW run \in Run
  PROVE  /\ \A v \in {"Succeeded", "Failed", "Gone"} : [run EXCEPT !.status = v] \in Run
         /\ \A q \in {"done", "failed"} : [run EXCEPT !.query = q] \in Run
         /\ [run EXCEPT !.mails = @ + 1] \in Run
         /\ \A d \in {"sent", "failed"} : [run EXCEPT !.delivery = d] \in Run
<1> DEFINE n == run.mails + 1
<1>1. n \in Nat
  BY DEF Run
<1>2. [run EXCEPT !.mails = @ + 1] = [run EXCEPT !.mails = n]
  BY DEF Run
<1> HIDE DEF n
<1>3. [run EXCEPT !.mails = n] \in Run
  BY <1>1 DEF Run
<1>4. \A v \in {"Succeeded", "Failed", "Gone"} : [run EXCEPT !.status = v] \in Run
  BY DEF Run
<1>5. \A q \in {"done", "failed"} : [run EXCEPT !.query = q] \in Run
  BY DEF Run
<1>6. \A d \in {"sent", "failed"} : [run EXCEPT !.delivery = d] \in Run
  BY DEF Run
<1> QED BY <1>2, <1>3, <1>4, <1>5, <1>6

LEMMA StatusWrites ==
  ASSUME NEW s \in Seq(Run), NEW r, NEW v \in {"Succeeded", "Failed", "Gone"}
  PROVE  [s EXCEPT ![r].status = v] \in Seq(Run) /\ DOMAIN [s EXCEPT ![r].status = v] = DOMAIN s
<1> DEFINE x == [s[r] EXCEPT !.status = v]
<1>1. ASSUME r \in DOMAIN s PROVE x \in Run
  <2>1. s[r] \in Run
    BY <1>1, LenProperties
  <2> QED BY <2>1, RunFields
<1>2. [s EXCEPT ![r].status = v] = [s EXCEPT ![r] = x]
  OBVIOUS
<1> HIDE DEF x
<1> QED BY <1>1, <1>2, RunIsWritten

LEMMA QueryWrites ==
  ASSUME NEW s \in Seq(Run), NEW r, NEW q \in {"done", "failed"}
  PROVE  [s EXCEPT ![r].query = q] \in Seq(Run) /\ DOMAIN [s EXCEPT ![r].query = q] = DOMAIN s
<1> DEFINE x == [s[r] EXCEPT !.query = q]
<1>1. ASSUME r \in DOMAIN s PROVE x \in Run
  <2>1. s[r] \in Run
    BY <1>1, LenProperties
  <2> QED BY <2>1, RunFields
<1>2. [s EXCEPT ![r].query = q] = [s EXCEPT ![r] = x]
  OBVIOUS
<1> HIDE DEF x
<1> QED BY <1>1, <1>2, RunIsWritten

LEMMA MailsWrites ==
  ASSUME NEW s \in Seq(Run), NEW r
  PROVE  [s EXCEPT ![r].mails = @ + 1] \in Seq(Run) /\ DOMAIN [s EXCEPT ![r].mails = @ + 1] = DOMAIN s
<1> DEFINE x == [s[r] EXCEPT !.mails = @ + 1]
<1>1. ASSUME r \in DOMAIN s PROVE x \in Run
  <2>1. s[r] \in Run
    BY <1>1, LenProperties
  <2> QED BY <2>1, RunFields
<1>2. [s EXCEPT ![r].mails = @ + 1] = [s EXCEPT ![r] = x]
  OBVIOUS
<1> HIDE DEF x
<1> QED BY <1>1, <1>2, RunIsWritten

LEMMA DeliveryWrites ==
  ASSUME NEW s \in Seq(Run), NEW r, NEW d \in {"sent", "failed"}
  PROVE  [s EXCEPT ![r].delivery = d] \in Seq(Run) /\ DOMAIN [s EXCEPT ![r].delivery = d] = DOMAIN s
<1> DEFINE x == [s[r] EXCEPT !.delivery = d]
<1>1. ASSUME r \in DOMAIN s PROVE x \in Run
  <2>1. s[r] \in Run
    BY <1>1, LenProperties
  <2> QED BY <2>1, RunFields
<1>2. [s EXCEPT ![r].delivery = d] = [s EXCEPT ![r] = x]
  OBVIOUS
<1> HIDE DEF x
<1> QED BY <1>1, <1>2, RunIsWritten

\* Settling a run writes its status at most.
LEMMA SettledWrites ==
  ASSUME NEW r
  PROVE  \E v \in {"Succeeded", "Failed"} : Settled(r) \in {runs, [runs EXCEPT ![r].status = v]}
BY DEF Settled

LEMMA SettleTyping ==
  ASSUME Typing, NEW r \in list, Settle(r)
  PROVE  Typing'
<1>1. {"settle", "send", "sent", "submit"} \subseteq Pcs \ {"edit"}
  BY DEF Pcs, TickPcs
<1>2. r \in DOMAIN runs /\ runs \in Seq(Run) /\ runs[r] \in Run
  BY DEF Typing, TypeOK
<1>3. PICK v \in {"Succeeded", "Failed"} : runs' \in {runs, [runs EXCEPT ![r].status = v]}
  BY SettledWrites DEF Settle
<1>4. runs' \in Seq(Run) /\ DOMAIN runs' = DOMAIN runs
  <2>1. [runs EXCEPT ![r].status = v] \in Seq(Run) /\ DOMAIN [runs EXCEPT ![r].status = v] = DOMAIN runs
    BY <1>2, StatusWrites
  <2> QED BY <1>2, <1>3, <2>1
<1>5. list' \subseteq list /\ UNCHANGED <<now, job, created, due, at, edit, fired, calls, mishaps>>
  BY DEF Settle
<1>6. /\ pc' \in [Threads -> Pcs] /\ task' \in [Threads -> Task]
      /\ edit' \in [Operators -> Edits] /\ Pending'
  <2> DEFINE k == [NoTask EXCEPT !.job = runs[r].job, !.of = r]
             m == [NoTask EXCEPT !.job = runs[r].job, !.turn = runs[r].turn, !.attempt = 2, !.of = r,
                                 !.todo = {runs[r].who}]
  <2>1. r \in Nat /\ runs[r].job \in Jobs /\ runs[r].turn \in Nat /\ runs[r].who \in Who
    BY <1>2, LenProperties DEF Run
  <2>a. k \in Task
    BY <2>1 DEF NoTask, Task, Who
  <2>b. m \in Task /\ m.job \in Jobs
    BY <2>1 DEF NoTask, Task, Who
  <2>2. \/ task' = [task EXCEPT !["poller"] = k] /\ pc' = [pc EXCEPT !["poller"] = "send"]
        \/ task' = [task EXCEPT !["poller"] = m] /\ pc' = [pc EXCEPT !["poller"] = "submit"]
        \/ task' = task /\ pc' = pc
    BY DEF Settle, Goto
  <2> HIDE DEF k, m
  <2>3. ASSUME task' = task, pc' = pc PROVE Pending'
    BY <1>5, <2>3 DEF Typing, Pending
  <2> QED BY <1>1, <1>5, <2>a, <2>b, <2>2, <2>3, Moves, Constants DEF Typing, TypeOK, Pcs
<1> QED BY <1>4, <1>5, <1>6 DEF Typing, TypeOK, Pcs

LEMMA DeliveryTyping ==
  ASSUME Typing, Send \/ RecordDelivery
  PROVE  Typing'
<1>1. {"settle", "sent"} \subseteq Pcs \ {"edit"}
  BY DEF Pcs, TickPcs
<1>2. runs \in Seq(Run)
  BY DEF Typing, TypeOK
<1>3. CASE Send
  <2>1. PICK query \in {"none", "active"} :
       /\ task' = [task EXCEPT !["poller"].query = query]
       /\ runs' = IF query = "active" THEN [runs EXCEPT ![task["poller"].of].mails = @ + 1] ELSE runs
    BY <1>3 DEF Send
  <2>2. runs' \in Seq(Run) /\ DOMAIN runs' = DOMAIN runs
    BY <1>2, <2>1, MailsWrites
  <2>3. UNCHANGED <<now, job, created, due, at, list, edit, fired, calls, mishaps>>
        /\ pc' = [pc EXCEPT !["poller"] = "sent"]
    BY <1>3 DEF Send, Goto
  <2> DEFINE k == [task["poller"] EXCEPT !.query = query]
  <2>4. task' = [task EXCEPT !["poller"] = k] /\ k \in Task
    BY <2>1, Constants DEF Typing, TypeOK, Task
  <2> HIDE DEF k
  <2>5. /\ pc' \in [Threads -> Pcs] /\ task' \in [Threads -> Task]
        /\ edit' \in [Operators -> Edits] /\ Pending'
    BY <1>1, <2>3, <2>4, Moves, Constants
  <2> QED BY <2>2, <2>3, <2>5 DEF Typing, TypeOK, Pcs
<1>4. CASE RecordDelivery
  <2>1. runs' \in Seq(Run) /\ DOMAIN runs' = DOMAIN runs
    <3>1. PICK d \in {"sent", "failed"} : runs' \in {runs, [runs EXCEPT ![task["poller"].of].delivery = d]}
      BY <1>4 DEF RecordDelivery
    <3> DEFINE f == [runs EXCEPT ![task["poller"].of].delivery = d]
    <3>2. f \in Seq(Run) /\ DOMAIN f = DOMAIN runs
      BY <1>2, DeliveryWrites
    <3>3. runs' = runs \/ runs' = f
      BY <3>1
    <3> HIDE DEF f
    <3> QED BY <1>2, <3>2, <3>3
  <2>2. /\ UNCHANGED <<now, job, created, due, at, list, edit, fired, calls, mishaps>>
        /\ pc' = [pc EXCEPT !["poller"] = "settle"] /\ task' = [task EXCEPT !["poller"] = NoTask]
    BY <1>4 DEF RecordDelivery, Goto
  <2>3. /\ pc' \in [Threads -> Pcs] /\ task' \in [Threads -> Task]
        /\ edit' \in [Operators -> Edits] /\ Pending'
    BY <1>1, <2>2, Moves, Constants
  <2> QED BY <2>1, <2>2, <2>3 DEF Typing, TypeOK, Pcs
<1> QED BY <1>3, <1>4

LEMMA CreateTyping ==
  ASSUME Typing, NEW o \in Operators, CreateJob(o) \/ DeleteJob(o)
  PROVE  Typing'
<1>1. CASE CreateJob(o)
  <2>1. PICK j \in Jobs, s \in Schedules, recipients \in SUBSET Recipients :
       /\ job' = [job EXCEPT ![j] = [enabled |-> TRUE, schedule |-> s, next |-> NextRun(s, now),
                                     turn |-> 1, recipients |-> recipients]]
       /\ created' = created \union {j}
    BY <1>1 DEF CreateJob
  <2> DEFINE row == [enabled |-> TRUE, schedule |-> s, next |-> NextRun(s, now),
                     turn |-> 1, recipients |-> recipients]
  <2>2. NextRun(s, now) \in Nat
    BY Constants DEF Typing, TypeOK
  <2>3. row \in Row
    BY <2>2 DEF Row
  <2>4. job' = [job EXCEPT ![j] = row]
    BY <2>1
  <2> HIDE DEF row
  <2>5. job' \in [Jobs -> Row \union {NoJob}] /\ created' \subseteq Jobs
    BY <2>1, <2>3, <2>4 DEF Typing, TypeOK
  <2>6. UNCHANGED <<now, runs, pc, task, due, at, list, edit, fired, calls, mishaps>>
    BY <1>1 DEF CreateJob
  <2> QED BY <2>5, <2>6 DEF Typing, TypeOK, Pending
<1>2. CASE DeleteJob(o)
  <2>1. PICK j \in Jobs :
       /\ job' = [job EXCEPT ![j] = NoJob]
       /\ runs' = [r \in DOMAIN runs |->
                     IF runs[r].job = j THEN [runs[r] EXCEPT !.status = "Gone"] ELSE runs[r]]
    BY <1>2 DEF DeleteJob
  <2>2. runs' \in [DOMAIN runs -> Run]
    <3>1. ASSUME NEW r \in DOMAIN runs
          PROVE  runs[r] \in Run /\ [runs[r] EXCEPT !.status = "Gone"] \in Run
      <4>1. runs \in Seq(Run)
        BY DEF Typing, TypeOK
      <4>2. runs[r] \in Run
        BY <4>1, LenProperties
      <4> QED BY <4>2, RunFields
    <3> QED BY <2>1, <3>1
  <2>3. runs \in Seq(Run)
    BY DEF Typing, TypeOK
  <2>4. runs' \in Seq(Run) /\ DOMAIN runs' = DOMAIN runs
    BY <2>2, <2>3, Replaced
  <2>5. job' \in [Jobs -> Row \union {NoJob}]
    BY <2>1 DEF Typing, TypeOK
  <2>6. UNCHANGED <<now, created, pc, task, due, at, list, edit, fired, calls, mishaps>>
    BY <1>2 DEF DeleteJob
  <2> QED BY <2>4, <2>5, <2>6 DEF Typing, TypeOK, Pending
<1> QED BY <1>1, <1>2

\* Kinds of edits.
Kinds == {"pause", "unpause", "resume", "reschedule", "recipients"}

LEMMA EditedIsRow ==
  ASSUME NEW row \in Row, NEW e \in Edits, e.kind \in Kinds
  PROVE  EditedRow(row, e) \in Row
<1>1. e.schedule \in Schedules /\ e.next \in Nat /\ e.recipients \in SUBSET Recipients
  BY DEF Edits
<1>2. [row EXCEPT !.recipients = e.recipients] \in Row
  BY <1>1 DEF Row
<1>3. /\ [row EXCEPT !.enabled = FALSE] \in Row /\ [row EXCEPT !.enabled = TRUE] \in Row
      /\ [row EXCEPT !.enabled = TRUE, !.next = e.next, !.turn = @ + 1] \in Row
      /\ [row EXCEPT !.schedule = e.schedule, !.next = e.next, !.turn = @ + 1] \in Row
  BY <1>1, RowMoves
<1> HIDE DEF Row
<1>4. CASE e.kind = "pause"
  BY <1>3, <1>4 DEF EditedRow
<1>5. CASE e.kind = "unpause"
  BY <1>3, <1>5 DEF EditedRow
<1>6. CASE e.kind = "resume"
  BY <1>3, <1>6 DEF EditedRow
<1>7. CASE e.kind = "reschedule"
  BY <1>3, <1>7 DEF EditedRow
<1>8. CASE e.kind = "recipients"
  BY <1>2, <1>8 DEF EditedRow
<1> QED BY <1>4, <1>5, <1>6, <1>7, <1>8 DEF Kinds

LEMMA EditTyping ==
  ASSUME Typing, NEW o \in Operators, EditRead(o) \/ EditWrite(o)
  PROVE  Typing'
<1>1. o \in Threads /\ pc \in [Threads -> Pcs] /\ task \in [Threads -> Task]
      /\ edit \in [Operators -> Edits]
  BY Constants DEF Typing, TypeOK, Pcs
<1>2. CASE EditRead(o)
  <2>1. PICK j \in Jobs, s \in Schedules, recipients \in SUBSET Recipients, kind \in Kinds :
          edit' = [edit EXCEPT ![o] = [job |-> j, kind |-> kind, schedule |-> s,
                                       next |-> NextRun(s, now), recipients |-> recipients]]
    BY ZenonT(40), <1>2 DEF EditRead, Kinds
  <2> DEFINE e == [job |-> j, kind |-> kind, schedule |-> s,
                   next |-> NextRun(s, now), recipients |-> recipients]
  <2>2. NextRun(s, now) \in Nat
    BY Constants DEF Typing, TypeOK
  <2>3. e \in Edits /\ e.job \in Jobs /\ e.kind # "none"
    BY <2>2 DEF Edits, Kinds
  <2>4. edit' = [edit EXCEPT ![o] = e]
    BY <2>1
  <2> HIDE DEF e
  <2>5. /\ UNCHANGED <<now, job, created, runs, task, due, at, list, fired, mishaps>>
        /\ pc' = [pc EXCEPT ![o] = "edit"] /\ calls' = calls + 1
    BY <1>2 DEF EditRead, Goto
  <2>6. pc' \in [Threads -> Pcs] /\ edit' \in [Operators -> Edits]
    BY <1>1, <2>3, <2>4, <2>5 DEF Pcs
  <2>7. Pending'
    BY <1>1, <2>3, <2>4, <2>5 DEF Typing, Pending
  <2> QED BY <2>5, <2>6, <2>7 DEF Typing, TypeOK, Pcs
<1>3. CASE EditWrite(o)
  <2>1. edit[o] \in Edits /\ edit[o].job \in Jobs /\ edit[o].kind \in Kinds
    BY <1>1, <1>3 DEF EditWrite, Typing, Pending, Edits, Kinds
  <2>2. job' \in [Jobs -> Row \union {NoJob}]
    <3>1. CASE Exists(edit[o].job)
      <4> DEFINE row == EditedRow(job[edit[o].job], edit[o])
      <4>1. job[edit[o].job] \in Row
        BY <2>1, <3>1 DEF Exists, Typing, TypeOK
      <4>2. row \in Row
        BY <2>1, <4>1, EditedIsRow
      <4>3. job' = [job EXCEPT ![edit[o].job] = row]
        BY <1>3, <3>1 DEF EditWrite
      <4> HIDE DEF row
      <4> QED BY <4>2, <4>3 DEF Typing, TypeOK
    <3> QED BY <1>3, <3>1 DEF EditWrite, Typing, TypeOK
  <2>3. /\ UNCHANGED <<now, created, runs, task, due, at, list, fired, calls, mishaps>>
        /\ pc' = [pc EXCEPT ![o] = "idle"] /\ edit' = [edit EXCEPT ![o] = NoEdit]
    BY <1>3 DEF EditWrite, Goto
  <2>4. pc' \in [Threads -> Pcs] /\ edit' \in [Operators -> Edits]
    BY <1>1, <2>3, Constants DEF Pcs
  <2>5. Pending'
    BY <1>1, <2>3 DEF Typing, Pending
  <2> QED BY <2>2, <2>3, <2>4, <2>5 DEF Typing, TypeOK, Pcs
<1> QED BY <1>2, <1>3

LEMMA RunNowTyping ==
  ASSUME Typing, NEW o \in Operators, RunNow(o)
  PROVE  Typing'
<1>1. PICK j \in Jobs : Exists(j) /\
        task' = [task EXCEPT ![o] = [NoTask EXCEPT !.job = j, !.todo = Targets(job[j].recipients)]]
  BY DEF RunNow
<1> DEFINE k == [NoTask EXCEPT !.job = j, !.todo = Targets(job[j].recipients)]
<1>2. job[j].recipients \in SUBSET Recipients
  BY <1>1 DEF Exists, Typing, TypeOK, Row
<1>3. k \in Task /\ k.job \in Jobs
  BY <1>2, Constants DEF NoTask, Task, Who
<1>4. task' = [task EXCEPT ![o] = k]
  BY <1>1
<1> HIDE DEF k
<1>5. /\ pc' = [pc EXCEPT ![o] = "submit"] /\ calls' = calls + 1
      /\ UNCHANGED <<now, job, created, runs, due, at, list, edit, fired, mishaps>>
  BY DEF RunNow, Goto
<1>6. "submit" \in Pcs \ {"edit"} /\ o \in Threads
  BY Constants DEF Pcs
<1>7. /\ pc' \in [Threads -> Pcs] /\ task' \in [Threads -> Task]
      /\ edit' \in [Operators -> Edits] /\ Pending'
  BY <1>3, <1>4, <1>5, <1>6, Moves
<1> QED BY <1>5, <1>7 DEF Typing, TypeOK, Pcs

LEMMA WorldTyping ==
  ASSUME Typing, \/ Clock \/ Crash \/ \E r \in DOMAIN runs : QueryEnds(r)
                 \/ \E t \in Threads : Raise(t)
  PROVE  Typing'
<1>1. CASE Clock
  <2>1. now' \in 0..MaxTime
    BY <1>1 DEF Clock, Typing, TypeOK
  <2> QED BY <1>1, <2>1 DEF Clock, Typing, TypeOK, Pending
<1>2. CASE Crash
  BY <1>2, Constants DEF Crash, Typing, TypeOK, Pending
<1>3. ASSUME NEW r \in DOMAIN runs, QueryEnds(r) PROVE Typing'
  <2>1. PICK q \in {"done", "failed"} : runs' = [runs EXCEPT ![r].query = q]
    BY <1>3 DEF QueryEnds
  <2>2. runs' \in Seq(Run) /\ DOMAIN runs' = DOMAIN runs
    BY <2>1, QueryWrites DEF Typing, TypeOK
  <2>3. UNCHANGED <<now, job, created, pc, task, due, at, list, edit, fired, calls, mishaps>>
    BY <1>3 DEF QueryEnds
  <2> QED BY <2>2, <2>3 DEF Typing, TypeOK, Pending
<1>4. ASSUME NEW t \in Threads, Raise(t) PROVE Typing'
  <2>1. /\ Abort(t) /\ mishaps' = mishaps + 1
        /\ edit' = IF t \in Operators THEN [edit EXCEPT ![t] = NoEdit] ELSE edit
        /\ UNCHANGED <<now, job, created, runs, fired, calls>>
    BY <1>4 DEF Raise
  <2>2. pc \in [Threads -> Pcs] /\ task \in [Threads -> Task] /\ edit \in [Operators -> Edits]
    BY DEF Typing, TypeOK, Pcs
  <2>3. edit' \in [Operators -> Edits]
    BY <2>1, <2>2, Constants
  <2>4. Pending'
    BY <2>1, <2>2, AbortTyping, Constants DEF Typing, Pending
  <2> QED BY <2>1, <2>3, <2>4, AbortTyping DEF Typing, TypeOK, Pcs
<1> QED BY <1>1, <1>2, <1>3, <1>4

LEMMA NextTyping == Typing /\ [Next]_vars => Typing'
<1> SUFFICES ASSUME Typing, [Next]_vars PROVE Typing'
  OBVIOUS
<1>1. CASE Poller
  <2>1. CASE Execute("poller")
    BY <2>1, ExecuteTyping, Constants DEF Execute
  <2> QED BY <1>1, <2>1, TickTyping, SettleTyping, DeliveryTyping DEF Poller
<1>2. ASSUME NEW o \in Operators, Operator(o) PROVE Typing'
  <2>1. CASE Execute(o)
    BY <2>1, ExecuteTyping, Constants DEF Execute
  <2> QED BY <1>2, <2>1, CreateTyping, EditTyping, RunNowTyping DEF Operator
<1>3. CASE UNCHANGED vars
  BY <1>3 DEF vars, Typing, TypeOK, Pending
<1> QED BY <1>1, <1>2, <1>3, WorldTyping DEF Next

\* Type correctness.
THEOREM TypeCorrect == Spec => []TypeOK
<1>1. Typing => TypeOK
  BY DEF Typing
<1> QED BY <1>1, InitTyping, NextTyping, PTL DEF Spec

-------------------------------------------------------------------------------
(* A time is submitted once.                                                   *)

Known    == \A j \in Jobs : Exists(j) => j \in created
Unturned == \A o \in Operators : task[o].turn = 0

\* What was submitted was the job's time before the one it has now.
FiredPast ==
  \A j \in Jobs, n \in Nat, w \in Who :
    <<j, n, w>> \in fired => j \in created /\ (Exists(j) => n < job[j].turn)

\* What the tick has read and not taken has not been submitted.
DueAhead ==
  \A d \in due :
    /\ d.job \in created /\ (Exists(d.job) => d.turn <= job[d.job].turn)
    /\ \A w \in Who : <<d.job, d.turn, w>> \notin fired
    /\ \A e \in due : e.job = d.job => e = d

\* Nor has what it has taken, for those it has yet to submit it for.
Taking == pc["poller"] \in {"submit", "record"} /\ task["poller"].attempt = 1

Taken ==
  Taking => /\ task["poller"].job \in created
            /\ Exists(task["poller"].job) => task["poller"].turn < job[task["poller"].job].turn
            /\ \A w \in task["poller"].todo : <<task["poller"].job, task["poller"].turn, w>> \notin fired
            /\ \A d \in due : d.job # task["poller"].job

Ordered == Known /\ Unturned /\ FiredPast /\ DueAhead /\ Taken

\* What a step does that neither reads what is due, nor takes or submits it.
Quiet ==
  /\ created \subseteq created' /\ fired' = fired /\ due' \subseteq due
  /\ \A j \in Jobs : Exists(j)' => /\ j \in created'
                                   /\ j \in created => Exists(j) /\ job[j].turn <= job'[j].turn
  /\ Taking' => /\ Taking
                /\ task'["poller"].job = task["poller"].job /\ task'["poller"].turn = task["poller"].turn
                /\ task'["poller"].todo \subseteq task["poller"].todo
  /\ Unturned'

LEMMA Turns ==
  ASSUME Typing
  PROVE  /\ \A j \in Jobs : Exists(j) => job[j] \in Row /\ job[j].turn \in Nat
         /\ \A d \in due : d.job \in Jobs /\ d.turn \in Nat /\ d.schedule \in Schedules
         /\ \A t \in Threads : task[t] \in Task /\ task[t].turn \in Nat /\ task[t].todo \subseteq Who
<1>1. \A j \in Jobs : Exists(j) => job[j] \in Row /\ job[j].turn \in Nat
  BY DEF Typing, TypeOK, Exists, Row
<1>2. \A d \in due : d.job \in Jobs /\ d.turn \in Nat /\ d.schedule \in Schedules
  BY DEF Typing, TypeOK, Dues
<1>3. \A t \in Threads : task[t] \in Task /\ task[t].turn \in Nat /\ task[t].todo \subseteq Who
  BY DEF Typing, TypeOK, Task
<1> QED BY <1>1, <1>2, <1>3

LEMMA QuietOrdered ==
  ASSUME Typing, Typing', Ordered, Quiet
  PROVE  Ordered'
<1>1. Known' /\ Unturned'
  BY DEF Quiet, Known
<1>2. FiredPast'
  <2>1. ASSUME NEW j \in Jobs, NEW n \in Nat, NEW w \in Who, <<j, n, w>> \in fired'
        PROVE  j \in created' /\ (Exists(j)' => n < job'[j].turn)
    <3>1. <<j, n, w>> \in fired /\ j \in created /\ (Exists(j) => n < job[j].turn)
      BY <2>1 DEF Quiet, Ordered, FiredPast
    <3>2. ASSUME Exists(j)' PROVE n < job'[j].turn
      <4>1. Exists(j) /\ job[j].turn <= job'[j].turn
        BY <3>1, <3>2 DEF Quiet
      <4>2. job[j].turn \in Nat /\ job'[j].turn \in Nat
        BY <3>2, <4>1, Turns DEF Typing, TypeOK, Exists, Row
      <4> QED BY <3>1, <4>1, <4>2
    <3> QED BY <3>1, <3>2 DEF Quiet
  <2> QED BY <2>1 DEF FiredPast
<1>3. DueAhead'
  <2>1. ASSUME NEW d \in due'
        PROVE  /\ d.job \in created' /\ (Exists(d.job)' => d.turn <= job'[d.job].turn)
               /\ \A w \in Who : <<d.job, d.turn, w>> \notin fired'
               /\ \A e \in due' : e.job = d.job => e = d
    <3>1. d \in due /\ d.job \in Jobs /\ d.turn \in Nat
      BY <2>1, Turns DEF Quiet
    <3>2. ASSUME Exists(d.job)' PROVE d.turn <= job'[d.job].turn
      <4>1. Exists(d.job) /\ job[d.job].turn <= job'[d.job].turn /\ d.turn <= job[d.job].turn
        BY <3>1, <3>2 DEF Quiet, Ordered, DueAhead
      <4>2. job[d.job].turn \in Nat /\ job'[d.job].turn \in Nat
        BY <3>1, <3>2, <4>1 DEF Typing, TypeOK, Exists, Row
      <4> QED BY <3>1, <4>1, <4>2
    <3> QED BY <3>1, <3>2 DEF Quiet, Ordered, DueAhead
  <2> QED BY <2>1 DEF DueAhead
<1>4. Taken'
  <2> SUFFICES ASSUME Taking'
               PROVE  /\ task'["poller"].job \in created'
                      /\ Exists(task["poller"].job)' => task'["poller"].turn < job'[task'["poller"].job].turn
                      /\ \A w \in task'["poller"].todo :
                           <<task'["poller"].job, task'["poller"].turn, w>> \notin fired'
                      /\ \A d \in due' : d.job # task'["poller"].job
    BY DEF Taken
  <2>1. PICK j \in Jobs, n \in Nat : j = task["poller"].job /\ n = task["poller"].turn
    BY Turns, Constants DEF Quiet, Taking, Typing, Pending
  <2>2. /\ Taking /\ task'["poller"].job = j /\ task'["poller"].turn = n
        /\ task'["poller"].todo \subseteq task["poller"].todo
    BY <2>1 DEF Quiet
  <2>3. /\ j \in created /\ (Exists(j) => n < job[j].turn)
        /\ \A w \in task["poller"].todo : <<j, n, w>> \notin fired
        /\ \A d \in due : d.job # j
    BY <2>1, <2>2 DEF Ordered, Taken
  <2>4. ASSUME Exists(j)' PROVE n < job'[j].turn
    <3>1. Exists(j) /\ job[j].turn <= job'[j].turn
      BY <2>3, <2>4 DEF Quiet
    <3>2. job[j].turn \in Nat /\ job'[j].turn \in Nat
      BY <2>4, <3>1, Turns DEF Typing, TypeOK, Exists, Row
    <3> QED BY <2>3, <3>1, <3>2
  <2>5. Exists(task["poller"].job)' => Exists(j)'
    BY <2>2 DEF Exists
  <2> QED BY <2>2, <2>3, <2>4, <2>5 DEF Quiet
<1> QED BY <1>1, <1>2, <1>3, <1>4 DEF Ordered

\* Jobs stay, and the poller takes nothing new.
LEMMA StillQuiet ==
  ASSUME Typing, Ordered, UNCHANGED <<job, created, fired>>, due' \subseteq due, Unturned',
         Taking' => /\ Taking /\ task'["poller"].job = task["poller"].job
                    /\ task'["poller"].turn = task["poller"].turn
                    /\ task'["poller"].todo \subseteq task["poller"].todo
  PROVE  Quiet
BY Turns DEF Quiet, Ordered, Known, Exists

LEMMA AbortQuiet ==
  ASSUME Typing, Ordered, NEW t \in Threads, Abort(t), UNCHANGED <<job, created, fired>>
  PROVE  Quiet
<1>1. pc' = [pc EXCEPT ![t] = "idle"] /\ task' = [task EXCEPT ![t] = NoTask] /\ due' \subseteq due
  BY DEF Abort, Goto
<1>2. Unturned'
  BY <1>1, Constants DEF Unturned, Ordered, NoTask, Typing, TypeOK
<1>3. t = "poller" => ~Taking'
  BY <1>1, Constants DEF Taking, Typing, TypeOK
<1>4. t # "poller" => pc'["poller"] = pc["poller"] /\ task'["poller"] = task["poller"]
  BY <1>1, Constants DEF Typing, TypeOK
<1> QED BY <1>1, <1>2, <1>3, <1>4, StillQuiet DEF Taking

LEMMA RecordQuiet ==
  ASSUME Typing, Ordered, NEW t \in Threads, Record(t)
  PROVE  Quiet
<1>1. CASE Exists(task[t].job)
  <2>1. UNCHANGED <<job, created, fired, due>>
    BY <1>1 DEF Record
  <2>2. CASE task[t].todo = {}
    <3>1. pc' = [pc EXCEPT ![t] = Executed(t)] /\ task' = [task EXCEPT ![t] = NoTask]
      BY <1>1, <2>2 DEF Record, Goto
    <3>2. Unturned'
      BY <3>1, Constants DEF Unturned, Ordered, NoTask, Typing, TypeOK
    <3>3. Executed(t) \notin {"submit", "record"}
      BY Turns DEF Executed, Task
    <3>4. t = "poller" => ~Taking'
      BY <3>1, <3>3, Constants DEF Taking, Typing, TypeOK
    <3>5. t # "poller" => pc'["poller"] = pc["poller"] /\ task'["poller"] = task["poller"]
      BY <3>1, Constants DEF Typing, TypeOK
    <3> QED BY <2>1, <3>2, <3>4, <3>5, StillQuiet DEF Taking
  <2>3. CASE task[t].todo # {}
    <3>1. pc' = [pc EXCEPT ![t] = "submit"] /\ task' = task /\ pc[t] = "record"
      BY <1>1, <2>3 DEF Record, Goto
    <3>2. Unturned' /\ (Taking' => Taking)
      BY <3>1, Constants DEF Unturned, Ordered, Taking, Typing, TypeOK
    <3> QED BY <2>1, <3>1, <3>2, StillQuiet
  <2> QED BY <2>2, <2>3
<1>2. CASE ~Exists(task[t].job)
  BY <1>2, AbortQuiet DEF Record
<1> QED BY <1>1, <1>2

\* What an operator does to jobs.
LEMMA OperatorQuiet ==
  ASSUME Typing, Typing', Ordered, NEW o \in Operators,
         CreateJob(o) \/ DeleteJob(o) \/ EditRead(o) \/ EditWrite(o) \/ RunNow(o) \/ Submit(o)
  PROVE  Quiet
<1> o \in Threads /\ o # "poller"
  BY Constants
<1>1. CASE CreateJob(o)
  <2>1. PICK j \in Jobs \ created : \E row : job' = [job EXCEPT ![j] = row]
          /\ created' = created \union {j}
    BY <1>1 DEF CreateJob
  <2>2. UNCHANGED <<pc, task, due, fired>>
    BY <1>1 DEF CreateJob
  <2>3. \A i \in Jobs : Exists(i)' => /\ i \in created'
                                      /\ i \in created => Exists(i) /\ job[i].turn <= job'[i].turn
    BY <2>1, Turns DEF Ordered, Known, Exists, Typing, TypeOK
  <2> QED BY <2>1, <2>2, <2>3 DEF Quiet, Taking, Ordered, Unturned
<1>2. CASE DeleteJob(o)
  <2>1. PICK j \in Jobs : job' = [job EXCEPT ![j] = NoJob]
    BY <1>2 DEF DeleteJob
  <2>2. UNCHANGED <<created, pc, task, due, fired>>
    BY <1>2 DEF DeleteJob
  <2>3. \A i \in Jobs : Exists(i)' => /\ i \in created'
                                      /\ i \in created => Exists(i) /\ job[i].turn <= job'[i].turn
    BY <2>1, <2>2, Turns DEF Ordered, Known, Exists, Typing, TypeOK
  <2> QED BY <2>2, <2>3 DEF Quiet, Taking, Ordered, Unturned
<1>3. CASE EditRead(o)
  <2>1. pc' = [pc EXCEPT ![o] = "edit"] /\ UNCHANGED <<job, created, task, due, fired>>
    BY <1>3 DEF EditRead, Goto
  <2> QED BY <2>1, StillQuiet DEF Taking, Ordered, Unturned, Typing, TypeOK
<1>4. CASE EditWrite(o)
  <2>1. UNCHANGED <<created, task, due, fired>> /\ pc' = [pc EXCEPT ![o] = "idle"]
    BY <1>4 DEF EditWrite, Goto
  <2>2. pc'["poller"] = pc["poller"]
    BY <2>1, Constants DEF Typing, TypeOK
  <2>3. ASSUME NEW i \in Jobs, Exists(i)'
        PROVE  Exists(i) /\ job[i].turn <= job'[i].turn
    <3>1. edit[o].job \in Jobs /\ edit[o].kind \in Kinds
      BY <1>4 DEF EditWrite, Typing, TypeOK, Pending, Edits, Kinds
    <3>2. CASE Exists(edit[o].job) /\ i = edit[o].job
      <4>1. job'[i] = EditedRow(job[i], edit[o])
        BY <1>4, <3>1, <3>2 DEF EditWrite, Typing, TypeOK
      <4>2. job[i] \in Row /\ job[i].turn \in Nat
        BY <3>2, Turns
      <4>3. job'[i].turn = job[i].turn \/ job'[i].turn = job[i].turn + 1
        BY <3>1, <4>1, <4>2 DEF EditedRow, Row, Kinds
      <4> QED BY <3>2, <4>2, <4>3
    <3>3. CASE ~(Exists(edit[o].job) /\ i = edit[o].job)
      <4>1. job'[i] = job[i]
        BY <1>4, <3>1, <3>3 DEF EditWrite, Typing, TypeOK
      <4> QED BY <2>3, <4>1, Turns DEF Exists
    <3> QED BY <3>2, <3>3
  <2> QED BY <2>1, <2>2, <2>3 DEF Quiet, Taking, Ordered, Known, Unturned
<1>5. CASE RunNow(o)
  <2>1. PICK j \in Jobs : task' = [task EXCEPT ![o] =
          [NoTask EXCEPT !.job = j, !.todo = Targets(job[j].recipients)]]
    BY <1>5 DEF RunNow
  <2>2. pc' = [pc EXCEPT ![o] = "submit"] /\ UNCHANGED <<job, created, due, fired>>
    BY <1>5 DEF RunNow, Goto
  <2>3. [NoTask EXCEPT !.job = j, !.todo = Targets(job[j].recipients)].turn = 0
    BY DEF NoTask
  <2>4. Unturned' /\ task'["poller"] = task["poller"] /\ pc'["poller"] = pc["poller"]
    BY <2>1, <2>2, <2>3, Constants DEF Unturned, Ordered, Typing, TypeOK
  <2> QED BY <2>2, <2>4, StillQuiet DEF Taking
<1>6. CASE Submit(o)
  <2>1. PICK who \in task[o].todo, query \in {"none", "active"} :
          /\ task' = [task EXCEPT ![o].todo = @ \ {who}, ![o].who = who, ![o].query = query]
          /\ fired' = IF query = "active" /\ task[o].turn > 0 /\ task[o].attempt = 1
                        THEN fired \union {<<task[o].job, task[o].turn, who>>} ELSE fired
    BY <1>6 DEF Submit
  <2>2. pc' = [pc EXCEPT ![o] = "record"] /\ UNCHANGED <<job, created, due>>
    BY <1>6 DEF Submit, Goto
  <2>3. task[o].turn = 0
    BY DEF Ordered, Unturned
  <2>4. fired' = fired
    BY <2>1, <2>3
  <2> DEFINE k == [task[o] EXCEPT !.todo = @ \ {who}, !.who = who, !.query = query]
  <2>5. task' = [task EXCEPT ![o] = k] /\ k.turn = 0
    BY <2>1, <2>3, Turns DEF Typing, TypeOK, Task
  <2> HIDE DEF k
  <2>6. Unturned' /\ task'["poller"] = task["poller"] /\ pc'["poller"] = pc["poller"]
    BY <2>2, <2>5, Constants DEF Unturned, Ordered, Typing, TypeOK
  <2> QED BY <2>2, <2>4, <2>6, StillQuiet DEF Taking
<1> QED BY <1>1, <1>2, <1>3, <1>4, <1>5, <1>6

LEMMA WorldQuiet ==
  ASSUME Typing, Ordered, \/ Clock \/ Crash \/ \E r \in DOMAIN runs : QueryEnds(r)
                          \/ \E t \in Threads : Raise(t)
  PROVE  Quiet
<1>1. CASE Clock \/ \E r \in DOMAIN runs : QueryEnds(r)
  <2>1. UNCHANGED <<job, created, fired, due, pc, task>>
    BY <1>1 DEF Clock, QueryEnds
  <2> QED BY <2>1, StillQuiet DEF Taking, Ordered, Unturned
<1>2. CASE Crash
  <2>1. UNCHANGED <<job, created, fired>> /\ due' \subseteq due
        /\ pc' = [t \in Threads |-> "idle"] /\ task' = [t \in Threads |-> NoTask]
    BY <1>2 DEF Crash
  <2>2. Unturned' /\ ~Taking'
    BY <2>1, Constants DEF Unturned, Taking, NoTask
  <2> QED BY <2>1, <2>2, StillQuiet
<1>3. CASE \E t \in Threads : Raise(t)
  BY <1>3, AbortQuiet DEF Raise
<1> QED BY <1>1, <1>2, <1>3

LEMMA SettleQuiet ==
  ASSUME Typing, Ordered, \/ \E r \in list : Settle(r)
                          \/ SettleRead \/ TickEnd \/ Send \/ RecordDelivery
  PROVE  Quiet
<1>1. UNCHANGED <<job, created, fired, due>>
  BY DEF Settle, SettleRead, TickEnd, Send, RecordDelivery
<1>2. \E k : task' = [task EXCEPT !["poller"] = k]
  <2>1. task = [task EXCEPT !["poller"] = task["poller"]]
    BY Constants DEF Typing, TypeOK
  <2>2. Send => \E k : task' = [task EXCEPT !["poller"] = k]
    BY Constants DEF Send, Typing, TypeOK
  <2> QED BY <2>1, <2>2 DEF Settle, SettleRead, TickEnd, RecordDelivery
<1>3. Unturned'
  BY <1>2, Constants DEF Unturned, Ordered, Typing, TypeOK
<1>4. ~Taking'
  <2>1. ASSUME NEW r \in list, Settle(r) PROVE ~Taking'
    <3> DEFINE m == [NoTask EXCEPT !.job = runs[r].job, !.turn = runs[r].turn, !.attempt = 2, !.of = r,
                                   !.todo = {runs[r].who}]
    <3>1. m.attempt = 2
      BY DEF NoTask
    <3>2. \/ pc' = [pc EXCEPT !["poller"] = "send"]
          \/ pc' = pc
          \/ task' = [task EXCEPT !["poller"] = m]
      BY <2>1 DEF Settle, Goto
    <3>3. pc["poller"] = "settle"
      BY <2>1 DEF Settle
    <3> HIDE DEF m
    <3> QED BY <3>1, <3>2, <3>3, Constants DEF Taking, Typing, TypeOK
  <2>2. CASE SettleRead \/ TickEnd \/ Send \/ RecordDelivery
    <3>1. \E p \in {"settle", "idle", "sent"} : pc' = [pc EXCEPT !["poller"] = p]
      BY <2>2 DEF SettleRead, TickEnd, Send, RecordDelivery, Goto
    <3> QED BY <3>1, Constants DEF Taking, Typing, TypeOK
  <2> QED BY <2>1, <2>2
<1> QED BY <1>1, <1>3, <1>4, StillQuiet

LEMMA TickReadOrdered ==
  ASSUME Typing, Ordered, TickRead
  PROVE  Ordered'
<1>1. due' = DueRows /\ UNCHANGED <<job, created, fired, task>>
  BY DEF TickRead
<1>2. ~Taking'
  BY Constants DEF TickRead, Goto, Taking, Typing, TypeOK
<1>3. DueAhead'
  <2>1. ASSUME NEW d \in due'
        PROVE  /\ d.job \in created /\ (Exists(d.job) => d.turn <= job[d.job].turn)
               /\ \A w \in Who : <<d.job, d.turn, w>> \notin fired
               /\ \A e \in due' : e.job = d.job => e = d
    <3>1. PICK j \in Jobs : Due(j) /\ d = DueRow(j)
      BY <1>1, <2>1 DEF DueRows
    <3>2. d.job = j /\ d.turn = job[j].turn /\ Exists(j)
      BY <3>1 DEF DueRow, Due
    <3>3. job[j].turn \in Nat /\ j \in created
      BY <3>2, Turns DEF Ordered, Known
    <3>4. \A w \in Who : <<d.job, d.turn, w>> \notin fired
      BY <3>2, <3>3 DEF Ordered, FiredPast
    <3>5. \A e \in due' : e.job = d.job => e = d
      BY <1>1, <3>1 DEF DueRows, DueRow
    <3> QED BY <3>2, <3>3, <3>4, <3>5
  <2> QED BY <1>1, <2>1 DEF DueAhead, Exists
<1> QED BY <1>1, <1>2, <1>3 DEF Ordered, Known, Unturned, FiredPast, Taken, Exists

LEMMA TakeOrdered ==
  ASSUME Typing, Typing', Ordered, Take
  PROVE  Ordered'
<1>1. PICK d \in due :
       IF NextRun(d.schedule, at) = 0
         THEN Abort("poller") /\ UNCHANGED job
         ELSE /\ job' = Scheduled(d)
              /\ task' = [task EXCEPT !["poller"] =
                   [NoTask EXCEPT !.job = d.job, !.turn = d.turn, !.todo = Targets(d.recipients)]]
              /\ due' = due \ {d}
              /\ Goto("poller", "submit")
              /\ UNCHANGED <<list, at>>
  BY DEF Take
<1>2. UNCHANGED <<created, fired>>
  BY DEF Take
<1>3. CASE NextRun(d.schedule, at) = 0
  BY <1>1, <1>2, <1>3, AbortQuiet, QuietOrdered, Constants
<1>4. CASE NextRun(d.schedule, at) # 0
  <2> DEFINE k == [NoTask EXCEPT !.job = d.job, !.turn = d.turn, !.todo = Targets(d.recipients)]
  <2>1. /\ job' = Scheduled(d) /\ due' = due \ {d} /\ task' = [task EXCEPT !["poller"] = k]
        /\ pc' = [pc EXCEPT !["poller"] = "submit"]
    BY <1>1, <1>4 DEF Goto
  <2>2. k.job = d.job /\ k.turn = d.turn /\ k.todo = Targets(d.recipients)
    BY DEF NoTask
  <2>3. d.job \in Jobs /\ d.turn \in Nat /\ d.recipients \in SUBSET Recipients
    BY DEF Typing, TypeOK, Dues
  <2>4. Targets(d.recipients) \subseteq Who
    BY <2>3, Constants
  <2> HIDE DEF k
  <2>5. Unturned' /\ task'["poller"] = k
    BY <2>1, Constants DEF Unturned, Ordered, Typing, TypeOK
  <2>6. \A j \in Jobs : j # d.job => job'[j] = job[j]
    BY <2>1, <2>3 DEF Scheduled, Typing, TypeOK
  <2>7. Exists(d.job)' => Exists(d.job) /\ job'[d.job].turn = job[d.job].turn + 1
    <3>1. CASE Exists(d.job)
      <4>1. job[d.job] \in Row
        BY <2>3, <3>1, Turns
      <4>2. job'[d.job] = [job[d.job] EXCEPT !.next = NextRun(d.schedule, at), !.turn = @ + 1]
        BY <2>1, <2>3, <3>1 DEF Scheduled, Typing, TypeOK
      <4> QED BY <3>1, <4>1, <4>2 DEF Row
    <3> QED BY <2>1, <3>1 DEF Scheduled, Exists
  <2>8. \A j \in Jobs : Exists(j)' => Exists(j) /\ job[j].turn \in Nat
                                       /\ job[j].turn <= job'[j].turn
    BY <2>6, <2>7, Turns DEF Exists
  <2>9. Known' /\ FiredPast'
    <3>1. ASSUME NEW j \in Jobs, NEW n \in Nat, NEW w \in Who, <<j, n, w>> \in fired, Exists(j)'
          PROVE  n < job'[j].turn
      <4>1. n < job[j].turn /\ job[j].turn <= job'[j].turn /\ job[j].turn \in Nat
        BY <2>8, <3>1 DEF Ordered, FiredPast
      <4>2. job'[j].turn \in Nat
        BY <3>1 DEF Typing, TypeOK, Exists, Row
      <4> QED BY <4>1, <4>2
    <3> QED BY <1>2, <2>8, <3>1 DEF Ordered, Known, FiredPast
  <2>10. DueAhead'
    <3>1. ASSUME NEW e \in due', Exists(e.job)' PROVE e.turn <= job'[e.job].turn
      <4>1. e \in due /\ e # d
        BY <2>1, <3>1
      <4>2. e.job # d.job /\ e.job \in Jobs
        BY <4>1, Turns DEF Ordered, DueAhead
      <4> QED BY <2>6, <3>1, <4>1, <4>2 DEF Ordered, DueAhead, Exists
    <3> QED BY <1>2, <2>1, <3>1 DEF Ordered, DueAhead
  <2>11. Taken'
    <3>1. d.job \in created /\ (Exists(d.job) => d.turn <= job[d.job].turn)
          /\ (\A w \in Who : <<d.job, d.turn, w>> \notin fired)
          /\ \A e \in due' : e.job # d.job
      BY <2>1 DEF Ordered, DueAhead
    <3>2. Exists(d.job)' => d.turn < job'[d.job].turn
      BY <2>3, <2>7, <2>8, <3>1
    <3>3. Exists(task["poller"].job)' => Exists(d.job)'
      BY <2>2, <2>5 DEF Exists
    <3> QED BY <1>2, <2>2, <2>4, <2>5, <3>1, <3>2, <3>3 DEF Taken
  <2> QED BY <2>5, <2>9, <2>10, <2>11 DEF Ordered
<1> QED BY <1>3, <1>4

\* A submission by the poller adds what was not there.
LEMMA SubmitFires ==
  ASSUME Typing, Ordered, Submit("poller"), task'["poller"].query = "active",
         task["poller"].turn > 0, task["poller"].attempt = 1
  PROVE  fired' # fired
<1>1. PICK who \in task["poller"].todo, query \in {"none", "active"} :
        /\ task' = [task EXCEPT !["poller"].todo = @ \ {who}, !["poller"].who = who, !["poller"].query = query]
        /\ fired' = IF query = "active" /\ task["poller"].turn > 0 /\ task["poller"].attempt = 1
                      THEN fired \union {<<task["poller"].job, task["poller"].turn, who>>} ELSE fired
  BY DEF Submit
<1>2. query = "active"
  BY <1>1, Constants DEF Typing, TypeOK, Task
<1>3. <<task["poller"].job, task["poller"].turn, who>> \notin fired
  BY <1>1 DEF Submit, Ordered, Taken, Taking
<1> QED BY <1>1, <1>2, <1>3

LEMMA SubmitOrdered ==
  ASSUME Typing, Typing', Ordered, Submit("poller")
  PROVE  Ordered'
<1>1. PICK who \in task["poller"].todo, query \in {"none", "active"} :
        /\ task' = [task EXCEPT !["poller"].todo = @ \ {who}, !["poller"].who = who, !["poller"].query = query]
        /\ fired' = IF query = "active" /\ task["poller"].turn > 0 /\ task["poller"].attempt = 1
                      THEN fired \union {<<task["poller"].job, task["poller"].turn, who>>} ELSE fired
  BY DEF Submit
<1> DEFINE k == [task["poller"] EXCEPT !.todo = @ \ {who}, !.who = who, !.query = query]
<1>2. /\ UNCHANGED <<job, created, due>> /\ pc' = [pc EXCEPT !["poller"] = "record"]
      /\ pc["poller"] = "submit"
  BY DEF Submit, Goto
<1>3. PICK j \in Jobs, n \in Nat : j = task["poller"].job /\ n = task["poller"].turn
  BY <1>2, Turns, Constants DEF Typing, Pending
<1>4. /\ task' = [task EXCEPT !["poller"] = k] /\ k.job = j /\ k.turn = n
      /\ k.attempt = task["poller"].attempt /\ k.todo = task["poller"].todo \ {who}
  BY ZenonT(40), <1>1, <1>3, Turns, Constants DEF Typing, TypeOK, Task
<1> HIDE DEF k
<1>5. Known' /\ Unturned' /\ task'["poller"] = k
  BY <1>2, <1>4, Constants DEF Known, Unturned, Ordered, Exists, Typing, TypeOK
<1>6. CASE fired' = fired
  <2>1. Taking' => Taking
    BY <1>2, <1>4, <1>5 DEF Taking
  <2> QED BY <1>2, <1>3, <1>4, <1>5, <1>6, <2>1, StillQuiet, QuietOrdered
<1>7. CASE fired' = fired \union {<<j, n, who>>} /\ task["poller"].attempt = 1
  <2>1. Taking
    BY <1>2, <1>7 DEF Taking
  <2>2. /\ j \in created /\ (Exists(j) => n < job[j].turn)
        /\ \A w \in task["poller"].todo : <<j, n, w>> \notin fired
        /\ \A d \in due : d.job # j
    BY <1>3, <2>1 DEF Ordered, Taken
  <2>3. FiredPast'
    <3>1. ASSUME NEW i \in Jobs, NEW m \in Nat, NEW w \in Who, <<i, m, w>> \in fired'
          PROVE  i \in created /\ (Exists(i) => m < job[i].turn)
      BY <1>7, <2>2, <3>1 DEF Ordered, FiredPast
    <3> QED BY <1>2, <3>1 DEF FiredPast, Exists
  <2>4. DueAhead'
    BY <1>2, <1>7, <2>2 DEF Ordered, DueAhead, Exists
  <2>5. Taken'
    <3>1. \A w \in k.todo : <<j, n, w>> \notin fired'
      BY <1>4, <1>7, <2>2
    <3>2. Exists(task["poller"].job)' => Exists(j)
      BY <1>2, <1>4, <1>5 DEF Exists
    <3> QED BY <1>2, <1>4, <1>5, <2>2, <3>1, <3>2 DEF Taken
  <2> QED BY <1>5, <2>3, <2>4, <2>5 DEF Ordered
<1> QED BY <1>1, <1>3, <1>6, <1>7

LEMMA InitOrdered == Init => Ordered
BY Constants DEF Init, Ordered, Known, Unturned, FiredPast, DueAhead, Taken, Taking, Exists, NoTask

LEMMA NextOrdered == Typing /\ Ordered /\ [Next]_vars => Ordered'
<1> SUFFICES ASSUME Typing, Ordered, [Next]_vars PROVE Ordered'
  OBVIOUS
<1>1. Typing'
  BY NextTyping
<1>2. CASE Poller
  <2>1. CASE Execute("poller")
    BY <1>1, <2>1, SubmitOrdered, RecordQuiet, QuietOrdered, Constants DEF Execute
  <2> QED BY <1>1, <1>2, <2>1, TickReadOrdered, TakeOrdered, SettleQuiet, QuietOrdered DEF Poller
<1>3. ASSUME NEW o \in Operators, Operator(o) PROVE Ordered'
  BY <1>1, <1>3, OperatorQuiet, RecordQuiet, QuietOrdered, Constants DEF Operator, Execute
<1>4. CASE UNCHANGED vars
  BY <1>4 DEF vars, Ordered, Known, Unturned, FiredPast, DueAhead, Taken, Taking, Exists
<1> QED BY <1>1, <1>2, <1>3, <1>4, WorldQuiet, QuietOrdered DEF Next

\* A step that leaves the poller with a new submission is its own.
LEMMA PollerSubmits ==
  ASSUME Typing, [Next]_vars, pc["poller"] = "submit", pc'["poller"] = "record"
  PROVE  Submit("poller")
<1> USE Constants
<1>1. pc \in [Threads -> Pcs]
  BY DEF Typing, TypeOK, Pcs
<1>2. CASE Poller
  BY <1>2 DEF Poller, TickRead, Take, SettleRead, TickEnd, Send, RecordDelivery, Execute, Record, Settle
<1>3. ASSUME NEW o \in Operators, Operator(o) PROVE FALSE
  <2>1. \E p : pc' = [pc EXCEPT ![o] = p]
    <3>1. pc = [pc EXCEPT ![o] = pc[o]]
      BY <1>1
    <3> QED BY <1>3, <3>1 DEF Operator, CreateJob, EditRead, EditWrite, DeleteJob, RunNow, Execute,
                              Submit, Record, Abort, Goto
  <2> QED BY <1>1, <2>1
<1>4. ASSUME NEW t \in Threads, Raise(t) PROVE FALSE
  BY <1>1, <1>4 DEF Raise, Abort, Goto
<1>5. ASSUME Clock \/ Crash \/ (\E r \in DOMAIN runs : QueryEnds(r)) \/ UNCHANGED vars PROVE FALSE
  BY <1>1, <1>5 DEF Clock, Crash, QueryEnds, vars
<1> QED BY <1>2, <1>3, <1>4, <1>5 DEF Next

\* However ticks, edits, deletions, exceptions and crashes interleave, a value of
\* next_run_at is submitted at most once for a recipient.
THEOREM FiresOnceAlways == Spec => FiresOnce
<1>1. Typing /\ Ordered /\ [Next]_vars =>
        [pc["poller"] = "submit" /\ pc'["poller"] = "record" /\ task'["poller"].query = "active"
           /\ task["poller"].turn > 0 /\ task["poller"].attempt = 1 => fired' # fired]_vars
  BY PollerSubmits, SubmitFires
<1> QED BY <1>1, InitTyping, NextTyping, InitOrdered, NextOrdered, PTL DEF Spec, FiresOnce

-------------------------------------------------------------------------------
(* A failed run is retried once.                                               *)

\* Runs are of jobs that were created; those that are gone have lost theirs for good.
RunsKnown ==
  \A r \in DOMAIN runs :
    /\ runs[r].job \in created /\ (runs[r].status = "Gone" => ~Exists(runs[r].job))
    /\ runs[r].of \in 0..Len(runs) /\ (runs[r].of = 0 => runs[r].attempt = 1)

\* RetriedOnce, with what a retry shares with the run it is for, which is settled.
Retry ==
  \A r, s \in DOMAIN runs :
    runs[s].of = r =>
      /\ runs[r].attempt = 1 /\ runs[r].query = "failed" /\ runs[s].attempt = 2
      /\ runs[s].who = runs[r].who /\ runs[s].job = runs[r].job /\ runs[s].turn = runs[r].turn
      /\ runs[r].status # "Running"
      /\ \A other \in DOMAIN runs : runs[other].of = r => other = s

Retrying == pc["poller"] \in {"submit", "record"} /\ task["poller"].attempt = 2

\* The retry the poller is in the middle of is for a settled run that has none.
Owed(k, p) ==
  /\ k.of \in DOMAIN runs
  /\ runs[k.of].attempt = 1 /\ runs[k.of].query = "failed" /\ runs[k.of].status # "Running"
  /\ k.job = runs[k.of].job /\ k.turn = runs[k.of].turn
  /\ p = "submit" => k.todo = {runs[k.of].who}
  /\ p = "record" => k.todo = {} /\ k.who = runs[k.of].who
  /\ \A s \in DOMAIN runs : runs[s].of # k.of

RetryOwed == Retrying => Owed(task["poller"], pc["poller"])

\* Other executions are for no run.
Firsts ==
  /\ \A o \in Operators : task[o].attempt = 1 /\ task[o].of = 0
  /\ Taking => task["poller"].of = 0

\* What the tick has still to settle is not settled.
Listed == \A r \in list : runs[r].status \in {"Running", "Gone"}

Retried == RunsKnown /\ Retry /\ RetryOwed /\ Firsts /\ Listed

\* What every step but Record does to the runs.
RunsKept ==
  /\ DOMAIN runs' = DOMAIN runs
  /\ \A r \in DOMAIN runs :
       /\ runs'[r].job = runs[r].job /\ runs'[r].turn = runs[r].turn /\ runs'[r].who = runs[r].who
       /\ runs'[r].attempt = runs[r].attempt /\ runs'[r].of = runs[r].of
       /\ runs[r].query # "active" => runs'[r].query = runs[r].query
       /\ runs[r].query = "active" => runs'[r].query # "none"
       /\ runs'[r].status = runs[r].status \/ runs'[r].status # "Running"
       /\ runs'[r].status = "Gone" => runs[r].status = "Gone" \/ ~Exists(runs[r].job)'

\* What created' and job' leave of those that are gone.
Buried == created \subseteq created' /\ \A j \in created : ~Exists(j) => ~Exists(j)'

LEMMA RunFacts ==
  ASSUME Typing
  PROVE  /\ runs \in Seq(Run) /\ DOMAIN runs = 1..Len(runs) /\ Len(runs) \in Nat
         /\ \A r \in DOMAIN runs : runs[r] \in Run /\ runs[r].job \in Jobs /\ runs[r].of \in Nat
                                   /\ runs[r].who \in Who /\ runs[r].attempt \in {1, 2}
                                   /\ runs[r].mails \in Nat /\ runs[r].turn \in Nat
<1>1. runs \in Seq(Run)
  BY DEF Typing, TypeOK
<1>2. \A r \in DOMAIN runs : runs[r] \in Run
  BY <1>1, LenProperties
<1> QED BY <1>1, <1>2, LenProperties DEF Run

LEMMA QuietBuries ==
  ASSUME Typing, Ordered, Quiet
  PROVE  Buried
BY DEF Quiet, Buried, Typing, TypeOK

LEMMA KeptRetried ==
  ASSUME Typing, Typing', Retried, RunsKept, Buried,
         \A r \in list' : r \in list /\ runs'[r].status \in {runs[r].status, "Gone"}
  PROVE  RunsKnown' /\ Retry' /\ Listed'
<1>0. DOMAIN runs' = DOMAIN runs /\ Len(runs') = Len(runs)
  BY RunFacts, LenProperties DEF RunsKept, Typing, TypeOK
<1>1. RunsKnown'
  <2>1. ASSUME NEW r \in DOMAIN runs
        PROVE  /\ runs'[r].job \in created' /\ (runs'[r].status = "Gone" => ~Exists(runs[r].job)')
               /\ runs'[r].of \in 0..Len(runs) /\ (runs'[r].of = 0 => runs'[r].attempt = 1)
    BY <2>1 DEF RunsKept, Buried, Retried, RunsKnown, Exists
  <2> QED BY <1>0, <2>1 DEF RunsKnown, Exists
<1>2. Retry'
  <2>1. ASSUME NEW r \in DOMAIN runs, NEW s \in DOMAIN runs, runs'[s].of = r
        PROVE  /\ runs'[r].attempt = 1 /\ runs'[r].query = "failed" /\ runs'[s].attempt = 2
               /\ runs'[s].who = runs'[r].who /\ runs'[s].job = runs'[r].job /\ runs'[s].turn = runs'[r].turn
               /\ runs'[r].status # "Running"
               /\ \A other \in DOMAIN runs : runs'[other].of = r => other = s
    BY <2>1 DEF RunsKept, Retried, Retry
  <2> QED BY <1>0, <2>1 DEF Retry
<1>3. Listed'
  BY DEF Retried, Listed
<1> QED BY <1>1, <1>2, <1>3

LEMMA RetriedFrame ==
  ASSUME Typing, Typing', Retried, RunsKept, Buried, Firsts',
         Retrying' => Retrying /\ pc'["poller"] = pc["poller"] /\ task'["poller"] = task["poller"],
         \A r \in list' : r \in list /\ runs'[r].status \in {runs[r].status, "Gone"}
  PROVE  Retried'
<1>1. ASSUME Retrying' PROVE Owed(task["poller"], pc["poller"])'
  <2>1. Owed(task["poller"], pc["poller"]) /\ task'["poller"] = task["poller"] /\ pc'["poller"] = pc["poller"]
    BY <1>1 DEF Retried, RetryOwed
  <2> QED BY <2>1 DEF Owed, RunsKept
<1> QED BY <1>1, KeptRetried DEF Retried, RetryOwed

\* What a write of one field leaves of a run, and of the others.
LEMMA StatusFields ==
  ASSUME Typing, NEW x \in DOMAIN runs, NEW v
  PROVE  /\ DOMAIN [runs EXCEPT ![x].status = v] = DOMAIN runs
         /\ \A r \in DOMAIN runs : [runs EXCEPT ![x].status = v][r] =
              IF r = x THEN [runs[r] EXCEPT !.status = v] ELSE runs[r]
         /\ \A r \in DOMAIN runs : LET f == [runs[r] EXCEPT !.status = v] IN
              /\ f.job = runs[r].job /\ f.turn = runs[r].turn /\ f.who = runs[r].who
              /\ f.attempt = runs[r].attempt /\ f.of = runs[r].of /\ f.query = runs[r].query
              /\ f.status = v /\ f.mails = runs[r].mails
<1>1. \A r \in DOMAIN runs : runs[r] \in Run
  BY RunFacts
<1>2. \A r \in DOMAIN runs : LET f == [runs[r] EXCEPT !.status = v] IN
        /\ f.job = runs[r].job /\ f.turn = runs[r].turn /\ f.who = runs[r].who
        /\ f.attempt = runs[r].attempt /\ f.of = runs[r].of /\ f.query = runs[r].query
        /\ f.status = v /\ f.mails = runs[r].mails
  BY <1>1 DEF Run
<1> QED BY <1>2

LEMMA DeliveryFields ==
  ASSUME Typing, NEW x, NEW v
  PROVE  /\ DOMAIN [runs EXCEPT ![x].delivery = v] = DOMAIN runs
         /\ \A r \in DOMAIN runs : [runs EXCEPT ![x].delivery = v][r] =
              IF r = x THEN [runs[r] EXCEPT !.delivery = v] ELSE runs[r]
         /\ \A r \in DOMAIN runs : LET f == [runs[r] EXCEPT !.delivery = v] IN
              /\ f.job = runs[r].job /\ f.turn = runs[r].turn /\ f.who = runs[r].who
              /\ f.attempt = runs[r].attempt /\ f.of = runs[r].of /\ f.query = runs[r].query
              /\ f.status = runs[r].status /\ f.mails = runs[r].mails
<1>1. \A r \in DOMAIN runs : runs[r] \in Run
  BY RunFacts
<1>2. \A r \in DOMAIN runs : LET f == [runs[r] EXCEPT !.delivery = v] IN
        /\ f.job = runs[r].job /\ f.turn = runs[r].turn /\ f.who = runs[r].who
        /\ f.attempt = runs[r].attempt /\ f.of = runs[r].of /\ f.query = runs[r].query
        /\ f.status = runs[r].status /\ f.mails = runs[r].mails
  BY <1>1 DEF Run
<1> QED BY <1>2

LEMMA MailsFields ==
  ASSUME Typing, NEW x
  PROVE  /\ DOMAIN [runs EXCEPT ![x].mails = @ + 1] = DOMAIN runs
         /\ \A r \in DOMAIN runs : [runs EXCEPT ![x].mails = @ + 1][r] =
              IF r = x THEN [runs[r] EXCEPT !.mails = @ + 1] ELSE runs[r]
         /\ \A r \in DOMAIN runs : LET f == [runs[r] EXCEPT !.mails = @ + 1] IN
              /\ f.job = runs[r].job /\ f.turn = runs[r].turn /\ f.who = runs[r].who
              /\ f.attempt = runs[r].attempt /\ f.of = runs[r].of /\ f.query = runs[r].query
              /\ f.status = runs[r].status /\ f.mails = runs[r].mails + 1
<1>1. \A r \in DOMAIN runs : runs[r] \in Run
  BY RunFacts
<1>2. \A r \in DOMAIN runs : LET f == [runs[r] EXCEPT !.mails = @ + 1] IN
        /\ f.job = runs[r].job /\ f.turn = runs[r].turn /\ f.who = runs[r].who
        /\ f.attempt = runs[r].attempt /\ f.of = runs[r].of /\ f.query = runs[r].query
        /\ f.status = runs[r].status /\ f.mails = runs[r].mails + 1
  BY <1>1 DEF Run
<1> QED BY <1>2

LEMMA RunsStay ==
  ASSUME Typing, Typing', Retried, Buried, runs' = runs, list' \subseteq list, Firsts',
         Retrying' => Retrying /\ pc'["poller"] = pc["poller"] /\ task'["poller"] = task["poller"]
  PROVE  Retried'
<1>1. RunsKept
  BY DEF RunsKept
<1>2. \A r \in list' : r \in list /\ runs'[r].status \in {runs[r].status, "Gone"}
  OBVIOUS
<1> QED BY <1>1, <1>2, RetriedFrame

LEMMA AbortRetried ==
  ASSUME Typing, Typing', Ordered, Retried, NEW t \in Threads, Abort(t), UNCHANGED <<job, created, runs>>
  PROVE  Retried'
<1>1. pc' = [pc EXCEPT ![t] = "idle"] /\ task' = [task EXCEPT ![t] = NoTask] /\ list' \subseteq list
  BY DEF Abort, Goto
<1>2. /\ t = "poller" => pc'["poller"] = "idle"
      /\ t # "poller" => pc'["poller"] = pc["poller"] /\ task'["poller"] = task["poller"]
      /\ \A o \in Operators : task'[o] \in {task[o], NoTask}
  BY <1>1, Constants DEF Typing, TypeOK
<1>3. Firsts'
  BY <1>2 DEF Firsts, Retried, Taking, NoTask
<1>4. Buried
  BY DEF Buried, Exists
<1>5. Retrying' => Retrying /\ pc'["poller"] = pc["poller"] /\ task'["poller"] = task["poller"]
  BY <1>2 DEF Retrying
<1> QED BY <1>1, <1>3, <1>4, <1>5, RunsStay

\* Operators' steps that leave the runs alone.
LEMMA OperatorRetried ==
  ASSUME Typing, Typing', Ordered, Retried, NEW o \in Operators,
         CreateJob(o) \/ EditRead(o) \/ EditWrite(o) \/ RunNow(o) \/ Submit(o)
  PROVE  Retried'
<1> o \in Threads /\ o # "poller"
  BY Constants
<1>1. runs' = runs /\ list' = list /\ Buried
  BY OperatorQuiet, QuietBuries DEF CreateJob, EditRead, EditWrite, RunNow, Submit
<1>2. \E p : pc' = [pc EXCEPT ![o] = p]
  <2>1. pc = [pc EXCEPT ![o] = pc[o]]
    BY DEF Typing, TypeOK
  <2> QED BY <2>1 DEF CreateJob, EditRead, EditWrite, RunNow, Submit, Goto
<1>3. \E k : task' = [task EXCEPT ![o] = k] /\ k.attempt = 1 /\ k.of = 0
  <2>1. task = [task EXCEPT ![o] = task[o]] /\ task[o].attempt = 1 /\ task[o].of = 0
    BY DEF Typing, TypeOK, Retried, Firsts
  <2>2. CASE RunNow(o)
    <3>1. PICK j \in Jobs : task' = [task EXCEPT ![o] =
            [NoTask EXCEPT !.job = j, !.todo = Targets(job[j].recipients)]]
      BY <2>2 DEF RunNow
    <3> DEFINE k == [NoTask EXCEPT !.job = j, !.todo = Targets(job[j].recipients)]
    <3>2. k.attempt = 1 /\ k.of = 0 /\ task' = [task EXCEPT ![o] = k]
      BY <3>1 DEF NoTask
    <3> HIDE DEF k
    <3> QED BY <3>2
  <2>3. CASE Submit(o)
    <3>1. PICK who \in task[o].todo, query \in {"none", "active"} :
            task' = [task EXCEPT ![o].todo = @ \ {who}, ![o].who = who, ![o].query = query]
      BY <2>3 DEF Submit
    <3> DEFINE k == [task[o] EXCEPT !.todo = @ \ {who}, !.who = who, !.query = query]
    <3>2. k.attempt = 1 /\ k.of = 0 /\ task' = [task EXCEPT ![o] = k]
      BY <2>1, <3>1, Turns DEF Task
    <3> HIDE DEF k
    <3> QED BY <3>2
  <2> QED BY <2>1, <2>2, <2>3 DEF CreateJob, EditRead, EditWrite
<1>4. pc'["poller"] = pc["poller"] /\ task'["poller"] = task["poller"]
  BY <1>2, <1>3, Constants DEF Typing, TypeOK
<1>5. Firsts'
  BY <1>3, <1>4, Constants DEF Firsts, Taking, Retried, Typing, TypeOK
<1> QED BY <1>1, <1>4, <1>5, RunsStay DEF Retrying

LEMMA TickRetried ==
  ASSUME Typing, Typing', Ordered, Retried, TickRead \/ Take \/ SettleRead \/ TickEnd
  PROVE  Retried'
<1>1. CASE TickRead \/ TickEnd
  <2>1. /\ UNCHANGED <<job, created, runs, list, task>>
        /\ \E p \in {"fire", "idle"} : pc' = [pc EXCEPT !["poller"] = p]
    BY <1>1 DEF TickRead, TickEnd, Goto
  <2>2. ~Taking' /\ ~Retrying' /\ Firsts' /\ Buried
    BY <2>1, Constants DEF Taking, Retrying, Firsts, Retried, Buried, Exists, Typing, TypeOK
  <2> QED BY <2>1, <2>2, RunsStay
<1>2. CASE SettleRead
  <2>1. /\ UNCHANGED <<job, created, runs, task>> /\ list' = Unsettled
        /\ pc' = [pc EXCEPT !["poller"] = "settle"]
    BY <1>2 DEF SettleRead, Goto
  <2>2. ~Taking' /\ ~Retrying' /\ Firsts'
    BY <2>1, Constants DEF Taking, Retrying, Firsts, Retried, Typing, TypeOK
  <2> QED BY <2>1, <2>2 DEF Retried, RunsKnown, Retry, RetryOwed, Listed, Unsettled, Exists
<1>3. CASE Take
  <2>1. PICK d \in due :
       IF NextRun(d.schedule, at) = 0
         THEN Abort("poller") /\ UNCHANGED job
         ELSE /\ job' = Scheduled(d)
              /\ task' = [task EXCEPT !["poller"] =
                   [NoTask EXCEPT !.job = d.job, !.turn = d.turn, !.todo = Targets(d.recipients)]]
              /\ due' = due \ {d}
              /\ Goto("poller", "submit")
              /\ UNCHANGED <<list, at>>
    BY <1>3 DEF Take
  <2>2. UNCHANGED <<created, runs>>
    BY <1>3 DEF Take
  <2>3. CASE NextRun(d.schedule, at) = 0
    BY <2>1, <2>2, <2>3, AbortRetried, Constants
  <2>4. CASE NextRun(d.schedule, at) # 0
    <3> DEFINE k == [NoTask EXCEPT !.job = d.job, !.turn = d.turn, !.todo = Targets(d.recipients)]
    <3>1. /\ job' = Scheduled(d) /\ task' = [task EXCEPT !["poller"] = k] /\ list' = list
      BY <2>1, <2>4
    <3>2. k.attempt = 1 /\ k.of = 0
      BY DEF NoTask
    <3> HIDE DEF k
    <3>3. Firsts' /\ ~Retrying'
      BY <3>1, <3>2, Constants DEF Firsts, Retried, Retrying, Typing, TypeOK
    <3>4. \A j \in Jobs : ~Exists(j) => ~Exists(j)'
      BY <3>1, Turns DEF Scheduled, Exists, Typing, TypeOK
    <3>5. Buried
      BY <2>2, <3>4 DEF Buried, Typing, TypeOK
    <3> QED BY <2>2, <3>1, <3>3, <3>5, RunsStay
  <2> QED BY <2>3, <2>4
<1> QED BY <1>1, <1>2, <1>3

LEMMA SubmitRetried ==
  ASSUME Typing, Typing', Ordered, Retried, Submit("poller")
  PROVE  Retried'
<1>1. PICK who \in task["poller"].todo, query \in {"none", "active"} :
        task' = [task EXCEPT !["poller"].todo = @ \ {who}, !["poller"].who = who, !["poller"].query = query]
  BY DEF Submit
<1> DEFINE k == [task["poller"] EXCEPT !.todo = @ \ {who}, !.who = who, !.query = query]
<1>2. /\ UNCHANGED <<job, created, runs, list>> /\ pc' = [pc EXCEPT !["poller"] = "record"]
      /\ pc["poller"] = "submit"
  BY DEF Submit, Goto
<1>3. /\ task' = [task EXCEPT !["poller"] = k] /\ k.job = task["poller"].job
      /\ k.turn = task["poller"].turn /\ k.of = task["poller"].of /\ k.who = who
      /\ k.attempt = task["poller"].attempt /\ k.todo = task["poller"].todo \ {who}
  BY ZenonT(40), <1>1, Turns, Constants DEF Typing, TypeOK, Task
<1> HIDE DEF k
<1>4. task'["poller"] = k /\ pc'["poller"] = "record" /\ \A o \in Operators : task'[o] = task[o]
  BY <1>2, <1>3, Constants DEF Typing, TypeOK
<1>5. Firsts'
  BY <1>2, <1>3, <1>4 DEF Firsts, Retried, Taking
<1>6. ASSUME Retrying' PROVE Owed(task["poller"], pc["poller"])'
  <2>1. Owed(task["poller"], "submit")
    BY <1>2, <1>3, <1>4, <1>6 DEF Retried, RetryOwed, Retrying
  <2>2. k.todo = {} /\ k.who = runs[task["poller"].of].who
    BY <1>1, <1>3, <2>1 DEF Owed
  <2> QED BY <1>2, <1>3, <1>4, <2>1, <2>2 DEF Owed
<1>7. RunsKnown' /\ Retry' /\ Listed'
  BY <1>2 DEF Retried, RunsKnown, Retry, Listed, Exists
<1> QED BY <1>5, <1>6, <1>7 DEF Retried, RetryOwed

SameMails == \A r \in DOMAIN runs : runs'[r].mails = runs[r].mails

LEMMA SettleKeeps ==
  ASSUME Typing, NEW r \in list, Settle(r)
  PROVE  RunsKept /\ SameMails /\ \A x \in DOMAIN runs : x # r => runs'[x] = runs[x]
<1>1. PICK v \in {"Succeeded", "Failed"} : runs' \in {runs, [runs EXCEPT ![r].status = v]}
  BY SettledWrites DEF Settle
<1>2. r \in DOMAIN runs
  BY DEF Typing, TypeOK
<1>3. CASE runs' = runs
  BY <1>3 DEF RunsKept, SameMails
<1>4. CASE runs' = [runs EXCEPT ![r].status = v]
  BY <1>2, <1>4, StatusFields DEF RunsKept, SameMails
<1> QED BY <1>1, <1>3, <1>4

LEMMA DeliveryKeeps ==
  ASSUME Typing, Send \/ RecordDelivery
  PROVE  /\ RunsKept /\ (RecordDelivery => SameMails)
         /\ \A r \in DOMAIN runs : runs'[r].query = runs[r].query /\ runs'[r].status = runs[r].status
<1>1. PICK f : f = task["poller"].of
  OBVIOUS
<1>2. CASE runs' = runs
  BY <1>2 DEF RunsKept, SameMails
<1>3. CASE runs' = [runs EXCEPT ![f].mails = @ + 1] /\ Send
  <2>1. ~RecordDelivery
    BY <1>3 DEF Send, RecordDelivery
  <2> QED BY <1>3, <2>1, MailsFields DEF RunsKept
<1>4. ASSUME NEW d, runs' = [runs EXCEPT ![f].delivery = d]
      PROVE  RunsKept /\ SameMails
             /\ \A r \in DOMAIN runs : runs'[r].query = runs[r].query /\ runs'[r].status = runs[r].status
  BY <1>4, DeliveryFields DEF RunsKept, SameMails
<1>5. \/ runs' = runs \/ (runs' = [runs EXCEPT ![f].mails = @ + 1] /\ Send)
      \/ \E d \in {"sent", "failed"} : runs' = [runs EXCEPT ![f].delivery = d]
  BY <1>1 DEF Send, RecordDelivery
<1> QED BY <1>2, <1>3, <1>4, <1>5

LEMMA DeleteKeeps ==
  ASSUME Typing, NEW o \in Operators, DeleteJob(o)
  PROVE  RunsKept /\ SameMails
         /\ \A r \in DOMAIN runs : runs'[r].status \in {runs[r].status, "Gone"}
<1>1. PICK j \in Jobs :
        /\ job' = [job EXCEPT ![j] = NoJob]
        /\ runs' = [r \in DOMAIN runs |->
                      IF runs[r].job = j THEN [runs[r] EXCEPT !.status = "Gone"] ELSE runs[r]]
  BY DEF DeleteJob
<1>2. ~Exists(j)'
  BY <1>1 DEF Exists, Typing, TypeOK
<1>3. ASSUME NEW r \in DOMAIN runs
      PROVE  /\ runs'[r].job = runs[r].job /\ runs'[r].turn = runs[r].turn /\ runs'[r].who = runs[r].who
             /\ runs'[r].attempt = runs[r].attempt /\ runs'[r].of = runs[r].of
             /\ runs'[r].query = runs[r].query /\ runs'[r].mails = runs[r].mails
             /\ runs[r].job = j => runs'[r].status = "Gone"
             /\ runs[r].job # j => runs'[r].status = runs[r].status
  BY <1>1, RunFacts DEF Run
<1>4. DOMAIN runs' = DOMAIN runs
  BY <1>1
<1> QED BY <1>2, <1>3, <1>4 DEF RunsKept, SameMails, Exists

LEMMA EndsKeeps ==
  ASSUME Typing, NEW x \in DOMAIN runs, QueryEnds(x)
  PROVE  RunsKept /\ SameMails /\ \A r \in DOMAIN runs : runs'[r].status = runs[r].status
<1>1. PICK q \in {"done", "failed"} : runs' = [runs EXCEPT ![x].query = q]
  BY DEF QueryEnds
<1>2. runs[x].query = "active"
  BY DEF QueryEnds
<1> QED BY <1>1, <1>2, RunFacts DEF RunsKept, SameMails, Run

LEMMA SettleRetried ==
  ASSUME Typing, Typing', Ordered, Retried, NEW r \in list, Settle(r)
  PROVE  Retried'
<1>1. /\ r \in DOMAIN runs /\ runs[r] \in Run /\ UNCHANGED <<job, created>>
      /\ pc["poller"] = "settle" /\ list' = list \ {r}
  BY RunFacts DEF Settle, Typing, TypeOK
<1>3. RunsKept /\ \A x \in DOMAIN runs : x # r => runs'[x] = runs[x]
  BY SettleKeeps
<1>4. Buried /\ \A x \in list' : x \in list /\ runs'[x].status \in {runs[x].status, "Gone"}
  BY <1>1, <1>3 DEF Buried, Exists, Typing, TypeOK
<1> DEFINE k == [NoTask EXCEPT !.job = runs[r].job, !.of = r]
           m == [NoTask EXCEPT !.job = runs[r].job, !.turn = runs[r].turn, !.attempt = 2, !.of = r,
                               !.todo = {runs[r].who}]
<1>5. /\ m.job = runs[r].job /\ m.turn = runs[r].turn /\ m.attempt = 2 /\ m.of = r
      /\ m.todo = {runs[r].who}
  BY DEF NoTask
<1>6. \/ task' = [task EXCEPT !["poller"] = k] /\ pc' = [pc EXCEPT !["poller"] = "send"]
      \/ /\ task' = [task EXCEPT !["poller"] = m] /\ pc' = [pc EXCEPT !["poller"] = "submit"]
         /\ Exists(runs[r].job) /\ IsRetried(r)
      \/ task' = task /\ pc' = pc
  BY DEF Settle, Goto
<1> HIDE DEF k, m
<1>7. Firsts'
  <2>1. \A o \in Operators : task'[o] = task[o]
    BY <1>6, Constants DEF Typing, TypeOK
  <2>2. ~Taking'
    BY <1>1, <1>5, <1>6, Constants DEF Taking, Typing, TypeOK
  <2> QED BY <2>1, <2>2 DEF Firsts, Retried
<1>8. CASE ~Retrying'
  BY <1>3, <1>4, <1>7, <1>8, RetriedFrame
<1>9. CASE Retrying'
  <2>1. /\ task'["poller"] = m /\ pc'["poller"] = "submit" /\ Exists(runs[r].job) /\ IsRetried(r)
    BY <1>1, <1>6, <1>9, Constants DEF Retrying, Typing, TypeOK
  <2>2. runs[r].status = "Running"
    BY <1>1, <2>1 DEF Retried, Listed, RunsKnown
  <2>3. runs' = Settled(r)
    BY <2>1, <1>1 DEF Settle, IsRetried
  <2>4. runs'[r].status \in {"Succeeded", "Failed"}
    <3>1. PICK v \in {"Succeeded", "Failed"} : runs' = [runs EXCEPT ![r].status = v]
      BY <2>2, <2>3 DEF Settled
    <3> QED BY ZenonT(40), <1>1, <3>1, StatusFields
  <2>5. \A s \in DOMAIN runs : runs[s].of # r
    BY <1>1, <2>2 DEF Retried, Retry
  <2>6. Owed(task["poller"], pc["poller"])'
    BY <1>1, <1>3, <1>5, <2>1, <2>4, <2>5 DEF Owed, RunsKept, IsRetried
  <2> QED BY <1>3, <1>4, <1>7, <2>6, KeptRetried DEF Retried, RetryOwed
<1> QED BY <1>8, <1>9

LEMMA DeliveryRetried ==
  ASSUME Typing, Typing', Ordered, Retried, Send \/ RecordDelivery
  PROVE  Retried'
<1>1. /\ UNCHANGED <<job, created, list>>
      /\ \E p \in {"sent", "settle"} : pc' = [pc EXCEPT !["poller"] = p]
      /\ \E k : task' = [task EXCEPT !["poller"] = k]
  BY Constants DEF Send, RecordDelivery, Goto, Typing, TypeOK
<1>2. Firsts' /\ ~Retrying' /\ Buried
  BY <1>1, Constants DEF Firsts, Retried, Retrying, Taking, Buried, Exists, Typing, TypeOK
<1>3. RunsKept /\ \A r \in list' : r \in list /\ runs'[r].status \in {runs[r].status, "Gone"}
  BY <1>1, DeliveryKeeps DEF Typing, TypeOK
<1> QED BY <1>2, <1>3, RetriedFrame

LEMMA DeleteRetried ==
  ASSUME Typing, Typing', Ordered, Retried, NEW o \in Operators, DeleteJob(o)
  PROVE  Retried'
<1>1. UNCHANGED <<created, pc, task, list>> /\ Buried
  BY OperatorQuiet, QuietBuries DEF DeleteJob
<1>2. RunsKept /\ \A r \in list' : r \in list /\ runs'[r].status \in {runs[r].status, "Gone"}
  BY <1>1, DeleteKeeps DEF Typing, TypeOK
<1> QED BY <1>1, <1>2, RetriedFrame DEF Firsts, Taking, Retrying, Retried

LEMMA WorldRetried ==
  ASSUME Typing, Typing', Ordered, Retried,
         \/ Clock \/ Crash \/ \E r \in DOMAIN runs : QueryEnds(r)
         \/ \E t \in Threads : Raise(t)
  PROVE  Retried'
<1>1. CASE Clock
  BY <1>1, RunsStay DEF Clock, Firsts, Taking, Retried, Retrying, Buried, Exists
<1>2. CASE Crash
  <2>1. UNCHANGED <<job, created, runs>> /\ list' = {}
        /\ pc' = [t \in Threads |-> "idle"] /\ task' = [t \in Threads |-> NoTask]
    BY <1>2 DEF Crash
  <2>2. Firsts' /\ ~Retrying' /\ Buried
    BY <2>1, Constants DEF Firsts, Taking, Retrying, NoTask, Buried, Exists
  <2> QED BY <2>1, <2>2, RunsStay
<1>3. ASSUME NEW x \in DOMAIN runs, QueryEnds(x) PROVE Retried'
  <2>1. UNCHANGED <<job, created, pc, task, list>>
    BY <1>3 DEF QueryEnds
  <2>2. RunsKept /\ \A r \in list' : r \in list /\ runs'[r].status \in {runs[r].status, "Gone"}
    BY <1>3, <2>1, EndsKeeps DEF Typing, TypeOK
  <2> QED BY <2>1, <2>2, RetriedFrame DEF Firsts, Taking, Retrying, Retried, Buried, Exists
<1>4. ASSUME NEW t \in Threads, Raise(t) PROVE Retried'
  BY <1>4, AbortRetried DEF Raise
<1> QED BY <1>1, <1>2, <1>3, <1>4

\* What an execution records: one run more.
LEMMA Appended ==
  ASSUME Typing, NEW x, runs' = Append(runs, x)
  PROVE  /\ Len(runs') = Len(runs) + 1 /\ DOMAIN runs' = DOMAIN runs \union {Len(runs) + 1}
         /\ Len(runs) + 1 \notin DOMAIN runs /\ runs'[Len(runs) + 1] = x
         /\ \A r \in DOMAIN runs : runs'[r] = runs[r]
BY RunFacts

LEMMA RecordRetried ==
  ASSUME Typing, Typing', Ordered, Retried, NEW t \in Threads, Record(t)
  PROVE  Retried'
<1>1. CASE ~Exists(task[t].job)
  BY <1>1, AbortRetried DEF Record
<1>2. CASE Exists(task[t].job)
  <2> DEFINE k == task[t]
             x == NewRun(k)
             n == Len(runs) + 1
  <2>1. /\ runs' = Append(runs, x) /\ UNCHANGED <<job, created, list>> /\ pc[t] = "record"
        /\ k \in Task /\ k.job \in Jobs /\ k.job \in created
    BY <1>2 DEF Record, Typing, TypeOK, Pending, Ordered, Known
  <2>2. /\ x.job = k.job /\ x.turn = k.turn /\ x.who = k.who /\ x.attempt = k.attempt /\ x.of = k.of
        /\ x.status \in {"Running", "Failed"}
    BY DEF NewRun
  <2> HIDE DEF x
  <2>3. \/ k.attempt = 1 /\ k.of = 0
        \/ k.attempt = 2 /\ t = "poller" /\ Owed(k, "record")
    <3>1. CASE t \in Operators
      <4>1. Firsts
        BY DEF Retried
      <4> QED BY <3>1, <4>1 DEF Firsts
    <3>2. CASE t = "poller" /\ k.attempt = 1
      <4>1. Firsts
        BY DEF Retried
      <4> QED BY <2>1, <3>2, <4>1 DEF Firsts, Taking
    <3>3. CASE t = "poller" /\ k.attempt = 2
      BY <2>1, <3>3 DEF Retried, RetryOwed, Retrying
    <3> QED BY <2>1, <3>1, <3>2, <3>3 DEF Threads, Task
  <2>4. /\ Len(runs') = n /\ DOMAIN runs' = DOMAIN runs \union {n} /\ n \notin DOMAIN runs
        /\ runs'[n] = x /\ DOMAIN runs = 1..Len(runs) /\ Len(runs) \in Nat
        /\ \A r \in DOMAIN runs : runs'[r] = runs[r]
    BY <2>1, Appended, RunFacts
  <2>5. RunsKnown'
    <3>1. x.of \in 0..Len(runs)
      BY <2>2, <2>3, <2>4 DEF Owed
    <3>2. x.of = 0 => x.attempt = 1
      BY <2>2, <2>3, <2>4 DEF Owed
    <3>3. \A r \in DOMAIN runs : runs[r].of \in 0..Len(runs')
      BY <2>4 DEF Retried, RunsKnown
    <3> QED BY <1>2, <2>1, <2>2, <2>4, <3>1, <3>2, <3>3 DEF Retried, RunsKnown, Exists
  <2>6. Retry'
    <3>1. ASSUME NEW r \in DOMAIN runs', NEW s \in DOMAIN runs', runs'[s].of = r
          PROVE  /\ runs'[r].attempt = 1 /\ runs'[r].query = "failed" /\ runs'[s].attempt = 2
                 /\ runs'[s].who = runs'[r].who /\ runs'[s].job = runs'[r].job
                 /\ runs'[s].turn = runs'[r].turn /\ runs'[r].status # "Running"
                 /\ \A other \in DOMAIN runs' : runs'[other].of = r => other = s
      <4>1. CASE s = n
        <5>1. k.of = r /\ Owed(k, "record") /\ k.attempt = 2 /\ r \in DOMAIN runs
          BY <2>2, <2>3, <2>4, <3>1, <4>1 DEF Owed
        <5> QED BY <2>2, <2>4, <4>1, <5>1 DEF Owed
      <4>2. CASE s # n
        <5>1. s \in DOMAIN runs /\ r \in DOMAIN runs /\ runs[s].of = r
          BY <2>4, <3>1, <4>2 DEF Retried, RunsKnown
        <5>2. x.of # r
          BY <2>2, <2>3, <2>4, <5>1 DEF Owed
        <5> QED BY <2>4, <5>1, <5>2 DEF Retried, Retry
      <4> QED BY <4>1, <4>2
    <3> QED BY <3>1 DEF Retry
  <2>7. \/ t = "poller" /\ k.attempt = 2 /\ pc'["poller"] = "settle"
        \/ t = "poller" /\ k.attempt = 1 /\ task'["poller"] \in {NoTask, k}
        \/ t # "poller" /\ task'["poller"] = task["poller"] /\ pc'["poller"] = pc["poller"]
    <3>1. CASE k.todo = {}
      <4>1. pc' = [pc EXCEPT ![t] = Executed(t)] /\ task' = [task EXCEPT ![t] = NoTask]
        BY <1>2, <3>1 DEF Record, Goto
      <4> QED BY <2>1, <4>1, Constants DEF Executed, Task, Typing, TypeOK
    <3>2. CASE k.todo # {}
      <4>1. pc' = [pc EXCEPT ![t] = "submit"] /\ task' = task
        BY <1>2, <3>2 DEF Record, Goto
      <4> QED BY <2>1, <2>3, <3>2, <4>1, Constants DEF Owed, Task, Typing, TypeOK
    <3> QED BY <3>1, <3>2
  <2>8. \A o \in Operators : task'[o] \in {task[o], NoTask}
    BY <1>2, Constants DEF Record, Typing, TypeOK
  <2>9. Firsts'
    <3>1. Taking' => task'["poller"].of = 0
      BY <2>1, <2>3, <2>7 DEF Taking, Retried, Firsts, NoTask
    <3> QED BY <2>8, <3>1 DEF Firsts, Retried, NoTask
  <2>10. RetryOwed'
    <3>1. ASSUME Retrying' PROVE Owed(task["poller"], pc["poller"])'
      <4>1. t # "poller" /\ task'["poller"] = task["poller"] /\ pc'["poller"] = pc["poller"]
        BY <2>7, <3>1 DEF Retrying, NoTask
      <4>2. Owed(task["poller"], pc["poller"])
        BY <3>1, <4>1 DEF Retried, RetryOwed, Retrying
      <4>3. x.of # task["poller"].of
        BY <2>2, <2>3, <2>4, <4>1, <4>2 DEF Owed
      <4> QED BY <2>4, <4>1, <4>2, <4>3 DEF Owed
    <3> QED BY <3>1 DEF RetryOwed
  <2>11. Listed'
    BY <2>1, <2>4 DEF Retried, Listed, Typing, TypeOK
  <2> QED BY <2>5, <2>6, <2>9, <2>10, <2>11 DEF Retried
<1> QED BY <1>1, <1>2

LEMMA InitRetried == Init => Retried
BY Constants DEF Init, Retried, RunsKnown, Retry, RetryOwed, Retrying, Firsts, Taking, Listed, NoTask

LEMMA NextRetried == Typing /\ Ordered /\ Retried /\ [Next]_vars => Retried'
<1> SUFFICES ASSUME Typing, Ordered, Retried, [Next]_vars PROVE Retried'
  OBVIOUS
<1>1. Typing'
  BY NextTyping
<1>2. CASE Poller
  <2>1. CASE Execute("poller")
    BY <1>1, <2>1, SubmitRetried, RecordRetried, Constants DEF Execute
  <2> QED BY <1>1, <1>2, <2>1, TickRetried, SettleRetried, DeliveryRetried DEF Poller
<1>3. ASSUME NEW o \in Operators, Operator(o) PROVE Retried'
  BY <1>1, <1>3, OperatorRetried, DeleteRetried, RecordRetried, Constants DEF Operator, Execute
<1>4. CASE UNCHANGED vars
  BY <1>4 DEF vars, Retried, RunsKnown, Retry, RetryOwed, Retrying, Owed, Firsts, Taking, Listed, Exists
<1> QED BY <1>1, <1>2, <1>3, <1>4, WorldRetried DEF Next

-------------------------------------------------------------------------------
(* Every mishap loses one retry at most, and nothing else loses one.           *)

\* The runs that are never retried are no more than the mishaps, and no more than there are runs.
LostBounded == Cardinality(Unretried) <= mishaps

LEMMA UnretriedFinite ==
  ASSUME Typing, Typing'
  PROVE  /\ IsFiniteSet(Unretried) /\ Cardinality(Unretried) \in Nat
         /\ IsFiniteSet(Unretried') /\ Cardinality(Unretried') \in Nat
<1>1. IsFiniteSet(1..Len(runs)) /\ Unretried \subseteq 1..Len(runs)
  BY RunFacts, FS_Interval DEF Unretried
<1>2. Len(runs') \in Nat /\ DOMAIN runs' = 1..Len(runs')
  BY LenProperties DEF Typing, TypeOK
<1>3. IsFiniteSet(1..Len(runs')) /\ Unretried' \subseteq 1..Len(runs')
  BY <1>2, FS_Interval DEF Unretried
<1> QED BY <1>1, <1>3, FS_Subset, FS_CardinalityType

\* No run more is lost, or the one whose retry a mishap cuts off.
LEMMA FewerLost ==
  ASSUME Typing, Typing', LostBounded,
         \/ Unretried' \subseteq Unretried /\ mishaps' = mishaps
         \/ \E r : Unretried' \subseteq Unretried \union {r} /\ mishaps' = mishaps + 1
  PROVE  LostBounded'
<1>1. /\ Cardinality(Unretried) \in Nat /\ Cardinality(Unretried') \in Nat
      /\ mishaps \in Nat /\ Cardinality(Unretried) <= mishaps
  BY UnretriedFinite DEF LostBounded, Typing, TypeOK
<1> DEFINE U == Unretried
           V == Unretried'
<1>2. IsFiniteSet(U) /\ Cardinality(U) \in Nat
  BY UnretriedFinite
<1> HIDE DEF U, V
<1>3. CASE V \subseteq U
  <2>1. Cardinality(V) <= Cardinality(U)
    BY <1>2, <1>3, FS_Subset
  <2> QED BY <1>1, <2>1 DEF U, V, LostBounded
<1>4. ASSUME NEW r, V \subseteq U \union {r}, mishaps' = mishaps + 1 PROVE LostBounded'
  <2>1. /\ IsFiniteSet(U \union {r})
        /\ Cardinality(U \union {r}) = IF r \in U THEN Cardinality(U) ELSE Cardinality(U) + 1
    BY <1>2, FS_AddElement
  <2>2. Cardinality(V) <= Cardinality(U \union {r}) /\ Cardinality(U \union {r}) \in Nat
    BY <1>4, <2>1, FS_Subset, FS_CardinalityType
  <2>3. Cardinality(V) <= Cardinality(U) + 1
    BY <1>1, <1>2, <2>1, <2>2 DEF V
  <2> QED BY <1>1, <1>4, <2>3 DEF U, V, LostBounded
<1> QED BY <1>3, <1>4 DEF U, V

\* A step that lets no run fail, and cuts no retry off, loses none.
LEMMA NoneLost ==
  ASSUME Typing, Retried, RunsKept, Buried, NEW X,
         \A r \in DOMAIN runs :
           /\ RetryUnderWay(r) => r \in X \/ RetryUnderWay(r)' \/ ~Exists(runs[r].job)'
           /\ runs'[r].status = "Failed" /\ runs'[r].query = "failed" =>
                \/ runs[r].status = "Failed" /\ runs[r].query = "failed"
                \/ RetryUnderWay(r)' \/ runs[r].attempt # 1 \/ ~Exists(runs[r].job)'
  PROVE  Unretried' \subseteq Unretried \union X
<1> SUFFICES ASSUME NEW r \in Unretried', r \notin X PROVE r \in Unretried
  OBVIOUS
<1>1. /\ r \in DOMAIN runs /\ Exists(runs[r].job)' /\ runs'[r].status = "Failed" /\ runs'[r].query = "failed"
      /\ runs[r].attempt = 1 /\ ~RetryUnderWay(r)' /\ \A s \in DOMAIN runs : runs[s].of # r
  BY DEF Unretried, RunsKept, Exists
<1>2. Exists(runs[r].job)
  BY <1>1 DEF Retried, RunsKnown, RunsKept, Buried, Exists
<1> QED BY <1>1, <1>2 DEF Unretried

\* The tick, and the operators, leave the runs' ends alone, and a retry that is under way.
LEMMA SameLost ==
  ASSUME Typing, Retried, RunsKept, Buried,
         \A r \in DOMAIN runs :
           /\ runs'[r].status \in {runs[r].status, "Gone"}
           /\ runs'[r].query = runs[r].query \/ runs[r].status = "Running",
         \/ pc["poller"] \notin {"submit", "record"}
         \/ task["poller"].attempt # 2
         \/ pc'["poller"] \in {"submit", "record"} /\ task'["poller"].attempt = 2
              /\ task'["poller"].of = task["poller"].of
  PROVE  Unretried' \subseteq Unretried
<1>1. \A r \in DOMAIN runs : RetryUnderWay(r) => RetryUnderWay(r)'
  BY DEF RetryUnderWay
<1>2. \A r \in DOMAIN runs : runs'[r].status = "Failed" /\ runs'[r].query = "failed" =>
                               runs[r].status = "Failed" /\ runs[r].query = "failed"
  OBVIOUS
<1>3. Unretried' \subseteq Unretried \union {}
  BY <1>1, <1>2, NoneLost
<1> QED BY <1>3

\* Outside an execution the poller is in the middle of no retry, and reads.
LEMMA TickLost ==
  ASSUME Typing, Typing', Ordered, Retried, TickRead \/ Take \/ SettleRead \/ TickEnd \/ Send \/ RecordDelivery
  PROVE  Unretried' \subseteq Unretried /\ mishaps' = mishaps
<1>1. pc["poller"] \notin {"submit", "record"} /\ mishaps' = mishaps /\ created' = created
  BY DEF TickRead, Take, SettleRead, TickEnd, Send, RecordDelivery
<1>2. CASE TickRead \/ Take \/ SettleRead \/ TickEnd
  <2>1. runs' = runs
    BY <1>2 DEF TickRead, Take, SettleRead, TickEnd
  <2>2. \A j \in Jobs : Exists(j)' => Exists(j)
    <3>1. CASE Take
      <4>1. PICK d \in due : job' \in {job, Scheduled(d)}
        BY <3>1 DEF Take
      <4> QED BY <4>1, Turns DEF Scheduled, Exists, Typing, TypeOK
    <3> QED BY <1>2, <3>1 DEF TickRead, SettleRead, TickEnd, Exists
  <2>3. Buried /\ RunsKept
    BY <1>1, <2>1, <2>2 DEF Buried, RunsKept, Typing, TypeOK
  <2> QED BY <1>1, <2>1, <2>3, SameLost
<1>3. CASE Send \/ RecordDelivery
  <2>1. job' = job
    BY <1>3 DEF Send, RecordDelivery
  <2>2. Buried
    BY <1>1, <2>1 DEF Buried, Exists
  <2> QED BY <1>1, <1>3, <2>2, DeliveryKeeps, SameLost
<1> QED BY <1>2, <1>3

\* Operators neither settle runs nor touch the tick.
LEMMA OperatorLost ==
  ASSUME Typing, Typing', Ordered, Retried, NEW o \in Operators,
         CreateJob(o) \/ EditRead(o) \/ EditWrite(o) \/ RunNow(o) \/ Submit(o) \/ DeleteJob(o)
  PROVE  Unretried' \subseteq Unretried /\ mishaps' = mishaps
<1> o \in Threads /\ o # "poller"
  BY Constants
<1>1. Buried /\ mishaps' = mishaps
  BY OperatorQuiet, QuietBuries DEF CreateJob, EditRead, EditWrite, RunNow, Submit, DeleteJob
<1>2. pc'["poller"] = pc["poller"] /\ task'["poller"] = task["poller"]
  <2>1. CASE RunNow(o) \/ Submit(o)
    BY <2>1, Constants DEF RunNow, Submit, Goto, Typing, TypeOK
  <2>2. CASE CreateJob(o) \/ EditRead(o) \/ EditWrite(o) \/ DeleteJob(o)
    <3>1. task' = task /\ (pc' = pc \/ \E p : pc' = [pc EXCEPT ![o] = p])
      BY <2>2 DEF CreateJob, EditRead, EditWrite, DeleteJob, Goto
    <3> QED BY <3>1, Constants DEF Typing, TypeOK
  <2> QED BY <2>1, <2>2
<1>3. CASE DeleteJob(o)
  <2>1. \A r \in DOMAIN runs : runs'[r].query = runs[r].query
    BY <1>3, RunFacts DEF DeleteJob, Run
  <2> QED BY <1>1, <1>2, <1>3, <2>1, DeleteKeeps, SameLost
<1>4. CASE ~DeleteJob(o)
  <2>1. runs' = runs
    BY <1>4 DEF CreateJob, EditRead, EditWrite, RunNow, Submit
  <2>2. RunsKept
    BY <2>1 DEF RunsKept
  <2> QED BY <1>1, <1>2, <2>1, <2>2, SameLost
<1> QED BY <1>3, <1>4

LEMMA SubmitLost ==
  ASSUME Typing, Typing', Ordered, Retried, Submit("poller")
  PROVE  Unretried' \subseteq Unretried /\ mishaps' = mishaps
<1>1. PICK who \in task["poller"].todo, query \in {"none", "active"} :
        task' = [task EXCEPT !["poller"].todo = @ \ {who}, !["poller"].who = who, !["poller"].query = query]
  BY DEF Submit
<1>2. task'["poller"].of = task["poller"].of /\ task'["poller"].attempt = task["poller"].attempt
  BY <1>1, Turns, Constants DEF Typing, TypeOK, Task
<1>3. UNCHANGED <<job, created, runs, mishaps>> /\ pc' = [pc EXCEPT !["poller"] = "record"]
  BY DEF Submit, Goto
<1>4. Buried /\ RunsKept /\ pc'["poller"] = "record"
  BY <1>3, Constants DEF Buried, RunsKept, Exists, Typing, TypeOK
<1> QED BY <1>2, <1>3, <1>4, SameLost

\* A run that is settled as failed at its first attempt is retried next.
LEMMA SettleLost ==
  ASSUME Typing, Typing', Ordered, Retried, NEW r \in list, Settle(r)
  PROVE  Unretried' \subseteq Unretried /\ mishaps' = mishaps
<1>1. /\ r \in DOMAIN runs /\ runs[r] \in Run /\ UNCHANGED <<job, created, mishaps>>
      /\ pc["poller"] = "settle"
  BY RunFacts DEF Settle, Typing, TypeOK
<1>2. RunsKept /\ Buried /\ \A x \in DOMAIN runs : x # r => runs'[x] = runs[x]
  BY <1>1, SettleKeeps DEF Buried, Exists
<1>3. ASSUME runs'[r].status = "Failed", runs'[r].query = "failed", runs[r].attempt = 1,
             Exists(runs[r].job)'
      PROVE  \/ RetryUnderWay(r)'
             \/ runs[r].status = "Failed" /\ runs[r].query = "failed"
  <2>1. Exists(runs[r].job)
    BY <1>1, <1>2, <1>3 DEF RunsKept, Exists
  <2>2. CASE runs[r].query = "active"
    BY <1>3, <2>2 DEF Settle
  <2>3. CASE runs[r].query # "active"
    <3>1. runs[r].query = "failed" /\ IsRetried(r) /\ ~IsMailed(r)
      BY <1>1, <1>2, <1>3, <2>3 DEF RunsKept, IsRetried, IsMailed
    <3> DEFINE m == [NoTask EXCEPT !.job = runs[r].job, !.turn = runs[r].turn, !.attempt = 2, !.of = r,
                                   !.todo = {runs[r].who}]
    <3>2. task' = [task EXCEPT !["poller"] = m] /\ pc' = [pc EXCEPT !["poller"] = "submit"]
      BY <2>1, <3>1 DEF Settle, Goto
    <3>3. m.attempt = 2 /\ m.of = r
      BY DEF NoTask
    <3> HIDE DEF m
    <3>4. "poller" \in DOMAIN task /\ "poller" \in DOMAIN pc
      BY Constants DEF Typing, TypeOK
    <3>5. task'["poller"] = m /\ pc'["poller"] = "submit"
      BY <3>2, <3>4
    <3> QED BY <3>3, <3>5 DEF RetryUnderWay
  <2> QED BY <2>2, <2>3
<1>4. \A x \in DOMAIN runs : ~RetryUnderWay(x)
  BY <1>1 DEF RetryUnderWay
<1>5. ASSUME NEW x \in DOMAIN runs, runs'[x].status = "Failed", runs'[x].query = "failed"
      PROVE  \/ runs[x].status = "Failed" /\ runs[x].query = "failed"
             \/ RetryUnderWay(x)' \/ runs[x].attempt # 1 \/ ~Exists(runs[x].job)'
  BY <1>2, <1>3, <1>5
<1>6. Unretried' \subseteq Unretried \union {}
  BY <1>2, <1>4, <1>5, NoneLost
<1> QED BY <1>1, <1>6

\* The run a retry is recorded for has one then.
LEMMA RecordLost ==
  ASSUME Typing, Typing', Ordered, Retried, NEW t \in Threads, Record(t)
  PROVE  Unretried' \subseteq Unretried /\ mishaps' = mishaps
<1>0. pc[t] = "record" /\ UNCHANGED <<job, created, mishaps>>
  BY DEF Record
<1>1. CASE ~Exists(task[t].job)
  <2>1. runs' = runs /\ Abort(t)
    BY <1>1 DEF Record
  <2>2. RunsKept /\ Buried
    BY <1>0, <2>1 DEF RunsKept, Buried, Exists
  <2>3. ASSUME NEW r \in DOMAIN runs, RetryUnderWay(r)
        PROVE  RetryUnderWay(r)' \/ ~Exists(runs[r].job)'
    <3>1. CASE t = "poller"
      <4>1. Owed(task["poller"], "record")
        BY <1>0, <2>3, <3>1 DEF RetryUnderWay, Retried, RetryOwed, Retrying
      <4> QED BY <1>0, <1>1, <2>1, <2>3, <3>1, <4>1 DEF Owed, RetryUnderWay, Exists
    <3>2. CASE t # "poller"
      BY <2>1, <2>3, <3>2, Constants DEF Abort, Goto, RetryUnderWay, Typing, TypeOK
    <3> QED BY <3>1, <3>2
  <2>4. Unretried' \subseteq Unretried \union {}
    BY <2>1, <2>2, <2>3, NoneLost
  <2> QED BY <1>0, <2>4
<1>2. CASE Exists(task[t].job)
  <2> DEFINE n == Len(runs) + 1
  <2>1. runs' = Append(runs, NewRun(task[t]))
    BY <1>2 DEF Record
  <2>2. /\ DOMAIN runs' = DOMAIN runs \union {n} /\ runs'[n] = NewRun(task[t]) /\ n \notin DOMAIN runs
        /\ \A r \in DOMAIN runs : runs'[r] = runs[r]
    BY <2>1, Appended
  <2>3. task[t].query \in {"none", "active"} /\ NewRun(task[t]).query # "failed"
        /\ NewRun(task[t]).of = task[t].of
    BY DEF Typing, TypeOK, Task, NewRun
  <2> HIDE DEF n
  <2> SUFFICES ASSUME NEW r \in Unretried' PROVE r \in Unretried
    BY <1>0
  <2>4. /\ r \in DOMAIN runs /\ Exists(runs[r].job) /\ ~RetryUnderWay(r)'
        /\ runs[r].status = "Failed" /\ runs[r].query = "failed" /\ runs[r].attempt = 1
        /\ task[t].of # r /\ \A s \in DOMAIN runs : runs[s].of # r
    BY <1>0, <2>2, <2>3 DEF Unretried, Exists
  <2>5. ~RetryUnderWay(r)
    <3>1. CASE t = "poller"
      BY <2>4, <3>1 DEF RetryUnderWay
    <3>2. CASE t # "poller"
      <4>1. pc'["poller"] = pc["poller"] /\ task'["poller"] = task["poller"]
        BY <1>2, <3>2, Constants DEF Record, Goto, Typing, TypeOK
      <4> QED BY <2>4, <4>1 DEF RetryUnderWay
    <3> QED BY <3>1, <3>2
  <2> QED BY <2>4, <2>5 DEF Unretried
<1> QED BY <1>1, <1>2

\* What happens by itself loses nothing; an exception or a crash, the retry the tick was in.
LEMMA WorldLost ==
  ASSUME Typing, Typing', Ordered, Retried,
         \/ Clock \/ Crash \/ \E r \in DOMAIN runs : QueryEnds(r)
         \/ \E t \in Threads : Raise(t)
  PROVE  \/ Unretried' \subseteq Unretried /\ mishaps' = mishaps
         \/ \E r : Unretried' \subseteq Unretried \union {r} /\ mishaps' = mishaps + 1
<1>1. CASE Clock
  <2>1. RunsKept /\ Buried /\ UNCHANGED <<runs, pc, task, mishaps>>
    BY <1>1 DEF Clock, RunsKept, Buried, Exists
  <2> QED BY <2>1, SameLost
<1>2. ASSUME NEW x \in DOMAIN runs, QueryEnds(x)
      PROVE  Unretried' \subseteq Unretried /\ mishaps' = mishaps
  <2>1. UNCHANGED <<job, created, pc, task, mishaps>> /\ runs[x].status = "Running"
        /\ \E q : runs' = [runs EXCEPT ![x].query = q]
    BY <1>2 DEF QueryEnds
  <2>2. \A r \in DOMAIN runs : runs'[r].query = runs[r].query \/ runs[r].status = "Running"
    BY <2>1
  <2>3. Buried
    BY <2>1 DEF Buried, Exists
  <2> QED BY <1>2, <2>1, <2>2, <2>3, EndsKeeps, SameLost
<1>3. ASSUME Crash \/ \E t \in Threads : Raise(t)
      PROVE  Unretried' \subseteq Unretried \union {task["poller"].of} /\ mishaps' = mishaps + 1
  <2>1. UNCHANGED <<job, created, runs>> /\ mishaps' = mishaps + 1
    BY <1>3 DEF Crash, Raise
  <2>2. RunsKept /\ Buried
    BY <2>1 DEF RunsKept, Buried, Exists
  <2>3. \A r \in DOMAIN runs : RetryUnderWay(r) => r \in {task["poller"].of}
    BY DEF RetryUnderWay
  <2> QED BY <2>1, <2>2, <2>3, NoneLost
<1> QED BY <1>1, <1>2, <1>3

LEMMA InitLost == Init => LostBounded
<1> SUFFICES ASSUME Init PROVE LostBounded
  OBVIOUS
<1>1. Unretried = {} /\ mishaps = 0
  BY DEF Init, Unretried
<1> QED BY <1>1, FS_EmptySet DEF LostBounded

LEMMA NextLost == Typing /\ Ordered /\ Retried /\ LostBounded /\ [Next]_vars => LostBounded'
<1> SUFFICES ASSUME Typing, Ordered, Retried, LostBounded, [Next]_vars PROVE LostBounded'
  OBVIOUS
<1>1. Typing'
  BY NextTyping
<1>2. CASE Poller
  BY <1>1, <1>2, TickLost, SubmitLost, RecordLost, SettleLost, FewerLost, Constants DEF Poller, Execute
<1>3. ASSUME NEW o \in Operators, Operator(o) PROVE LostBounded'
  BY <1>1, <1>3, OperatorLost, RecordLost, FewerLost, Constants DEF Operator, Execute
<1>4. ASSUME \/ Clock \/ Crash \/ \E r \in DOMAIN runs : QueryEnds(r)
             \/ \E t \in Threads : Raise(t)
      PROVE  LostBounded'
  BY <1>1, <1>4, WorldLost, FewerLost
<1>5. CASE UNCHANGED vars
  BY <1>5 DEF vars, LostBounded, Unretried, RetryUnderWay, Exists
<1> QED BY <1>2, <1>3, <1>4, <1>5 DEF Next

\* A run whose query failed on its first attempt has one retry at most, for the same
\* recipient, and no other run has one; and of the runs of jobs that exist, a crash or an
\* exception keeps one at most from being retried, and nothing else does.
THEOREM RetriedOnceAlways == Spec => []RetriedOnce
<1>1. Retried /\ LostBounded => RetriedOnce
  BY DEF Retried, Retry, LostBounded, RetriedOnce
<1> QED BY <1>1, InitTyping, NextTyping, InitOrdered, NextOrdered, InitRetried, NextRetried,
           InitLost, NextLost, PTL DEF Spec

-------------------------------------------------------------------------------
(* Nobody gets two emails for one time.                                        *)

\* A run is mailed once, when it has been settled.
Mailed ==
  \A r \in DOMAIN runs :
    /\ runs[r].mails <= 1
    /\ runs[r].mails = 1 => /\ runs[r].query = "done" /\ runs[r].who \in Recipients
                            /\ runs[r].status # "Running"

\* The run the poller is about to mail has not been.
Sendable(r) ==
  /\ r \in DOMAIN runs /\ runs[r].mails = 0
  /\ runs[r].query = "done" /\ runs[r].who \in Recipients /\ runs[r].status # "Running"

Sending == pc["poller"] = "send" => Sendable(task["poller"].of)

\* A first run of a due time that was submitted.
First(r) == runs[r].attempt = 1 /\ runs[r].turn > 0 /\ runs[r].query # "none"

FirstsFired ==
  \A r \in DOMAIN runs : First(r) => <<runs[r].job, runs[r].turn, runs[r].who>> \in fired

FirstsDiffer ==
  \A r, s \in DOMAIN runs :
    First(r) /\ First(s) /\ runs[r].job = runs[s].job /\ runs[r].turn = runs[s].turn
      /\ runs[r].who = runs[s].who => r = s

\* What the poller has submitted and not recorded has no run yet.
Unrecorded(k) ==
  /\ <<k.job, k.turn, k.who>> \in fired
  /\ \A r \in DOMAIN runs :
       First(r) => ~(runs[r].job = k.job /\ runs[r].turn = k.turn /\ runs[r].who = k.who)

Submitted == pc["poller"] = "record" /\ task["poller"].attempt = 1
               /\ task["poller"].turn > 0 /\ task["poller"].query = "active"

Recording == Submitted => Unrecorded(task["poller"])

Digests == Mailed /\ Sending /\ FirstsFired /\ FirstsDiffer /\ Recording

LEMMA KeptDigests ==
  ASSUME Typing, Digests, RunsKept, fired \subseteq fired'
  PROVE  FirstsFired' /\ FirstsDiffer' /\ (SameMails => Mailed')
<1>1. \A r \in DOMAIN runs : First(r)' => First(r)
  BY DEF First, RunsKept
<1>2. FirstsFired'
  <2>1. ASSUME NEW r \in DOMAIN runs, First(r)'
        PROVE  <<runs'[r].job, runs'[r].turn, runs'[r].who>> \in fired'
    BY <1>1, <2>1 DEF Digests, FirstsFired, RunsKept
  <2> QED BY <2>1 DEF FirstsFired, RunsKept
<1>3. FirstsDiffer'
  BY <1>1 DEF Digests, FirstsDiffer, RunsKept
<1>4. SameMails => Mailed'
  <2>1. ASSUME SameMails, NEW r \in DOMAIN runs
        PROVE  /\ runs'[r].mails <= 1
               /\ runs'[r].mails = 1 => /\ runs'[r].query = "done" /\ runs'[r].who \in Recipients
                                        /\ runs'[r].status # "Running"
    BY <2>1 DEF SameMails, Digests, Mailed, RunsKept
  <2> QED BY <2>1 DEF Mailed, RunsKept
<1> QED BY <1>2, <1>3, <1>4

\* A step that keeps the runs and does not move the poller to a send or a submission.
LEMMA DigestsFrame ==
  ASSUME Typing, Digests, RunsKept, SameMails, fired' = fired,
         pc'["poller"] = "send" => pc["poller"] = "send" /\ task'["poller"] = task["poller"],
         Submitted' => Submitted /\ task'["poller"] = task["poller"]
  PROVE  Digests'
<1>1. FirstsFired' /\ FirstsDiffer' /\ Mailed'
  BY KeptDigests
<1>2. Sending'
  BY DEF Digests, Sending, Sendable, RunsKept, SameMails
<1>3. Recording'
  <2>1. ASSUME Submitted' PROVE Unrecorded(task["poller"])'
    <3>1. Unrecorded(task["poller"]) /\ task'["poller"] = task["poller"]
      BY <2>1 DEF Digests, Recording
    <3>2. \A r \in DOMAIN runs : First(r)' => First(r)
      BY DEF First, RunsKept
    <3> QED BY <3>1, <3>2 DEF Unrecorded, RunsKept
  <2> QED BY <2>1 DEF Recording
<1> QED BY <1>1, <1>2, <1>3 DEF Digests

\* The same for one that leaves the runs as they are.
LEMMA RunsStayDigests ==
  ASSUME Typing, Digests, runs' = runs, fired' = fired,
         pc'["poller"] = "send" => pc["poller"] = "send" /\ task'["poller"] = task["poller"],
         Submitted' => Submitted /\ task'["poller"] = task["poller"]
  PROVE  Digests'
<1>1. RunsKept /\ SameMails
  BY DEF RunsKept, SameMails
<1> QED BY <1>1, DigestsFrame

LEMMA AbortDigests ==
  ASSUME Typing, Digests, NEW t \in Threads, Abort(t), UNCHANGED <<runs, fired>>
  PROVE  Digests'
<1>1. pc' = [pc EXCEPT ![t] = "idle"] /\ task' = [task EXCEPT ![t] = NoTask]
  BY DEF Abort, Goto
<1>2. /\ t = "poller" => pc'["poller"] = "idle"
      /\ t # "poller" => pc'["poller"] = pc["poller"] /\ task'["poller"] = task["poller"]
  BY <1>1, Constants DEF Typing, TypeOK
<1> QED BY <1>2, RunsStayDigests DEF Submitted

LEMMA OperatorDigests ==
  ASSUME Typing, Typing', Ordered, Digests, NEW o \in Operators,
         CreateJob(o) \/ DeleteJob(o) \/ EditRead(o) \/ EditWrite(o) \/ RunNow(o) \/ Submit(o)
  PROVE  Digests'
<1>1. o \in Threads /\ o # "poller" /\ fired' = fired
  BY OperatorQuiet, Constants DEF Quiet
<1>2. RunsKept /\ SameMails
  <2>1. CASE DeleteJob(o)
    BY <2>1, DeleteKeeps
  <2>2. CASE runs' = runs
    BY <2>2 DEF RunsKept, SameMails
  <2> QED BY <2>1, <2>2 DEF CreateJob, EditRead, EditWrite, RunNow, Submit
<1>3. pc'["poller"] = pc["poller"]
  BY <1>1, Constants DEF CreateJob, DeleteJob, EditRead, EditWrite, RunNow, Submit, Goto, Typing, TypeOK
<1>4. task'["poller"] = task["poller"]
  BY <1>1, Constants DEF CreateJob, DeleteJob, EditRead, EditWrite, RunNow, Submit, Typing, TypeOK
<1> QED BY <1>1, <1>2, <1>3, <1>4, DigestsFrame DEF Submitted

LEMMA WorldDigests ==
  ASSUME Typing, Digests, \/ Clock \/ Crash \/ \E r \in DOMAIN runs : QueryEnds(r)
                          \/ \E t \in Threads : Raise(t)
  PROVE  Digests'
<1>1. CASE Clock
  BY <1>1, RunsStayDigests DEF Clock, Submitted
<1>2. CASE Crash
  <2>1. UNCHANGED <<runs, fired>> /\ pc'["poller"] = "idle"
    BY <1>2, Constants DEF Crash
  <2> QED BY <2>1, RunsStayDigests DEF Submitted
<1>3. ASSUME NEW x \in DOMAIN runs, QueryEnds(x) PROVE Digests'
  <2>1. UNCHANGED <<fired, pc, task>>
    BY <1>3 DEF QueryEnds
  <2> QED BY <1>3, <2>1, EndsKeeps, DigestsFrame DEF Submitted
<1>4. ASSUME NEW t \in Threads, Raise(t) PROVE Digests'
  BY <1>4, AbortDigests DEF Raise
<1> QED BY <1>1, <1>2, <1>3, <1>4

LEMMA TickDigests ==
  ASSUME Typing, Digests, TickRead \/ Take \/ SettleRead \/ TickEnd \/ RecordDelivery
  PROVE  Digests'
<1>1. RunsKept /\ SameMails
  <2>1. CASE runs' = runs
    BY <2>1 DEF RunsKept, SameMails
  <2> QED BY <2>1, DeliveryKeeps DEF TickRead, Take, SettleRead, TickEnd
<1>2. fired' = fired
  BY DEF TickRead, Take, SettleRead, TickEnd, RecordDelivery
<1>3. pc'["poller"] \notin {"send", "record"}
  BY Constants DEF TickRead, Take, SettleRead, TickEnd, RecordDelivery, Goto, Abort, Typing, TypeOK
<1> QED BY <1>1, <1>2, <1>3, DigestsFrame DEF Submitted

LEMMA SettleDigests ==
  ASSUME Typing, Retried, Digests, NEW r \in list, Settle(r)
  PROVE  Digests'
<1>1. RunsKept /\ SameMails /\ fired' = fired /\ r \in DOMAIN runs /\ pc["poller"] = "settle"
  BY SettleKeeps DEF Settle, Typing, TypeOK
<1>2. CASE pc'["poller"] \notin {"send", "record"}
  BY <1>1, <1>2, DigestsFrame DEF Submitted
<1>3. CASE pc'["poller"] \in {"send", "record"}
  <2> DEFINE k == [NoTask EXCEPT !.job = runs[r].job, !.of = r]
  <2>1. /\ task' = [task EXCEPT !["poller"] = k] /\ pc' = [pc EXCEPT !["poller"] = "send"]
        /\ Exists(runs[r].job) /\ IsMailed(r)
    BY <1>1, <1>3, Constants DEF Settle, Goto, Typing, TypeOK
  <2>2. k.of = r
    BY DEF NoTask
  <2> HIDE DEF k
  <2>3. runs[r].status = "Running" /\ runs[r].query = "done" /\ runs[r].who \in Recipients
    BY <1>1, <2>1, RunFacts DEF Retried, Listed, RunsKnown, IsMailed, Who
  <2>4. runs[r].mails = 0
    BY <1>1, <2>3, RunFacts DEF Digests, Mailed
  <2>5. runs'[r].status # "Running"
    <3>1. runs' = Settled(r)
      BY <2>3 DEF Settle
    <3>2. PICK v \in {"Succeeded", "Failed"} : runs' = [runs EXCEPT ![r].status = v]
      BY <2>3, <3>1 DEF Settled
    <3> QED BY <1>1, <3>2, StatusFields
  <2>6. pc'["poller"] = "send" /\ task'["poller"].of = r
    BY <2>1, <2>2, Constants DEF Typing, TypeOK
  <2>7. Sending'
    BY <1>1, <2>3, <2>4, <2>5, <2>6 DEF Sending, Sendable, RunsKept, SameMails
  <2>8. Recording'
    BY <2>6 DEF Recording, Submitted
  <2> QED BY <1>1, <2>7, <2>8, KeptDigests DEF Digests
<1> QED BY <1>2, <1>3

LEMMA SendDigests ==
  ASSUME Typing, Digests, Send
  PROVE  Digests'
<1>1. RunsKept /\ fired' = fired /\ pc["poller"] = "send" /\ pc'["poller"] = "sent"
  BY DeliveryKeeps, Constants DEF Send, Goto, Typing, TypeOK
<1>2. PICK f : f = task["poller"].of
  OBVIOUS
<1>3. Sendable(f)
  BY <1>1, <1>2 DEF Digests, Sending
<1>4. Mailed'
  <2>1. CASE runs' = runs
    BY <2>1 DEF Digests, Mailed
  <2>2. CASE runs' = [runs EXCEPT ![f].mails = @ + 1]
    <3>1. ASSUME NEW r \in DOMAIN runs
          PROVE  /\ runs'[r].mails <= 1
                 /\ runs'[r].mails = 1 => /\ runs'[r].query = "done" /\ runs'[r].who \in Recipients
                                          /\ runs'[r].status # "Running"
      <4>1. CASE r = f
        <5>1. runs'[r] = [runs[r] EXCEPT !.mails = @ + 1]
          BY <2>2, <4>1, MailsFields
        <5>2. /\ runs'[r].mails = runs[r].mails + 1 /\ runs'[r].query = runs[r].query
              /\ runs'[r].who = runs[r].who /\ runs'[r].status = runs[r].status
          BY <5>1, MailsFields
        <5> QED BY <1>3, <4>1, <5>2 DEF Sendable
      <4>2. CASE r # f
        <5>1. runs'[r] = runs[r]
          BY <2>2, <4>2, MailsFields
        <5> QED BY <5>1 DEF Digests, Mailed
      <4> QED BY <4>1, <4>2
    <3> QED BY <1>1, <3>1 DEF Mailed, RunsKept
  <2> QED BY <1>2, <2>1, <2>2 DEF Send
<1>5. Sending' /\ Recording'
  BY <1>1 DEF Sending, Recording, Submitted
<1> QED BY <1>1, <1>4, <1>5, KeptDigests DEF Digests

LEMMA SubmitDigests ==
  ASSUME Typing, Ordered, Digests, Submit("poller")
  PROVE  Digests'
<1>1. PICK who \in task["poller"].todo, query \in {"none", "active"} :
        /\ task' = [task EXCEPT !["poller"].todo = @ \ {who}, !["poller"].who = who, !["poller"].query = query]
        /\ fired' = IF query = "active" /\ task["poller"].turn > 0 /\ task["poller"].attempt = 1
                      THEN fired \union {<<task["poller"].job, task["poller"].turn, who>>} ELSE fired
  BY DEF Submit
<1> DEFINE k == [task["poller"] EXCEPT !.todo = @ \ {who}, !.who = who, !.query = query]
<1>2. runs' = runs /\ pc' = [pc EXCEPT !["poller"] = "record"] /\ pc["poller"] = "submit"
  BY DEF Submit, Goto
<1>3. /\ task' = [task EXCEPT !["poller"] = k] /\ k.job = task["poller"].job
      /\ k.turn = task["poller"].turn /\ k.who = who /\ k.query = query
      /\ k.attempt = task["poller"].attempt
  BY <1>1, Turns, Constants DEF Typing, TypeOK, Task
<1> HIDE DEF k
<1>4. task'["poller"] = k /\ pc'["poller"] = "record"
  BY <1>2, <1>3, Constants DEF Typing, TypeOK
<1>5. RunsKept /\ SameMails /\ fired \subseteq fired'
  BY <1>1, <1>2 DEF RunsKept, SameMails
<1>6. ASSUME Submitted' PROVE Unrecorded(task["poller"])'
  <2>1. k.attempt = 1 /\ k.turn > 0 /\ query = "active"
    BY <1>3, <1>4, <1>6 DEF Submitted
  <2>2. <<k.job, k.turn, who>> \in fired'
    BY <1>1, <1>3, <2>1
  <2>3. <<k.job, k.turn, who>> \notin fired
    BY <1>1, <1>2, <1>3, <2>1 DEF Ordered, Taken, Taking
  <2>4. \A r \in DOMAIN runs :
          First(r) => ~(runs[r].job = k.job /\ runs[r].turn = k.turn /\ runs[r].who = who)
    BY <2>3 DEF Digests, FirstsFired
  <2> QED BY <1>2, <1>3, <1>4, <2>2, <2>4 DEF Unrecorded, First
<1>7. Sending'
  BY <1>4 DEF Sending
<1> QED BY <1>5, <1>6, <1>7, KeptDigests DEF Digests, Recording

LEMMA RecordDigests ==
  ASSUME Typing, Typing', Ordered, Retried, Digests, NEW t \in Threads, Record(t)
  PROVE  Digests'
<1>1. CASE ~Exists(task[t].job)
  BY <1>1, AbortDigests DEF Record
<1>2. CASE Exists(task[t].job)
  <2> PICK k : k = task[t]
    OBVIOUS
  <2> PICK n : n = Len(runs) + 1
    OBVIOUS
  <2> PICK x : x = NewRun(k)
    OBVIOUS
  <2>1. runs' = Append(runs, x) /\ fired' = fired /\ pc[t] = "record" /\ k \in Task
    BY <1>2 DEF Record, Typing, TypeOK
  <2>2. /\ x.job = k.job /\ x.turn = k.turn /\ x.who = k.who /\ x.attempt = k.attempt
        /\ x.query = k.query /\ x.mails = 0
    BY DEF NewRun
  <2>3. /\ DOMAIN runs' = DOMAIN runs \union {n} /\ n \notin DOMAIN runs /\ runs'[n] = x
        /\ \A r \in DOMAIN runs : runs'[r] = runs[r]
    BY <2>1, Appended, RunFacts
  <2>4. First(n)' => t = "poller" /\ Submitted
    <3>1. First(n)' => k.attempt = 1 /\ k.turn > 0 /\ k.query = "active"
      BY <2>1, <2>2, <2>3 DEF First, Task
    <3>2. t \in Operators => k.turn = 0
      BY DEF Ordered, Unturned
    <3> QED BY <2>1, <3>1, <3>2 DEF Submitted, Threads
  <2>5. \A r \in DOMAIN runs : First(r)' = First(r)
    BY <2>3 DEF First
  <2>6. First(n)' => Unrecorded(k)
    BY <2>4 DEF Digests, Recording
  <2>7. FirstsFired'
    <3>1. ASSUME NEW r \in DOMAIN runs', First(r)'
          PROVE  <<runs'[r].job, runs'[r].turn, runs'[r].who>> \in fired'
      BY SMTT(30), <2>1, <2>2, <2>3, <2>5, <2>6, <3>1 DEF Digests, FirstsFired, Unrecorded
    <3> QED BY <3>1 DEF FirstsFired
  <2>8. FirstsDiffer'
    <3>1. ASSUME NEW r \in DOMAIN runs', NEW s \in DOMAIN runs', First(r)', First(s)',
                 runs'[r].job = runs'[s].job, runs'[r].turn = runs'[s].turn, runs'[r].who = runs'[s].who
          PROVE  r = s
      <4>1. CASE r = n \/ s = n
        BY <2>2, <2>3, <2>5, <2>6, <3>1, <4>1 DEF Unrecorded
      <4>2. CASE r \in DOMAIN runs /\ s \in DOMAIN runs
        BY <2>3, <2>5, <3>1, <4>2 DEF Digests, FirstsDiffer
      <4> QED BY <2>3, <4>1, <4>2
    <3> QED BY <3>1 DEF FirstsDiffer
  <2>9. Mailed'
    BY <2>2, <2>3 DEF Digests, Mailed
  <2>10. \/ t = "poller" /\ pc'["poller"] \notin {"send", "record"}
         \/ t # "poller" /\ task'["poller"] = task["poller"] /\ pc'["poller"] = pc["poller"]
    <3>1. \E p \in {"submit", Executed(t)} : pc' = [pc EXCEPT ![t] = p]
      BY <1>2 DEF Record, Goto
    <3>2. Executed(t) \notin {"send", "record"}
      BY <2>1 DEF Executed, Task
    <3>3. t # "poller" => task'["poller"] = task["poller"]
      BY <1>2, Constants DEF Record, Typing, TypeOK
    <3> QED BY <3>1, <3>2, <3>3, Constants DEF Typing, TypeOK
  <2>11. Sending'
    BY <2>3, <2>10 DEF Digests, Sending, Sendable
  <2>12. Recording'
    <3>1. ASSUME Submitted' PROVE Unrecorded(task["poller"])'
      <4>1. t # "poller" /\ task'["poller"] = task["poller"] /\ Submitted
        BY <2>10, <3>1 DEF Submitted
      <4>2. ~First(n)' /\ Unrecorded(task["poller"])
        BY <2>4, <4>1 DEF Digests, Recording
      <4> QED BY <2>1, <2>3, <2>5, <4>1, <4>2 DEF Unrecorded
    <3> QED BY <3>1 DEF Recording
  <2> QED BY <2>7, <2>8, <2>9, <2>11, <2>12 DEF Digests
<1> QED BY <1>1, <1>2

LEMMA InitDigests == Init => Digests
BY Constants DEF Init, Digests, Mailed, Sending, FirstsFired, FirstsDiffer, Recording, Submitted

LEMMA NextDigests == Typing /\ Ordered /\ Retried /\ Digests /\ [Next]_vars => Digests'
<1> SUFFICES ASSUME Typing, Ordered, Retried, Digests, [Next]_vars PROVE Digests'
  OBVIOUS
<1>1. Typing'
  BY NextTyping
<1>2. CASE Poller
  <2>1. CASE Execute("poller")
    BY <1>1, <2>1, SubmitDigests, RecordDigests, Constants DEF Execute
  <2> QED BY <1>2, <2>1, TickDigests, SettleDigests, SendDigests DEF Poller
<1>3. ASSUME NEW o \in Operators, Operator(o) PROVE Digests'
  BY <1>1, <1>3, OperatorDigests, RecordDigests, Constants DEF Operator, Execute
<1>4. CASE UNCHANGED vars
  BY <1>4, RunsStayDigests DEF vars, Submitted
<1> QED BY <1>2, <1>3, <1>4, WorldDigests DEF Next

\* A retry has what the run it is for has, and that run's query failed: of two runs of
\* one time for one recipient, one cannot have been mailed.
LEMMA DigestsAreOne == Typing /\ Retried /\ Digests => OneDigest
<1> SUFFICES ASSUME Typing, Retried, Digests, NEW r \in DOMAIN runs, NEW s \in DOMAIN runs
             PROVE  /\ runs[r].mails <= 1
                    /\ runs[r].mails = 1 => runs[r].query = "done" /\ runs[r].who \in Recipients
                    /\ r # s /\ runs[r].mails = 1 /\ runs[s].mails = 1 =>
                         /\ runs[r].of # s
                         /\ runs[r].turn > 0 /\ runs[r].job = runs[s].job /\ runs[r].who = runs[s].who =>
                              runs[r].turn # runs[s].turn
  BY DEF OneDigest
<1>1. /\ runs[r].mails <= 1
      /\ runs[r].mails = 1 => runs[r].query = "done" /\ runs[r].who \in Recipients
      /\ runs[s].mails = 1 => runs[s].query = "done"
  BY DEF Digests, Mailed
<1>2. ASSUME runs[s].mails = 1 PROVE runs[r].of # s
  BY <1>1, <1>2 DEF Retried, Retry
<1>3. ASSUME r # s, runs[r].mails = 1, runs[s].mails = 1, runs[r].turn > 0,
             runs[r].job = runs[s].job, runs[r].who = runs[s].who, runs[r].turn = runs[s].turn
      PROVE  FALSE
  \* The first run that x is, or is a retry of.
  <2> DEFINE Original(x) == IF runs[x].attempt = 1 THEN x ELSE runs[x].of
  <2>1. ASSUME NEW x \in {r, s}
        PROVE  /\ Original(x) \in DOMAIN runs /\ First(Original(x))
               /\ runs[Original(x)].job = runs[r].job /\ runs[Original(x)].turn = runs[r].turn
               /\ runs[Original(x)].who = runs[r].who
               /\ x # Original(x) => runs[Original(x)].query = "failed" /\ runs[x].of = Original(x)
    <3>1. x \in DOMAIN runs /\ runs[x].query = "done" /\ runs[x].attempt \in {1, 2}
      BY <1>1, <1>3, RunFacts
    <3>2. CASE runs[x].attempt = 1
      BY <1>3, <3>1, <3>2 DEF First
    <3>3. CASE runs[x].attempt = 2
      <4>1. runs[x].of \in DOMAIN runs
        BY <3>1, <3>3, RunFacts DEF Retried, RunsKnown
      <4>2. /\ runs[runs[x].of].attempt = 1 /\ runs[runs[x].of].query = "failed"
            /\ runs[x].who = runs[runs[x].of].who /\ runs[x].job = runs[runs[x].of].job
            /\ runs[x].turn = runs[runs[x].of].turn
        BY <3>1, <4>1 DEF Retried, Retry
      <4> QED BY <1>3, <3>1, <3>3, <4>1, <4>2 DEF First
    <3> QED BY <3>1, <3>2, <3>3
  <2> HIDE DEF Original
  <2>2. Original(r) = Original(s)
    BY <2>1 DEF Digests, FirstsDiffer
  <2>3. Original(r) = r \/ Original(s) = s \/ (runs[r].of = Original(r) /\ runs[s].of = Original(r))
    BY <2>1, <2>2
  <2>4. CASE Original(r) = r \/ Original(s) = s
    BY <1>1, <1>3, <2>1, <2>2, <2>4
  <2>5. CASE runs[r].of = Original(r) /\ runs[s].of = Original(r)
    BY <1>3, <2>1, <2>5 DEF Retried, Retry
  <2> QED BY <2>3, <2>4, <2>5
<1> QED BY <1>1, <1>2, <1>3

\* For each time it fires, a digest sends a recipient one email at most.
THEOREM OneDigestAlways == Spec => []OneDigest
BY InitTyping, NextTyping, InitOrdered, NextOrdered, InitRetried, NextRetried, InitDigests, NextDigests,
   DigestsAreOne, PTL DEF Spec

-------------------------------------------------------------------------------
(* Cron: the moment next_cron_run finds. *)

\* Every non-empty set of naturals has a least element.
LessRel == {pair \in Nat \X Nat : pair[1] < pair[2]}

LEMMA LessIsWellFounded == IsWellFoundedOn(LessRel, Nat)
BY NatLessThanWellFounded DEF OpToRel, LessRel

LEMMA LessIs == ASSUME NEW n \in Nat, NEW m \in Nat, n < m PROVE <<n, m>> \in LessRel
BY DEF LessRel

LEMMA LeastElement ==
  ASSUME NEW S, S \subseteq Nat, S # {} PROVE \E m \in S : \A n \in S : m <= n
<1>1. \E m \in S : \A n \in S : ~(<<n, m>> \in LessRel)
  BY LessIsWellFounded, WFMin
<1>2. PICK m \in S : \A n \in S : <<n, m>> \notin LessRel
  BY <1>1
<1>3. ASSUME NEW n \in S PROVE m <= n
  <2>1. n \in Nat /\ m \in Nat
    OBVIOUS
  <2>2. <<n, m>> \notin LessRel
    BY <1>2
  <2>3. ~(n < m)
    BY <2>1, <2>2, LessIs
  <2> QED BY <2>1, <2>3
<1> QED BY <1>3

\* Division.
LEMMA DivMod ==
  ASSUME NEW a \in Nat, NEW b \in Nat \ {0}
  PROVE  a \div b \in Nat /\ a % b \in 0 .. b - 1 /\ a = (a \div b) * b + (a % b)
OBVIOUS

LEMMA TimesMonotone ==
  ASSUME NEW p \in Nat, NEW q \in Nat, NEW b \in Nat, p < q
  PROVE  p * b + b <= q * b
<1>1. q * b = p * b + (q - p) * b /\ q - p \in Nat /\ q - p >= 1
  OBVIOUS
<1>2. \A k \in Nat : k >= 1 => k * b >= b
  OBVIOUS
<1> QED BY <1>1, <1>2

LEMMA DivUnique ==
  ASSUME NEW b \in Nat \ {0}, NEW q \in Nat, NEW r \in 0 .. b - 1
  PROVE  (q * b + r) \div b = q /\ (q * b + r) % b = r
<1> DEFINE a == q * b + r
           p == a \div b
<1>0. q * b \in Nat /\ a \in Nat
  OBVIOUS
<1> HIDE DEF a
<1>1. p \in Nat /\ a % b \in 0 .. b - 1 /\ a = p * b + (a % b)
  BY <1>0, DivMod
<1>2. p * b \in Nat
  BY <1>1
<1>3. ~(p < q)
  <2> SUFFICES ASSUME p < q PROVE FALSE
    OBVIOUS
  <2>1. p * b + b <= q * b
    BY <1>1, TimesMonotone
  <2> QED BY <1>0, <1>1, <1>2, <2>1 DEF a
<1>4. ~(q < p)
  <2> SUFFICES ASSUME q < p PROVE FALSE
    OBVIOUS
  <2>1. q * b + b <= p * b
    BY <1>1, TimesMonotone
  <2> QED BY <1>0, <1>1, <1>2, <2>1 DEF a
<1> HIDE DEF p
<1>5. p = q
  <2>1. p \in Nat
    BY <1>1
  <2> QED BY <1>3, <1>4, <2>1
<1>6. a % b = r
  BY <1>0, <1>1, <1>5 DEF a
<1> QED BY <1>5, <1>6 DEF a, p

\* The calendar.
LEMMA Clocks == Minutes \in Nat \ {0} /\ Hours \in Nat \ {0} /\ SearchDays \in Nat
BY CronAssumption

LEMMA MomentParts ==
  ASSUME NEW d \in Nat, NEW h \in 0 .. Hours - 1, NEW m \in 0 .. Minutes - 1
  PROVE  /\ Moment(d, h, m) \in Nat
         /\ Minute(Moment(d, h, m)) = m /\ Hour(Moment(d, h, m)) = h /\ Day(Moment(d, h, m)) = d
<1> DEFINE k == d * Hours + h
           t == k * Minutes + m
<1>1. Minutes \in Nat \ {0} /\ Hours \in Nat \ {0} /\ h \in Nat /\ m \in Nat
  BY Clocks
<1>2. d * Hours \in Nat
  BY <1>1
<1>3. k \in Nat /\ k \div Hours = d /\ k % Hours = h
  BY <1>1, <1>2, DivUnique
<1> HIDE DEF k
<1>4. k * Minutes \in Nat
  BY <1>1, <1>3
<1>5. t \in Nat /\ t \div Minutes = k /\ t % Minutes = m
  BY <1>1, <1>3, <1>4, DivUnique
<1>6. t \div (Hours * Minutes) = d
  <2> DEFINE b == Hours * Minutes
             r == h * Minutes + m
  <2>1. b \in Nat \ {0} /\ h * Minutes \in Nat
    BY <1>1
  <2>2. h + 1 <= Hours /\ h + 1 \in Nat
    BY <1>1
  <2>3. h * Minutes + Minutes <= Hours * Minutes
    BY <1>1, <2>2, TimesMonotone
  <2>4. r \in 0 .. b - 1
    BY <1>1, <2>1, <2>3
  <2>5. t = d * b + r
    <3>1. (d * Hours + h) * Minutes = d * (Hours * Minutes) + h * Minutes
      BY <1>1
    <3> QED BY <1>1, <1>2, <2>1, <3>1 DEF k
  <2> HIDE DEF b, r, t
  <2>6. (d * b + r) \div b = d
    BY <2>1, <2>4, DivUnique
  <2> QED BY <2>5, <2>6 DEF b
<1>7. Moment(d, h, m) = t
  BY DEF Moment, k
<1> HIDE DEF t
<1> QED BY <1>3, <1>5, <1>6, <1>7 DEF Minute, Hour, Day

LEMMA PartsOf ==
  ASSUME NEW t \in Nat
  PROVE  /\ Day(t) \in Nat /\ Hour(t) \in 0 .. Hours - 1 /\ Minute(t) \in 0 .. Minutes - 1
         /\ t = Moment(Day(t), Hour(t), Minute(t))
<1> DEFINE k == t \div Minutes
           d == k \div Hours
<1>1. Minutes \in Nat \ {0} /\ Hours \in Nat \ {0}
  BY Clocks
<1>2. k \in Nat /\ t % Minutes \in 0 .. Minutes - 1 /\ t = k * Minutes + (t % Minutes)
  BY <1>1, DivMod
<1> HIDE DEF k
<1>3. d \in Nat /\ k % Hours \in 0 .. Hours - 1 /\ k = d * Hours + (k % Hours)
  BY <1>1, <1>2, DivMod
<1> HIDE DEF d
<1>4. Hour(t) = k % Hours /\ Minute(t) = t % Minutes
  BY DEF Hour, Minute, k
<1>5. t = Moment(d, Hour(t), Minute(t))
  BY <1>2, <1>3, <1>4 DEF Moment
<1>6. Day(t) = d
  BY <1>2, <1>3, <1>4, <1>5, MomentParts
<1> QED BY <1>2, <1>3, <1>4, <1>5, <1>6

\* Moments come in the order of their days, their hours and their minutes.
LEMMA MomentOrder ==
  ASSUME NEW d \in Nat, NEW h \in 0 .. Hours - 1, NEW m \in 0 .. Minutes - 1,
         NEW e \in Nat, NEW i \in 0 .. Hours - 1, NEW n \in 0 .. Minutes - 1
  PROVE  Moment(d, h, m) <= Moment(e, i, n) <=> (d < e \/ (d = e /\ (h < i \/ (h = i /\ m <= n))))
<1> DEFINE j == d * Hours + h
           k == e * Hours + i
<1>1. Minutes \in Nat \ {0} /\ Hours \in Nat \ {0}
  BY Clocks
<1>2. d * Hours \in Nat /\ e * Hours \in Nat
  BY <1>1
<1>3. j \in Nat /\ k \in Nat
  BY <1>2
<1>4. (d < e => j < k) /\ (e < d => k < j) /\ (d = e => (j <= k <=> h <= i) /\ (j < k <=> h < i))
  <2>1. (d < e => d * Hours + Hours <= e * Hours) /\ (e < d => e * Hours + Hours <= d * Hours)
    BY <1>1, TimesMonotone
  <2> QED BY <1>1, <1>2, <2>1
<1> HIDE DEF j, k
<1>5. j * Minutes \in Nat /\ k * Minutes \in Nat
  BY <1>1, <1>3
<1>6. (j < k => j * Minutes + Minutes <= k * Minutes) /\ (k < j => k * Minutes + Minutes <= j * Minutes)
  BY <1>1, <1>3, TimesMonotone
<1>7. (j < k => j * Minutes + m < k * Minutes + n) /\ (k < j => k * Minutes + n < j * Minutes + m)
      /\ (j = k => (j * Minutes + m <= k * Minutes + n <=> m <= n))
  BY <1>1, <1>5, <1>6
<1>8. Moment(d, h, m) = j * Minutes + m /\ Moment(e, i, n) = k * Minutes + n
  BY DEF Moment, j, k
<1>9. j * Minutes + m <= k * Minutes + n <=> (j < k \/ (j = k /\ m <= n))
  <2> DEFINE x == j * Minutes + m
             y == k * Minutes + n
  <2>1. x \in Nat /\ y \in Nat /\ (j < k => x < y) /\ (k < j => y < x) /\ (j = k => (x <= y <=> m <= n))
    BY <1>1, <1>5, <1>7
  <2> HIDE DEF x, y
  <2>2. x <= y <=> (j < k \/ (j = k /\ m <= n))
    BY <1>3, <2>1
  <2> QED BY <2>2 DEF x, y
<1>10. (j < k \/ (j = k /\ m <= n)) <=> (d < e \/ (d = e /\ (h < i \/ (h = i /\ m <= n))))
  BY <1>1, <1>3, <1>4
<1> QED BY <1>8, <1>9, <1>10

\* The first match of a day is in the day, not before it is entered, and no match of the rest of the day comes before it.
LEMMA FirstOfDayIs ==
  ASSUME NEW cron, cron.minute \subseteq 0 .. Minutes - 1, cron.hour \subseteq 0 .. Hours - 1, NEW c \in Nat, c >= 1
  PROVE  /\ FirstOfDay(cron, c) # Never =>
              /\ FirstOfDay(cron, c) \in Nat /\ c <= FirstOfDay(cron, c) /\ Day(FirstOfDay(cron, c)) = Day(c)
              /\ MatchesMinute(cron, FirstOfDay(cron, c))
         /\ \A x \in Nat : c <= x /\ Day(x) = Day(c) /\ MatchesMinute(cron, x) =>
              FirstOfDay(cron, c) # Never /\ FirstOfDay(cron, c) <= x
<1> DEFINE hours == {h \in cron.hour : h >= Hour(c) /\ MinutesLeft(cron, c, h) # {}}
           hour  == CHOOSE h \in hours : \A g \in hours : h <= g
           left  == MinutesLeft(cron, c, hour)
           minute == CHOOSE m \in left : \A n \in left : m <= n
           found == Moment(Day(c), hour, minute)
           first == FirstOfDay(cron, c)
<1>1. first = IF ~DayMatches(cron, Day(c)) \/ hours = {} THEN Never ELSE found
  BY DEF FirstOfDay
<1>2. Day(c) \in Nat /\ Hour(c) \in 0 .. Hours - 1 /\ Minute(c) \in 0 .. Minutes - 1 /\ c = Moment(Day(c), Hour(c), Minute(c))
  BY PartsOf
<1>3. Hours \in Nat /\ Minutes \in Nat
  BY Clocks
<1>4. ASSUME hours # {}
      PROVE  /\ hour \in hours /\ (\A g \in hours : hour <= g) /\ minute \in left /\ (\A n \in left : minute <= n)
             /\ hour \in 0 .. Hours - 1 /\ minute \in 0 .. Minutes - 1 /\ left \subseteq cron.minute
  <2>1. hours \subseteq Nat
    BY <1>3
  <2>2. \E h \in hours : \A g \in hours : h <= g
    BY <1>4, <2>1, LeastElement
  <2>3. hour \in hours /\ \A g \in hours : hour <= g
    BY <2>2
  <2>4. left # {} /\ left \subseteq cron.minute /\ hour \in 0 .. Hours - 1
    BY <2>3 DEF MinutesLeft
  <2> HIDE DEF hours, hour, left
  <2>5. left \subseteq Nat
    BY <1>3, <2>4
  <2>6. \E m \in left : \A n \in left : m <= n
    BY <2>4, <2>5, LeastElement
  <2>7. minute \in left /\ \A n \in left : minute <= n
    BY <2>6
  <2> QED BY <2>3, <2>4, <2>7
<1>5. \A h : left = MinutesLeft(cron, c, hour) /\ MinutesLeft(cron, c, h) = {m \in cron.minute : h = Hour(c) => m >= Minute(c)}
  BY DEF MinutesLeft
<1>6. \A h : h \in hours <=> h \in cron.hour /\ h >= Hour(c) /\ MinutesLeft(cron, c, h) # {}
  OBVIOUS
<1> HIDE DEF hours, hour, left, minute
<1>7. ASSUME first # Never
      PROVE  first \in Nat /\ c <= first /\ Day(first) = Day(c) /\ MatchesMinute(cron, first)
  <2>1. DayMatches(cron, Day(c)) /\ hours # {} /\ first = found
    BY <1>1, <1>7
  <2>2. found \in Nat /\ Minute(found) = minute /\ Hour(found) = hour /\ Day(found) = Day(c)
    BY <1>2, <1>4, <2>1, MomentParts
  <2>3. hour \in cron.hour /\ hour >= Hour(c) /\ minute \in cron.minute /\ (hour = Hour(c) => minute >= Minute(c))
    BY <1>4, <1>5, <1>6, <2>1
  <2>4. Moment(Day(c), Hour(c), Minute(c)) <= found
    <3>1. Hour(c) < hour \/ (Hour(c) = hour /\ Minute(c) <= minute)
      BY <1>2, <1>3, <1>4, <2>1, <2>3
    <3> QED BY <1>2, <1>4, <2>1, <3>1, MomentOrder
  <2> HIDE DEF found, first
  <2> QED BY <1>2, <2>1, <2>2, <2>3, <2>4 DEF MatchesMinute
<1>8. ASSUME NEW x \in Nat, c <= x, Day(x) = Day(c), MatchesMinute(cron, x)
      PROVE  first # Never /\ first <= x
  <2>1. Hour(x) \in 0 .. Hours - 1 /\ Minute(x) \in 0 .. Minutes - 1 /\ x = Moment(Day(c), Hour(x), Minute(x))
    BY <1>8, PartsOf
  <2>2. Hour(x) \in cron.hour /\ Minute(x) \in cron.minute /\ DayMatches(cron, Day(c))
    BY <1>8 DEF MatchesMinute
  <2>3. Hour(c) < Hour(x) \/ (Hour(c) = Hour(x) /\ Minute(c) <= Minute(x))
    BY <1>2, <1>8, <2>1, MomentOrder
  <2>4. Minute(x) \in MinutesLeft(cron, c, Hour(x))
    BY <1>2, <1>3, <1>5, <2>1, <2>2, <2>3
  <2>5. Hour(x) \in hours
    BY <1>2, <1>3, <1>6, <2>1, <2>2, <2>3, <2>4
  <2>6. first = found
    BY <1>1, <2>2, <2>5
  <2>7. hour <= Hour(x) /\ (hour = Hour(x) => minute <= Minute(x))
    BY <1>4, <1>5, <2>4, <2>5
  <2>8. found <= x
    <3>1. hour \in 0 .. Hours - 1 /\ minute \in 0 .. Minutes - 1
      BY <1>4, <2>5
    <3>2. hour < Hour(x) \/ (hour = Hour(x) /\ minute <= Minute(x))
      BY <1>3, <2>1, <2>7, <3>1
    <3>3. Moment(Day(c), hour, minute) <= Moment(Day(c), Hour(x), Minute(x))
      BY <1>2, <2>1, <3>1, <3>2, MomentOrder
    <3> QED BY <2>1, <3>3
  <2>9. found # Never
    <3>1. Moment(Day(c), Hour(c), Minute(c)) <= found
      <4>1. hour \in 0 .. Hours - 1 /\ minute \in 0 .. Minutes - 1 /\ hour >= Hour(c) /\ (hour = Hour(c) => minute >= Minute(c))
        BY <1>4, <1>5, <1>6, <2>5
      <4>2. Hour(c) < hour \/ (Hour(c) = hour /\ Minute(c) <= minute)
        BY <1>2, <1>3, <4>1
      <4> QED BY <1>2, <4>1, <4>2, MomentOrder
    <3>2. found \in Nat
      BY <1>2, <1>4, <2>5, MomentParts
    <3> HIDE DEF found
    <3> QED BY <1>2, <3>1, <3>2 DEF Never
  <2> QED BY <2>6, <2>8, <2>9
<1> QED BY <1>7, <1>8

\* The days that are searched, one after the other.
LEMMA SearchIs ==
  ASSUME NEW cron, cron.minute \subseteq 0 .. Minutes - 1, cron.hour \subseteq 0 .. Hours - 1, NEW c \in Nat, c >= 1
  PROVE  /\ SearchFrom(cron, c) # Never =>
              /\ SearchFrom(cron, c) \in Nat /\ c <= SearchFrom(cron, c) /\ MatchesMinute(cron, SearchFrom(cron, c))
              /\ SearchFrom(cron, c) < Moment(Day(c) + SearchDays, 0, 0)
         /\ \A x \in Nat : c <= x /\ x < Moment(Day(c) + SearchDays, 0, 0) /\ MatchesMinute(cron, x) =>
              SearchFrom(cron, c) # Never /\ SearchFrom(cron, c) <= x
<1> DEFINE entered == [n \in 1 .. SearchDays |-> IF n = 1 THEN c ELSE Moment(Day(c) + n - 1, 0, 0)]
           found == {n \in DOMAIN entered : FirstOfDay(cron, entered[n]) # Never}
           least == CHOOSE n \in found : \A k \in found : n <= k
           next == SearchFrom(cron, c)
<1>1. next = IF found = {} THEN Never ELSE FirstOfDay(cron, entered[least])
  BY DEF SearchFrom
<1>2. Minutes \in Nat \ {0} /\ Hours \in Nat \ {0} /\ SearchDays \in Nat /\ 0 \in 0 .. Hours - 1 /\ 0 \in 0 .. Minutes - 1
  BY Clocks
<1>3. Day(c) \in Nat /\ Hour(c) \in 0 .. Hours - 1 /\ Minute(c) \in 0 .. Minutes - 1 /\ c = Moment(Day(c), Hour(c), Minute(c))
  BY PartsOf
<1>4. ASSUME NEW n \in 1 .. SearchDays
      PROVE  /\ entered[n] \in Nat /\ entered[n] >= 1 /\ Day(entered[n]) = Day(c) + n - 1 /\ c <= entered[n]
             /\ n # 1 => entered[n] = Moment(Day(c) + n - 1, 0, 0)
             /\ n = 1 => entered[n] = c
  <2>1. CASE n = 1
    BY <1>3, <2>1
  <2>2. CASE n # 1
    <3> DEFINE d == Day(c) + n - 1
    <3>1. d \in Nat /\ Day(c) < d
      BY <1>2, <1>3, <2>2
    <3>2. entered[n] = Moment(d, 0, 0)
      BY <2>2
    <3> HIDE DEF d, entered
    <3>3. Moment(d, 0, 0) \in Nat /\ Day(Moment(d, 0, 0)) = d
      BY <1>2, <3>1, MomentParts
    <3>4. c <= Moment(d, 0, 0)
      BY <1>2, <1>3, <3>1, MomentOrder
    <3> QED BY <2>2, <3>2, <3>3, <3>4 DEF d
  <2> QED BY <2>1, <2>2
<1>5. DOMAIN entered = 1 .. SearchDays
  OBVIOUS
<1>6. \A n : n \in found <=> n \in 1 .. SearchDays /\ FirstOfDay(cron, entered[n]) # Never
  BY <1>5
<1> HIDE DEF entered, found
<1>7. found \subseteq Nat
  BY <1>2, <1>6
<1>8. found # {} => least \in found /\ \A k \in found : least <= k
  <2> SUFFICES ASSUME found # {} PROVE least \in found /\ \A k \in found : least <= k
    OBVIOUS
  <2>1. \E n \in found : \A k \in found : n <= k
    BY <1>7, LeastElement
  <2> QED BY <2>1
<1> HIDE DEF least
<1>9. ASSUME NEW n \in 1 .. SearchDays
      PROVE  /\ FirstOfDay(cron, entered[n]) # Never =>
                  /\ FirstOfDay(cron, entered[n]) \in Nat /\ entered[n] <= FirstOfDay(cron, entered[n])
                  /\ Day(FirstOfDay(cron, entered[n])) = Day(c) + n - 1 /\ MatchesMinute(cron, FirstOfDay(cron, entered[n]))
             /\ \A x \in Nat : entered[n] <= x /\ Day(x) = Day(c) + n - 1 /\ MatchesMinute(cron, x) =>
                  FirstOfDay(cron, entered[n]) # Never /\ FirstOfDay(cron, entered[n]) <= x
  BY <1>4, FirstOfDayIs
<1>10. ASSUME next # Never
       PROVE  next \in Nat /\ c <= next /\ MatchesMinute(cron, next) /\ next < Moment(Day(c) + SearchDays, 0, 0)
  <2>1. least \in 1 .. SearchDays /\ next = FirstOfDay(cron, entered[least])
    BY <1>1, <1>6, <1>8, <1>10
  <2> HIDE DEF next
  <2>2. next \in Nat /\ entered[least] <= next /\ MatchesMinute(cron, next)
    BY <1>9, <1>10, <2>1
  <2>3. entered[least] \in Nat /\ c <= entered[least]
    BY <1>4, <2>1
  <2>4. next < Moment(Day(c) + SearchDays, 0, 0)
    <3> DEFINE e == Day(c) + SearchDays
    <3>1. Day(next) = Day(c) + least - 1
      BY <1>9, <1>10, <2>1
    <3>2. e \in Nat /\ Day(next) < e
      BY <1>2, <1>3, <2>1, <3>1
    <3> HIDE DEF e
    <3>3. /\ Day(next) \in Nat /\ Hour(next) \in 0 .. Hours - 1 /\ Minute(next) \in 0 .. Minutes - 1
          /\ next = Moment(Day(next), Hour(next), Minute(next))
      BY <2>2, PartsOf
    <3>4. ~(Moment(e, 0, 0) <= next)
      BY <1>2, <3>2, <3>3, MomentOrder
    <3>5. Moment(e, 0, 0) \in Nat
      BY <1>2, <3>2, MomentParts
    <3> QED BY <2>2, <3>4, <3>5 DEF e
  <2> QED BY <2>2, <2>3, <2>4
<1>11. ASSUME NEW x \in Nat, c <= x, x < Moment(Day(c) + SearchDays, 0, 0), MatchesMinute(cron, x)
       PROVE  next # Never /\ next <= x
  <2>1. Day(x) \in Nat /\ Hour(x) \in 0 .. Hours - 1 /\ Minute(x) \in 0 .. Minutes - 1 /\ x = Moment(Day(x), Hour(x), Minute(x))
    BY PartsOf
  <2>2. Day(c) <= Day(x)
    BY <1>3, <1>11, <2>1, MomentOrder
  <2>3. Day(x) < Day(c) + SearchDays
    <3> SUFFICES ASSUME ~(Day(x) < Day(c) + SearchDays) PROVE FALSE
      OBVIOUS
    <3> DEFINE e == Day(c) + SearchDays
    <3>1. e \in Nat /\ e <= Day(x)
      BY <1>2, <1>3, <2>1
    <3> HIDE DEF e
    <3>2. e < Day(x) \/ (e = Day(x) /\ (0 < Hour(x) \/ (0 = Hour(x) /\ 0 <= Minute(x))))
      BY <1>2, <2>1, <3>1
    <3>3. Moment(e, 0, 0) <= x
      BY <1>2, <2>1, <3>1, <3>2, MomentOrder
    <3>4. Moment(e, 0, 0) \in Nat
      BY <1>2, <3>1, MomentParts
    <3> QED BY <1>11, <3>3, <3>4 DEF e
  <2> DEFINE n == Day(x) - Day(c) + 1
  <2>4. n \in 1 .. SearchDays /\ Day(x) = Day(c) + n - 1
    BY <1>2, <1>3, <2>1, <2>2, <2>3
  <2> HIDE DEF n
  <2>5. entered[n] <= x
    <3>1. CASE n = 1
      BY <1>4, <1>11, <2>4, <3>1
    <3>2. CASE n # 1
      <4>1. entered[n] = Moment(Day(x), 0, 0)
        BY <1>4, <2>4, <3>2
      <4>2. 0 < Hour(x) \/ (0 = Hour(x) /\ 0 <= Minute(x))
        BY <1>2, <2>1
      <4>3. Moment(Day(x), 0, 0) <= x
        BY <1>2, <2>1, <4>2, MomentOrder
      <4> QED BY <4>1, <4>3
    <3> QED BY <3>1, <3>2
  <2>6. FirstOfDay(cron, entered[n]) # Never /\ FirstOfDay(cron, entered[n]) <= x
    BY <1>9, <1>11, <2>4, <2>5
  <2>7. n \in found
    BY <1>6, <2>4, <2>6
  <2>8. least \in 1 .. SearchDays /\ least <= n /\ FirstOfDay(cron, entered[least]) # Never /\ next = FirstOfDay(cron, entered[least])
    BY <1>1, <1>6, <1>8, <2>7
  <2>9. CASE least = n
    BY <2>6, <2>8, <2>9
  <2>10. CASE least < n
    <3> HIDE DEF next
    <3>1. next \in Nat /\ Day(next) = Day(c) + least - 1
      BY <1>9, <2>8
    <3>2. Day(next) < Day(x)
      BY <1>2, <1>3, <2>4, <2>8, <2>10, <3>1
    <3>3. Day(next) \in Nat /\ Hour(next) \in 0 .. Hours - 1 /\ Minute(next) \in 0 .. Minutes - 1
          /\ next = Moment(Day(next), Hour(next), Minute(next))
      BY <3>1, PartsOf
    <3>4. next <= x
      BY <2>1, <3>2, <3>3, MomentOrder
    <3> QED BY <2>8, <3>4
  <2> QED BY <1>2, <2>4, <2>8, <2>9, <2>10
<1> HIDE DEF next
<1> QED BY <1>10, <1>11 DEF next

\* The values of a field that is accepted are within its bounds.
LEMMA ValuesWithin ==
  ASSUME NEW field \in Seq(Part), NEW low \in Nat, NEW high \in Nat, Valid(field, low, high)
  PROVE  Values(field, low, high) \subseteq low .. high
<1> SUFFICES ASSUME NEW i \in DOMAIN field PROVE Steps(field[i], low, high) \subseteq low .. high
  BY DEF Values
<1> DEFINE b == Bounds(field[i], low, high)
<1>1. field[i] \in Part
  OBVIOUS
<1>2. b[1] \in Nat /\ b[2] \in Nat
  BY <1>1 DEF Bounds, Part
<1>3. low <= b[1] /\ b[2] <= high
  BY DEF Valid
<1>4. \A n \in Steps(field[i], low, high) : n \in b[1] .. b[2]
  BY DEF Steps
<1> HIDE DEF b
<1> QED BY <1>2, <1>3, <1>4

CronInv == expression \in CronFields /\ Accepted(expression) /\ after \in Nat

LEMMA CronHolds == CronSpec => []CronInv
<1>1. CronInit => CronInv
  BY DEF CronInit, CronInv
<1>2. CronInv /\ [PassMinute]_cronVars => CronInv'
  <2>1. Accepted(expression) /\ expression' = expression => Accepted(expression')
    OBVIOUS
  <2> QED BY <2>1 DEF CronInv, PassMinute, cronVars
<1> QED BY <1>1, <1>2, PTL DEF CronSpec

\* next_cron_run gives the first minute after the one it is asked about that matches the expression, and none
\* only if none matches in the days it searches; for any calendar and any expressions.
THEOREM FirstRunHolds == CronSpec => []NextRunIsFirst
<1>1. ASSUME CronInv PROVE NextRunIsFirst
  <2> DEFINE cron == Parsed(expression)
             c == after + 1
             next == NextCronRun
             end == Moment(Day(after + 1) + SearchDays, 0, 0)
             last == end - 1
  <2>1. expression \in [minute : Seq(Part), hour : Seq(Part), dom : Seq(Part), month : Seq(Part), dow : Seq(Part)]
    BY <1>1, CronAssumption DEF CronInv
  <2>2. cron.minute \subseteq 0 .. Minutes - 1 /\ cron.hour \subseteq 0 .. Hours - 1
    <3>1. Minutes - 1 \in Nat /\ Hours - 1 \in Nat
      BY Clocks
    <3>2. cron.minute = Values(expression.minute, 0, Minutes - 1) /\ cron.hour = Values(expression.hour, 0, Hours - 1)
      BY DEF Parsed
    <3>3. Valid(expression.minute, 0, Minutes - 1) /\ Valid(expression.hour, 0, Hours - 1)
      BY <1>1 DEF CronInv, Accepted
    <3> QED BY <2>1, <3>1, <3>2, <3>3, ValuesWithin
  <2>3. c \in Nat /\ c >= 1 /\ after \in Nat
    BY <1>1 DEF CronInv
  <2>4. next = SearchFrom(cron, c)
    BY DEF NextCronRun
  <2>5. end \in Nat
    <3>1. Day(after + 1) + SearchDays \in Nat /\ 0 \in 0 .. Hours - 1 /\ 0 \in 0 .. Minutes - 1
      BY <2>3, Clocks, PartsOf
    <3> QED BY <3>1, MomentParts
  <2> HIDE DEF cron
  <2>6. (next # Never => next \in Nat /\ c <= next /\ MatchesMinute(cron, next) /\ next < end)
        /\ \A x \in Nat : c <= x /\ x < end /\ MatchesMinute(cron, x) => next # Never /\ next <= x
    BY <2>2, <2>3, <2>4, SearchIs
  <2> HIDE DEF next, end
  <2>7. next = Never => ~(\E t \in after + 1 .. last : MatchesMinute(cron, t))
    BY <2>3, <2>5, <2>6
  <2>8. next # Never => next > after /\ MatchesMinute(cron, next) /\ ~(\E t \in after + 1 .. next - 1 : MatchesMinute(cron, t))
    <3> SUFFICES ASSUME next # Never, NEW t \in after + 1 .. next - 1, MatchesMinute(cron, t) PROVE FALSE
      BY <2>3, <2>6
    <3>1. next \in Nat /\ t \in Nat /\ c <= t /\ t < next
      BY <2>3, <2>6
    <3>2. t < end
      BY <2>5, <2>6, <3>1
    <3> QED BY <2>6, <3>1, <3>2
  <2> QED BY <2>7, <2>8 DEF NextRunIsFirst, cron, next, end
<1> QED BY <1>1, CronHolds, PTL
=============================================================================
