---------------------------- MODULE ScheduledJobs ----------------------------
(***************************************************************************)
(* Scheduled jobs: the scheduler's tick (poll_scheduled_jobs_once), which    *)
(* fires what is due, settles the runs whose queries have ended, emails       *)
(* digests and retries failures, against operators who create, edit, run and  *)
(* delete jobs.                                                              *)
(*                                                                          *)
(* A handler is cut at every read it decides from, every transaction and      *)
(* every call of the query path or the mail provider.  A query is what        *)
(* QueryRun makes of it: refused, or active until it ends.                    *)
(*                                                                          *)
(* Left out: the statement, names, the rules for recipients, last_status, the *)
(* history's columns and the notifications.                                  *)
(***************************************************************************)
EXTENDS Naturals, Sequences, FiniteSets

CONSTANTS
  Jobs,        \* each is created at most once: a row's id is not used again
  NoJob,       \* what an id without a row has
  Recipients,  \* of digests
  Schedules,
  NextRun(_, _), \* NextRun(s, t): the first time of s after t, 0 if next_cron_run finds none
  Operators,   \* threads that serve the API
  MaxTime,     \* bound: the clock stops there
  MaxCalls,    \* bound: edits and runs asked for by operators
  MaxMishaps   \* bound: crashes, and exceptions nobody expects

ASSUME TimeAssumption ==
  /\ MaxTime \in Nat /\ MaxCalls \in Nat /\ MaxMishaps \in Nat
  /\ \A s \in Schedules, t \in 0..MaxTime : NextRun(s, t) \in Nat /\ (NextRun(s, t) = 0 \/ NextRun(s, t) > t)
ASSUME NamesAssumption == "run_as" \notin Recipients /\ "poller" \notin Operators /\ Schedules # {}

VARIABLES
  now,
  job,      \* job[j]: the row of scheduled_jobs
  created,  \* ids given out
  runs,     \* rows of scheduled_job_runs by id; "Gone" once deleted with their job
  pc, task, \* each thread's place, and the execution of a job it is in
  due,      \* the rows the tick has read and not taken yet
  at,       \* now_dt of the tick
  list,     \* the runs the tick has still to settle
  edit,     \* edit[o]: what operator o's update_job is about to write
  fired,    \* what the scheduler has submitted: job, turn, for whom
  calls, mishaps

vars == <<now, job, created, runs, pc, task, due, at, list, edit, fired, calls, mishaps>>

-------------------------------------------------------------------------------
Threads == Operators \union {"poller"}
Who     == Recipients \union {"run_as"}

\* turn numbers the values next_run_at has had.
Row == [enabled : BOOLEAN, schedule : Schedules, next : Nat, turn : Nat, recipients : SUBSET Recipients]
ASSUME NoJobAssumption == NoJob \notin Row

\* of is the run a retry is for, turn the one its execution began with: 0 for "run now".
Run == [job : Jobs, turn : Nat, who : Who, attempt : {1, 2}, of : Nat,
        status : {"Running", "Succeeded", "Failed", "Gone"},
        query : {"none", "active", "done", "failed"}, mails : Nat, delivery : {"none", "sent", "failed"}]

\* todo: for whom it has yet to be submitted; who and query: what it was submitted as last.
Task   == [job : Jobs \union {NoJob}, turn : Nat, attempt : {1, 2}, of : Nat, todo : SUBSET Who,
           who : Who, query : {"none", "active"}]
NoTask == [job |-> NoJob, turn |-> 0, attempt |-> 1, of |-> 0, todo |-> {}, who |-> "run_as",
           query |-> "none"]

Dues   == [job : Jobs, schedule : Schedules, turn : Nat, recipients : SUBSET Recipients]
Edits  == [job : Jobs \union {NoJob}, kind : {"none", "pause", "unpause", "resume", "reschedule", "recipients"},
           schedule : Schedules, next : Nat, recipients : SUBSET Recipients]
NoEdit == [job |-> NoJob, kind |-> "none", schedule |-> CHOOSE s \in Schedules : TRUE, next |-> 0,
           recipients |-> {}]

TickPcs == {"fire", "settle", "send", "sent"}

TypeOK ==
  /\ now \in 0..MaxTime /\ at \in 0..MaxTime
  /\ job \in [Jobs -> Row \union {NoJob}] /\ created \subseteq Jobs
  /\ runs \in Seq(Run)
  /\ pc \in [Threads -> {"idle", "submit", "record", "edit"} \union TickPcs]
  /\ task \in [Threads -> Task]
  /\ due \subseteq Dues /\ list \subseteq DOMAIN runs
  /\ edit \in [Operators -> Edits]
  /\ fired \subseteq Jobs \X Nat \X Who
  /\ calls \in Nat /\ mishaps \in Nat

Init ==
  /\ now = 0 /\ at = 0
  /\ job = [j \in Jobs |-> NoJob] /\ created = {}
  /\ runs = << >>
  /\ pc = [t \in Threads |-> "idle"] /\ task = [t \in Threads |-> NoTask]
  /\ due = {} /\ list = {}
  /\ edit = [o \in Operators |-> NoEdit]
  /\ fired = {} /\ calls = 0 /\ mishaps = 0

-------------------------------------------------------------------------------
Goto(t, p) == pc' = [pc EXCEPT ![t] = p]

Exists(j) == job[j] # NoJob
Due(j)    == Exists(j) /\ job[j].enabled /\ job[j].next <= now

\* A digest runs once per recipient, any other job once as its run_as user.
Targets(recipients) == IF recipients = {} THEN {"run_as"} ELSE recipients

\* An exception ends the handler, or the tick.
Abort(t) ==
  /\ Goto(t, "idle") /\ task' = [task EXCEPT ![t] = NoTask]
  /\ IF t = "poller" THEN due' = {} /\ list' = {} /\ at' = 0 ELSE UNCHANGED <<due, list, at>>

-------------------------------------------------------------------------------
(* _execute_job and _submit_job_run, in the scheduler or for "run now".        *)
\* The user is inactive or create_query refuses; or the query is on its way.
Submit(t) ==
  /\ pc[t] = "submit"
  /\ \E who \in task[t].todo, query \in {"none", "active"} :
       /\ task' = [task EXCEPT ![t].todo = @ \ {who}, ![t].who = who, ![t].query = query]
       /\ fired' = IF query = "active" /\ task[t].turn > 0 /\ task[t].attempt = 1
                     THEN fired \union {<<task[t].job, task[t].turn, who>>} ELSE fired
  /\ Goto(t, "record")
  /\ UNCHANGED <<now, job, created, runs, due, at, list, edit, calls, mishaps>>

NewRun(k) ==
  [job |-> k.job, turn |-> k.turn, who |-> k.who, attempt |-> k.attempt, of |-> k.of,
   status |-> IF k.query = "active" THEN "Running" ELSE "Failed", query |-> k.query,
   mails |-> 0, delivery |-> "none"]

\* Where an execution returns to.
Executed(t) ==
  CASE t # "poller" -> "idle" [] t = "poller" /\ task[t].attempt = 1 -> "fire"
    [] t = "poller" /\ task[t].attempt = 2 -> "settle"

\* A run cannot refer to a job that is gone: the INSERT raises.
Record(t) ==
  /\ pc[t] = "record"
  /\ IF Exists(task[t].job)
       THEN /\ runs' = Append(runs, NewRun(task[t]))
            /\ IF task[t].todo = {}
                 THEN Goto(t, Executed(t)) /\ task' = [task EXCEPT ![t] = NoTask]
                 ELSE Goto(t, "submit") /\ UNCHANGED task
            /\ UNCHANGED <<due, list, at>>
       ELSE Abort(t) /\ UNCHANGED runs
  /\ UNCHANGED <<now, job, created, edit, fired, calls, mishaps>>

-------------------------------------------------------------------------------
(* poll_scheduled_jobs_once                                                    *)
DueRow(j) == [job |-> j, schedule |-> job[j].schedule, turn |-> job[j].turn,
              recipients |-> job[j].recipients]

\* Mutant of DueRows: a job with a run that is still running is passed over.
DueRowsIdle ==
  {DueRow(j) : j \in {i \in Jobs : Due(i) /\ \A r \in DOMAIN runs :
                                  runs[r].job = i => runs[r].status # "Running"}}

DueRows == {DueRow(j) : j \in {i \in Jobs : Due(i)}}

TickRead ==
  /\ pc["poller"] = "idle"
  /\ at' = now
  /\ due' = DueRows
  /\ Goto("poller", "fire")
  /\ UNCHANGED <<now, job, created, runs, task, list, edit, fired, calls, mishaps>>

\* Mutant of Scheduled: the next time is not written before the execution.
ScheduledLater(d) == job

Scheduled(d) ==
  IF Exists(d.job)
    THEN [job EXCEPT ![d.job].next = NextRun(d.schedule, at), ![d.job].turn = @ + 1] ELSE job

\* The next time is written before the job is executed, unless there is none:
\* then the tick ends, and the next one meets the same job.
Take ==
  /\ pc["poller"] = "fire"
  /\ \E d \in due :
       IF NextRun(d.schedule, at) = 0
         THEN Abort("poller") /\ UNCHANGED job
         ELSE /\ job' = Scheduled(d)
              /\ task' = [task EXCEPT !["poller"] =
                   [NoTask EXCEPT !.job = d.job, !.turn = d.turn, !.todo = Targets(d.recipients)]]
              /\ due' = due \ {d}
              /\ Goto("poller", "submit")
              /\ UNCHANGED <<list, at>>
  /\ UNCHANGED <<now, created, runs, edit, fired, calls, mishaps>>

Unsettled == {r \in DOMAIN runs : runs[r].status = "Running"}

SettleRead ==
  /\ pc["poller"] = "fire" /\ due = {}
  /\ list' = Unsettled
  /\ Goto("poller", "settle") /\ at' = 0
  /\ UNCHANGED <<now, job, created, runs, task, due, edit, fired, calls, mishaps>>

\* Mutant of IsRetried: only the run of the job's own user is.
IsRetriedOwn(r) == runs[r].query = "failed" /\ runs[r].attempt = 1 /\ runs[r].who = "run_as"

\* Mutant of IsRetried: a retry is retried.
IsRetriedAlways(r) == runs[r].query = "failed"

IsRetried(r) == runs[r].query = "failed" /\ runs[r].attempt = 1
IsMailed(r)  == runs[r].query = "done" /\ runs[r].who # "run_as"

\* Mutant of Settled: the status is written when the email has been sent.
SettledLater(r) == IF runs[r].status = "Gone" \/ IsMailed(r) THEN runs
                   ELSE [runs EXCEPT ![r].status = IF runs[r].query = "done" THEN "Succeeded" ELSE "Failed"]

Settled(r) == IF runs[r].status = "Gone" THEN runs
              ELSE [runs EXCEPT ![r].status = IF runs[r].query = "done" THEN "Succeeded" ELSE "Failed"]

\* A query that is still active is left for the next tick.  What follows one that
\* has ended is an email, a retry, or nothing.
Settle(r) ==
  /\ pc["poller"] = "settle" /\ r \in list
  /\ list' = list \ {r}
  /\ runs' = IF runs[r].query = "active" THEN runs ELSE Settled(r)
  /\ \/ /\ Exists(runs[r].job) /\ IsMailed(r)
        /\ task' = [task EXCEPT !["poller"] = [NoTask EXCEPT !.job = runs[r].job, !.of = r]]
        /\ Goto("poller", "send")
     \/ /\ Exists(runs[r].job) /\ IsRetried(r)
        /\ task' = [task EXCEPT !["poller"] =
             [NoTask EXCEPT !.job = runs[r].job, !.turn = runs[r].turn, !.attempt = 2, !.of = r,
                            !.todo = {runs[r].who}]]
        /\ Goto("poller", "submit")
     \/ ~(Exists(runs[r].job) /\ (IsMailed(r) \/ IsRetried(r))) /\ UNCHANGED <<pc, task>>
  /\ UNCHANGED <<now, job, created, due, at, edit, fired, calls, mishaps>>

TickEnd ==
  /\ pc["poller"] = "settle" /\ list = {}
  /\ Goto("poller", "idle")
  /\ UNCHANGED <<now, job, created, runs, task, due, at, list, edit, fired, calls, mishaps>>

\* _deliver_job_run: the email, and then what became of it.
Send ==
  /\ pc["poller"] = "send"
  /\ \E query \in {"none", "active"} :
       /\ task' = [task EXCEPT !["poller"].query = query]
       /\ runs' = IF query = "active" THEN [runs EXCEPT ![task["poller"].of].mails = @ + 1] ELSE runs
  /\ Goto("poller", "sent")
  /\ UNCHANGED <<now, job, created, due, at, list, edit, fired, calls, mishaps>>

RecordDelivery ==
  /\ pc["poller"] = "sent"
  /\ LET k == task["poller"] IN
       runs' = IF runs[k.of].status = "Gone" THEN runs
               ELSE [runs EXCEPT ![k.of].delivery = IF k.query = "active" THEN "sent" ELSE "failed"]
  /\ task' = [task EXCEPT !["poller"] = NoTask]
  /\ Goto("poller", "settle")
  /\ UNCHANGED <<now, job, created, due, at, list, edit, fired, calls, mishaps>>

-------------------------------------------------------------------------------
(* Operators: create_job, update_job, delete_job, run_job_now.                 *)
\* A schedule without a next time is refused.
CreateJob(o) ==
  /\ pc[o] = "idle"
  /\ \E j \in Jobs \ created, s \in Schedules, recipients \in SUBSET Recipients :
       /\ NextRun(s, now) # 0
       /\ job' = [job EXCEPT ![j] = [enabled |-> TRUE, schedule |-> s, next |-> NextRun(s, now),
                                     turn |-> 1, recipients |-> recipients]]
       /\ created' = created \union {j}
  /\ UNCHANGED <<now, runs, pc, task, due, at, list, edit, fired, calls, mishaps>>

\* What the request changes, decided from the row before the transaction begins.
\* Enabling a job that is enabled leaves its next time alone.
EditRead(o) ==
  /\ pc[o] = "idle" /\ calls < MaxCalls
  /\ \E j \in Jobs, s \in Schedules, recipients \in SUBSET Recipients,
        kind \in {"pause", "unpause", "resume", "reschedule", "recipients"} :
       /\ Exists(j)
       /\ kind # "recipients" => recipients = {}
       /\ kind # "reschedule" => s = job[j].schedule
       /\ kind = "unpause" => job[j].enabled
       /\ kind = "resume" => ~job[j].enabled
       /\ kind \in {"resume", "reschedule"} => NextRun(s, now) # 0
       /\ edit' = [edit EXCEPT ![o] = [job |-> j, kind |-> kind, schedule |-> s,
                                       next |-> NextRun(s, now), recipients |-> recipients]]
  /\ Goto(o, "edit") /\ calls' = calls + 1
  /\ UNCHANGED <<now, job, created, runs, task, due, at, list, fired, mishaps>>

EditedRow(row, e) ==
  CASE e.kind = "pause"      -> [row EXCEPT !.enabled = FALSE]
    [] e.kind = "unpause"    -> [row EXCEPT !.enabled = TRUE]
    [] e.kind = "resume"     -> [row EXCEPT !.enabled = TRUE, !.next = e.next, !.turn = @ + 1]
    [] e.kind = "reschedule" -> [row EXCEPT !.schedule = e.schedule, !.next = e.next, !.turn = @ + 1]
    [] e.kind = "recipients" -> [row EXCEPT !.recipients = e.recipients]

EditWrite(o) ==
  /\ pc[o] = "edit"
  /\ LET e == edit[o] IN
       job' = IF Exists(e.job) THEN [job EXCEPT ![e.job] = EditedRow(@, e)] ELSE job
  /\ edit' = [edit EXCEPT ![o] = NoEdit]
  /\ Goto(o, "idle")
  /\ UNCHANGED <<now, created, runs, task, due, at, list, fired, calls, mishaps>>

\* The job's runs go with it.
DeleteJob(o) ==
  /\ pc[o] = "idle"
  /\ \E j \in Jobs :
       /\ Exists(j)
       /\ job' = [job EXCEPT ![j] = NoJob]
       /\ runs' = [r \in DOMAIN runs |->
                     IF runs[r].job = j THEN [runs[r] EXCEPT !.status = "Gone"] ELSE runs[r]]
  /\ UNCHANGED <<now, created, pc, task, due, at, list, edit, fired, calls, mishaps>>

RunNow(o) ==
  /\ pc[o] = "idle" /\ calls < MaxCalls
  /\ \E j \in Jobs :
       /\ Exists(j)
       /\ task' = [task EXCEPT ![o] = [NoTask EXCEPT !.job = j, !.todo = Targets(job[j].recipients)]]
  /\ Goto(o, "submit") /\ calls' = calls + 1
  /\ UNCHANGED <<now, job, created, runs, due, at, list, edit, fired, mishaps>>

-------------------------------------------------------------------------------
(* What happens by itself.                                                     *)
Clock ==
  /\ now < MaxTime /\ now' = now + 1
  /\ UNCHANGED <<job, created, runs, pc, task, due, at, list, edit, fired, calls, mishaps>>

\* Trino, a cancellation, or a poll by somebody ends a query.  Once the run is
\* gone nobody asks.
QueryEnds(r) ==
  /\ r \in DOMAIN runs /\ runs[r].query = "active" /\ runs[r].status = "Running"
  /\ \E query \in {"done", "failed"} : runs' = [runs EXCEPT ![r].query = query]
  /\ UNCHANGED <<now, job, created, pc, task, due, at, list, edit, fired, calls, mishaps>>

\* A transaction finds the database locked, a response is cut off.
Raise(t) ==
  /\ pc[t] # "idle" /\ mishaps < MaxMishaps
  /\ Abort(t) /\ mishaps' = mishaps + 1
  /\ edit' = IF t \in Operators THEN [edit EXCEPT ![t] = NoEdit] ELSE edit
  /\ UNCHANGED <<now, job, created, runs, fired, calls>>

Crash ==
  /\ mishaps < MaxMishaps /\ mishaps' = mishaps + 1
  /\ pc' = [t \in Threads |-> "idle"] /\ task' = [t \in Threads |-> NoTask]
  /\ due' = {} /\ list' = {} /\ at' = 0 /\ edit' = [o \in Operators |-> NoEdit]
  /\ UNCHANGED <<now, job, created, runs, fired, calls>>

Execute(t) == Submit(t) \/ Record(t)
Poller     == TickRead \/ Take \/ SettleRead \/ TickEnd \/ Send \/ RecordDelivery
                \/ Execute("poller") \/ \E r \in list : Settle(r)
Operator(o) == CreateJob(o) \/ EditRead(o) \/ EditWrite(o) \/ DeleteJob(o) \/ RunNow(o) \/ Execute(o)

Next ==
  \/ Poller \/ \E o \in Operators : Operator(o)
  \/ Clock \/ \E r \in DOMAIN runs : QueryEnds(r)
  \/ \E t \in Threads : Raise(t) \/ Crash

Spec == Init /\ [][Next]_vars

\* poll_loop ticks every interval and catches what a tick raises.
FairSpec == Spec /\ WF_vars(Poller)

-------------------------------------------------------------------------------
(* Properties                                                                  *)

\* The tick writes a job's next time before it executes it, so that a value of
\* next_run_at is submitted at most once for a recipient, whatever crashes, raises or is
\* edited.
FiresOnce ==
  [][pc["poller"] = "submit" /\ pc'["poller"] = "record" /\ task'["poller"].query = "active"
       /\ task["poller"].turn > 0 /\ task["poller"].attempt = 1 => fired' # fired]_vars

\* The tick is in the middle of r's retry.
RetryUnderWay(r) ==
  pc["poller"] \in {"submit", "record"} /\ task["poller"].attempt = 2 /\ task["poller"].of = r

\* Settled as failed at the first attempt, and never to be retried: a run that has its status
\* is not looked at again.
Unretried ==
  {r \in DOMAIN runs :
     /\ Exists(runs[r].job)
     /\ runs[r].status = "Failed" /\ runs[r].query = "failed" /\ runs[r].attempt = 1
     /\ ~RetryUnderWay(r) /\ \A s \in DOMAIN runs : runs[s].of # r}

\* "a run whose query failed on attempt 1 is retried exactly once", for the recipient it
\* was for, and a retry never is.  The status is committed before the retry is
\* submitted, so that a crash or an exception between the two loses the retry for ever: each
\* loses one at most, and nothing else does.
RetriedOnce ==
  /\ \A r, s \in DOMAIN runs :
       runs[s].of = r =>
         /\ runs[r].attempt = 1 /\ runs[r].query = "failed" /\ runs[s].attempt = 2
         /\ runs[s].who = runs[r].who
         /\ \A other \in DOMAIN runs : runs[other].of = r => other = s
  /\ Cardinality(Unretried) <= mishaps

\* "every time it fires, the job runs once per recipient [...] and emails each
\* person their own result": nobody gets two emails for one time.
OneDigest ==
  \A r, s \in DOMAIN runs :
    /\ runs[r].mails <= 1
    /\ runs[r].mails = 1 => runs[r].query = "done" /\ runs[r].who \in Recipients
    /\ r # s /\ runs[r].mails = 1 /\ runs[s].mails = 1 =>
         /\ runs[r].of # s
         /\ runs[r].turn > 0 /\ runs[r].job = runs[s].job /\ runs[r].who = runs[s].who =>
              runs[r].turn # runs[s].turn

\* A job that is due and has no next time makes every tick raise.
Stuck == \E j \in Jobs : Due(j) /\ NextRun(job[j].schedule, now) = 0

\* "fires any due job": unless the scheduler is stuck, it always gets through what is due.
DueJobsFire == []<>(Stuck \/ \A j \in Jobs : ~Due(j))

=============================================================================
