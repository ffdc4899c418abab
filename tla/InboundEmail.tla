------------------------------ MODULE InboundEmail ------------------------------
(***************************************************************************)
(* Ask by email: SES puts each mail in a queue, and one thread of the control    *)
(* plane takes a batch, handles each mail and deletes it.  The queue delivers     *)
(* at least once, the process may stop anywhere, and the model and the mail        *)
(* service may fail; email_conversations holds one row per mail, and nothing       *)
(* else is remembered of it.                                                 *)
(*                                                                          *)
(* The mails' contents are their kinds.  The thread is the only one that writes   *)
(* the rows; operators switch the settings and who may ask.  The agent is its      *)
(* loop of turns, with the tools by how they end.  The audit log is left out.       *)
(***************************************************************************)
EXTENDS Naturals, Sequences, FiniteSets

CONSTANTS
  Senders,      \* users with the address each asks from, which stays theirs: the limit is a user's
  Limit,        \* EMAIL_QUESTIONS_PER_HOUR
  Hour,         \* the hour of the limit, in ticks
  BatchSize,    \* INBOUND_BATCH_SIZE
  MaxTurns,     \* AGENT_MAX_STEPS
  MaxCalls,     \* bound: tool calls of a turn
  MaxMails,     \* bound: mails that arrive
  MaxMishaps    \* bound: lost deletes, second deliveries and crashes

ASSUME BoundsAssumption ==
  /\ Limit \in Nat \ {0} /\ Hour \in Nat /\ BatchSize \in Nat \ {0} /\ MaxTurns \in Nat \ {0}
  /\ MaxCalls \in Nat \ {0} /\ MaxMails \in Nat /\ MaxMishaps \in Nat

VARIABLES
  mail,      \* mails that have arrived, in order
  queue,     \* queue[m]: "visible", "hidden" after a receive, or "gone"
  row,       \* row[m]: its row of email_conversations, as a status
  age,       \* age[m]: ticks since the row was made
  on,        \* inbound email is enabled
  entitled,  \* senders whose address is one active user's, with ASK_BY_EMAIL
  pc, batch, \* the inbound thread: where it is, the mails it has yet to handle
  agent,     \* run_agent: turns made, calls to make, tools that gave a result, and the path it reports
  replies,   \* replies[m]: replies that have left for its sender
  runs,      \* runs[m]: how often the agent was started on it
  stranded,  \* mails whose handling stopped half way
  mishaps

vars == <<mail, queue, row, age, on, entitled, pc, batch, agent, replies, runs, stranded, mishaps>>
mails == <<mail, queue>>
rows == <<row, age>>
asks == <<agent, runs>>

-------------------------------------------------------------------------------
\* "garbled": cannot be parsed, or has no id; "unwanted": automated, sent by ourselves, or not
\* sender_authenticated; "blank": without a question once quotes and signature are cut.
Kinds == {"garbled", "unwanted", "blank", "question"}
Statuses == {"none", "ignored", "refused", "limited", "answering", "answered", "failed"}
Tools == {"search_data_products", "list_query_templates", "run_query_template", "run_query"}
Lookups == {"search_data_products", "list_query_templates"}
Paths == {"none", "template", "freeform"}

CountedAnswered == {"answered"}
Counted == {"answered", "answering", "failed"}

Pcs == {"asleep", "screen", "identify", "count", "claim", "chat", "tool", "answer", "finish", "note", "tell", "delete"}
Agent == [turns : 0..MaxTurns, calls : 0..MaxCalls, ran : SUBSET Tools, path : Paths]
NoAgent == [turns |-> 0, calls |-> 0, ran |-> {}, path |-> "none"]
M == 1..Len(mail)

TypeOK ==
  /\ mail \in Seq([kind : Kinds, from : Senders]) /\ Len(mail) <= MaxMails
  /\ queue \in [M -> {"visible", "hidden", "gone"}] /\ row \in [M -> Statuses] /\ age \in [M -> 0..Hour + 1]
  /\ on \in BOOLEAN /\ entitled \in SUBSET Senders
  /\ pc \in Pcs /\ agent \in Agent
  /\ batch \in Seq(M) /\ (pc = "asleep" <=> batch = <<>>)
  /\ replies \in [M -> Nat] /\ runs \in [M -> Nat]
  /\ stranded \in SUBSET M /\ mishaps \in 0..MaxMishaps

Init ==
  /\ mail = <<>> /\ queue = <<>> /\ row = <<>> /\ age = <<>>
  /\ on \in BOOLEAN /\ entitled \in SUBSET Senders
  /\ pc = "asleep" /\ batch = <<>> /\ agent = NoAgent
  /\ replies = <<>> /\ runs = <<>> /\ stranded = {} /\ mishaps = 0

-------------------------------------------------------------------------------
(* SES and SQS, the clock, and the operators. *)

Arrive ==
  /\ Len(mail) < MaxMails
  /\ \E kind \in Kinds, from \in Senders : mail' = Append(mail, [kind |-> kind, from |-> from])
  /\ queue' = Append(queue, "visible") /\ row' = Append(row, "none") /\ age' = Append(age, 0)
  /\ replies' = Append(replies, 0) /\ runs' = Append(runs, 0)
  /\ UNCHANGED <<on, entitled, pc, batch, agent, stranded, mishaps>>

\* The visibility timeout runs out, while the mail waits in a slow batch or after a lost delete or a crash.
Lapse(m) ==
  /\ queue[m] = "hidden" /\ queue' = [queue EXCEPT ![m] = "visible"]
  /\ UNCHANGED <<mail, rows, on, entitled, pc, batch, asks, replies, stranded, mishaps>>

\* The queue delivers what it has already had deleted.
Redeliver(m) ==
  /\ queue[m] = "gone" /\ mishaps < MaxMishaps /\ mishaps' = mishaps + 1
  /\ queue' = [queue EXCEPT ![m] = "visible"]
  /\ UNCHANGED <<mail, rows, on, entitled, pc, batch, asks, replies, stranded>>

TimePasses ==
  /\ age' = [m \in M |-> IF row[m] \in Counted /\ age[m] <= Hour THEN age[m] + 1 ELSE age[m]]
  /\ UNCHANGED <<mails, row, on, entitled, pc, batch, asks, replies, stranded, mishaps>>

SetEmailSettings ==
  /\ on' = ~on
  /\ UNCHANGED <<mails, rows, entitled, pc, batch, asks, replies, stranded, mishaps>>

SetEntitled ==
  /\ \E s \in Senders : entitled' = (entitled \ {s}) \union ({s} \ entitled)
  /\ UNCHANGED <<mails, rows, on, pc, batch, asks, replies, stranded, mishaps>>

-------------------------------------------------------------------------------
(* The inbound thread: poll_inbound_email_once and handle_inbound_email. *)

\* The mail in hand.
m0 == Head(batch)
Goes(to) == pc' = to /\ UNCHANGED batch

TakeNext == batch' = Tail(batch) /\ pc' = IF Len(batch) = 1 THEN "asleep" ELSE "screen"

\* The settings are read once, before the batch.
Receive ==
  /\ pc = "asleep" /\ on
  /\ \E n \in 1..BatchSize : \E b \in [1..n -> M] :
       /\ \A i \in 1..n : queue[b[i]] = "visible" /\ \A j \in 1..n : b[i] = b[j] => i = j
       /\ batch' = b
       /\ queue' = [m \in M |-> IF \E i \in 1..n : b[i] = m THEN "hidden" ELSE queue[m]]
  /\ pc' = "screen"
  /\ UNCHANGED <<mail, rows, on, entitled, asks, replies, stranded, mishaps>>

\* _record_email: INSERT OR IGNORE.
Record(m, status) ==
  /\ row[m] = "none"
  /\ row' = [row EXCEPT ![m] = status] /\ age' = [age EXCEPT ![m] = 0]

ScreenSkips ==
  /\ pc = "screen"
  /\ LET kind == mail[m0].kind IN
     \/ kind = "garbled" /\ TakeNext /\ UNCHANGED rows
     \/ kind # "garbled" /\ row[m0] # "none" /\ Goes("delete") /\ UNCHANGED rows
     \/ kind = "unwanted" /\ Record(m0, "ignored") /\ Goes("delete")
     \/ kind \in {"blank", "question"} /\ row[m0] = "none" /\ Goes("identify") /\ UNCHANGED rows
  /\ UNCHANGED <<mails, on, entitled, asks, replies, stranded, mishaps>>

\* What cannot be read, what is recorded already, and what is refused without a reply.
Screen ==
  /\ pc = "screen"
  /\ LET kind == mail[m0].kind IN
     \/ (kind = "garbled" \/ row[m0] # "none") /\ Goes("delete") /\ UNCHANGED rows
     \/ kind = "unwanted" /\ Record(m0, "ignored") /\ Goes("delete")
     \/ kind \in {"blank", "question"} /\ row[m0] = "none" /\ Goes("identify") /\ UNCHANGED rows
  /\ UNCHANGED <<mails, on, entitled, asks, replies, stranded, mishaps>>

\* The single active user with this address, and the privilege.
Identify ==
  /\ pc = "identify"
  /\ IF mail[m0].from \in entitled THEN Goes("count") /\ UNCHANGED rows
     ELSE Record(m0, "refused") /\ Goes("tell")
  /\ UNCHANGED <<mails, on, entitled, asks, replies, stranded, mishaps>>

Recent(s) == {m \in M : mail[m].from = s /\ row[m] \in Counted /\ age[m] <= Hour}

\* The hourly limit, and a mail without a question.
Count ==
  /\ pc = "count"
  /\ \/ Cardinality(Recent(mail[m0].from)) >= Limit /\ Record(m0, "limited") /\ Goes("tell")
     \/ /\ Cardinality(Recent(mail[m0].from)) < Limit
        /\ IF mail[m0].kind = "blank" THEN Record(m0, "refused") /\ Goes("tell")
           ELSE Goes("claim") /\ UNCHANGED rows
  /\ UNCHANGED <<mails, on, entitled, asks, replies, stranded, mishaps>>

\* The row is made before the slow part.
Claim ==
  /\ pc = "claim" /\ Record(m0, "answering") /\ Goes("chat")
  /\ runs' = [runs EXCEPT ![m0] = @ + 1] /\ agent' = NoAgent
  /\ UNCHANGED <<mails, on, entitled, replies, stranded, mishaps>>

-------------------------------------------------------------------------------
(* run_agent. *)

\* call_agent_llm: an answer, or tool calls; the loop ends after MaxTurns.
Chat ==
  /\ pc = "chat"
  /\ IF agent.turns = MaxTurns THEN Goes("answer") /\ UNCHANGED agent
     ELSE \/ Goes("answer") /\ agent' = [agent EXCEPT !.turns = @ + 1]
          \/ \E n \in 1..MaxCalls : Goes("tool") /\ agent' = [agent EXCEPT !.turns = @ + 1, !.calls = n]
  /\ UNCHANGED <<mails, rows, on, entitled, runs, replies, stranded, mishaps>>

\* One call: run_query is locked until both lookups succeeded.  A call that fails, is refused or
\* only browses leaves no mark.
Tool ==
  /\ pc = "tool" /\ pc' = IF agent.calls = 1 THEN "chat" ELSE "tool"
  /\ \E tools \in {{}} \union {{t} : t \in Tools} :
       /\ "run_query" \in tools => Lookups \subseteq agent.ran
       /\ agent' = [agent EXCEPT !.calls = @ - 1, !.ran = @ \union tools]
  /\ UNCHANGED <<mails, rows, on, entitled, batch, runs, replies, stranded, mishaps>>

FinishNever(m, status) == UNCHANGED row

\* _finish_email.
Finish(m, status) == row' = [row EXCEPT ![m] = status]

\* The model cannot be had: an ApiError ends the run.
ChatFails ==
  /\ pc = "chat" /\ agent.turns < MaxTurns
  /\ Finish(m0, "failed") /\ Goes("tell") /\ agent' = NoAgent
  /\ UNCHANGED <<mails, age, on, entitled, runs, replies, stranded, mishaps>>

\* Anything else that is raised is caught by the poll.
ChatRaises ==
  /\ pc = "chat" /\ agent.turns < MaxTurns
  /\ stranded' = stranded \union {m0} /\ Goes("delete") /\ agent' = NoAgent
  /\ UNCHANGED <<mails, rows, on, entitled, runs, replies, mishaps>>

-------------------------------------------------------------------------------
(* Replies and the end of a mail. *)

\* outcome.path: any freeform SQL makes the whole answer a draft.
Path(ran) ==
  IF "run_query" \in ran THEN "freeform" ELSE IF "run_query_template" \in ran THEN "template" ELSE "none"

\* The answer goes out; the service may take it and not say so.
Answer ==
  /\ pc = "answer"
  /\ \/ on /\ replies' = [replies EXCEPT ![m0] = @ + 1] /\ (Goes("finish") \/ Goes("note"))
     \/ Goes("note") /\ UNCHANGED replies
  /\ agent' = [agent EXCEPT !.path = Path(agent.ran)]
  /\ UNCHANGED <<mails, rows, on, entitled, runs, stranded, mishaps>>

ConcludeApologizes ==
  /\ \/ pc = "finish" /\ Finish(m0, "answered") /\ Goes("delete")
     \/ pc = "note" /\ Finish(m0, "failed") /\ Goes("tell")
  /\ agent' = NoAgent
  /\ UNCHANGED <<mails, age, on, entitled, runs, replies, stranded, mishaps>>

\* The row says answered, or that the reply was not sent.
Conclude ==
  /\ \/ pc = "finish" /\ Finish(m0, "answered")
     \/ pc = "note" /\ Finish(m0, "failed")
  /\ Goes("delete") /\ agent' = NoAgent
  /\ UNCHANGED <<mails, age, on, entitled, runs, replies, stranded, mishaps>>

\* _safe_reply: a refusal, or an apology.
Tell ==
  /\ pc = "tell" /\ Goes("delete")
  /\ \/ on /\ replies' = [replies EXCEPT ![m0] = @ + 1]
     \/ UNCHANGED replies
  /\ UNCHANGED <<mails, rows, on, entitled, asks, stranded, mishaps>>

\* However the handling ended, the mail is deleted and the next one is taken.
Delete ==
  /\ pc = "delete" /\ TakeNext
  /\ queue' = [queue EXCEPT ![m0] = "gone"]
  /\ UNCHANGED <<mail, rows, on, entitled, asks, replies, stranded, mishaps>>

DeleteFails ==
  /\ pc = "delete" /\ TakeNext /\ mishaps < MaxMishaps /\ mishaps' = mishaps + 1
  /\ UNCHANGED <<mails, rows, on, entitled, asks, replies, stranded>>

\* The process stops, and another takes over.
Crash ==
  /\ pc # "asleep" /\ mishaps < MaxMishaps /\ mishaps' = mishaps + 1
  /\ pc' = "asleep" /\ batch' = <<>> /\ agent' = NoAgent
  /\ stranded' = IF row[m0] = "answering" THEN stranded \union {m0} ELSE stranded
  /\ UNCHANGED <<mails, rows, on, entitled, runs, replies>>

-------------------------------------------------------------------------------
Handle == Screen \/ Identify \/ Count \/ Claim \/ Chat \/ Tool \/ ChatFails \/ ChatRaises
          \/ Answer \/ Conclude \/ Tell \/ Delete \/ DeleteFails

Next ==
  \/ Arrive \/ TimePasses \/ SetEmailSettings \/ SetEntitled
  \/ \E m \in M : Lapse(m) \/ Redeliver(m)
  \/ Receive \/ Handle \/ Crash

\* The thread polls for ever, its calls have timeouts, and a mail that is not deleted comes back.
Fairness == WF_vars(Receive) /\ WF_vars(Handle) /\ \A m \in 1..MaxMails : WF_vars(m \in M /\ Lapse(m))

Spec == Init /\ [][Next]_vars
FairSpec == Spec /\ Fairness

-------------------------------------------------------------------------------
(* Properties. *)

\* However often a mail is delivered and wherever the process stops, the agent works on it
\* once and its sender gets one reply, of any kind.
AskedOnce == \A m \in M : runs[m] <= 1 /\ replies[m] <= 1

\* However their handling ends, no more than Limit questions of one sender are worked on that
\* were claimed within an hour.
HourlyLimit ==
  \A s \in Senders : Cardinality({m \in M : mail[m].from = s /\ runs[m] > 0 /\ age[m] <= Hour}) <= Limit

\* A question is left in answering only by a crash or an error nobody expects, and one said to
\* be answered was.
RowsTellTheTruth ==
  \A m \in M :
    /\ row[m] = "answering" => m \in stranded \/ (m = m0 /\ pc \in {"chat", "tool", "answer", "finish", "note"})
    /\ row[m] = "answered" => replies[m] = 1

\* No mail wedges the queue: while inbound email is on, each is handled and gone in the end.
QueueDrains ==
  \A m \in 1..MaxMails : (m \in M /\ queue[m] # "gone") ~> (~on \/ (m \in M /\ queue[m] = "gone"))
=============================================================================
