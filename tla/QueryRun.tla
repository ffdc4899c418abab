------------------------------- MODULE QueryRun -------------------------------
(***************************************************************************)
(* One query run: create_query, the polls that advance it                  *)
(* (advance_query_run, behind GET /api/query/{id}, scheduled jobs, Ask      *)
(* Trino and MCP), its dispatch once an auto-suspended cluster is back, and *)
(* cancel_query, by any number of clients at once.                          *)
(*                                                                          *)
(* A handler is cut at every SQLite read, at every write transaction and at *)
(* every request to Trino.  The cluster's status changes under the run in   *)
(* any way: ClusterLifecycle shows which races do that.                     *)
(*                                                                          *)
(* Left out: the limits on the rows kept (a page is one row here), elapsed  *)
(* times and messages, access checks, and the result cache.                 *)
(***************************************************************************)
EXTENDS Naturals, Sequences

CONSTANTS
  Clients,      \* concurrent callers
  Ops,          \* Ops[c] is the set of calls client c may make
  Pages,        \* result pages of the statement
  CreatePages,  \* pages create_query fetches before it answers (2 in the code)
  PollPages,    \* pages one poll fetches (5 in the code)
  MaxSent,      \* bound: submissions to Trino in a behaviour
  MaxKept,      \* bound: pages recorded in the row
  MaxCrashes    \* bound: control-plane crashes in a behaviour

Calls == {"create", "poll", "cancel"}

ASSUME OpsAssumption   == Ops \in [Clients -> SUBSET Calls]
ASSUME PagesAssumption == Pages \in Nat \ {0}
ASSUME BoundAssumption == /\ CreatePages \in Nat /\ PollPages \in Nat /\ MaxSent \in Nat
                          /\ MaxKept \in Nat /\ MaxCrashes \in Nat

VARIABLES
  cluster,  \* clusters.status, or NoCluster once the row is deleted
  run,      \* the row of query_runs
  late,     \* TRUE once the run is older than QUERY_CLUSTER_START_TIMEOUT_SECONDS
  sent,     \* number of statements submitted to Trino for this run
  page,     \* page[s] is the last page Trino handed out of statement s
  stopped,  \* statements that failed in Trino or that it was told to cancel
  crashes,  \* number of control-plane crashes so far
  pc,       \* where each client's handler is
  op,       \* the call it serves
  row,      \* the row it read last, or is about to insert
  resp,     \* the response of Trino it has not applied yet
  left      \* pages it may still fetch

trinoVars == <<sent, page, stopped>>
localVars == <<pc, op, row, resp, left>>
vars == <<cluster, run, late, trinoVars, crashes, localVars>>

-------------------------------------------------------------------------------
NoCluster == "NoCluster"
ClusterStatuses == {"Not enabled", "Creating", "Starting", "Running", "Updating",
                    "Suspending", "Suspended", "Deleting", "Failed", NoCluster}
ComingUp == {"Creating", "Starting"}

Terminal    == {"Finished", "Failed", "Cancelled"}
RunStatuses == {"none", "Queued", "Running"} \union Terminal

Uris  == [stmt : 1..MaxSent, page : 1..Pages]
NoUri == [stmt |-> 0, page |-> 0]

\* pages stands for the result columns: what was applied, in order.
Run    == [status : RunStatuses, pending : BOOLEAN, next : Uris \union {NoUri},
           pages : Seq(Uris)]
NoRun  == [status |-> "none", pending |-> FALSE, next |-> NoUri, pages |-> << >>]

\* A page of results, a statement that failed or was cancelled, or nothing.
Responses  == [kind : {"none", "page", "error"}, uri : Uris \union {NoUri}]
NoResponse == [kind |-> "none", uri |-> NoUri]

CreatePcs   == {"submit", "submitted", "first_apply", "advance_read", "create_failed"}
DispatchPcs == {"cluster", "probe", "submit_pending", "apply_pending"}
Pcs == CreatePcs \union DispatchPcs \union
       {"idle", "insert", "resume", "resume_failed", "fail", "advance", "fetched",
        "apply", "cancel_remote", "cancel"}

TypeOK ==
  /\ cluster \in ClusterStatuses
  /\ run \in Run
  /\ late \in BOOLEAN
  /\ sent \in 0..MaxSent /\ page \in [1..MaxSent -> 0..Pages] /\ stopped \in SUBSET (1..MaxSent)
  /\ crashes \in Nat
  /\ pc \in [Clients -> Pcs] /\ op \in [Clients -> Calls \union {"none"}]
  /\ row \in [Clients -> Run] /\ resp \in [Clients -> Responses]
  /\ left \in [Clients -> Nat]

Init ==
  /\ cluster \in {"Running", "Suspended"}
  /\ run = NoRun /\ late = FALSE
  /\ sent = 0 /\ page = [s \in 1..MaxSent |-> 0] /\ stopped = {}
  /\ crashes = 0
  /\ pc = [c \in Clients |-> "idle"] /\ op = [c \in Clients |-> "none"]
  /\ row = [c \in Clients |-> NoRun] /\ resp = [c \in Clients |-> NoResponse]
  /\ left = [c \in Clients |-> 0]

-------------------------------------------------------------------------------
Goto(c, p) == pc' = [pc EXCEPT ![c] = p]

Enter(c, o, p) ==
  /\ pc[c] = "idle" /\ o \in Ops[c]
  /\ op' = [op EXCEPT ![c] = o]
  /\ Goto(c, p)

Return(c) ==
  /\ Goto(c, "idle") /\ op' = [op EXCEPT ![c] = "none"]
  /\ row' = [row EXCEPT ![c] = NoRun] /\ resp' = [resp EXCEPT ![c] = NoResponse]
  /\ left' = [left EXCEPT ![c] = 0]

\* An exception: create_query catches it, the other handlers return it.
Raise(c) ==
  IF op[c] = "create"
    THEN Goto(c, "create_failed") /\ UNCHANGED <<op, row, resp, left>>
    ELSE Return(c)

-------------------------------------------------------------------------------
(* Trino.  It serves a statement's pages in order, and the last one again to a *)
(* client that asks twice; it forgets the ones before it.                      *)
Response(s, p) == [kind |-> "page", uri |-> [stmt |-> s, page |-> p]]
ErrorOf(s)     == [kind |-> "error", uri |-> [stmt |-> s, page |-> 1]]

\* POST /v1/statement starts the statement and answers with its first page.
Started ==
  /\ sent < MaxSent
  /\ sent' = sent + 1
  /\ page' = [page EXCEPT ![sent'] = 1]
  /\ UNCHANGED stopped

Accept(c) == Started /\ resp' = [resp EXCEPT ![c] = Response(sent', 1)]

\* The request fails, or only its answer is lost.
Unanswered == Started \/ UNCHANGED trinoVars

\* GET nextUri.
Serve(c, uri) ==
  \/ /\ uri.stmt \notin stopped
     /\ uri.page <= Pages /\ uri.page \in {page[uri.stmt], page[uri.stmt] + 1}
     /\ page' = [page EXCEPT ![uri.stmt] = uri.page]
     /\ resp' = [resp EXCEPT ![c] = Response(uri.stmt, uri.page)]
     /\ UNCHANGED <<sent, stopped>>
  \/ /\ stopped' = stopped \union {uri.stmt}
     /\ resp' = [resp EXCEPT ![c] = ErrorOf(uri.stmt)]
     /\ UNCHANGED <<sent, page>>

-------------------------------------------------------------------------------
(* create_query *)
CreateRead(c) ==
  /\ run = NoRun /\ \A d \in Clients : pc[d] # "insert"
  /\ cluster \in {"Running", "Suspended"}
  /\ Enter(c, "create", "insert")
  /\ row' = [row EXCEPT ![c] = [NoRun EXCEPT !.status = "Queued",
                                             !.pending = (cluster = "Suspended")]]
  /\ UNCHANGED <<cluster, run, late, trinoVars, crashes, resp, left>>

\* The INSERT refers to the cluster's row and fails without it.
CreateInsert(c) ==
  /\ pc[c] = "insert"
  /\ \/ /\ cluster # NoCluster
        /\ run' = row[c]
        /\ Goto(c, IF row[c].pending THEN "resume" ELSE "submit")
        /\ UNCHANGED <<op, row, resp, left>>
     \/ cluster = NoCluster /\ Return(c) /\ UNCHANGED run
  /\ UNCHANGED <<cluster, late, trinoVars, crashes>>

\* _resume_cluster_for_query: start_cluster starts the cluster or raises.
Resume(c) ==
  /\ pc[c] = "resume"
  /\ \/ Return(c)
     \/ Goto(c, "resume_failed") /\ UNCHANGED <<op, row, resp, left>>
  /\ UNCHANGED <<cluster, run, late, trinoVars, crashes>>

\* Somebody else's start counts as ours.
ResumeFailed(c) ==
  /\ pc[c] = "resume_failed"
  /\ IF cluster \in ComingUp \union {"Running"}
       THEN Return(c)
       ELSE Goto(c, "fail") /\ UNCHANGED <<op, row, resp, left>>
  /\ UNCHANGED <<cluster, run, late, trinoVars, crashes>>

Submit(c) ==
  /\ pc[c] = "submit"
  /\ \/ Accept(c) /\ Goto(c, "submitted") /\ UNCHANGED <<op, row, left>>
     \/ Raise(c) /\ Unanswered
  /\ UNCHANGED <<cluster, run, late, crashes>>

\* Mutants of CreateFailed: the exception is swallowed; the run is put back in
\* the queue.
CreateFailedSilently(c) ==
  /\ pc[c] = "create_failed"
  /\ Return(c)
  /\ UNCHANGED <<cluster, run, late, trinoVars, crashes>>

CreateFailedRequeues(c) ==
  /\ pc[c] = "create_failed"
  /\ run' = [run EXCEPT !.status = "Queued", !.pending = TRUE]
  /\ Return(c)
  /\ UNCHANGED <<cluster, late, trinoVars, crashes>>

\* Its except block: whatever the row says by now, it failed.
CreateFailed(c) ==
  /\ pc[c] = "create_failed"
  /\ run' = [run EXCEPT !.status = "Failed"]
  /\ Return(c)
  /\ UNCHANGED <<cluster, late, trinoVars, crashes>>

-------------------------------------------------------------------------------
(* advance_query_run: by create_query itself, then by every poll.              *)
AdvanceRead(c) ==
  /\ run # NoRun
  /\ LET next == IF run.pending THEN "cluster" ELSE "advance"
     IN  \/ Enter(c, "poll", next) /\ left' = [left EXCEPT ![c] = PollPages]
         \/ /\ pc[c] = "advance_read" /\ Goto(c, next) /\ UNCHANGED op
            /\ left' = [left EXCEPT ![c] = CreatePages]
  /\ row' = [row EXCEPT ![c] = run]
  /\ UNCHANGED <<cluster, run, late, trinoVars, crashes, resp>>

HasNext(c) == row[c].status \notin Terminal /\ row[c].next # NoUri /\ left[c] > 0

Fetch(c) ==
  /\ pc[c] = "advance" /\ HasNext(c)
  /\ \/ /\ Serve(c, row[c].next) /\ Goto(c, "fetched")
        /\ left' = [left EXCEPT ![c] = @ - 1]
        /\ UNCHANGED <<op, row>>
     \/ Raise(c) /\ UNCHANGED trinoVars
  /\ UNCHANGED <<cluster, run, late, crashes>>

AdvanceDone(c) ==
  /\ pc[c] = "advance" /\ ~HasNext(c)
  /\ Return(c)
  /\ UNCHANGED <<cluster, run, late, trinoVars, crashes>>

\* Mutant of Applied: the next page is the page that was just applied.
AppliedKeepsNext(r, response) ==
  IF response.kind = "error"
    THEN [r EXCEPT !.status = "Failed", !.next = NoUri]
    ELSE [r EXCEPT !.status = IF response.uri.page < Pages THEN "Running" ELSE "Finished",
                   !.next   = IF response.uri.page < Pages THEN response.uri ELSE NoUri,
                   !.pages  = Append(@, response.uri)]

\* What apply_trino_response makes of row r: every column it writes.
Applied(r, response) ==
  IF response.kind = "error"
    THEN [r EXCEPT !.status = "Failed", !.next = NoUri]
    ELSE [r EXCEPT !.status = IF response.uri.page < Pages THEN "Running" ELSE "Finished",
                   !.next   = IF response.uri.page < Pages
                                THEN [response.uri EXCEPT !.page = @ + 1] ELSE NoUri,
                   !.pages  = Append(@, response.uri)]

\* The read in front of it and its UPDATE are two steps: a SELECT begins no
\* transaction.
ApplyRead(c) ==
  /\ \/ pc[c] = "submitted" /\ Goto(c, "first_apply")
     \/ pc[c] = "fetched" /\ Goto(c, "apply")
  /\ row' = [row EXCEPT ![c] = run]
  /\ UNCHANGED <<cluster, run, late, trinoVars, crashes, op, resp, left>>

Apply(c) ==
  /\ Len(row[c].pages) < MaxKept
  /\ \/ pc[c] = "first_apply" /\ Goto(c, "advance_read")
     \/ pc[c] = "apply" /\ Goto(c, "advance")
  /\ run' = [Applied(row[c], resp[c]) EXCEPT !.pending = run.pending]
  /\ row' = [row EXCEPT ![c] = run']
  /\ resp' = [resp EXCEPT ![c] = NoResponse]
  /\ UNCHANGED <<cluster, late, trinoVars, crashes, op, left>>

-------------------------------------------------------------------------------
(* dispatch_pending_query *)
\* Mutant of Decide: a cluster that is coming up is waited for without end.
DecidePatiently(c, status) ==
  /\ IF status \in ComingUp THEN Goto(c, "advance")
     ELSE IF status # "Running" THEN Goto(c, "fail")
     ELSE Goto(c, "submit_pending") \/ Goto(c, "fail")
  /\ UNCHANGED <<op, row, resp, left>>

\* What the cluster's status means for the run.  A Running cluster may have lost
\* its coordinator's record.
Decide(c, status) ==
  /\ \/ status \in ComingUp /\ Goto(c, IF late THEN "fail" ELSE "advance")
     \/ status \notin ComingUp /\ Goto(c, "fail")
     \/ status = "Running" /\ Goto(c, "submit_pending")
  /\ UNCHANGED <<op, row, resp, left>>

ReadCluster(c) ==
  /\ pc[c] = "cluster"
  /\ IF cluster = "Starting"
       THEN Goto(c, "probe") /\ UNCHANGED <<op, row, resp, left>>
       ELSE Decide(c, cluster)
  /\ UNCHANGED <<cluster, run, late, trinoVars, crashes>>

\* refresh_cluster_health: answers Running and writes it, answers the status it
\* finds, or raises and leaves the one just read.
ProbeCluster(c) ==
  /\ pc[c] = "probe"
  /\ \/ cluster # NoCluster /\ cluster' = "Running" /\ Decide(c, "Running")
     \/ UNCHANGED cluster /\ \E status \in {cluster, "Starting"} \ {NoCluster} : Decide(c, status)
  /\ UNCHANGED <<run, late, trinoVars, crashes>>

SubmitPending(c) ==
  /\ pc[c] = "submit_pending"
  /\ \/ Accept(c) /\ Goto(c, "apply_pending")
     \/ Goto(c, "fail") /\ Unanswered /\ UNCHANGED resp
  /\ UNCHANGED <<cluster, run, late, crashes, op, row, left>>

\* Mutant of ApplyPending: the run stays pending.
ApplyPendingAgain(c) ==
  /\ pc[c] = "apply_pending" /\ Len(run.pages) < MaxKept
  /\ run' = Applied(run, resp[c])
  /\ row' = [row EXCEPT ![c] = run']
  /\ resp' = [resp EXCEPT ![c] = NoResponse]
  /\ Goto(c, "advance")
  /\ UNCHANGED <<cluster, late, trinoVars, crashes, op, left>>

\* One transaction: it begins with the UPDATE of pending_cluster_start.
ApplyPending(c) ==
  /\ pc[c] = "apply_pending" /\ Len(run.pages) < MaxKept
  /\ run' = [Applied(run, resp[c]) EXCEPT !.pending = FALSE]
  /\ row' = [row EXCEPT ![c] = run']
  /\ resp' = [resp EXCEPT ![c] = NoResponse]
  /\ Goto(c, "advance")
  /\ UNCHANGED <<cluster, late, trinoVars, crashes, op, left>>

\* _fail_query
Fail(c) ==
  /\ pc[c] = "fail"
  /\ run' = [run EXCEPT !.status = "Failed", !.pending = FALSE]
  /\ Return(c)
  /\ UNCHANGED <<cluster, late, trinoVars, crashes>>

-------------------------------------------------------------------------------
(* cancel_query *)
CancelRead(c) ==
  /\ run # NoRun
  /\ Enter(c, "cancel", IF run.status \notin Terminal /\ run.next # NoUri
                          THEN "cancel_remote" ELSE "cancel")
  /\ row' = [row EXCEPT ![c] = run]
  /\ UNCHANGED <<cluster, run, late, trinoVars, crashes, resp, left>>

\* DELETE nextUri.
CancelRemote(c) ==
  /\ pc[c] = "cancel_remote"
  /\ \/ /\ stopped' = stopped \union {row[c].next.stmt}
        /\ Goto(c, "cancel") /\ UNCHANGED <<op, row, resp, left>>
     \/ stopped' \in {stopped, stopped \union {row[c].next.stmt}} /\ Return(c)
  /\ UNCHANGED <<cluster, run, late, sent, page, crashes>>

Cancel(c) ==
  /\ pc[c] = "cancel"
  /\ run' = [run EXCEPT !.status = "Cancelled", !.next = NoUri]
  /\ Return(c)
  /\ UNCHANGED <<cluster, late, trinoVars, crashes>>

-------------------------------------------------------------------------------
\* The cluster's other users, its pollers and its races.
ClusterMoves ==
  /\ cluster # NoCluster
  /\ cluster' \in ClusterStatuses \ {cluster}
  /\ UNCHANGED <<run, late, trinoVars, crashes, localVars>>

Clock ==
  /\ run # NoRun /\ ~late
  /\ late' = TRUE
  /\ UNCHANGED <<cluster, run, trinoVars, crashes, localVars>>

Crash ==
  /\ crashes < MaxCrashes
  /\ \E c \in Clients : pc[c] # "idle"
  /\ crashes' = crashes + 1
  /\ pc' = [c \in Clients |-> "idle"] /\ op' = [c \in Clients |-> "none"]
  /\ row' = [c \in Clients |-> NoRun] /\ resp' = [c \in Clients |-> NoResponse]
  /\ left' = [c \in Clients |-> 0]
  /\ UNCHANGED <<cluster, run, late, trinoVars>>

CreateStep(c)   == \/ CreateInsert(c) \/ Resume(c) \/ ResumeFailed(c) \/ Submit(c)
                   \/ CreateFailed(c)
AdvanceStep(c)  == AdvanceRead(c) \/ Fetch(c) \/ AdvanceDone(c) \/ ApplyRead(c) \/ Apply(c)
DispatchStep(c) == \/ ReadCluster(c) \/ ProbeCluster(c) \/ SubmitPending(c)
                   \/ ApplyPending(c) \/ Fail(c)
CancelStep(c)   == CancelRead(c) \/ CancelRemote(c) \/ Cancel(c)

ClientStep(c) ==
  CreateRead(c) \/ CreateStep(c) \/ AdvanceStep(c) \/ DispatchStep(c) \/ CancelStep(c)

Next == (\E c \in Clients : ClientStep(c)) \/ ClusterMoves \/ Clock \/ Crash

Spec == Init /\ [][Next]_vars

\* Handlers run, time passes, and a client that polls goes on polling, as the
\* editor and the job scheduler do every second or tick until the run has ended.
Fairness ==
  /\ \A c \in Clients : WF_vars(CreateStep(c) \/ DispatchStep(c) \/ AdvanceStep(c))
  /\ WF_vars(Clock)

FairSpec == Spec /\ Fairness

-------------------------------------------------------------------------------
(* Properties.  How many clients call, and what, decides which of them hold.    *)

\* total_row_count and data_json hold the pages of one statement, each once and
\* in order, up to the next one; a Finished run has them all.
ResultsInOrder ==
  LET n == Len(run.pages)
  IN  /\ \E s \in 0..sent : \A i \in 1..n : run.pages[i] = [stmt |-> s, page |-> i]
      /\ run.status = "Running"  => run.next.page = n + 1
      /\ run.status = "Finished" => n = Pages

\* The statement of a run is executed once: it may be an INSERT.
SubmittedOnce == sent <= 1

\* A run created on a running cluster is submitted once, however many clients
\* poll and cancel it and whatever fails or crashes: nothing makes it pending.
DirectRunsSubmitOnce == [](run.status = "Queued" /\ ~run.pending => [](sent <= 1))

\* Until the control plane crashes, a run that is not over waits for its cluster,
\* or has a next page to fetch, or create_query is still at work on it.
\* Otherwise no poll could ever move it, and active_query_count would keep its
\* cluster from being suspended.
ActiveRunCanMove ==
  crashes = 0 /\ run.status \in {"Queued", "Running"} =>
    run.pending \/ run.next # NoUri \/ \E c \in Clients : pc[c] \in CreatePcs

\* A run waiting for its cluster is dispatched or failed in the end.
PendingEnds == run.pending ~> ~run.pending

=============================================================================
