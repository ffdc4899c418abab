---------------------------- MODULE QueryRun_proofs ----------------------------
(***************************************************************************)
(* Proofs about QueryRun for any number of clients, calls and pages: its    *)
(* type invariant, that an active run can always be moved, that a run       *)
(* created on a running cluster is submitted to Trino once, and what a       *)
(* single client may rely on.                                               *)
(***************************************************************************)
EXTENDS QueryRun, TLAPS

\* A handler about to apply a response has one, and one about to stop a
\* statement knows which: without it the types would not survive either step.
Applying == {"submitted", "first_apply", "fetched", "apply", "apply_pending"}

Ready ==
  \A c \in Clients :
    /\ pc[c] \in Applying => resp[c].uri \in Uris
    /\ pc[c] = "cancel_remote" => row[c].next \in Uris

Inv == TypeOK /\ Ready

USE PagesAssumption, BoundAssumption

\* apply_trino_response makes a row of a row and a response of Trino.
LEMMA AppliedType ==
  ASSUME NEW r \in Run, NEW response \in Responses, response.uri \in Uris
  PROVE  Applied(r, response) \in Run
<1>1. CASE response.kind = "error"
  BY <1>1 DEF Applied, Run, RunStatuses, Terminal
<1>2. CASE response.kind # "error"
  <2>1. Append(r.pages, response.uri) \in Seq(Uris)
    BY DEF Run
  <2>2. response.uri.page < Pages => [response.uri EXCEPT !.page = @ + 1] \in Uris
    BY DEF Uris
  <2> QED BY <1>2, <2>1, <2>2 DEF Applied, Run, RunStatuses, Terminal
<1> QED BY <1>1, <1>2

\* A handler that returns leaves its client with the locals of an idle one.
LEMMA ReturnType ==
  ASSUME TypeOK, NEW c \in Clients, Return(c)
  PROVE  /\ pc' \in [Clients -> Pcs] /\ op' \in [Clients -> Calls \union {"none"}]
         /\ row' \in [Clients -> Run] /\ resp' \in [Clients -> Responses]
         /\ left' \in [Clients -> Nat]
<1>1. NoRun \in Run
  BY DEF NoRun, Run, RunStatuses
<1>2. NoResponse \in Responses
  BY DEF NoResponse, Responses
<1> QED BY <1>1, <1>2 DEF TypeOK, Return, Goto, Pcs

\* The rows and responses that no statement or no request stands behind.
LEMMA EmptyType == NoRun \in Run /\ NoResponse \in Responses
  BY DEF NoRun, Run, RunStatuses, NoResponse, Responses

\* Before the first request there is no row and every client is idle.
LEMMA InitInv == Init => Inv
<1> SUFFICES ASSUME Init PROVE Inv
  OBVIOUS
<1>1. page \in [1..MaxSent -> 0..Pages]
  BY PagesAssumption DEF Init
<1>2. sent \in 0..MaxSent
  BY BoundAssumption DEF Init
<1>3. TypeOK
  BY <1>1, <1>2, EmptyType DEF Init, TypeOK, ClusterStatuses, Pcs
<1>4. Ready
  BY DEF Init, Ready, Applying
<1> QED BY <1>3, <1>4 DEF Inv

\* A submission whose answer is lost may have started a statement.
LEMMA UnansweredType ==
  ASSUME TypeOK, Unanswered
  PROVE  /\ sent' \in 0..MaxSent /\ page' \in [1..MaxSent -> 0..Pages]
         /\ stopped' \in SUBSET (1..MaxSent)
<1>1. CASE Started
  <2>1. 1 \in 0..Pages /\ page \in [1..MaxSent -> 0..Pages]
    BY PagesAssumption DEF TypeOK
  <2>2. page' \in [1..MaxSent -> 0..Pages]
    BY <1>1, <2>1 DEF Started
  <2> QED BY <1>1, <2>2, BoundAssumption DEF TypeOK, Started
<1>2. CASE UNCHANGED trinoVars
  BY <1>2 DEF TypeOK, trinoVars
<1> QED BY <1>1, <1>2 DEF Unanswered

\* What an answer of Trino does to Trino's state and to the client's response.
Answered(c) ==
  /\ sent' \in 0..MaxSent /\ page' \in [1..MaxSent -> 0..Pages] /\ stopped' \in SUBSET (1..MaxSent)
  /\ resp' \in [Clients -> Responses] /\ resp'[c].uri \in Uris
  /\ \A d \in Clients \ {c} : resp'[d] = resp[d]

\* A submission is answered with the first page of a new statement.
LEMMA AcceptType ==
  ASSUME TypeOK, NEW c \in Clients, Accept(c) PROVE Answered(c)
<1> DEFINE first == Response(sent + 1, 1)
<1>1. sent + 1 \in 1..MaxSent /\ sent' = sent + 1
  BY BoundAssumption DEF TypeOK, Accept, Started
<1>2. first \in Responses /\ first.uri \in Uris
  BY <1>1, PagesAssumption DEF Response, Responses, Uris
<1>3. resp' = [resp EXCEPT ![c] = first]
  BY <1>1 DEF Accept
<1>4. Unanswered
  BY DEF Accept, Unanswered
<1> HIDE DEF first
<1>5. resp' \in [Clients -> Responses] /\ resp'[c] = first
  BY <1>2, <1>3 DEF TypeOK
<1>6. \A d \in Clients \ {c} : resp'[d] = resp[d]
  BY <1>3 DEF TypeOK
<1> QED BY <1>2, <1>4, <1>5, <1>6, UnansweredType DEF Answered

\* A request for a page is answered with the page or with an error.
LEMMA ServeType ==
  ASSUME TypeOK, NEW c \in Clients, NEW uri \in Uris, Serve(c, uri) PROVE Answered(c)
<1>1. uri.stmt \in 1..MaxSent /\ uri.page \in 1..Pages
  BY DEF Uris
<1>2. PICK answer \in {Response(uri.stmt, uri.page), ErrorOf(uri.stmt)} :
        resp' = [resp EXCEPT ![c] = answer]
  BY DEF Serve
<1>3. answer \in Responses /\ answer.uri \in Uris
  BY <1>1, PagesAssumption DEF Response, ErrorOf, Responses, Uris
<1>4. /\ sent' = sent /\ page' \in [1..MaxSent -> 0..Pages]
      /\ stopped' \in SUBSET (1..MaxSent)
  <2>1. /\ uri.page \in 0..Pages /\ page \in [1..MaxSent -> 0..Pages]
        /\ stopped \in SUBSET (1..MaxSent)
    BY <1>1 DEF TypeOK
  <2>2. page' \in {page, [page EXCEPT ![uri.stmt] = uri.page]}
    BY DEF Serve
  <2>3. page' \in [1..MaxSent -> 0..Pages]
    BY <2>1, <2>2
  <2>4. sent' = sent /\ stopped' \in {stopped, stopped \union {uri.stmt}}
    BY DEF Serve
  <2> QED BY <1>1, <2>1, <2>3, <2>4
<1>5. resp' \in [Clients -> Responses] /\ resp'[c] = answer
  BY <1>2, <1>3 DEF TypeOK
<1>6. \A d \in Clients \ {c} : resp'[d] = resp[d]
  BY <1>2 DEF TypeOK
<1> QED BY <1>3, <1>4, <1>5, <1>6 DEF Answered, TypeOK

\* create_query keeps the types: it inserts the row it made, and leaves its
\* client idle, or with a response to apply.
LEMMA CreateInv ==
  ASSUME Inv, NEW c \in Clients, CreateRead(c) \/ CreateStep(c) PROVE Inv'
<1> USE DEF Inv, Applying
<1>1. CASE CreateRead(c)
  <2>1. [NoRun EXCEPT !.status = "Queued", !.pending = (cluster = "Suspended")] \in Run
    <3>1. \A b \in BOOLEAN : [NoRun EXCEPT !.status = "Queued", !.pending = b] \in Run
      BY EmptyType DEF Run, RunStatuses
    <3>2. (cluster = "Suspended") \in BOOLEAN
      OBVIOUS
    <3> QED BY <3>1, <3>2
  <2>2. op' \in [Clients -> Calls \union {"none"}]
    BY <1>1, OpsAssumption DEF CreateRead, Enter, TypeOK, Calls
  <2>3. pc' \in [Clients -> Pcs] /\ row' \in [Clients -> Run]
    BY <1>1, <2>1 DEF CreateRead, Enter, Goto, TypeOK, Pcs
  <2>4. TypeOK'
    BY <1>1, <2>2, <2>3 DEF CreateRead, trinoVars, TypeOK
  <2>5. Ready'
    BY <1>1 DEF CreateRead, Enter, Goto, TypeOK, Ready
  <2> QED BY <2>4, <2>5
<1>2. CASE CreateInsert(c)
  <2>1. CASE Return(c) /\ UNCHANGED run
    BY <1>2, <2>1, ReturnType DEF CreateInsert, Return, Goto, TypeOK, Ready, trinoVars
  <2>2. CASE UNCHANGED <<op, row, resp, left>> /\ run' = row[c]
    <3>1. PICK p \in {"resume", "submit", "idle"} : Goto(c, p)
      BY <1>2 DEF CreateInsert, Return
    <3>2. TypeOK'
      BY <1>2, <2>2, <3>1 DEF CreateInsert, Goto, TypeOK, Pcs, CreatePcs, trinoVars
    <3>3. Ready'
      BY <2>2, <3>1 DEF Goto, TypeOK, Ready
    <3> QED BY <3>2, <3>3
  <2> QED BY <1>2, <2>1, <2>2 DEF CreateInsert
<1>3. CASE Resume(c)
  <2>1. CASE Return(c)
    BY <1>3, <2>1, ReturnType DEF Resume, Return, Goto, TypeOK, Ready, trinoVars
  <2>2. CASE Goto(c, "resume_failed") /\ UNCHANGED <<op, row, resp, left>>
    BY <1>3, <2>2 DEF Resume, Goto, TypeOK, Ready, trinoVars, Pcs
  <2> QED BY <1>3, <2>1, <2>2 DEF Resume
<1>4. CASE ResumeFailed(c)
  <2>1. CASE Return(c)
    BY <1>4, <2>1, ReturnType DEF ResumeFailed, Return, Goto, TypeOK, Ready, trinoVars
  <2>2. CASE Goto(c, "fail") /\ UNCHANGED <<op, row, resp, left>>
    BY <1>4, <2>2 DEF ResumeFailed, Goto, TypeOK, Ready, trinoVars, Pcs
  <2> QED BY <1>4, <2>1, <2>2 DEF ResumeFailed
<1>5. CASE Submit(c)
  <2>1. CASE Accept(c) /\ Goto(c, "submitted") /\ UNCHANGED <<op, row, left>>
    <3>1. Answered(c)
      BY <2>1, AcceptType
    <3>2. TypeOK'
      BY <1>5, <2>1, <3>1 DEF Submit, Answered, Goto, TypeOK, Pcs, CreatePcs
    <3>3. Ready'
      BY <2>1, <3>1 DEF Answered, Goto, TypeOK, Ready
    <3> QED BY <3>2, <3>3
  <2>2. CASE Raise(c) /\ Unanswered
    <3> USE UnansweredType
    <3>1. CASE Return(c)
      BY <1>5, <2>2, <3>1, ReturnType DEF Submit, Return, Goto, TypeOK, Ready
    <3>2. CASE Goto(c, "create_failed") /\ UNCHANGED <<op, row, resp, left>>
      BY <1>5, <2>2, <3>2 DEF Submit, Goto, TypeOK, Ready, Pcs, CreatePcs
    <3> QED BY <2>2, <3>1, <3>2 DEF Raise
  <2> QED BY <1>5, <2>1, <2>2 DEF Submit
<1>6. CASE CreateFailed(c)
  <2>1. [run EXCEPT !.status = "Failed"] \in Run
    BY DEF TypeOK, Run, RunStatuses, Terminal
  <2> QED BY <1>6, <2>1, ReturnType
          DEF CreateFailed, Return, Goto, TypeOK, Ready, trinoVars
<1> QED BY <1>1, <1>2, <1>3, <1>4, <1>5, <1>6 DEF CreateStep

\* A poll keeps the types: it applies a response only after Trino gave one.
LEMMA AdvanceInv ==
  ASSUME Inv, NEW c \in Clients, AdvanceStep(c) PROVE Inv'
<1> USE DEF Inv, Applying
<1>1. CASE AdvanceRead(c)
  <2> DEFINE next == IF run.pending THEN "cluster" ELSE "advance"
  <2>1. next \in Pcs \ (Applying \union {"cancel_remote"})
    BY DEF Pcs, DispatchPcs
  <2>2. Goto(c, next) /\ row' = [row EXCEPT ![c] = run] /\ resp' = resp
    BY <1>1 DEF AdvanceRead, Enter
  <2>3. op' \in [Clients -> Calls \union {"none"}] /\ left' \in [Clients -> Nat]
    BY ZenonT(40), <1>1, OpsAssumption, BoundAssumption DEF AdvanceRead, Enter, TypeOK, Calls
  <2> HIDE DEF next
  <2>4. TypeOK'
    BY <1>1, <2>1, <2>2, <2>3 DEF AdvanceRead, Goto, TypeOK, trinoVars
  <2>5. Ready'
    BY <2>1, <2>2 DEF Goto, TypeOK, Ready
  <2> QED BY <2>4, <2>5
<1>2. CASE Fetch(c)
  <2>1. CASE Serve(c, row[c].next) /\ Goto(c, "fetched") /\ UNCHANGED <<op, row>>
             /\ left' = [left EXCEPT ![c] = @ - 1]
    <3>1. row[c].next \in Uris /\ left[c] \in Nat \ {0}
      BY <1>2 DEF Fetch, HasNext, TypeOK, Run
    <3>2. Answered(c)
      BY <2>1, <3>1, ServeType
    <3>3. left' \in [Clients -> Nat]
      BY <2>1, <3>1 DEF TypeOK
    <3>4. TypeOK'
      BY <1>2, <2>1, <3>2, <3>3 DEF Fetch, Answered, Goto, TypeOK, Pcs
    <3>5. Ready'
      BY <2>1, <3>2 DEF Answered, Goto, TypeOK, Ready
    <3> QED BY <3>4, <3>5
  <2>2. CASE Raise(c) /\ UNCHANGED trinoVars
    <3>1. CASE Return(c)
      BY <1>2, <2>2, <3>1, ReturnType DEF Fetch, Return, Goto, TypeOK, Ready, trinoVars
    <3>2. CASE Goto(c, "create_failed") /\ UNCHANGED <<op, row, resp, left>>
      BY <1>2, <2>2, <3>2 DEF Fetch, Goto, TypeOK, Ready, trinoVars, Pcs, CreatePcs
    <3> QED BY <2>2, <3>1, <3>2 DEF Raise
  <2> QED BY <1>2, <2>1, <2>2 DEF Fetch
<1>3. CASE AdvanceDone(c)
  BY <1>3, ReturnType DEF AdvanceDone, Return, Goto, TypeOK, Ready, trinoVars
<1>4. CASE ApplyRead(c)
  <2>1. PICK p \in {"first_apply", "apply"} : Goto(c, p) /\ pc[c] \in {"submitted", "fetched"}
    BY <1>4 DEF ApplyRead
  <2>2. TypeOK'
    BY <1>4, <2>1 DEF ApplyRead, Goto, TypeOK, Pcs, CreatePcs, trinoVars
  <2>3. Ready'
    BY <1>4, <2>1 DEF ApplyRead, Goto, TypeOK, Ready
  <2> QED BY <2>2, <2>3
<1>5. CASE Apply(c)
  <2>1. PICK p \in {"advance_read", "advance"} : Goto(c, p) /\ pc[c] \in {"first_apply", "apply"}
    BY <1>5 DEF Apply
  <2>2. Applied(row[c], resp[c]) \in Run
    BY <2>1, AppliedType DEF TypeOK, Ready
  <2>3. run' \in Run
    BY <1>5, <2>2 DEF Apply, TypeOK, Run
  <2>4. TypeOK'
    BY <1>5, <2>1, <2>3, EmptyType DEF Apply, Goto, TypeOK, Pcs, CreatePcs, trinoVars
  <2>5. Ready'
    BY <1>5, <2>1 DEF Apply, Goto, TypeOK, Ready
  <2> QED BY <2>4, <2>5
<1> QED BY <1>1, <1>2, <1>3, <1>4, <1>5 DEF AdvanceStep

\* The cluster's status sends a dispatch on without touching anything else.
LEMMA DecideInv ==
  ASSUME Inv, NEW c \in Clients, NEW status, Decide(c, status),
         cluster' \in ClusterStatuses, UNCHANGED <<run, late, trinoVars, crashes>>
  PROVE  Inv'
<1>1. PICK p \in {"fail", "advance", "submit_pending"} : Goto(c, p)
  BY DEF Decide
<1>2. TypeOK'
  BY <1>1 DEF Inv, Decide, Goto, TypeOK, Pcs, DispatchPcs, trinoVars
<1>3. Ready'
  BY <1>1 DEF Inv, Applying, Decide, Goto, TypeOK, Ready
<1> QED BY <1>2, <1>3 DEF Inv

\* The dispatch of a waiting run keeps the types.
LEMMA DispatchInv ==
  ASSUME Inv, NEW c \in Clients, DispatchStep(c) PROVE Inv'
<1> USE DEF Inv, Applying
<1>1. CASE ReadCluster(c)
  <2>1. CASE Decide(c, cluster)
    BY <1>1, <2>1, DecideInv DEF ReadCluster, TypeOK
  <2>2. CASE Goto(c, "probe") /\ UNCHANGED <<op, row, resp, left>>
    BY <1>1, <2>2 DEF ReadCluster, Goto, TypeOK, Ready, Pcs, DispatchPcs, trinoVars
  <2> QED BY <1>1, <2>1, <2>2 DEF ReadCluster
<1>2. CASE ProbeCluster(c)
  <2>1. cluster' \in ClusterStatuses
    BY <1>2 DEF ProbeCluster, TypeOK, ClusterStatuses
  <2>2. PICK status \in {"Running", "Starting", cluster} : Decide(c, status)
    BY <1>2 DEF ProbeCluster
  <2> QED BY <1>2, <2>1, <2>2, DecideInv DEF ProbeCluster
<1>3. CASE SubmitPending(c)
  <2>1. CASE Accept(c) /\ Goto(c, "apply_pending")
    <3>1. Answered(c)
      BY <2>1, AcceptType
    <3>2. TypeOK'
      BY <1>3, <2>1, <3>1 DEF SubmitPending, Answered, Goto, TypeOK, Pcs, DispatchPcs
    <3>3. Ready'
      BY <1>3, <2>1, <3>1 DEF SubmitPending, Answered, Goto, TypeOK, Ready
    <3> QED BY <3>2, <3>3
  <2>2. CASE Goto(c, "fail") /\ Unanswered /\ UNCHANGED resp
    BY <1>3, <2>2, UnansweredType DEF SubmitPending, Goto, TypeOK, Ready, Pcs
  <2> QED BY <1>3, <2>1, <2>2 DEF SubmitPending
<1>4. CASE ApplyPending(c)
  <2>1. Applied(run, resp[c]) \in Run
    BY <1>4, AppliedType DEF ApplyPending, TypeOK, Ready
  <2>2. run' \in Run
    BY <1>4, <2>1 DEF ApplyPending, Run
  <2>3. TypeOK'
    BY <1>4, <2>2, EmptyType DEF ApplyPending, Goto, TypeOK, Pcs, trinoVars
  <2>4. Ready'
    BY <1>4 DEF ApplyPending, Goto, TypeOK, Ready
  <2> QED BY <2>3, <2>4
<1>5. CASE Fail(c)
  <2>1. [run EXCEPT !.status = "Failed", !.pending = FALSE] \in Run
    BY DEF TypeOK, Run, RunStatuses, Terminal
  <2> QED BY <1>5, <2>1, ReturnType DEF Fail, Return, Goto, TypeOK, Ready, trinoVars
<1> QED BY <1>1, <1>2, <1>3, <1>4, <1>5 DEF DispatchStep

\* cancel_query keeps the types: it asks Trino to stop a statement it knows of.
LEMMA CancelInv ==
  ASSUME Inv, NEW c \in Clients, CancelStep(c) PROVE Inv'
<1> USE DEF Inv, Applying
<1>1. CASE CancelRead(c)
  <2>1. PICK p \in {"cancel_remote", "cancel"} :
          Goto(c, p) /\ (p = "cancel_remote" => run.next # NoUri)
    BY <1>1 DEF CancelRead, Enter
  <2>2. op' \in [Clients -> Calls \union {"none"}]
    BY <1>1, OpsAssumption DEF CancelRead, Enter, TypeOK, Calls
  <2>3. TypeOK'
    BY <1>1, <2>1, <2>2 DEF CancelRead, Goto, TypeOK, Pcs, trinoVars
  <2>4. Ready'
    BY <1>1, <2>1 DEF CancelRead, Goto, TypeOK, Ready, Run
  <2> QED BY <2>3, <2>4
<1>2. CASE CancelRemote(c)
  <2>1. row[c].next.stmt \in 1..MaxSent
    BY <1>2 DEF CancelRemote, Ready, Uris
  <2>2. stopped' \in SUBSET (1..MaxSent)
    BY <1>2, <2>1 DEF CancelRemote, TypeOK
  <2>3. CASE Return(c)
    BY <1>2, <2>2, <2>3, ReturnType DEF CancelRemote, Return, Goto, TypeOK, Ready
  <2>4. CASE Goto(c, "cancel") /\ UNCHANGED <<op, row, resp, left>>
    BY <1>2, <2>2, <2>4 DEF CancelRemote, Goto, TypeOK, Ready, Pcs
  <2> QED BY <1>2, <2>3, <2>4 DEF CancelRemote
<1>3. CASE Cancel(c)
  <2>1. [run EXCEPT !.status = "Cancelled", !.next = NoUri] \in Run
    BY DEF TypeOK, Run, RunStatuses, Terminal
  <2> QED BY <1>3, <2>1, ReturnType DEF Cancel, Return, Goto, TypeOK, Ready, trinoVars
<1> QED BY <1>1, <1>2, <1>3 DEF CancelStep

\* So do the cluster, the clock and a crash, which leaves every client idle.
LEMMA EnvironmentInv ==
  ASSUME Inv, ClusterMoves \/ Clock \/ Crash PROVE Inv'
<1> USE DEF Inv, Applying, trinoVars, localVars
<1>1. CASE ClusterMoves
  BY <1>1 DEF ClusterMoves, TypeOK, Ready
<1>2. CASE Clock
  BY <1>2 DEF Clock, TypeOK, Ready
<1>3. CASE Crash
  <2>1. TypeOK'
    BY <1>3, EmptyType DEF Crash, TypeOK, Pcs
  <2>2. Ready'
    BY <1>3 DEF Crash, Ready
  <2> QED BY <2>1, <2>2
<1> QED BY <1>1, <1>2, <1>3

\* Every step keeps the types.
LEMMA NextInv == Inv /\ [Next]_vars => Inv'
<1> SUFFICES ASSUME Inv, [Next]_vars PROVE Inv'
  OBVIOUS
<1>1. CASE UNCHANGED vars
  BY <1>1 DEF vars, trinoVars, localVars, Inv, TypeOK, Ready
<1>2. ASSUME NEW c \in Clients, ClientStep(c) PROVE Inv'
  BY <1>2, CreateInv, AdvanceInv, DispatchInv, CancelInv DEF ClientStep
<1> QED BY <1>1, <1>2, EnvironmentInv DEF Next

\* The variables keep their declared types, for any number of clients and pages.
THEOREM TypeCorrect == Spec => []TypeOK
<1>1. Inv => TypeOK
  BY DEF Inv
<1> QED BY InitInv, NextInv, <1>1, PTL DEF Spec

\* The inductive invariant itself holds throughout.
LEMMA InvCorrect == Spec => []Inv
  BY InitInv, NextInv, PTL DEF Spec

-------------------------------------------------------------------------------
(* An active run can move.  A run that is Running has a next page; a run that is *)
(* Queued and does not wait for its cluster still has create_query's thread,     *)
(* which fails it if anything goes wrong.                                        *)
Creating == {"submit", "submitted", "first_apply", "create_failed"}

Moving ==
  /\ run.status = "Running" => run.next # NoUri
  /\ run.status = "Queued" /\ ~run.pending => \E c \in Clients : pc[c] \in Creating
  /\ \A c \in Clients :
       /\ pc[c] \in {"insert", "submit"} => op[c] = "create"
       /\ pc[c] = "insert" => row[c].status = "Queued"

\* apply_trino_response leaves a run with a next page or at its end.
LEMMA AppliedMoves ==
  ASSUME NEW r \in Run, NEW response \in Responses, response.uri \in Uris
  PROVE  LET new == Applied(r, response)
         IN  /\ new.status \in {"Running", "Finished", "Failed"}
             /\ new.status = "Running" => new.next # NoUri
             /\ new.pending = r.pending
<1>1. CASE response.kind = "error"
  BY <1>1 DEF Applied, Run
<1>2. CASE response.kind # "error"
  BY <1>2, PagesAssumption DEF Applied, Run, Uris, NoUri
<1> QED BY <1>1, <1>2

\* create_query hands the run over to Trino or to its except block.
LEMMA CreateMoves ==
  ASSUME Inv, Moving, NEW c \in Clients, CreateRead(c) \/ CreateStep(c) PROVE Moving'
<1> USE DEF Inv, Moving, Creating
<1>1. CASE CreateRead(c)
  BY <1>1 DEF CreateRead, Enter, Goto, TypeOK, NoRun
<1>2. CASE CreateInsert(c)
  <2>1. CASE Return(c) /\ UNCHANGED run
    BY <1>2, <2>1 DEF CreateInsert, Return, Goto, TypeOK
  <2>2. CASE /\ UNCHANGED <<op, row>> /\ run' = row[c]
             /\ Goto(c, IF row[c].pending THEN "resume" ELSE "submit")
    BY <1>2, <2>2 DEF CreateInsert, Goto, TypeOK
  <2> QED BY <1>2, <2>1, <2>2 DEF CreateInsert
<1>3. CASE Resume(c)
  BY <1>3 DEF Resume, Return, Goto, TypeOK
<1>4. CASE ResumeFailed(c)
  <2>1. pc[c] = "resume_failed" /\ run' = run /\ \E p \in {"idle", "fail"} : Goto(c, p)
    BY <1>4 DEF ResumeFailed, Return
  <2>2. \A d \in Clients : d # c => op'[d] = op[d] /\ row'[d] = row[d]
    BY <1>4 DEF ResumeFailed, Return, TypeOK
  <2> QED BY <2>1, <2>2 DEF Goto, TypeOK
<1>5. CASE Submit(c)
  BY <1>5 DEF Submit, Raise, Return, Goto, TypeOK
<1>6. CASE CreateFailed(c)
  BY <1>6 DEF CreateFailed, Return, Goto, TypeOK, Run
<1> QED BY <1>1, <1>2, <1>3, <1>4, <1>5, <1>6 DEF CreateStep

\* A poll writes only what it applied.
LEMMA AdvanceMoves ==
  ASSUME Inv, Moving, NEW c \in Clients, AdvanceStep(c) PROVE Moving'
<1> USE DEF Inv, Moving, Creating
<1>1. CASE AdvanceRead(c)
  BY <1>1 DEF AdvanceRead, Enter, Goto, TypeOK
<1>2. CASE Fetch(c)
  BY ZenonT(40), <1>2 DEF Fetch, Raise, Return, Goto, TypeOK
<1>3. CASE AdvanceDone(c)
  BY <1>3 DEF AdvanceDone, Return, Goto, TypeOK
<1>4. CASE ApplyRead(c)
  BY <1>4 DEF ApplyRead, Goto, TypeOK
<1>5. CASE Apply(c)
  <2>1. pc[c] \in {"first_apply", "apply"} /\ \E p \in {"advance_read", "advance"} : Goto(c, p)
    BY <1>5 DEF Apply
  <2> DEFINE new == Applied(row[c], resp[c])
  <2>2. new \in Run /\ new.status \in {"Running", "Finished", "Failed"}
        /\ (new.status = "Running" => new.next # NoUri)
    BY <2>1, AppliedMoves, AppliedType DEF TypeOK, Ready, Applying
  <2>3. run' = [new EXCEPT !.pending = run.pending] /\ op' = op
        /\ row' = [row EXCEPT ![c] = run']
    BY <1>5 DEF Apply
  <2> HIDE DEF new
  <2>4. run'.status = new.status /\ run'.next = new.next
    BY <2>2, <2>3 DEF Run
  <2> QED BY <2>1, <2>2, <2>3, <2>4 DEF Goto, TypeOK
<1> QED BY <1>1, <1>2, <1>3, <1>4, <1>5 DEF AdvanceStep

\* A dispatch ends the waiting together with the queueing.
LEMMA DispatchMoves ==
  ASSUME Inv, Moving, NEW c \in Clients, DispatchStep(c) PROVE Moving'
<1> USE DEF Inv, Moving, Creating
<1>1. CASE ReadCluster(c)
  BY <1>1 DEF ReadCluster, Decide, Goto, TypeOK
<1>2. CASE ProbeCluster(c)
  BY <1>2 DEF ProbeCluster, Decide, Goto, TypeOK
<1>3. CASE SubmitPending(c)
  BY <1>3 DEF SubmitPending, Goto, TypeOK
<1>4. CASE ApplyPending(c)
  <2> DEFINE new == Applied(run, resp[c])
  <2>1. new \in Run /\ new.status \in {"Running", "Finished", "Failed"}
        /\ (new.status = "Running" => new.next # NoUri)
    BY <1>4, AppliedMoves, AppliedType DEF ApplyPending, TypeOK, Ready, Applying
  <2>2. run' = [new EXCEPT !.pending = FALSE]
    BY <1>4 DEF ApplyPending
  <2> HIDE DEF new
  <2>3. run'.status = new.status /\ run'.next = new.next
    BY <2>1, <2>2 DEF Run
  <2> QED BY <1>4, <2>1, <2>3 DEF ApplyPending, Goto, TypeOK
<1>5. CASE Fail(c)
  BY <1>5 DEF Fail, Return, Goto, TypeOK, Run
<1> QED BY <1>1, <1>2, <1>3, <1>4, <1>5 DEF DispatchStep

\* cancel_query ends the run.
LEMMA CancelMoves ==
  ASSUME Inv, Moving, NEW c \in Clients, CancelStep(c) PROVE Moving'
<1> USE DEF Inv, Moving, Creating
<1>1. CASE CancelRead(c)
  BY <1>1 DEF CancelRead, Enter, Goto, TypeOK
<1>2. CASE CancelRemote(c)
  BY <1>2 DEF CancelRemote, Return, Goto, TypeOK
<1>3. CASE Cancel(c)
  BY <1>3 DEF Cancel, Return, Goto, TypeOK, Run
<1> QED BY <1>1, <1>2, <1>3 DEF CancelStep

\* Handlers do not crash the control plane.
LEMMA CrashesKept ==
  ASSUME NEW c \in Clients, ClientStep(c) PROVE crashes' = crashes
  BY DEF ClientStep, CreateRead, CreateStep, CreateInsert, Resume, ResumeFailed, Submit,
     CreateFailed, AdvanceStep, AdvanceRead, Fetch, AdvanceDone, ApplyRead, Apply,
     DispatchStep, ReadCluster, ProbeCluster, SubmitPending, ApplyPending, Fail,
     CancelStep, CancelRead, CancelRemote, Cancel

MovingUntilCrash == crashes = 0 => Moving

\* A crash ends create_query's thread; every other step keeps Moving.
LEMMA NextMoves == Inv /\ MovingUntilCrash /\ [Next]_vars => MovingUntilCrash'
<1> SUFFICES ASSUME Inv, MovingUntilCrash, [Next]_vars, crashes' = 0 PROVE Moving'
  BY DEF MovingUntilCrash
<1> USE DEF MovingUntilCrash
<1>1. CASE UNCHANGED vars
  BY <1>1 DEF vars, localVars, Moving
<1>2. ASSUME NEW c \in Clients, ClientStep(c) PROVE Moving'
  <2>1. Moving
    BY <1>2, CrashesKept
  <2> QED BY <1>2, <2>1, CreateMoves, AdvanceMoves, DispatchMoves, CancelMoves DEF ClientStep
<1>3. CASE ClusterMoves \/ Clock
  BY <1>3 DEF ClusterMoves, Clock, localVars, Moving
<1>4. ~Crash
  BY DEF Crash, Inv, TypeOK
<1> QED BY <1>1, <1>2, <1>3, <1>4 DEF Next

\* As long as the control plane does not crash, a run that is not over waits for
\* its cluster, has a next page to fetch, or is still in create_query's hands.
THEOREM ActiveRunMoves == Spec => []ActiveRunCanMove
<1>1. Init => MovingUntilCrash
  BY DEF Init, MovingUntilCrash, Moving, NoRun
<1>2. Inv /\ MovingUntilCrash => ActiveRunCanMove
  BY DEF Inv, TypeOK, Run, MovingUntilCrash, Moving, Creating, ActiveRunCanMove, CreatePcs
<1> QED BY <1>1, <1>2, NextMoves, InvCorrect, PTL DEF Spec

-------------------------------------------------------------------------------
(* A run created on a running cluster is submitted once.  From its insertion on  *)
(* nobody dispatches it, and only create_query's thread may submit it, once.     *)
Direct ==
  /\ run.status # "none" /\ ~run.pending
  /\ \A c \in Clients : pc[c] \notin DispatchPcs \union {"insert"}
  /\ sent <= 1
  /\ \A c, d \in Clients : pc[c] = "submit" => sent = 0 /\ (pc[d] = "submit" => c = d)

\* Only one create_query has a row to insert, and it is the first to do anything.
Inserted ==
  /\ run.status = "none" =>
       /\ run = NoRun /\ sent = 0
       /\ \A c \in Clients : pc[c] \in {"idle", "insert"}
       /\ \A c, d \in Clients : pc[c] = "insert" /\ pc[d] = "insert" => c = d
  /\ \A c \in Clients : pc[c] = "insert" => run.status = "none" /\ row[c].status = "Queued"
  /\ run.status = "Queued" /\ ~run.pending => Direct

\* No step of any handler takes a run out of Direct.
LEMMA DirectStays == Inv /\ Direct /\ [Next]_vars => Direct'
<1> SUFFICES ASSUME Inv, Direct, [Next]_vars PROVE Direct'
  OBVIOUS
<1> USE DEF Inv, Direct
<1>1. CASE UNCHANGED vars
  BY <1>1 DEF vars, trinoVars, localVars
<1>2. ASSUME NEW c \in Clients, CreateRead(c) \/ CreateStep(c) PROVE Direct'
  <2>1. ~CreateRead(c) /\ ~CreateInsert(c)
    BY DEF CreateRead, CreateInsert, NoRun
  <2>2. CASE Resume(c) \/ ResumeFailed(c)
    BY <2>2 DEF Resume, ResumeFailed, Return, Goto, TypeOK, DispatchPcs, trinoVars
  <2>3. CASE Submit(c)
    <3>1. run' = run /\ pc[c] = "submit"
      BY <2>3 DEF Submit
    <3>2. PICK p \in {"submitted", "create_failed", "idle"} : Goto(c, p)
      BY <2>3 DEF Submit, Raise, Return
    <3>3. sent' \in {0, 1}
      BY <2>3, <3>1 DEF Submit, Accept, Started, Unanswered, trinoVars
    <3>4. \A d \in Clients : pc'[d] # "submit" /\ (d # c => pc'[d] = pc[d])
      BY <3>1, <3>2 DEF Goto, TypeOK
    <3> QED BY <3>1, <3>2, <3>3, <3>4 DEF Goto, TypeOK, DispatchPcs
  <2>4. CASE CreateFailed(c)
    BY <2>4 DEF CreateFailed, Return, Goto, TypeOK, Run, DispatchPcs, trinoVars
  <2> QED BY <1>2, <2>1, <2>2, <2>3, <2>4 DEF CreateStep
<1>3. ASSUME NEW c \in Clients, AdvanceStep(c) PROVE Direct'
  <2>1. CASE AdvanceRead(c)
    <3>1. pc' = [pc EXCEPT ![c] = "advance"]
      BY <2>1 DEF AdvanceRead, Enter, Goto
    <3>2. run' = run /\ sent' = sent
      BY <2>1 DEF AdvanceRead, trinoVars
    <3>3. \A d \in Clients : pc'[d] = pc[d] \/ pc'[d] = "advance"
      BY <3>1 DEF TypeOK
    <3> QED BY <3>2, <3>3 DEF DispatchPcs
  <2>2. CASE Fetch(c)
    BY <2>2 DEF Fetch, Serve, Raise, Return, Goto, TypeOK, DispatchPcs, trinoVars
  <2>3. CASE AdvanceDone(c) \/ ApplyRead(c)
    BY <2>3 DEF AdvanceDone, ApplyRead, Return, Goto, TypeOK, DispatchPcs, trinoVars
  <2>4. CASE Apply(c)
    <3> DEFINE new == Applied(row[c], resp[c])
    <3>1. pc[c] \in {"first_apply", "apply"} /\ \E p \in {"advance_read", "advance"} : Goto(c, p)
      BY <2>4 DEF Apply
    <3>2. new \in Run /\ new.status # "none"
      BY <3>1, AppliedMoves, AppliedType DEF TypeOK, Ready, Applying
    <3>3. run' = [new EXCEPT !.pending = run.pending] /\ sent' = sent
      BY <2>4 DEF Apply, trinoVars
    <3> HIDE DEF new
    <3>4. run'.status = new.status /\ run'.pending = run.pending
      BY <3>2, <3>3 DEF Run
    <3> QED BY <3>1, <3>2, <3>3, <3>4 DEF Goto, TypeOK, DispatchPcs
  <2> QED BY <1>3, <2>1, <2>2, <2>3, <2>4 DEF AdvanceStep
<1>4. ASSUME NEW c \in Clients, DispatchStep(c) PROVE Direct'
  <2>1. Fail(c)
    BY <1>4 DEF DispatchStep, DispatchPcs, ReadCluster, ProbeCluster, SubmitPending, ApplyPending
  <2> QED BY <2>1 DEF Fail, Return, Goto, TypeOK, Run, DispatchPcs, trinoVars
<1>5. ASSUME NEW c \in Clients, CancelStep(c) PROVE Direct'
  <2>1. CASE CancelRead(c) \/ CancelRemote(c)
    BY <2>1 DEF CancelRead, CancelRemote, Enter, Return, Goto, TypeOK, DispatchPcs, trinoVars
  <2>2. CASE Cancel(c)
    BY <2>2 DEF Cancel, Return, Goto, TypeOK, Run, DispatchPcs, trinoVars
  <2> QED BY <1>5, <2>1, <2>2 DEF CancelStep
<1>6. CASE ClusterMoves \/ Clock \/ Crash
  BY <1>6 DEF ClusterMoves, Clock, Crash, DispatchPcs, trinoVars, localVars
<1> QED BY <1>1, <1>2, <1>3, <1>4, <1>5, <1>6 DEF Next, ClientStep

\* Once the row is there, no step inserts it again or puts it back in the queue.
LEMMA InsertedOnce ==
  ASSUME Inv, run.status # "none", \A c \in Clients : pc[c] # "insert", Next
  PROVE  /\ run'.status # "none" /\ (run'.status = "Queued" => run' = run)
         /\ \A c \in Clients : pc'[c] # "insert"
<1> USE DEF Inv
<1>1. ASSUME NEW c \in Clients, CreateRead(c) \/ CreateStep(c)
      PROVE  /\ run'.status # "none" /\ (run'.status = "Queued" => run' = run)
             /\ \A d \in Clients : pc'[d] # "insert"
  <2>1. ~CreateRead(c) /\ ~CreateInsert(c)
    BY DEF CreateRead, CreateInsert, NoRun
  <2>2. CASE Resume(c) \/ ResumeFailed(c) \/ Submit(c)
    BY <2>2 DEF Resume, ResumeFailed, Submit, Raise, Return, Goto, TypeOK
  <2>3. CASE CreateFailed(c)
    BY <2>3 DEF CreateFailed, Return, Goto, TypeOK, Run
  <2> QED BY <1>1, <2>1, <2>2, <2>3 DEF CreateStep
<1>2. ASSUME NEW c \in Clients, AdvanceStep(c)
      PROVE  /\ run'.status # "none" /\ (run'.status = "Queued" => run' = run)
             /\ \A d \in Clients : pc'[d] # "insert"
  <2>1. CASE AdvanceRead(c) \/ Fetch(c) \/ AdvanceDone(c) \/ ApplyRead(c)
    BY <2>1 DEF AdvanceRead, Fetch, AdvanceDone, ApplyRead, Enter, Raise, Return, Goto, TypeOK
  <2>2. CASE Apply(c)
    <3> DEFINE new == Applied(row[c], resp[c])
    <3>1. pc[c] \in {"first_apply", "apply"} /\ \E p \in {"advance_read", "advance"} : Goto(c, p)
      BY <2>2 DEF Apply
    <3>2. new \in Run /\ new.status \notin {"none", "Queued"}
      BY <3>1, AppliedMoves, AppliedType DEF TypeOK, Ready, Applying
    <3>3. run' = [new EXCEPT !.pending = run.pending]
      BY <2>2 DEF Apply
    <3> HIDE DEF new
    <3>4. run'.status = new.status
      BY <3>2, <3>3 DEF Run
    <3> QED BY <3>1, <3>2, <3>4 DEF Goto, TypeOK
  <2> QED BY <1>2, <2>1, <2>2 DEF AdvanceStep
<1>3. ASSUME NEW c \in Clients, DispatchStep(c)
      PROVE  /\ run'.status # "none" /\ (run'.status = "Queued" => run' = run)
             /\ \A d \in Clients : pc'[d] # "insert"
  <2>1. CASE ReadCluster(c) \/ ProbeCluster(c) \/ SubmitPending(c)
    BY <2>1 DEF ReadCluster, ProbeCluster, SubmitPending, Decide, Goto, TypeOK
  <2>2. CASE ApplyPending(c)
    <3> DEFINE new == Applied(run, resp[c])
    <3>1. new \in Run /\ new.status \notin {"none", "Queued"}
      BY <2>2, AppliedMoves, AppliedType DEF ApplyPending, TypeOK, Ready, Applying
    <3>2. run' = [new EXCEPT !.pending = FALSE] /\ Goto(c, "advance")
      BY <2>2 DEF ApplyPending
    <3> HIDE DEF new
    <3>3. run'.status = new.status
      BY <3>1, <3>2 DEF Run
    <3> QED BY <3>1, <3>2, <3>3 DEF Goto, TypeOK
  <2>3. CASE Fail(c)
    BY <2>3 DEF Fail, Return, Goto, TypeOK, Run
  <2> QED BY <1>3, <2>1, <2>2, <2>3 DEF DispatchStep
<1>4. ASSUME NEW c \in Clients, CancelStep(c)
      PROVE  /\ run'.status # "none" /\ (run'.status = "Queued" => run' = run)
             /\ \A d \in Clients : pc'[d] # "insert"
  <2>1. CASE CancelRead(c) \/ CancelRemote(c)
    BY <2>1 DEF CancelRead, CancelRemote, Enter, Return, Goto, TypeOK
  <2>2. CASE Cancel(c)
    BY <2>2 DEF Cancel, Return, Goto, TypeOK, Run
  <2> QED BY <1>4, <2>1, <2>2 DEF CancelStep
<1>5. CASE ClusterMoves \/ Clock \/ Crash
  BY <1>5 DEF ClusterMoves, Clock, Crash, localVars
<1> QED BY <1>1, <1>2, <1>3, <1>4, <1>5 DEF Next, ClientStep

\* A run is Queued without waiting for its cluster only as create_query left it.
LEMMA InsertedStays == Inv /\ Inserted /\ [Next]_vars => Inserted'
<1> SUFFICES ASSUME Inv, Inserted, [Next]_vars PROVE Inserted'
  OBVIOUS
<1> USE DEF Inv, Inserted
<1>1. CASE UNCHANGED vars
  BY <1>1 DEF vars, trinoVars, localVars, Direct
<1>2. CASE run.status = "none"
  <2>1. ASSUME NEW c \in Clients, CreateRead(c) PROVE Inserted'
    BY <1>2, <2>1 DEF CreateRead, Enter, Goto, TypeOK, NoRun, trinoVars
  <2>2. ASSUME NEW c \in Clients, CreateInsert(c), Return(c), UNCHANGED run PROVE Inserted'
    BY <1>2, <2>2 DEF CreateInsert, Return, Goto, TypeOK, NoRun, trinoVars
  <2>3. ASSUME NEW c \in Clients, CreateInsert(c), UNCHANGED row, run' = row[c],
               Goto(c, IF row[c].pending THEN "resume" ELSE "submit")
        PROVE  Inserted'
    <3>1. row[c] \in Run /\ run' = row[c] /\ row[c].status = "Queued" /\ sent' = 0
      BY <1>2, <2>3 DEF CreateInsert, trinoVars, TypeOK
    <3>2. \A d \in Clients \ {c} : pc[d] = "idle" /\ pc'[d] = "idle"
      BY <1>2, <2>3 DEF CreateInsert, Goto, TypeOK
    <3>3. pc'[c] = IF row[c].pending THEN "resume" ELSE "submit"
      BY <2>3 DEF Goto, TypeOK
    <3> QED BY <3>1, <3>2, <3>3 DEF Direct, DispatchPcs
  <2>4. ASSUME NEW c \in Clients, ClientStep(c) PROVE CreateRead(c) \/ CreateInsert(c)
    BY <1>2, <2>4 DEF ClientStep, CreateStep, Resume, ResumeFailed, Submit, CreateFailed,
       AdvanceStep, AdvanceRead, Fetch, AdvanceDone, ApplyRead, Apply,
       DispatchStep, ReadCluster, ProbeCluster, SubmitPending, ApplyPending, Fail,
       CancelStep, CancelRead, CancelRemote, Cancel
  <2>5. ASSUME NEW c \in Clients, CreateInsert(c) PROVE Inserted'
    BY <2>2, <2>3, <2>5 DEF CreateInsert
  <2>6. CASE ClusterMoves \/ Clock \/ Crash
    BY <1>2, <2>6 DEF ClusterMoves, Clock, Crash, NoRun, trinoVars, localVars
  <2> QED BY <1>1, <2>1, <2>4, <2>5, <2>6 DEF Next
<1>3. CASE run.status # "none" /\ Next
  <2>1. /\ run'.status # "none" /\ (run'.status = "Queued" => run' = run)
        /\ \A c \in Clients : pc'[c] # "insert"
    <3>1. \A c \in Clients : pc[c] # "insert"
      BY <1>3
    <3> HIDE DEF Inserted, Inv
    <3> QED BY <1>3, <3>1, InsertedOnce
  <2>2. run'.status = "Queued" /\ ~run'.pending => Direct'
    BY <2>1, DirectStays
  <2> QED BY <2>1, <2>2
<1> QED BY <1>1, <1>2, <1>3

\* A run created on a running cluster is submitted to Trino once, however many
\* clients poll and cancel it, whatever fails, and however often the control
\* plane crashes.
THEOREM DirectRunSubmittedOnce == Spec => DirectRunsSubmitOnce
<1>1. Init => Inserted
  BY DEF Init, Inserted, NoRun
<1>2. Spec => []Inserted
  BY <1>1, InsertedStays, InvCorrect, PTL DEF Spec
<1>3. Inserted => (run.status = "Queued" /\ ~run.pending => Direct)
  BY DEF Inserted
<1>4. Direct => sent <= 1
  BY DEF Direct
<1> QED BY <1>2, <1>3, <1>4, DirectStays, InvCorrect, PTL DEF Spec, DirectRunsSubmitOnce

-------------------------------------------------------------------------------
(* With one client the pages that are kept are in order, and without a crash the *)
(* statement is submitted once.                                              *)
OneClient == \A c, d \in Clients : c = d

\* Row r has the first pages of statement s, and goes on with the next one, if it does.  A run
\* that waits for its cluster has nothing.
Kept(r, s) ==
  /\ \A i \in 1..Len(r.pages) : r.pages[i] = [stmt |-> s, page |-> i]
  /\ r.next # NoUri => r.next = [stmt |-> s, page |-> Len(r.pages) + 1]
  /\ r.status = "Running" => r.next # NoUri
  /\ r.status = "Finished" => Len(r.pages) = Pages
Blank(r) == r.pages = << >> /\ r.next = NoUri

Ordered == /\ \E s \in 0..sent : Kept(run, s)
           /\ run.pending \/ run.status = "none" => Blank(run)

\* What the client's handler knows: its copy of the row is the row, and the response it has is
\* the page the row asks for, or the first one of the statement just submitted.
Local(c) ==
  /\ pc[c] \in {"cluster", "probe", "submit_pending", "advance", "apply", "first_apply"} => row[c] = run
  /\ pc[c] = "insert" => Blank(row[c]) /\ row[c].status = "Queued"
  /\ pc[c] \in {"submit", "submitted", "first_apply"} => Blank(run) /\ ~run.pending /\ run.status # "none"
  /\ pc[c] \in {"cluster", "probe", "submit_pending", "apply_pending"} => run.pending
  /\ pc[c] \in {"submitted", "first_apply", "apply_pending"} => resp[c].uri = [stmt |-> sent, page |-> 1]
  /\ pc[c] \in {"fetched", "apply"} => ~run.pending /\ (resp[c].kind # "error" => resp[c].uri = run.next) /\ run.next # NoUri
InOrder == Ordered /\ \A c \in Clients : Local(c)

LEMMA BlankKept ==
  ASSUME NEW r \in Run, Blank(r), r.status \notin {"Running", "Finished"}, NEW s PROVE Kept(r, s)
BY DEF Blank, Kept, Run

\* A page in its turn, or an error, keeps the row in order.
LEMMA AppliedKept ==
  ASSUME NEW r \in Run, NEW s \in Nat, Kept(r, s), NEW response \in Responses, response.uri \in Uris,
         response.kind # "error" => response.uri = [stmt |-> s, page |-> Len(r.pages) + 1]
  PROVE  /\ Kept([Applied(r, response) EXCEPT !.pending = FALSE], s)
         /\ [Applied(r, response) EXCEPT !.pending = FALSE] \in Run
         /\ [Applied(r, response) EXCEPT !.pending = FALSE].pending = FALSE
         /\ [Applied(r, response) EXCEPT !.pending = FALSE].status # "none"
<1> DEFINE new == Applied(r, response)
           m == Len(r.pages)
           end == [new EXCEPT !.pending = FALSE]
<1>0. new \in Run /\ m \in Nat
  BY AppliedType DEF Run
<1>3. end \in Run /\ end.pending = FALSE /\ end.pages = new.pages /\ end.next = new.next /\ end.status = new.status
  <2> HIDE DEF new
  <2> QED BY <1>0 DEF Run
<1>4. new.status # "none"
  BY AppliedMoves
<1>1. ASSUME response.kind = "error" PROVE Kept(end, s)
  <2>1. new = [r EXCEPT !.status = "Failed", !.next = NoUri]
    BY <1>1 DEF Applied
  <2>2. new.pages = r.pages /\ new.next = NoUri /\ new.status = "Failed"
    BY <2>1 DEF Run
  <2>3. end.pages = r.pages /\ end.next = NoUri /\ end.status = "Failed"
    BY <1>3, <2>2
  <2> HIDE DEF new, end
  <2> QED BY <1>3, <2>3 DEF Kept
<1>2. ASSUME response.kind # "error" PROVE Kept(end, s)
  <2> DEFINE u == response.uri
             more == u.page < Pages
  <2>1. u \in Uris /\ u.stmt = s /\ u.page = m + 1 /\ u = [stmt |-> s, page |-> m + 1] /\ u.page \in 1..Pages
    BY <1>2 DEF Uris
  <2>2. /\ new.pages = Append(r.pages, u)
        /\ new.status = IF more THEN "Running" ELSE "Finished"
        /\ new.next = IF more THEN [u EXCEPT !.page = @ + 1] ELSE NoUri
    BY <1>2 DEF Applied, Run
  <2>3. [u EXCEPT !.page = @ + 1] = [stmt |-> s, page |-> m + 2]
    <3>1. [u EXCEPT !.page = @ + 1] = [stmt |-> u.stmt, page |-> u.page + 1]
      BY <2>1 DEF Uris
    <3>2. u.page + 1 = m + 2
      BY <1>0, <2>1
    <3> QED BY <2>1, <3>1, <3>2
  <2> HIDE DEF u
  <2>4. Len(new.pages) = m + 1 /\ \A i \in 1..(m + 1) : new.pages[i] = [stmt |-> s, page |-> i]
    <3>1. r.pages \in Seq(Uris) /\ \A i \in 1..m : r.pages[i] = [stmt |-> s, page |-> i]
      BY DEF Run, Kept
    <3> QED BY <2>1, <2>2, <3>1
  <2>5. ~more => m + 1 = Pages
    BY <1>0, <2>1
  <2>6. more => new.next = [stmt |-> s, page |-> (m + 1) + 1] /\ new.next # NoUri
    <3>1. (m + 1) + 1 = m + 2 /\ m + 2 # 0
      BY <1>0
    <3> QED BY <2>2, <2>3, <3>1 DEF NoUri
  <2> HIDE DEF new, more
  <2>7. /\ Len(end.pages) = m + 1 /\ \A i \in 1..(m + 1) : end.pages[i] = [stmt |-> s, page |-> i]
        /\ end.status = IF more THEN "Running" ELSE "Finished"
        /\ end.next = IF more THEN [stmt |-> s, page |-> (m + 1) + 1] ELSE NoUri
    BY <1>3, <2>2, <2>4, <2>6
  <2> HIDE DEF end
  <2>8. Kept(end, s)
    <3>1. \A i \in 1..Len(end.pages) : end.pages[i] = [stmt |-> s, page |-> i]
      BY <2>7
    <3>2. end.next # NoUri => end.next = [stmt |-> s, page |-> Len(end.pages) + 1]
      BY <2>7
    <3>3. (end.status = "Running" => end.next # NoUri) /\ (end.status = "Finished" => Len(end.pages) = Pages)
      BY <2>5, <2>6, <2>7
    <3> QED BY <3>1, <3>2, <3>3 DEF Kept
  <2> QED BY <2>8
<1> QED BY <1>1, <1>2, <1>3, <1>4

LEMMA RunStays ==
  ASSUME Inv, Ordered, run' = run, sent' \in Nat, sent <= sent' PROVE Ordered'
BY DEF Ordered, Inv, TypeOK

LEMMA Goes ==
  ASSUME Inv, NEW c \in Clients, NEW p, Goto(c, p) PROVE pc'[c] = p
BY DEF Inv, TypeOK, Goto

\* A handler that returns knows nothing.
LEMMA ReturnLocal ==
  ASSUME Inv, OneClient, NEW c \in Clients, Return(c) PROVE \A d \in Clients : Local(d)'
<1>1. pc'[c] = "idle"
  BY DEF Inv, TypeOK, Return, Goto
<1> QED BY <1>1 DEF OneClient, Local

LEMMA OnlyLocal ==
  ASSUME OneClient, NEW c \in Clients, Local(c)' PROVE \A d \in Clients : Local(d)'
BY DEF OneClient

LEMMA CreateOrder ==
  ASSUME Inv, OneClient, InOrder, NEW c \in Clients, CreateRead(c) \/ CreateStep(c) PROVE InOrder'
<1>0. Ordered /\ Local(c) /\ sent \in Nat /\ sent <= sent + 1 /\ run \in Run
  BY DEF InOrder, Inv, TypeOK
<1>1. CASE CreateRead(c)
  <2>1. pc'[c] = "insert" /\ run' = run /\ sent' = sent
    BY <1>1, Goes DEF CreateRead, Enter, trinoVars
  <2>2. row'[c] = [NoRun EXCEPT !.status = "Queued", !.pending = (cluster = "Suspended")]
    BY <1>1 DEF CreateRead, Inv, TypeOK
  <2>3. Blank(row'[c]) /\ row'[c].status = "Queued"
    BY <2>2 DEF Blank, NoRun
  <2>4. Local(c)'
    BY <2>1, <2>3 DEF Local, Blank
  <2> QED BY <1>0, <2>1, <2>4, OnlyLocal, RunStays DEF InOrder
<1>2. CASE CreateInsert(c)
  <2>1. CASE Return(c) /\ UNCHANGED run
    BY <1>0, <1>2, <2>1, ReturnLocal, RunStays DEF CreateInsert, InOrder, trinoVars
  <2>2. CASE run' = row[c] /\ Goto(c, IF row[c].pending THEN "resume" ELSE "submit")
    <3>1. pc[c] = "insert" /\ sent' = sent
      BY <1>2 DEF CreateInsert, trinoVars
    <3>2. Blank(row[c]) /\ row[c].status = "Queued" /\ row[c] \in Run
      BY <1>0, <3>1 DEF Local, Inv, TypeOK
    <3>3. Ordered'
      BY <1>0, <2>2, <3>1, <3>2, BlankKept DEF Ordered
    <3>4. pc'[c] = IF row[c].pending THEN "resume" ELSE "submit"
      BY <2>2, Goes
    <3>5. Local(c)'
      BY <2>2, <3>2, <3>4 DEF Local
    <3> QED BY <3>3, <3>5, OnlyLocal DEF InOrder
  <2> QED BY <1>2, <2>1, <2>2 DEF CreateInsert
<1>3. CASE Resume(c) \/ ResumeFailed(c)
  <2>1. run' = run /\ sent' = sent
    BY <1>3 DEF Resume, ResumeFailed, trinoVars
  <2>2. CASE Return(c)
    BY <1>0, <2>1, <2>2, ReturnLocal, RunStays DEF InOrder
  <2>3. CASE \E p \in {"resume_failed", "fail"} : Goto(c, p)
    <3>1. pc'[c] \in {"resume_failed", "fail"}
      BY <2>3, Goes
    <3>2. Local(c)'
      BY <3>1 DEF Local
    <3> QED BY <1>0, <2>1, <3>2, OnlyLocal, RunStays DEF InOrder
  <2> QED BY <1>3, <2>2, <2>3 DEF Resume, ResumeFailed
<1>4. CASE Submit(c)
  <2>1. run' = run /\ pc[c] = "submit" /\ sent' \in Nat /\ sent <= sent'
    BY <1>0, <1>4 DEF Submit, Accept, Unanswered, Started, trinoVars
  <2>2. CASE Accept(c) /\ Goto(c, "submitted")
    <3>1. pc'[c] = "submitted"
      BY <2>2, Goes
    <3>2. resp'[c].uri = [stmt |-> sent', page |-> 1]
      BY <2>2 DEF Accept, Response, Inv, TypeOK
    <3>3. Local(c)'
      BY <1>0, <2>1, <3>1, <3>2 DEF Local
    <3> QED BY <1>0, <2>1, <3>3, OnlyLocal, RunStays DEF InOrder
  <2>3. CASE Raise(c)
    <3>1. CASE Return(c)
      BY <1>0, <2>1, <3>1, ReturnLocal, RunStays DEF InOrder
    <3>2. CASE Goto(c, "create_failed")
      <4>1. Local(c)'
        BY <3>2, Goes DEF Local
      <4> QED BY <1>0, <2>1, <4>1, OnlyLocal, RunStays DEF InOrder
    <3> QED BY <2>3, <3>1, <3>2 DEF Raise
  <2> QED BY <1>4, <2>2, <2>3 DEF Submit
<1>5. CASE CreateFailed(c)
  <2>1. run' = [run EXCEPT !.status = "Failed"] /\ sent' = sent /\ Return(c)
    BY <1>5 DEF CreateFailed, trinoVars
  <2>2. run'.pages = run.pages /\ run'.next = run.next /\ run'.status = "Failed" /\ run'.pending = run.pending
    BY <1>0, <2>1 DEF Run
  <2>3. Ordered'
    BY <1>0, <2>1, <2>2 DEF Ordered, Kept, Blank
  <2> QED BY <2>1, <2>3, ReturnLocal DEF InOrder
<1> QED BY <1>1, <1>2, <1>3, <1>4, <1>5 DEF CreateStep

LEMMA AdvanceOrder ==
  ASSUME Inv, OneClient, InOrder, NEW c \in Clients, AdvanceStep(c) PROVE InOrder'
<1>0. Ordered /\ Local(c) /\ sent \in Nat /\ run \in Run
  BY DEF InOrder, Inv, TypeOK
<1>1. CASE AdvanceRead(c)
  <2>1. pc'[c] = IF run.pending THEN "cluster" ELSE "advance"
    BY <1>1, Goes DEF AdvanceRead, Enter
  <2>2. run' = run /\ sent' = sent /\ row'[c] = run
    BY <1>1 DEF AdvanceRead, trinoVars, Inv, TypeOK
  <2>3. Local(c)'
    BY <2>1, <2>2 DEF Local
  <2> QED BY <1>0, <2>2, <2>3, OnlyLocal, RunStays DEF InOrder
<1>2. CASE Fetch(c)
  <2>1. run' = run /\ pc[c] = "advance" /\ sent' = sent /\ row[c] = run /\ run.next # NoUri
    BY <1>0, <1>2 DEF Fetch, HasNext, Serve, trinoVars, Local
  <2>2. CASE Serve(c, row[c].next) /\ Goto(c, "fetched")
    <3>1. pc'[c] = "fetched"
      BY <2>2, Goes
    <3>2. run.next \in Uris
      BY <1>0, <2>1 DEF Run
    <3>3. resp'[c].kind # "error" => resp'[c].uri = run.next
      <4>1. PICK answer \in {Response(run.next.stmt, run.next.page), ErrorOf(run.next.stmt)} :
              resp' = [resp EXCEPT ![c] = answer]
        BY <2>1, <2>2 DEF Serve
      <4>2. resp'[c] = answer
        BY <4>1 DEF Inv, TypeOK
      <4>3. run.next = [stmt |-> run.next.stmt, page |-> run.next.page]
        BY <3>2 DEF Uris
      <4> QED BY <4>1, <4>2, <4>3 DEF Response, ErrorOf
    <3>4. ~run.pending
      BY <1>0, <2>1 DEF Ordered, Blank
    <3>5. Local(c)'
      BY <2>1, <3>1, <3>3, <3>4 DEF Local
    <3> QED BY <1>0, <2>1, <3>5, OnlyLocal, RunStays DEF InOrder
  <2>3. CASE Raise(c)
    <3>1. CASE Return(c)
      BY <1>0, <2>1, <3>1, ReturnLocal, RunStays DEF InOrder
    <3>2. CASE Goto(c, "create_failed")
      <4>1. Local(c)'
        BY <3>2, Goes DEF Local
      <4> QED BY <1>0, <2>1, <4>1, OnlyLocal, RunStays DEF InOrder
    <3> QED BY <2>3, <3>1, <3>2 DEF Raise
  <2> QED BY <1>2, <2>2, <2>3 DEF Fetch
<1>3. CASE AdvanceDone(c)
  BY <1>0, <1>3, ReturnLocal, RunStays DEF AdvanceDone, InOrder, trinoVars
<1>4. CASE ApplyRead(c)
  <2>1. run' = run /\ sent' = sent /\ resp' = resp /\ row'[c] = run
    BY <1>4 DEF ApplyRead, trinoVars, Inv, TypeOK
  <2>2. \/ pc[c] = "submitted" /\ pc'[c] = "first_apply"
        \/ pc[c] = "fetched" /\ pc'[c] = "apply"
    BY <1>4, Goes DEF ApplyRead
  <2>3. Local(c)'
    BY <1>0, <2>1, <2>2 DEF Local
  <2> QED BY <1>0, <2>1, <2>3, OnlyLocal, RunStays DEF InOrder
<1>5. CASE Apply(c)
  <2>1. /\ pc[c] \in {"first_apply", "apply"} /\ pc'[c] \in {"advance_read", "advance"}
        /\ sent' = sent /\ row'[c] = run' /\ resp' = [resp EXCEPT ![c] = NoResponse]
    BY <1>5, Goes DEF Apply, trinoVars, Inv, TypeOK
  <2>2. row[c] = run /\ ~run.pending
    BY <1>0, <2>1 DEF Local
  <2>3. run.pending = FALSE
    BY <1>0, <2>2 DEF Run
  <2>4. run' = [Applied(run, resp[c]) EXCEPT !.pending = FALSE]
    BY <1>5, <2>2, <2>3 DEF Apply
  <2>5. resp[c] \in Responses /\ resp[c].uri \in Uris
    BY <2>1 DEF Inv, TypeOK, Ready, Applying
  <2>6. PICK s \in 0..sent : Kept(run, s) /\ (resp[c].kind # "error" => resp[c].uri = [stmt |-> s, page |-> Len(run.pages) + 1])
    <3>1. CASE pc[c] = "first_apply"
      <4>1. Blank(run) /\ resp[c].uri = [stmt |-> sent, page |-> 1] /\ Len(run.pages) = 0
        BY <1>0, <3>1 DEF Local, Blank
      <4>2. Kept(run, sent)
        BY <1>0, <4>1 DEF Ordered, Kept, Blank
      <4> QED BY <1>0, <4>1, <4>2
    <3>2. CASE pc[c] = "apply"
      <4>1. PICK s \in 0..sent : Kept(run, s)
        BY <1>0 DEF Ordered
      <4>2. run.next # NoUri /\ (resp[c].kind # "error" => resp[c].uri = run.next)
        BY <1>0, <3>2 DEF Local
      <4>3. run.next = [stmt |-> s, page |-> Len(run.pages) + 1]
        BY <4>1, <4>2 DEF Kept
      <4> QED BY <4>1, <4>2, <4>3
    <3> QED BY <2>1, <3>1, <3>2
  <2>7. Kept(run', s) /\ run'.pending = FALSE /\ run'.status # "none"
    BY <1>0, <2>4, <2>5, <2>6, AppliedKept
  <2>8. Ordered'
    BY <2>1, <2>6, <2>7 DEF Ordered
  <2>9. Local(c)'
    BY <2>1 DEF Local
  <2> QED BY <2>8, <2>9, OnlyLocal DEF InOrder
<1> QED BY <1>1, <1>2, <1>3, <1>4, <1>5 DEF AdvanceStep

LEMMA DecideOrder ==
  ASSUME Inv, OneClient, InOrder, NEW c \in Clients, NEW status, Decide(c, status), run.pending, row[c] = run,
         run' = run, sent' = sent
  PROVE  InOrder'
<1>1. PICK p \in {"fail", "advance", "submit_pending"} : Goto(c, p) /\ row' = row
  BY DEF Decide
<1>2. pc'[c] = p
  BY <1>1, Goes
<1>3. Local(c)'
  BY <1>1, <1>2 DEF Local
<1> QED BY <1>3, OnlyLocal, RunStays DEF InOrder, Inv, TypeOK

LEMMA DispatchOrder ==
  ASSUME Inv, OneClient, InOrder, NEW c \in Clients, DispatchStep(c) PROVE InOrder'
<1>0. Ordered /\ Local(c) /\ sent \in Nat /\ run \in Run
  BY DEF InOrder, Inv, TypeOK
<1>1. CASE ReadCluster(c) \/ ProbeCluster(c)
  <2>1. run' = run /\ sent' = sent /\ run.pending /\ row[c] = run
    BY <1>0, <1>1 DEF ReadCluster, ProbeCluster, trinoVars, Local
  <2>2. CASE \E status \in {"Running", "Starting", cluster} : Decide(c, status)
    BY <2>1, <2>2, DecideOrder
  <2>3. CASE Goto(c, "probe") /\ UNCHANGED row
    <3>1. pc'[c] = "probe"
      BY <2>3, Goes
    <3>2. Local(c)'
      BY <2>1, <2>3, <3>1 DEF Local
    <3> QED BY <1>0, <2>1, <3>2, OnlyLocal, RunStays DEF InOrder
  <2> QED BY <1>1, <2>2, <2>3 DEF ReadCluster, ProbeCluster
<1>2. CASE SubmitPending(c)
  <2>1. run' = run /\ pc[c] = "submit_pending" /\ sent' \in Nat /\ sent <= sent' /\ run.pending
    BY <1>0, <1>2 DEF SubmitPending, Accept, Unanswered, Started, trinoVars, Local
  <2>2. CASE Accept(c) /\ Goto(c, "apply_pending")
    <3>1. pc'[c] = "apply_pending"
      BY <2>2, Goes
    <3>2. resp'[c].uri = [stmt |-> sent', page |-> 1]
      BY <2>2 DEF Accept, Response, Inv, TypeOK
    <3>3. Local(c)'
      BY <2>1, <3>1, <3>2 DEF Local
    <3> QED BY <1>0, <2>1, <3>3, OnlyLocal, RunStays DEF InOrder
  <2>3. CASE Goto(c, "fail")
    <3>1. Local(c)'
      BY <2>3, Goes DEF Local
    <3> QED BY <1>0, <2>1, <3>1, OnlyLocal, RunStays DEF InOrder
  <2> QED BY <1>2, <2>2, <2>3 DEF SubmitPending
<1>3. CASE ApplyPending(c)
  <2>1. /\ pc[c] = "apply_pending" /\ pc'[c] = "advance" /\ sent' = sent /\ row'[c] = run'
        /\ run' = [Applied(run, resp[c]) EXCEPT !.pending = FALSE]
    BY <1>3, Goes DEF ApplyPending, trinoVars, Inv, TypeOK
  <2>2. resp[c] \in Responses /\ resp[c].uri \in Uris
    BY <2>1 DEF Inv, TypeOK, Ready, Applying
  <2>3. Blank(run) /\ resp[c].uri = [stmt |-> sent, page |-> 1] /\ Len(run.pages) = 0
    BY <1>0, <2>1 DEF Local, Ordered, Blank
  <2>4. Kept(run, sent)
    BY <1>0, <2>3 DEF Ordered, Kept, Blank
  <2>5. Kept(run', sent) /\ run'.pending = FALSE /\ run'.status # "none"
    BY <1>0, <2>1, <2>2, <2>3, <2>4, AppliedKept
  <2>6. Ordered'
    BY <1>0, <2>1, <2>5 DEF Ordered
  <2>7. Local(c)'
    BY <2>1 DEF Local
  <2> QED BY <2>6, <2>7, OnlyLocal DEF InOrder
<1>4. CASE Fail(c)
  <2>1. run' = [run EXCEPT !.status = "Failed", !.pending = FALSE] /\ sent' = sent /\ Return(c)
    BY <1>4 DEF Fail, trinoVars
  <2>2. run'.pages = run.pages /\ run'.next = run.next /\ run'.status = "Failed" /\ run'.pending = FALSE
    BY <1>0, <2>1 DEF Run
  <2>3. Ordered'
    BY <1>0, <2>1, <2>2 DEF Ordered, Kept
  <2> QED BY <2>1, <2>3, ReturnLocal DEF InOrder
<1> QED BY <1>1, <1>2, <1>3, <1>4 DEF DispatchStep

LEMMA CancelOrder ==
  ASSUME Inv, OneClient, InOrder, NEW c \in Clients, CancelStep(c) PROVE InOrder'
<1>0. Ordered /\ Local(c) /\ sent \in Nat /\ run \in Run
  BY DEF InOrder, Inv, TypeOK
<1>1. CASE Cancel(c)
  <2>1. run' = [run EXCEPT !.status = "Cancelled", !.next = NoUri] /\ sent' = sent /\ Return(c)
    BY <1>1 DEF Cancel, trinoVars
  <2>2. run'.pages = run.pages /\ run'.next = NoUri /\ run'.status = "Cancelled" /\ run'.pending = run.pending
    BY <1>0, <2>1 DEF Run
  <2>3. Ordered'
    BY <1>0, <2>1, <2>2 DEF Ordered, Kept, Blank
  <2> QED BY <2>1, <2>3, ReturnLocal DEF InOrder
<1>2. CASE CancelRead(c) \/ CancelRemote(c)
  <2>1. run' = run /\ sent' = sent
    BY <1>2 DEF CancelRead, CancelRemote, trinoVars
  <2>2. CASE Return(c)
    BY <1>0, <2>1, <2>2, ReturnLocal, RunStays DEF InOrder
  <2>3. CASE \E p \in {"cancel_remote", "cancel"} : Goto(c, p)
    <3>1. pc'[c] \in {"cancel_remote", "cancel"}
      BY <2>3, Goes
    <3>2. Local(c)'
      BY <3>1 DEF Local
    <3> QED BY <1>0, <2>1, <3>2, OnlyLocal, RunStays DEF InOrder
  <2> QED BY <1>2, <2>2, <2>3 DEF CancelRead, CancelRemote, Enter
<1> QED BY <1>1, <1>2 DEF CancelStep

LEMMA NextOrder == Inv /\ OneClient /\ InOrder /\ [Next]_vars => InOrder'
<1> SUFFICES ASSUME Inv, OneClient, InOrder, [Next]_vars PROVE InOrder'
  OBVIOUS
<1>1. ASSUME NEW c \in Clients, ClientStep(c) PROVE InOrder'
  BY <1>1, CreateOrder, AdvanceOrder, DispatchOrder, CancelOrder DEF ClientStep
<1>2. CASE ClusterMoves \/ Clock \/ UNCHANGED vars
  <2>1. UNCHANGED <<run, sent, pc, row, resp>>
    BY <1>2 DEF ClusterMoves, Clock, vars, trinoVars, localVars
  <2> QED BY <2>1 DEF InOrder, Ordered, Local
<1>3. CASE Crash
  <2>1. UNCHANGED <<run, sent>> /\ \A c \in Clients : pc'[c] = "idle"
    BY <1>3 DEF Crash, trinoVars
  <2>2. \A c \in Clients : Local(c)'
    BY <2>1 DEF Local
  <2> QED BY <2>1, <2>2 DEF InOrder, Ordered
<1> QED BY <1>1, <1>2, <1>3 DEF Next

LEMMA InitOrder == Init => InOrder
<1> SUFFICES ASSUME Init PROVE InOrder
  OBVIOUS
<1>1. Blank(run) /\ run.status = "none" /\ run \in Run /\ sent = 0
  BY EmptyType DEF Init, Blank, NoRun
<1>2. Kept(run, 0)
  BY <1>1, BlankKept
<1>3. \A c \in Clients : Local(c)
  BY DEF Init, Local
<1> QED BY <1>1, <1>2, <1>3 DEF InOrder, Ordered

\* With one client a run keeps the pages of one statement, each once and in order, with any number of
\* pages, calls and crashes: nobody moves the row between its read and its write, and a run that
\* waits for its cluster has kept nothing that a second submission would follow.
THEOREM OneClientKeepsOrder ==
  ASSUME OneClient PROVE Spec => []ResultsInOrder
<1>1. Init => InOrder
  BY InitOrder
<1>2. Inv /\ InOrder => ResultsInOrder
  <2> SUFFICES ASSUME Inv, InOrder PROVE ResultsInOrder
    OBVIOUS
  <2>1. PICK s \in 0..sent : Kept(run, s)
    BY DEF InOrder, Ordered
  <2> QED BY <2>1 DEF Kept, ResultsInOrder
<1> QED BY <1>1, <1>2, NextOrder, InvCorrect, PTL DEF Spec

\* Nothing is submitted before the row asks for it, and a run that still waits for its cluster was
\* submitted only if the client is about to say so.
Once ==
  /\ sent <= 1
  /\ run.status = "none" => sent = 0 /\ ~run.pending
  /\ \A c \in Clients : pc[c] \in {"insert", "submit", "resume", "resume_failed"} => sent = 0
  /\ \A c \in Clients : run.pending /\ pc[c] \notin {"apply_pending", "fail"} => sent = 0

LEMMA OnceStep ==
  ASSUME Inv, OneClient, InOrder, Once, NEW c \in Clients, ClientStep(c) PROVE Once'
<1>0. /\ Ordered /\ Local(c) /\ sent \in Nat /\ run \in Run
      /\ \A d \in Clients : d = c
  BY DEF InOrder, Inv, TypeOK, OneClient
<1>1. CASE CreateRead(c)
  <2>1. run' = run /\ sent' = sent /\ run.status = "none"
    BY <1>1 DEF CreateRead, trinoVars, NoRun
  <2> QED BY <2>1 DEF Once
<1>2. CASE CreateInsert(c)
  <2>1. sent' = sent /\ sent = 0
    BY <1>2 DEF CreateInsert, trinoVars, Once
  <2>2. run' = run \/ run'.status = "Queued"
    BY <1>0, <1>2 DEF CreateInsert, Local
  <2> QED BY <2>1, <2>2 DEF Once
<1>3. CASE Resume(c) \/ ResumeFailed(c)
  <2>1. run' = run /\ sent' = sent /\ sent = 0
    BY <1>3 DEF Resume, ResumeFailed, trinoVars, Once
  <2> QED BY <2>1 DEF Once
<1>4. CASE Submit(c)
  <2>1. run' = run /\ pc[c] = "submit" /\ sent = 0 /\ sent' \in {0, 1} /\ ~run.pending /\ run.status # "none"
    BY <1>0, <1>4 DEF Submit, Accept, Unanswered, Started, trinoVars, Once, Local
  <2>2. pc'[c] \in {"submitted", "create_failed", "idle"}
    BY <1>4, Goes DEF Submit, Raise, Return
  <2> QED BY <1>0, <2>1, <2>2 DEF Once
<1>5. CASE CreateFailed(c)
  <2>1. run' = [run EXCEPT !.status = "Failed"] /\ sent' = sent /\ pc[c] = "create_failed" /\ pc'[c] = "idle"
    BY <1>5, Goes DEF CreateFailed, trinoVars, Return
  <2>2. run'.status = "Failed" /\ run'.pending = run.pending
    BY <1>0, <2>1 DEF Run
  <2> QED BY <1>0, <2>1, <2>2 DEF Once
<1>6. CASE AdvanceRead(c) \/ Fetch(c) \/ AdvanceDone(c) \/ ApplyRead(c) \/ ReadCluster(c) \/ ProbeCluster(c)
  <2>1. /\ run' = run /\ sent' = sent /\ pc[c] \notin {"apply_pending", "fail"}
        /\ \E p \in {"cluster", "advance", "fetched", "create_failed", "idle", "first_apply", "apply", "probe", "fail", "submit_pending"} :
             Goto(c, p)
    BY <1>6 DEF AdvanceRead, Fetch, Serve, AdvanceDone, ApplyRead, ReadCluster, ProbeCluster, Decide, Enter, Raise, Return, trinoVars
  <2>2. pc'[c] \in {"cluster", "advance", "fetched", "create_failed", "idle", "first_apply", "apply", "probe", "fail", "submit_pending"}
    BY <2>1, Goes
  <2> QED BY <1>0, <2>1, <2>2 DEF Once
<1>7. CASE Apply(c) \/ ApplyPending(c)
  <2>1. sent' = sent /\ pc'[c] \in {"advance_read", "advance"} /\ pc[c] \in {"first_apply", "apply", "apply_pending"}
    BY <1>7, Goes DEF Apply, ApplyPending, trinoVars
  <2>2. run'.pending = FALSE /\ run'.status # "none"
    <3>1. resp[c] \in Responses /\ resp[c].uri \in Uris /\ row[c] \in Run
      BY <2>1 DEF Inv, TypeOK, Ready, Applying
    <3>2. CASE Apply(c)
      <4> DEFINE new == Applied(row[c], resp[c])
      <4>1. new \in Run /\ new.status # "none"
        BY <3>1, AppliedMoves, AppliedType
      <4>2. run.pending = FALSE
        BY <1>0, <3>2 DEF Apply, Local, Run
      <4>3. run' = [new EXCEPT !.pending = run.pending]
        BY <3>2 DEF Apply
      <4> HIDE DEF new
      <4> QED BY <4>1, <4>2, <4>3 DEF Run
    <3>3. CASE ApplyPending(c)
      <4> DEFINE new == Applied(run, resp[c])
      <4>1. new \in Run /\ new.status # "none"
        BY <1>0, <3>1, AppliedMoves, AppliedType
      <4>2. run' = [new EXCEPT !.pending = FALSE]
        BY <3>3 DEF ApplyPending
      <4> HIDE DEF new
      <4> QED BY <4>1, <4>2 DEF Run
    <3> QED BY <1>7, <3>2, <3>3
  <2> QED BY <1>0, <2>1, <2>2 DEF Once
<1>8. CASE SubmitPending(c)
  <2>1. run' = run /\ pc[c] = "submit_pending" /\ run.pending /\ pc'[c] \in {"apply_pending", "fail"}
    BY <1>0, <1>8, Goes DEF SubmitPending, Local
  <2>2. sent = 0 /\ sent' \in {0, 1} /\ run.status # "none"
    BY <1>8, <2>1 DEF SubmitPending, Accept, Unanswered, Started, trinoVars, Once
  <2> QED BY <1>0, <2>1, <2>2 DEF Once
<1>9. CASE Fail(c)
  <2>1. run' = [run EXCEPT !.status = "Failed", !.pending = FALSE] /\ sent' = sent /\ pc'[c] = "idle"
    BY <1>9, Goes DEF Fail, trinoVars, Return
  <2>2. run'.status = "Failed" /\ run'.pending = FALSE
    BY <1>0, <2>1 DEF Run
  <2> QED BY <1>0, <2>1, <2>2 DEF Once
<1>10. CASE CancelStep(c)
  <2>1. sent' = sent /\ pc[c] \notin {"apply_pending", "fail"} /\ pc'[c] \in {"cancel_remote", "cancel", "idle"}
    BY <1>10, Goes DEF CancelStep, CancelRead, CancelRemote, Cancel, Enter, Return, trinoVars
  <2>2. run'.pending = run.pending /\ (run' = run \/ run'.status = "Cancelled")
    BY <1>0, <1>10 DEF CancelStep, CancelRead, CancelRemote, Cancel, trinoVars, Run
  <2> QED BY <1>0, <2>1, <2>2 DEF Once
<1> QED BY <1>1, <1>2, <1>3, <1>4, <1>5, <1>6, <1>7, <1>8, <1>9, <1>10
        DEF ClientStep, CreateStep, AdvanceStep, DispatchStep

\* With one client and no crash the statement is submitted once, however often it is polled, cancelled
\* and polled again, and whatever fails: a lost answer fails a run, it does not retry it.
THEOREM OneClientSubmitsOnce ==
  ASSUME OneClient, MaxCrashes = 0 PROVE Spec => []SubmittedOnce
<1>1. Init => Once
  BY DEF Init, Once, NoRun
<1>2. Inv /\ InOrder /\ Once /\ [Next]_vars => Once'
  <2> SUFFICES ASSUME Inv, InOrder, Once, [Next]_vars PROVE Once'
    OBVIOUS
  <2>1. CASE ClusterMoves \/ Clock \/ UNCHANGED vars
    <3>1. UNCHANGED <<run, sent, pc>>
      BY <2>1 DEF ClusterMoves, Clock, vars, trinoVars, localVars
    <3> QED BY <3>1 DEF Once
  <2>2. ~Crash
    BY DEF Crash, Inv, TypeOK
  <2> QED BY <2>1, <2>2, OnceStep DEF Next
<1>3. Once => SubmittedOnce
  BY DEF Once, SubmittedOnce
<1>4. Init => InOrder
  BY InitOrder
<1> QED BY <1>1, <1>2, <1>3, <1>4, NextOrder, InitInv, NextInv, PTL DEF Spec
=============================================================================
