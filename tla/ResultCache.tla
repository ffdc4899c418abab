------------------------------ MODULE ResultCache ------------------------------
(***************************************************************************)
(* The result cache: a read leaves its key in its row of query_runs, and a  *)
(* later read of the same key is answered from that row as long as it is    *)
(* young.  Writes of the same user and changes of who may see what take     *)
(* keys away, while runs, writes, changes, the coordinator's copy of the    *)
(* access rules and the cluster's status go on at their own pace.           *)
(*                                                                          *)
(* Any number of threads serve create_query, for one user too.  Each reads   *)
(* the cluster, then looks for a row to answer from, and only then begins    *)
(* the transaction that inserts: sqlite3 begins it at the first write.       *)
(*                                                                          *)
(* QueryRun has the life of one run; here a run waits for its cluster, is    *)
(* with Trino, takes effect there and is recorded.  One client polls it, and *)
(* the process does not stop between its submission and the record of that.  *)
(* The data are a number that every write increases, and so are the rules of *)
(* access.  One cluster: its id is part of the key, as the session's catalog *)
(* and schema are of a text.                                                *)
(***************************************************************************)
EXTENDS Naturals, Sequences, FiniteSets

CONSTANTS
  Users,
  Threads,   \* of the control plane, that serve create_query
  Texts,     \* normalized statements that read
  Ttls,      \* values of result_cache_ttl_minutes: 0 switches the cache off
  Long,      \* where ages stop: longer than any of them
  MaxRuns,   \* bound: rows of query_runs
  MaxRules   \* bound: changes of who may see what

ASSUME BoundsAssumption ==
  /\ MaxRuns \in Nat /\ MaxRules \in Nat /\ Long \in Nat
  /\ Ttls \subseteq 0..Long /\ Ttls # {}

VARIABLES
  runs,     \* rows of query_runs, by id
  request,  \* request[t]: what create_query has read in thread t, or nothing
  found,    \* found[t]: the row it will answer with, when it has found one
  cluster,  \* does it run, or would it resume, or neither
  data,     \* how many writes have taken effect
  rules,    \* how many changes of the rules are stored
  enforced, \* those the coordinator has fetched
  flushed,  \* those whose flush of the cache is done
  changing, \* a change is stored and its audit entry, with the flush, is not
  wrote     \* wrote[u]: the data after u's latest write that took effect

vars == <<runs, request, found, cluster, data, rules, enforced, flushed, changing, wrote>>

-------------------------------------------------------------------------------
NoText == "write"
ASSUME NoTextAssumption == NoText \notin Texts

\* status: Failed is Cancelled too.  place: "waiting" for the cluster, with pending_cluster_start
\* set, "sent" to Trino, "done" there and perhaps not recorded, or "dead"; a hit never goes.
\* key: the cache_key, NoText without one.  promised: the rules flushed when it took effect.
\* age is that of updated_at and old that of the result, for rows that may be asked for it.
\* seen and under: the data and the rules of the result.  Of a hit: its source, how old the
\* result was (served), the window asked for, and wrote and flushed when it was found (floor, due).
Run == [user : Users, text : Texts \union {NoText}, key : Texts \union {NoText}, status : {"Queued", "Finished", "Failed"},
        place : {"waiting", "sent", "done", "dead"}, kind : {"executed", "hit"}, source : Nat,
        age : 0..Long, old : 0..Long, seen : Nat, under : Nat, began : {"alone", "beside"}, promised : Nat,
        served : 0..Long, allowed : 0..Long, floor : Nat, due : Nat]

Request == [user : Users, text : Texts \union {NoText}, ttl : 0..Long,
            cluster : {"Running", "Suspended", "Off"}, looked : BOOLEAN]

TypeOK ==
  /\ runs \in Seq(Run) /\ Len(runs) <= MaxRuns
  /\ request \in [Threads -> SUBSET Request] /\ found \in [Threads -> SUBSET Run]
  /\ cluster \in {"Running", "Suspended", "Off"}
  /\ data \in Nat /\ rules \in 0..MaxRules /\ enforced \in 0..rules /\ flushed \in 0..rules
  /\ changing \in BOOLEAN /\ wrote \in [Users -> Nat]

Init ==
  /\ runs = <<>> /\ request = [t \in Threads |-> {}] /\ found = [t \in Threads |-> {}]
  /\ cluster = "Running"
  /\ data = 0 /\ rules = 0 /\ enforced = 0 /\ flushed = 0 /\ changing = FALSE
  /\ wrote = [u \in Users |-> 0]

-------------------------------------------------------------------------------
(* create_query. *)

\* A write of u that Trino may still carry out.
Unsettled(u) == \E i \in DOMAIN runs : runs[i].user = u /\ runs[i].text = NoText /\ runs[i].place \in {"waiting", "sent"}

NewRun(q) ==
  [user |-> q.user, text |-> q.text, key |-> q.text, status |-> "Queued",
   place |-> IF q.cluster = "Running" THEN "sent" ELSE "waiting", kind |-> "executed", source |-> 0,
   age |-> 0, old |-> 0, seen |-> 0, under |-> 0,
   began |-> IF Unsettled(q.user) THEN "beside" ELSE "alone", promised |-> 0, served |-> 0, allowed |-> 0, floor |-> 0, due |-> 0]

\* Access, the key, the setting and the cluster.  The setting may have been changed since any other
\* request read it.  With the cache off, on "fresh" and for a write nothing is looked up.
Ask(t) ==
  /\ request[t] = {}
  /\ Len(runs) + Cardinality({d \in Threads : request[d] # {}}) < MaxRuns
  /\ \E u \in Users, text \in Texts \union {NoText}, ttl \in Ttls, fresh \in BOOLEAN :
       LET looks == text # NoText /\ ttl > 0 /\ ~fresh IN
       request' = [request EXCEPT ![t] = {[user |-> u, text |-> text, ttl |-> IF looks THEN ttl ELSE 0,
                                           cluster |-> cluster, looked |-> ~looks]}]
  /\ UNCHANGED <<runs, found, cluster, data, rules, enforced, flushed, changing, wrote>>

\* _cached_result_source: runs that were executed, finished and are not older than the setting.
Sources(q) ==
  {i \in DOMAIN runs : /\ runs[i].key = q.text /\ runs[i].user = q.user
                       /\ runs[i].kind = "executed" /\ runs[i].status = "Finished" /\ runs[i].age <= q.ttl}

\* What a row answered from row i holds.
Answered(q, i) ==
  [NewRun(q) EXCEPT
    !.status = "Finished", !.place = "dead", !.source = i,
    !.old = runs[i].old, !.seen = runs[i].seen, !.under = runs[i].under,
    !.served = runs[i].old, !.allowed = q.ttl, !.floor = wrote[q.user], !.due = flushed]

HitAsRun(q, i) == Answered(q, i)

\* _insert_cached_run: the row is a hit, and has no key.
Hit(q, i) == [Answered(q, i) EXCEPT !.kind = "hit", !.key = NoText]

\* The lookup reads the youngest row there is.
Lookup(t) ==
  /\ \E q \in request[t] :
       /\ ~q.looked /\ q.cluster # "Off"
       /\ request' = [request EXCEPT ![t] = {[q EXCEPT !.looked = TRUE]}]
       /\ \/ Sources(q) = {} /\ UNCHANGED found
          \/ \E i \in Sources(q) : /\ \A j \in Sources(q) : runs[i].age <= runs[j].age
                                   /\ found' = [found EXCEPT ![t] = {Hit(q, i)}]
  /\ UNCHANGED <<runs, cluster, data, rules, enforced, flushed, changing, wrote>>

ExpiredFinished(u, text, rs) ==
  IF text # NoText THEN rs
  ELSE [i \in DOMAIN rs |-> IF rs[i].user = u /\ rs[i].status = "Finished" THEN [rs[i] EXCEPT !.key = NoText] ELSE rs[i]]

\* A statement that is not read-only expires all of its user's entries, before it is sent.
Expired(u, text, rs) ==
  IF text # NoText THEN rs ELSE [i \in DOMAIN rs |-> IF rs[i].user = u THEN [rs[i] EXCEPT !.key = NoText] ELSE rs[i]]

Answers(t) == request' = [request EXCEPT ![t] = {}] /\ found' = [found EXCEPT ![t] = {}]

\* The transaction: a hit, or a run.
Insert(t) ==
  /\ Len(runs) < MaxRuns
  /\ \E q \in request[t] :
       /\ q.looked /\ q.cluster # "Off"
       /\ \/ \E hit \in found[t] : runs' = Append(runs, hit)
          \/ found[t] = {} /\ runs' = Expired(q.user, q.text, Append(runs, NewRun(q)))
  /\ Answers(t)
  /\ UNCHANGED <<cluster, data, rules, enforced, flushed, changing, wrote>>

\* The cluster takes no statements, or its coordinator is not tracked.
Refuse(t) ==
  /\ \E q \in request[t] : q.cluster = "Off" \/ (q.looked /\ found[t] = {} /\ q.cluster = "Running")
  /\ Answers(t)
  /\ UNCHANGED <<runs, cluster, data, rules, enforced, flushed, changing, wrote>>

-------------------------------------------------------------------------------
(* A run at Trino, and what is recorded of it. *)

With(i, r) == runs' = [runs EXCEPT ![i] = r]

\* dispatch_pending_query, once the cluster runs.  It looks at pending_cluster_start alone: a run
\* that was cancelled while it waited is sent all the same.
Dispatch(i) ==
  /\ runs[i].place = "waiting" /\ cluster = "Running"
  /\ With(i, [runs[i] EXCEPT !.place = "sent"])
  /\ UNCHANGED <<request, found, cluster, data, rules, enforced, flushed, changing, wrote>>

\* The statement takes effect: a read sees the data under the rules in force, a write changes them.
Execute(i) ==
  /\ runs[i].place = "sent" /\ cluster = "Running"
  /\ IF runs[i].text = NoText
     THEN /\ data' = data + 1 /\ wrote' = [wrote EXCEPT ![runs[i].user] = data + 1]
          /\ With(i, [runs[i] EXCEPT !.place = "done"])
     ELSE /\ UNCHANGED <<data, wrote>>
          /\ With(i, [runs[i] EXCEPT !.place = "done", !.seen = data, !.under = enforced, !.promised = flushed])
  /\ UNCHANGED <<request, found, cluster, rules, enforced, flushed, changing>>

\* Trino fails it, or goes away with its cluster.
Drop(i) ==
  /\ runs[i].place = "sent"
  /\ With(i, [runs[i] EXCEPT !.place = "dead"])
  /\ UNCHANGED <<request, found, cluster, data, rules, enforced, flushed, changing, wrote>>

\* apply_trino_response with the last page, whatever the row says meanwhile: updated_at is set,
\* and the age counts from there.
Finish(i) ==
  /\ runs[i].place = "done" /\ runs[i].status # "Finished"
  /\ With(i, [runs[i] EXCEPT !.status = "Finished", !.age = 0, !.old = 0])
  /\ UNCHANGED <<request, found, cluster, data, rules, enforced, flushed, changing, wrote>>

\* A finished run has no page left that would finish it once more.
Ended(r) == [r EXCEPT !.status = "Failed", !.place = IF r.status = "Finished" THEN "dead" ELSE @]

\* An error, a lost answer or a timeout: a statement Trino has may still take effect, one that
\* waits will not be sent.
Fail(i) ==
  /\ runs[i].status # "Finished"
  /\ With(i, [Ended(runs[i]) EXCEPT !.place = IF @ = "waiting" THEN "dead" ELSE @])
  /\ UNCHANGED <<request, found, cluster, data, rules, enforced, flushed, changing, wrote>>

\* cancel_query, at any status: pending_cluster_start stays as it is.  (Nobody reads a hit's status.)
Cancel(i) ==
  /\ runs[i].kind = "executed"
  /\ With(i, Ended(runs[i]))
  /\ UNCHANGED <<request, found, cluster, data, rules, enforced, flushed, changing, wrote>>

-------------------------------------------------------------------------------
(* Administrators, the coordinator, the clock. *)

\* A role, user, policy, tag, catalog or cluster is changed.
Change ==
  /\ ~changing /\ rules < MaxRules
  /\ rules' = rules + 1 /\ changing' = TRUE
  /\ UNCHANGED <<runs, request, found, cluster, data, enforced, flushed, wrote>>

FlushFinished ==
  /\ changing /\ changing' = FALSE
  /\ runs' = [i \in DOMAIN runs |-> IF runs[i].status = "Finished" THEN [runs[i] EXCEPT !.key = NoText] ELSE runs[i]]
  /\ flushed' = rules
  /\ UNCHANGED <<request, found, cluster, data, rules, enforced, wrote>>

\* audit: every key goes, those of runs in flight too.
Flush ==
  /\ changing /\ changing' = FALSE
  /\ runs' = [i \in DOMAIN runs |-> [runs[i] EXCEPT !.key = NoText]] /\ flushed' = rules
  /\ UNCHANGED <<request, found, cluster, data, rules, enforced, wrote>>

\* The process stops, between the two or in a request.
Crash ==
  /\ changing \/ \E t \in Threads : request[t] # {}
  /\ changing' = FALSE
  /\ request' = [t \in Threads |-> {}] /\ found' = [t \in Threads |-> {}]
  /\ UNCHANGED <<runs, cluster, data, rules, enforced, flushed, wrote>>

\* The coordinator fetches the rendered rules.
Refresh ==
  /\ cluster = "Running" /\ enforced < rules /\ enforced' = rules
  /\ UNCHANGED <<runs, request, found, cluster, data, rules, flushed, changing, wrote>>

\* ClusterLifecycle; a coordinator that boots starts with the rules of the moment.
ClusterMoves ==
  /\ cluster' \in {"Running", "Suspended", "Off"} \ {cluster}
  /\ enforced' = IF cluster' = "Running" THEN rules ELSE enforced
  /\ UNCHANGED <<runs, request, found, data, rules, flushed, changing, wrote>>

Older(age) == IF age = Long THEN age ELSE age + 1

TimePasses ==
  /\ runs' = [i \in DOMAIN runs |-> IF runs[i].key # NoText /\ runs[i].status = "Finished"
                                   THEN [runs[i] EXCEPT !.age = Older(@), !.old = Older(@)] ELSE runs[i]]
  /\ UNCHANGED <<request, found, cluster, data, rules, enforced, flushed, changing, wrote>>

-------------------------------------------------------------------------------
Next ==
  \/ \E t \in Threads : Ask(t) \/ Lookup(t) \/ Insert(t) \/ Refuse(t)
  \/ \E i \in DOMAIN runs : Dispatch(i) \/ Execute(i) \/ Drop(i) \/ Finish(i) \/ Fail(i) \/ Cancel(i)
  \/ Change \/ Flush \/ Crash \/ Refresh \/ ClusterMoves \/ TimePasses

Spec == Init /\ [][Next]_vars

-------------------------------------------------------------------------------
(* Properties. *)

Hits == {i \in DOMAIN runs : runs[i].source # 0}

\* A read answered from the cache shows what its user's writes had done when create_query
\* looked, whatever other runs were in flight and whichever were cancelled, unless the run it is
\* answered from began while such a write was unsettled.  (A write that comes between the look
\* and the insert of the answer is too late for it.)
OwnWritesSeen == \A i \in Hits : runs[i].seen >= runs[i].floor \/ runs[runs[i].source].began = "beside"

\* However hits follow one another and the setting changes, no result is served that is older
\* than the window the request read.
ServedWithinTtl == \A i \in Hits : runs[i].served <= runs[i].allowed

\* Once a change of who may see what is flushed, no lookup finds a result made under older rules,
\* unless the coordinator itself had not fetched the new ones when it made it.  (A flush between
\* the lookup and the insert of the answer is too late for it.)
RulesNotOutlived == \A i \in Hits : runs[i].under >= runs[i].due \/ runs[runs[i].source].under < runs[runs[i].source].promised
=============================================================================
