------------------------------ MODULE WireResume ------------------------------
(***************************************************************************)
(* Native Trino clients (CLI, JDBC, BI tools) of a cluster that is not up:  *)
(* the gateway's route for the cluster's host, the shim that captures a      *)
(* statement, resumes the cluster and holds the client, and the replay of    *)
(* the statement to the coordinator.                                         *)
(*                                                                          *)
(* A request goes where the route says when it is sent.  A handler is cut at *)
(* every SQLite read and transaction and at every request to a coordinator or *)
(* to the gateway.  The cluster's status moves in any way (ClusterLifecycle   *)
(* shows which races do that).                                               *)
(*                                                                          *)
(* Left out: headers, the texts of synthetic results, and wire_proxy, which  *)
(* forwards a request and changes nothing here.                              *)
(***************************************************************************)
EXTENDS Naturals

CONSTANTS
  Clients,    \* each with one statement to run
  Tries,      \* requests a client may have under way, those it gave up included
  Hooks,      \* threads that push routes: the poller and the lifecycle handlers
  MaxCrashes  \* bound: control-plane crashes in a behaviour

ASSUME BoundAssumption == Tries \in Nat \ {0} /\ MaxCrashes \in Nat

VARIABLES
  status,   \* clusters.status, or NoCluster
  auto,     \* TRUE if auto_suspend_minutes is set
  route,    \* the upstream the gateway has for the cluster's host
  held,     \* clients with a row in wire_pending
  old,      \* clients whose row is older than WIRE_RESUME_TIMEOUT_SECONDS
  runs,     \* runs[c]: times a coordinator accepted c's statement
  client,   \* what each client knows of its statement
  waits,    \* waits[c]: the request c waits for, 0 if none
  pc, out,  \* the handler of each request: where it is, its outcome so far
  push,     \* the route each thread has computed and not pushed yet
  crashes

cluster == <<status, auto>>
locals  == <<pc, out>>
vars    == <<cluster, route, held, old, runs, client, waits, locals, push, crashes>>

-------------------------------------------------------------------------------
NoCluster == "NoCluster"
\* "Off" stands for Not enabled, Failed, Suspending, Deleting and Updating, which
\* the gateway and the shim treat alike.
Statuses == {"Suspended", "Creating", "Starting", "Running", "Off", NoCluster}
Routes   == {"shim", "coordinator", "none"}
Threads  == Clients \X (1..Tries)

\* failed is the shim's FAILED result, error anything else that ends the driver's
\* query, lost the coordinator's answer to a holding URI it has never heard of.
Over    == {"served", "failed", "error", "lost"}
States  == {"new", "holding"} \union Over
Pcs     == {"idle", "submit", "resume", "forward", "store", "load", "drop", "cluster",
            "probe", "probe_sync", "probe_push", "endpoint", "replay", "delete", "sync",
            "push"}

TypeOK ==
  /\ status \in Statuses /\ auto \in BOOLEAN /\ route \in Routes
  /\ held \in SUBSET Clients /\ old \in SUBSET Clients
  /\ runs \in [Clients -> Nat] /\ client \in [Clients -> States]
  /\ waits \in [Clients -> 0..Tries]
  /\ pc \in [Threads -> Pcs] /\ out \in [Threads -> States]
  /\ push \in [Threads \union Hooks -> Routes \union {"idle"}]
  /\ crashes \in Nat

Init ==
  /\ status = "Suspended" /\ auto = TRUE /\ route = "shim"
  /\ held = {} /\ old = {} /\ runs = [c \in Clients |-> 0]
  /\ client = [c \in Clients |-> "new"] /\ waits = [c \in Clients |-> 0]
  /\ pc = [t \in Threads |-> "idle"] /\ out = [t \in Threads |-> "new"]
  /\ push = [p \in Threads \union Hooks |-> "idle"]
  /\ crashes = 0

-------------------------------------------------------------------------------
Goto(t, p) == pc' = [pc EXCEPT ![t] = p]

\* The handler returns; its answer reaches the client if it still waits for it.
Answer(t, outcome) ==
  /\ Goto(t, "idle") /\ out' = [out EXCEPT ![t] = "new"]
  /\ IF waits[t[1]] = t[2]
       THEN /\ client' = [client EXCEPT ![t[1]] = outcome]
            /\ waits' = [waits EXCEPT ![t[1]] = 0]
       ELSE UNCHANGED <<client, waits>>

Quiet == UNCHANGED <<client, waits>>

\* The coordinator accepts the statement of client c, or it does not.
Accepts(c) == runs' = [runs EXCEPT ![c] = @ + 1]

-------------------------------------------------------------------------------
(* cluster_tls_routes and sync_tls_gateway: read the rows, then push.          *)
\* A running cluster whose coordinator has no address yet gets no route.
RoutesOf(s, a) ==
  IF s = "Running" THEN {"coordinator", "none"}
  ELSE IF s \in {"Creating", "Starting"} \/ (s = "Suspended" /\ a) THEN {"shim"}
  ELSE {"none"}

SyncRead(p) ==
  /\ push[p] = "idle"
  /\ \E r \in RoutesOf(status, auto) : push' = [push EXCEPT ![p] = r]

\* push_config is best effort: the gateway may be down.
SyncPush(p) == push[p] # "idle" /\ route' = push[p] /\ push' = [push EXCEPT ![p] = "idle"]
SyncSkip(p) == push[p] # "idle" /\ UNCHANGED route /\ push' = [push EXCEPT ![p] = "idle"]

\* Mutant of HookReads: only running clusters have their route refreshed.
HookReadsRunning(h) ==
  /\ status = "Running" /\ SyncRead(h)
  /\ UNCHANGED <<cluster, route, held, old, runs, client, waits, locals, crashes>>

HookReads(h) ==
  SyncRead(h) /\ UNCHANGED <<cluster, route, held, old, runs, client, waits, locals, crashes>>
HookPushes(h) ==
  SyncPush(h) /\ UNCHANGED <<cluster, held, old, runs, client, waits, locals, crashes>>
HookSkips(h) ==
  SyncSkip(h) /\ UNCHANGED <<cluster, held, old, runs, client, waits, locals, crashes>>

-------------------------------------------------------------------------------
(* The drivers (external).                                                     *)
Send(t, p) ==
  /\ waits[t[1]] = 0 /\ pc[t] = "idle"
  /\ Goto(t, p) /\ waits' = [waits EXCEPT ![t[1]] = t[2]]

\* POST /v1/statement, where the route says.
Post(t) ==
  /\ client[t[1]] = "new"
  /\ \/ route = "shim" /\ Send(t, "submit") /\ UNCHANGED <<runs, client>>
     \/ /\ route = "coordinator" /\ waits[t[1]] = 0 /\ pc[t] = "idle"
        /\ \/ Accepts(t[1]) /\ client' = [client EXCEPT ![t[1]] = "served"]
           \/ UNCHANGED runs /\ client' = [client EXCEPT ![t[1]] = "error"]
        /\ UNCHANGED <<pc, waits>>
  /\ UNCHANGED <<cluster, route, held, old, out, push, crashes>>

\* GET of the holding URI.  No coordinator knows it.
Get(t) ==
  /\ client[t[1]] = "holding"
  /\ \/ route = "shim" /\ Send(t, "load") /\ UNCHANGED client
     \/ /\ route # "shim" /\ waits[t[1]] = 0 /\ pc[t] = "idle"
        /\ client' = [client EXCEPT ![t[1]] = IF route = "coordinator" THEN "lost" ELSE "error"]
        /\ UNCHANGED <<pc, waits>>
  /\ UNCHANGED <<cluster, route, held, old, runs, out, push, crashes>>

\* The driver loses its connection to the shim, to try again, or the user leaves.
GiveUp(c) ==
  /\ \/ /\ Tries > 1 /\ client[c] = "holding" /\ waits[c] # 0
        /\ UNCHANGED client
     \/ client[c] = "holding" /\ client' = [client EXCEPT ![c] = "error"]
  /\ waits' = [waits EXCEPT ![c] = 0]
  /\ UNCHANGED <<cluster, route, held, old, runs, locals, push, crashes>>

-------------------------------------------------------------------------------
(* wire_submit_statement                                                       *)
\* A cluster the shim cannot resume gets 503: the driver sends the POST again.
WireSubmit(t) ==
  /\ pc[t] = "submit"
  /\ \/ /\ status \in {"Off", NoCluster} \/ (status = "Suspended" /\ ~auto)
        /\ Answer(t, "new")
     \/ /\ status = "Running"
        /\ \E p \in {"forward", "store"} : Goto(t, p)
        /\ Quiet /\ UNCHANGED out
     \/ /\ status = "Suspended" /\ auto
        /\ Goto(t, "resume") /\ Quiet /\ UNCHANGED out
     \/ /\ status \in {"Creating", "Starting"}
        /\ Goto(t, "store") /\ Quiet /\ UNCHANGED out
  /\ UNCHANGED <<cluster, route, held, old, runs, push, crashes>>

\* start_cluster claims the cluster, or raises because somebody else has.
WireStart(t) ==
  /\ pc[t] = "resume"
  /\ IF status = "Suspended" THEN status' \in {"Creating", "Suspended"} ELSE UNCHANGED status
  /\ Goto(t, "store") /\ Quiet
  /\ UNCHANGED <<auto, route, held, old, runs, out, push, crashes>>

Forward(t) ==
  /\ pc[t] = "forward"
  /\ \/ Accepts(t[1]) /\ Answer(t, "served")
     \/ Accepts(t[1]) /\ Answer(t, "error")
     \/ UNCHANGED runs /\ Answer(t, "error")
  /\ UNCHANGED <<cluster, route, held, old, push, crashes>>

\* _store_wire_capture: the row refers to the cluster's and cannot outlive it.
StoreCapture(t) ==
  /\ pc[t] = "store"
  /\ IF status # NoCluster
       THEN held' = held \union {t[1]} /\ Answer(t, "holding")
       ELSE UNCHANGED held /\ Answer(t, "error")
  /\ UNCHANGED <<cluster, route, old, runs, push, crashes>>

-------------------------------------------------------------------------------
(* wire_poll_resuming                                                          *)
\* Mutant of LoadCapture: an unknown holding URI is held.
LoadKeepsHolding(t) ==
  /\ pc[t] = "load"
  /\ IF t[1] \notin held THEN Answer(t, "holding")
     ELSE /\ Goto(t, IF t[1] \in old THEN "drop" ELSE "cluster")
          /\ Quiet /\ UNCHANGED out
  /\ UNCHANGED <<cluster, route, held, old, runs, push, crashes>>

LoadCapture(t) ==
  /\ pc[t] = "load"
  /\ IF t[1] \notin held THEN Answer(t, "failed")
     ELSE /\ Goto(t, IF t[1] \in old THEN "drop" ELSE "cluster")
          /\ Quiet /\ UNCHANGED out
  /\ UNCHANGED <<cluster, route, held, old, runs, push, crashes>>

DropCapture(t) ==
  /\ pc[t] = "drop"
  /\ held' = held \ {t[1]}
  /\ Answer(t, "failed")
  /\ UNCHANGED <<cluster, route, old, runs, push, crashes>>

\* What the cluster's status means for a held client.
Decide(t, s) ==
  \/ s \in {"Creating", "Starting", "Suspended"} /\ Answer(t, "holding")
  \/ s = "Running" /\ Goto(t, "endpoint") /\ Quiet /\ UNCHANGED out
  \/ s \in {"Off", NoCluster} /\ Goto(t, "drop") /\ Quiet /\ UNCHANGED out

PollCluster(t) ==
  /\ pc[t] = "cluster"
  /\ IF status = "Starting" THEN Goto(t, "probe") /\ Quiet /\ UNCHANGED out
     ELSE Decide(t, status)
  /\ UNCHANGED <<cluster, route, held, old, runs, push, crashes>>

\* refresh_cluster_health: writes Running and pushes the routes, answers the
\* status it finds, or raises and leaves the one just read.
PollProbe(t) ==
  /\ pc[t] = "probe"
  /\ \/ /\ status # NoCluster /\ status' = "Running"
        /\ Goto(t, "probe_sync") /\ Quiet /\ UNCHANGED out
     \/ UNCHANGED status /\ \E s \in {status, "Starting"} \ {NoCluster} : Decide(t, s)
  /\ UNCHANGED <<auto, route, held, old, runs, push, crashes>>

\* Without an address of the coordinator the client goes on waiting.
Endpoint(t) ==
  /\ pc[t] = "endpoint"
  /\ \/ Goto(t, "replay") /\ Quiet /\ UNCHANGED out
     \/ Answer(t, "holding")
  /\ UNCHANGED <<cluster, route, held, old, runs, push, crashes>>

\* Mutant of Replay: an unreachable coordinator leaves the client waiting.
ReplayRetries(t) ==
  /\ pc[t] = "replay"
  /\ \/ /\ \/ Accepts(t[1]) /\ out' = [out EXCEPT ![t] = "served"]
           \/ UNCHANGED runs /\ out' = [out EXCEPT ![t] = "error"]
        /\ Goto(t, "delete") /\ Quiet
     \/ (Accepts(t[1]) \/ UNCHANGED runs) /\ Answer(t, "holding")
  /\ UNCHANGED <<cluster, route, held, old, push, crashes>>

\* _forward_to_coordinator: the coordinator's answer, whatever its status, ends
\* the holding; an exception, after it accepted the statement or before, is a 500.
Replay(t) ==
  /\ pc[t] = "replay"
  /\ \/ /\ \/ Accepts(t[1]) /\ out' = [out EXCEPT ![t] = "served"]
           \/ UNCHANGED runs /\ out' = [out EXCEPT ![t] = "error"]
        /\ Goto(t, "delete") /\ Quiet
     \/ (Accepts(t[1]) \/ UNCHANGED runs) /\ Answer(t, "error")
  /\ UNCHANGED <<cluster, route, held, old, push, crashes>>

DeleteCapture(t) ==
  /\ pc[t] = "delete"
  /\ held' = held \ {t[1]}
  /\ Goto(t, "sync") /\ Quiet
  /\ UNCHANGED <<cluster, route, old, runs, out, push, crashes>>

PollSyncs(t) ==
  /\ \/ pc[t] = "sync" /\ Goto(t, "push")
     \/ pc[t] = "probe_sync" /\ Goto(t, "probe_push")
  /\ SyncRead(t)
  /\ Quiet /\ UNCHANGED <<cluster, route, held, old, runs, out, crashes>>

PollPushes(t) ==
  /\ SyncPush(t) \/ SyncSkip(t)
  /\ \/ pc[t] = "push" /\ Answer(t, out[t])
     \/ pc[t] = "probe_push" /\ Decide(t, "Running")
  /\ UNCHANGED <<cluster, held, old, runs, crashes>>

-------------------------------------------------------------------------------
\* expire_wire_captures, once per round of the poller.
Expire ==
  /\ held \intersect old # {}
  /\ held' = held \ old
  /\ UNCHANGED <<cluster, route, old, runs, client, waits, locals, push, crashes>>

Clock(c) ==
  /\ c \in held \ old
  /\ old' = old \union {c}
  /\ UNCHANGED <<cluster, route, held, runs, client, waits, locals, push, crashes>>

\* Deleting the cluster deletes its captures.
ClusterMoves ==
  /\ status # NoCluster
  /\ status' \in Statuses /\ auto' \in BOOLEAN /\ cluster' # cluster
  /\ held' = IF status' = NoCluster THEN {} ELSE held
  /\ UNCHANGED <<route, old, runs, client, waits, locals, push, crashes>>

\* A driver sends the GET of a broken connection again, and a POST not.
Crash ==
  /\ crashes < MaxCrashes
  /\ crashes' = crashes + 1
  /\ client' = [c \in Clients |-> IF client[c] = "new" /\ waits[c] # 0 THEN "error" ELSE client[c]]
  /\ waits' = [c \in Clients |-> 0]
  /\ pc' = [t \in Threads |-> "idle"] /\ out' = [t \in Threads |-> "new"]
  /\ push' = [p \in Threads \union Hooks |-> "idle"]
  /\ UNCHANGED <<cluster, route, held, old, runs>>

SubmitStep(t) == WireSubmit(t) \/ WireStart(t) \/ Forward(t) \/ StoreCapture(t)
PollStep(t)   == \/ LoadCapture(t) \/ DropCapture(t) \/ PollCluster(t) \/ PollProbe(t)
                 \/ Endpoint(t) \/ Replay(t) \/ DeleteCapture(t) \/ PollSyncs(t) \/ PollPushes(t)
HookStep(h)   == HookReads(h) \/ HookPushes(h) \/ HookSkips(h)

Next ==
  \/ \E t \in Threads : Post(t) \/ Get(t) \/ SubmitStep(t) \/ PollStep(t)
  \/ \E c \in Clients : GiveUp(c) \/ Clock(c)
  \/ \E h \in Hooks : HookStep(h)
  \/ Expire \/ ClusterMoves \/ Crash

Spec == Init /\ [][Next]_vars

\* Handlers run, a driver that holds polls, time passes, the poller sweeps and
\* pushes on every round, and the gateway is not down for ever.
Fairness ==
  /\ \A t \in Threads : WF_vars(SubmitStep(t) \/ PollStep(t)) /\ WF_vars(Get(t))
  /\ \A c \in Clients : WF_vars(Clock(c))
  /\ WF_vars(Expire)
  /\ \A h \in Hooks : WF_vars(HookReads(h)) /\ SF_vars(HookPushes(h))

FairSpec == Spec /\ Fairness

-------------------------------------------------------------------------------
(* Properties                                                                  *)

\* Until a crash, a client that sends one request at a time has its statement run
\* at most once, exactly once if it was handed on to the coordinator, and not at
\* all if the shim told it to run the query again.
RunsOnce ==
  crashes = 0 /\ Tries = 1 =>
    \A c \in Clients :
      /\ runs[c] <= 1
      /\ client[c] = "served" => runs[c] = 1
      /\ client[c] = "failed" => runs[c] = 0

\* A client that keeps polling is not held for ever.
HoldEnds == \A c \in Clients : client[c] = "holding" ~> client[c] # "holding"

\* However pushes overtake each other, the gateway ends up with a route of the
\* cluster's last status.
RouteCatchesUp ==
  \A s \in Statuses, a \in BOOLEAN :
    <>[](cluster = <<s, a>>) => <>[](route \in RoutesOf(s, a))
=============================================================================
