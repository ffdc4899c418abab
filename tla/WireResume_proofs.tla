-------------------------- MODULE WireResume_proofs --------------------------
(***************************************************************************)
(* Proofs about WireResume for any clients, requests, hooks and crashes: its  *)
(* type invariant, and that a client that sends one request at a time has its  *)
(* statement run at most once.                                               *)
(***************************************************************************)
EXTENDS WireResume, TLAPS

LEMMA ThreadParts ==
  ASSUME NEW t \in Threads PROVE t[1] \in Clients /\ t[2] \in 1..Tries
BY DEF Threads

\* The handler of one request goes on or returns.
LEMMA GotoType ==
  ASSUME TypeOK, NEW t \in Threads, NEW p \in Pcs, Goto(t, p)
  PROVE  pc' \in [Threads -> Pcs] /\ pc'[t] = p /\ \A s \in Threads : s # t => pc'[s] = pc[s]
BY DEF Goto, TypeOK

LEMMA AnswerType ==
  ASSUME TypeOK, NEW t \in Threads, NEW o \in States, Answer(t, o)
  PROVE  /\ pc' \in [Threads -> Pcs] /\ out' \in [Threads -> States]
         /\ client' \in [Clients -> States] /\ waits' \in [Clients -> 0..Tries]
         /\ pc'[t] = "idle" /\ \A s \in Threads : s # t => pc'[s] = pc[s] /\ out'[s] = out[s]
         /\ \A c \in Clients : c # t[1] => client'[c] = client[c] /\ waits'[c] = waits[c]
         /\ IF waits[t[1]] = t[2] THEN client'[t[1]] = o /\ waits'[t[1]] = 0
            ELSE client'[t[1]] = client[t[1]] /\ waits'[t[1]] = waits[t[1]]
<1>1. pc' = [pc EXCEPT ![t] = "idle"] /\ out' = [out EXCEPT ![t] = "new"]
  BY DEF Answer, Goto
<1>2. pc' \in [Threads -> Pcs] /\ out' \in [Threads -> States]
  BY <1>1 DEF TypeOK, Pcs, States
<1>3. pc'[t] = "idle" /\ \A s \in Threads : s # t => pc'[s] = pc[s] /\ out'[s] = out[s]
  BY <1>1 DEF TypeOK
<1>4. t[1] \in Clients /\ 0 \in 0..Tries
  BY ThreadParts, BoundAssumption
<1>5. CASE waits[t[1]] = t[2]
  <2>1. client' = [client EXCEPT ![t[1]] = o] /\ waits' = [waits EXCEPT ![t[1]] = 0]
    BY <1>5 DEF Answer
  <2> QED BY <1>2, <1>3, <1>4, <1>5, <2>1 DEF TypeOK
<1>6. CASE waits[t[1]] # t[2]
  <2>1. client' = client /\ waits' = waits
    BY <1>6 DEF Answer
  <2> QED BY <1>2, <1>3, <1>4, <1>6, <2>1 DEF TypeOK
<1> QED BY <1>5, <1>6

LEMMA AcceptsType ==
  ASSUME TypeOK, NEW c \in Clients, Accepts(c)
  PROVE  runs' \in [Clients -> Nat] /\ runs'[c] = runs[c] + 1 /\ \A d \in Clients : d # c => runs'[d] = runs[d]
BY DEF TypeOK, Accepts

\* What a client learns of its cluster's status: it is held, or the handler goes on.
LEMMA DecideType ==
  ASSUME TypeOK, NEW t \in Threads, NEW s, Decide(t, s)
  PROVE  \/ Answer(t, "holding")
         \/ \E p \in {"endpoint", "drop"} : Goto(t, p) /\ UNCHANGED <<client, waits, out>>
BY DEF Decide, Quiet

\* Threads and hooks push routes.
LEMMA PushType ==
  ASSUME TypeOK, NEW p \in Threads \union Hooks, SyncRead(p) \/ SyncPush(p) \/ SyncSkip(p)
  PROVE  push' \in [Threads \union Hooks -> Routes \union {"idle"}]
         /\ (SyncPush(p) \/ SyncSkip(p) => route' \in Routes)
<1>1. CASE SyncRead(p)
  <2>1. PICK r \in RoutesOf(status, auto) : push' = [push EXCEPT ![p] = r]
    BY <1>1 DEF SyncRead
  <2>2. r \in Routes
    BY DEF RoutesOf, Routes
  <2>3. push' \in [Threads \union Hooks -> Routes \union {"idle"}]
    BY <2>1, <2>2 DEF TypeOK
  <2>4. push[p] = "idle"
    BY <1>1 DEF SyncRead
  <2> QED BY <2>3, <2>4 DEF SyncPush, SyncSkip
<1>2. CASE SyncPush(p)
  BY <1>2 DEF TypeOK, SyncPush
<1>3. CASE SyncSkip(p)
  BY <1>3 DEF TypeOK, SyncSkip
<1> QED BY <1>1, <1>2, <1>3

-----------------------------------------------------------------------------
(* The type invariant. *)

\* What a request's handler and its client have.
Locals == /\ pc \in [Threads -> Pcs] /\ out \in [Threads -> States]
          /\ client \in [Clients -> States] /\ waits \in [Clients -> 0..Tries]

LEMMA LocalsMove ==
  ASSUME TypeOK, NEW t \in Threads,
         \/ \E o \in States : Answer(t, o)
         \/ \E p \in Pcs : Goto(t, p) /\ UNCHANGED <<client, waits, out>>
  PROVE  Locals'
<1>1. CASE \E o \in States : Answer(t, o)
  BY <1>1, AnswerType DEF Locals
<1>2. CASE \E p \in Pcs : Goto(t, p) /\ UNCHANGED <<client, waits, out>>
  BY <1>2, GotoType DEF Locals, TypeOK
<1> QED BY <1>1, <1>2

LEMMA DecideMoves ==
  ASSUME TypeOK, NEW t \in Threads, NEW s, Decide(t, s) PROVE Locals'
BY DecideType, LocalsMove DEF States, Pcs

\* The drivers.
LEMMA DriverType ==
  ASSUME TypeOK, NEW t \in Threads, Post(t) \/ Get(t) PROVE TypeOK'
<1>1. t[1] \in Clients /\ t[2] \in 0..Tries
  BY ThreadParts, BoundAssumption
<1>2. ASSUME NEW p \in Pcs, Send(t, p), UNCHANGED <<out, client>> PROVE Locals'
  BY <1>1, <1>2, GotoType DEF Send, Locals, TypeOK
<1>3. CASE Post(t)
  <2>1. Locals' /\ runs' \in [Clients -> Nat]
    <3>1. CASE Send(t, "submit") /\ UNCHANGED <<runs, client>>
      BY <1>2, <1>3, <3>1 DEF Post, Pcs, TypeOK
    <3>2. CASE UNCHANGED <<pc, waits>>
      <4>1. client' \in [Clients -> States]
        BY <1>1, <1>3, <3>2 DEF Post, TypeOK, States, Over
      <4>2. runs' \in [Clients -> Nat]
        BY <1>1, <1>3, <3>2, AcceptsType DEF Post, TypeOK
      <4> QED BY <1>3, <3>2, <4>1, <4>2 DEF Post, Locals, TypeOK
    <3> QED BY <1>3, <3>1, <3>2 DEF Post
  <2> QED BY <1>3, <2>1 DEF Post, Locals, TypeOK, cluster
<1>4. CASE Get(t)
  <2>1. Locals'
    <3>1. CASE Send(t, "load") /\ UNCHANGED client
      BY <1>2, <1>4, <3>1 DEF Get, Pcs
    <3>2. CASE UNCHANGED <<pc, waits>>
      <4>1. client' \in [Clients -> States]
        BY <1>1, <1>4, <3>2 DEF Get, TypeOK, States, Over
      <4> QED BY <1>4, <3>2, <4>1 DEF Get, Locals, TypeOK
    <3> QED BY <1>4, <3>1, <3>2 DEF Get
  <2> QED BY <1>4, <2>1 DEF Get, Locals, TypeOK, cluster
<1> QED BY <1>3, <1>4

LEMMA SubmitType ==
  ASSUME TypeOK, NEW t \in Threads, SubmitStep(t) PROVE TypeOK'
<1>0. t[1] \in Clients
  BY ThreadParts
<1>1. CASE WireSubmit(t)
  <2>1. Locals'
    <3>1. \/ Answer(t, "new")
          \/ \E p \in {"forward", "store", "resume"} : Goto(t, p) /\ UNCHANGED <<client, waits, out>>
      BY <1>1 DEF WireSubmit, Quiet
    <3> QED BY <3>1, LocalsMove DEF States, Pcs
  <2> QED BY <1>1, <2>1 DEF WireSubmit, Locals, TypeOK, cluster
<1>2. CASE WireStart(t)
  <2>1. Goto(t, "store") /\ UNCHANGED <<client, waits, out>>
    BY <1>2 DEF WireStart, Quiet
  <2>2. Locals'
    BY <2>1, LocalsMove DEF Pcs
  <2>3. status' \in Statuses
    BY <1>2 DEF WireStart, Statuses, TypeOK
  <2> QED BY <1>2, <2>2, <2>3 DEF WireStart, Locals, TypeOK
<1>3. CASE Forward(t)
  <2>1. Locals'
    <3>1. Answer(t, "served") \/ Answer(t, "error")
      BY <1>3 DEF Forward
    <3> QED BY <3>1, LocalsMove DEF States, Over
  <2>2. runs' \in [Clients -> Nat]
    BY <1>0, <1>3, AcceptsType DEF Forward, TypeOK
  <2> QED BY <1>3, <2>1, <2>2 DEF Forward, Locals, TypeOK, cluster
<1>4. CASE StoreCapture(t)
  <2>1. Locals'
    <3>1. Answer(t, "holding") \/ Answer(t, "error")
      BY <1>4 DEF StoreCapture
    <3> QED BY <3>1, LocalsMove DEF States, Over
  <2>2. held' \in SUBSET Clients
    BY <1>0, <1>4 DEF StoreCapture, TypeOK
  <2> QED BY <1>4, <2>1, <2>2 DEF StoreCapture, Locals, TypeOK, cluster
<1> QED BY <1>1, <1>2, <1>3, <1>4 DEF SubmitStep

LEMMA PollType ==
  ASSUME TypeOK, NEW t \in Threads, PollStep(t) PROVE TypeOK'
<1>0. t[1] \in Clients
  BY ThreadParts
<1>1. CASE LoadCapture(t)
  <2>1. Locals'
    <3>1. \/ Answer(t, "failed")
          \/ \E p \in {"drop", "cluster"} : Goto(t, p) /\ UNCHANGED <<client, waits, out>>
      BY <1>1 DEF LoadCapture, Quiet
    <3> QED BY <3>1, LocalsMove DEF States, Over, Pcs
  <2> QED BY <1>1, <2>1 DEF LoadCapture, Locals, TypeOK, cluster
<1>2. CASE DropCapture(t)
  <2>1. Locals'
    <3>1. Answer(t, "failed")
      BY <1>2 DEF DropCapture
    <3> QED BY <3>1, LocalsMove DEF States, Over
  <2> QED BY <1>2, <2>1 DEF DropCapture, Locals, TypeOK, cluster
<1>3. CASE PollCluster(t)
  <2>1. Locals'
    <3>1. Decide(t, status) \/ (Goto(t, "probe") /\ UNCHANGED <<client, waits, out>>)
      BY <1>3 DEF PollCluster, Quiet
    <3> QED BY <3>1, DecideMoves, LocalsMove DEF Pcs
  <2> QED BY <1>3, <2>1 DEF PollCluster, Locals, TypeOK, cluster
<1>4. CASE PollProbe(t)
  <2>1. Locals'
    <3>1. (\E s \in Statuses : Decide(t, s)) \/ (Goto(t, "probe_sync") /\ UNCHANGED <<client, waits, out>>)
      BY <1>4 DEF PollProbe, Quiet, TypeOK, Statuses
    <3> QED BY <3>1, DecideMoves, LocalsMove DEF Pcs
  <2>2. status' \in Statuses
    BY <1>4 DEF PollProbe, TypeOK, Statuses
  <2> QED BY <1>4, <2>1, <2>2 DEF PollProbe, Locals, TypeOK
<1>5. CASE Endpoint(t)
  <2>1. Locals'
    <3>1. Answer(t, "holding") \/ (Goto(t, "replay") /\ UNCHANGED <<client, waits, out>>)
      BY <1>5 DEF Endpoint, Quiet
    <3> QED BY <3>1, LocalsMove DEF States, Pcs
  <2> QED BY <1>5, <2>1 DEF Endpoint, Locals, TypeOK, cluster
<1>6. CASE Replay(t)
  <2>1. Locals'
    <3>1. CASE Answer(t, "error")
      BY <3>1, LocalsMove DEF States, Over
    <3>2. CASE Goto(t, "delete") /\ UNCHANGED <<client, waits>> /\ \E o \in {"served", "error"} : out' = [out EXCEPT ![t] = o]
      <4>1. pc' \in [Threads -> Pcs]
        BY <3>2, GotoType DEF Pcs
      <4>2. out' \in [Threads -> States]
        BY <3>2 DEF TypeOK, States, Over
      <4> QED BY <3>2, <4>1, <4>2 DEF Locals, TypeOK
    <3> QED BY <1>6, <3>1, <3>2 DEF Replay, Quiet
  <2>2. runs' \in [Clients -> Nat]
    BY <1>0, <1>6, AcceptsType DEF Replay, TypeOK
  <2> QED BY <1>6, <2>1, <2>2 DEF Replay, Locals, TypeOK, cluster
<1>7. CASE DeleteCapture(t)
  <2>1. Locals'
    <3>1. Goto(t, "sync") /\ UNCHANGED <<client, waits, out>>
      BY <1>7 DEF DeleteCapture, Quiet
    <3> QED BY <3>1, LocalsMove DEF Pcs
  <2> QED BY <1>7, <2>1 DEF DeleteCapture, Locals, TypeOK, cluster
<1>8. CASE PollSyncs(t)
  <2>1. Locals'
    <3>1. \E p \in {"push", "probe_push"} : Goto(t, p) /\ UNCHANGED <<client, waits, out>>
      BY <1>8 DEF PollSyncs, Quiet
    <3> QED BY <3>1, LocalsMove DEF Pcs
  <2>2. push' \in [Threads \union Hooks -> Routes \union {"idle"}]
    BY <1>8, PushType DEF PollSyncs
  <2> QED BY <1>8, <2>1, <2>2 DEF PollSyncs, Locals, TypeOK, cluster
<1>9. CASE PollPushes(t)
  <2>1. Locals'
    <3>1. Answer(t, out[t]) \/ Decide(t, "Running")
      BY <1>9 DEF PollPushes
    <3>2. out[t] \in States
      BY DEF TypeOK
    <3> QED BY <3>1, <3>2, DecideMoves, LocalsMove
  <2>2. push' \in [Threads \union Hooks -> Routes \union {"idle"}] /\ route' \in Routes
    BY <1>9, PushType DEF PollPushes
  <2> QED BY <1>9, <2>1, <2>2 DEF PollPushes, Locals, TypeOK, cluster
<1> QED BY <1>1, <1>2, <1>3, <1>4, <1>5, <1>6, <1>7, <1>8, <1>9 DEF PollStep

\* Hooks, the sweep, the clock, the cluster, a user who leaves, a crash.
LEMMA OutsideType ==
  ASSUME TypeOK,
         \/ \E c \in Clients : GiveUp(c) \/ Clock(c)
         \/ \E h \in Hooks : HookStep(h)
         \/ Expire \/ ClusterMoves \/ Crash \/ UNCHANGED vars
  PROVE  TypeOK'
<1>1. ASSUME NEW c \in Clients, GiveUp(c) PROVE TypeOK'
  <2>1. client' \in [Clients -> States] /\ waits' \in [Clients -> 0..Tries]
    <3>1. waits' = [waits EXCEPT ![c] = 0] /\ 0 \in 0..Tries
      BY <1>1, BoundAssumption DEF GiveUp
    <3>2. client' = client \/ client' = [client EXCEPT ![c] = "error"]
      BY <1>1 DEF GiveUp
    <3> QED BY <3>1, <3>2 DEF TypeOK, States, Over
  <2> QED BY <1>1, <2>1 DEF GiveUp, TypeOK, cluster, locals
<1>2. ASSUME NEW c \in Clients, Clock(c) PROVE TypeOK'
  BY <1>2 DEF Clock, TypeOK, cluster, locals
<1>3. ASSUME NEW h \in Hooks, HookStep(h) PROVE TypeOK'
  <2>1. /\ SyncRead(h) \/ SyncPush(h) \/ SyncSkip(h)
        /\ route' = route \/ SyncPush(h) \/ SyncSkip(h)
        /\ UNCHANGED <<cluster, held, old, runs, client, waits, locals, crashes>>
    BY <1>3 DEF HookStep, HookReads, HookPushes, HookSkips
  <2>2. push' \in [Threads \union Hooks -> Routes \union {"idle"}] /\ route' \in Routes
    BY <2>1, PushType DEF TypeOK
  <2> QED BY <2>1, <2>2 DEF TypeOK, cluster, locals
<1>4. CASE Expire
  BY <1>4 DEF Expire, TypeOK, cluster, locals
<1>5. CASE ClusterMoves
  BY <1>5 DEF ClusterMoves, TypeOK, locals
<1>6. CASE Crash
  <2>1. Locals'
    <3>1. client' \in [Clients -> States]
      BY <1>6 DEF Crash, TypeOK, States, Over
    <3>2. 0 \in 0..Tries
      BY BoundAssumption
    <3> QED BY <1>6, <3>1, <3>2 DEF Crash, Locals, Pcs, States
  <2>2. push' \in [Threads \union Hooks -> Routes \union {"idle"}]
    BY <1>6 DEF Crash
  <2>3. crashes' \in Nat
    BY <1>6 DEF Crash, TypeOK
  <2> QED BY <1>6, <2>1, <2>2, <2>3 DEF Crash, TypeOK, Locals, cluster
<1>7. CASE UNCHANGED vars
  BY <1>7 DEF vars, TypeOK, cluster, locals
<1> QED BY <1>1, <1>2, <1>3, <1>4, <1>5, <1>6, <1>7

\* The state stays in its types, whatever handlers, drivers and pushes do together.
THEOREM TypeCorrect == Spec => []TypeOK
<1>1. Init => TypeOK
  <2> SUFFICES ASSUME Init PROVE TypeOK
    OBVIOUS
  <2>1. 0 \in 0..Tries
    BY BoundAssumption
  <2> QED BY <2>1 DEF Init, TypeOK, Statuses, Routes, States, Pcs
<1>2. TypeOK /\ [Next]_vars => TypeOK'
  BY DriverType, SubmitType, PollType, OutsideType DEF Next
<1> QED BY <1>1, <1>2, PTL DEF Spec

-----------------------------------------------------------------------------
(* A statement is run once. *)

\* The handler has handed the statement on.
After == {"delete", "sync", "push"}

\* What a client (k), the request it sent (at p with outcome o, w if it waits for it) and the
\* coordinator, which accepted its statement n times, know of each other.
Agree(p, o, w, n, k) ==
  /\ n <= 1
  /\ k = "served" => n = 1
  /\ k = "failed" => n = 0
  /\ p = "idle" => w = 0 /\ (k \in {"new", "holding"} => n = 0)
  /\ p \notin After \union {"idle"} => n = 0
  /\ p \in After => o \in {"served", "error"} /\ (o = "served" => n = 1)
  /\ p # "idle" => k \in {"new", "holding", "error"} /\ (w = 0 => k = "error")

Agrees(c) == Agree(pc[<<c, 1>>], out[<<c, 1>>], waits[c], runs[c], client[c])

Alone == crashes = 0 /\ Tries = 1 => \A c \in Clients : Agrees(c)

LEMMA OneThread ==
  ASSUME Tries = 1, NEW t \in Threads PROVE t = <<t[1], 1>> /\ t[1] \in Clients /\ t[2] = 1
<1>1. t \in Clients \X {1}
  BY DEF Threads
<1> QED BY <1>1

\* Nobody else's request, client or statement is touched.
Apart(t) ==
  \A c \in Clients : c # t[1] =>
    /\ pc'[<<c, 1>>] = pc[<<c, 1>>] /\ out'[<<c, 1>>] = out[<<c, 1>>]
    /\ waits'[c] = waits[c] /\ runs'[c] = runs[c] /\ client'[c] = client[c]

LEMMA ApartMoves ==
  ASSUME TypeOK, Tries = 1, NEW t \in Threads,
         \/ \E o \in States : Answer(t, o)
         \/ \E p \in Pcs : Goto(t, p) /\ UNCHANGED <<client, waits, out>>,
         UNCHANGED runs \/ Accepts(t[1])
  PROVE  Apart(t)
<1>1. ASSUME NEW c \in Clients, c # t[1] PROVE <<c, 1>> \in Threads /\ <<c, 1>> # t
  BY <1>1, OneThread DEF Threads
<1>2. \A c \in Clients : c # t[1] => runs'[c] = runs[c]
  BY OneThread, AcceptsType
<1>3. CASE \E o \in States : Answer(t, o)
  BY <1>1, <1>2, <1>3, AnswerType DEF Apart
<1>4. CASE \E p \in Pcs : Goto(t, p) /\ UNCHANGED <<client, waits, out>>
  BY <1>1, <1>2, <1>4, GotoType DEF Apart
<1> QED BY <1>3, <1>4

LEMMA AloneStep ==
  ASSUME Alone, UNCHANGED crashes, Tries = 1, NEW t \in Threads, Apart(t), crashes = 0 => Agrees(t[1])'
  PROVE  Alone'
BY DEF Alone, Apart, Agrees

\* A handler returns: the client learns the outcome if it still waits, and it has left if not.
LEMMA AnswerAgrees ==
  ASSUME TypeOK, Tries = 1, NEW t \in Threads, Agrees(t[1]), pc[t] # "idle", NEW o \in States, Answer(t, o),
         UNCHANGED runs \/ (Accepts(t[1]) /\ runs[t[1]] = 0),
         runs'[t[1]] <= 1,
         o = "served" => runs'[t[1]] = 1, o \in {"failed", "new", "holding"} => runs'[t[1]] = 0
  PROVE  Agrees(t[1])'
<1>1. t = <<t[1], 1>> /\ t[1] \in Clients /\ t[2] = 1
  BY OneThread
<1>2. pc'[t] = "idle" /\ IF waits[t[1]] = 1 THEN client'[t[1]] = o /\ waits'[t[1]] = 0
                         ELSE client'[t[1]] = client[t[1]] /\ waits'[t[1]] = waits[t[1]]
  BY <1>1, AnswerType
<1>3. waits[t[1]] \in 0..1
  BY <1>1 DEF TypeOK
<1>4. waits[t[1]] # 1 => waits[t[1]] = 0 /\ client[t[1]] = "error"
  BY <1>1, <1>3 DEF Agrees, Agree
<1> QED BY <1>1, <1>2, <1>4 DEF Agrees, Agree, After

\* A handler that has not handed the statement on goes on to where it has not either.
LEMMA GotoAgrees ==
  ASSUME TypeOK, Tries = 1, NEW t \in Threads, Agrees(t[1]), pc[t] \notin After \union {"idle"},
         NEW p \in Pcs \ (After \union {"idle"}), Goto(t, p), UNCHANGED <<client, waits, out, runs>>
  PROVE  Agrees(t[1])'
<1>1. t = <<t[1], 1>>
  BY OneThread
<1>2. pc'[t] = p
  BY GotoType
<1> QED BY <1>1, <1>2 DEF Agrees, Agree, After

\* Before the statement is handed on.
LEMMA EarlyAlone ==
  ASSUME TypeOK, Alone, UNCHANGED <<crashes, runs>>, Tries = 1, NEW t \in Threads, pc[t] \notin After \union {"idle"},
         \/ \E o \in {"new", "holding", "failed", "error"} : Answer(t, o)
         \/ \E p \in Pcs \ (After \union {"idle"}) : Goto(t, p) /\ UNCHANGED <<client, waits, out>>
  PROVE  Alone'
<1>1. t = <<t[1], 1>> /\ t[1] \in Clients
  BY OneThread
<1>2. Apart(t)
  BY ApartMoves DEF States, Over
<1>3. ASSUME crashes = 0 PROVE Agrees(t[1])'
  <2>1. Agrees(t[1]) /\ runs[t[1]] = 0
    BY <1>1, <1>3 DEF Alone, Agrees, Agree
  <2>2. CASE \E o \in {"new", "holding", "failed", "error"} : Answer(t, o)
    BY <2>1, <2>2, AnswerAgrees DEF States, Over
  <2>3. CASE \E p \in Pcs \ (After \union {"idle"}) : Goto(t, p) /\ UNCHANGED <<client, waits, out>>
    BY <2>1, <2>3, GotoAgrees
  <2> QED BY <2>2, <2>3
<1> QED BY <1>2, <1>3, AloneStep

LEMMA DecideAlone ==
  ASSUME TypeOK, Alone, UNCHANGED <<crashes, runs>>, Tries = 1, NEW t \in Threads, pc[t] \notin After \union {"idle"},
         NEW s, Decide(t, s)
  PROVE  Alone'
BY DecideType, EarlyAlone DEF Pcs, After

LEMMA DriverAlone ==
  ASSUME TypeOK, Alone, Tries = 1, NEW t \in Threads, Post(t) \/ Get(t) PROVE Alone'
<1>1. t = <<t[1], 1>> /\ t[1] \in Clients /\ t[2] = 1
  BY OneThread
<1>2. waits[t[1]] = 0 /\ pc[t] = "idle" /\ client[t[1]] \in {"new", "holding"} /\ UNCHANGED <<out, crashes>>
  BY DEF Post, Get, Send
<1>3. ASSUME crashes = 0 PROVE Agrees(t[1]) /\ runs[t[1]] = 0
  BY <1>1, <1>2, <1>3 DEF Alone, Agrees, Agree
<1>4. CASE UNCHANGED <<client, runs>> /\ \E p \in {"submit", "load"} : Send(t, p)
  <2>1. PICK p \in {"submit", "load"} : Goto(t, p) /\ waits' = [waits EXCEPT ![t[1]] = 1]
    BY <1>1, <1>4 DEF Send
  <2>2. pc'[t] = p /\ \A s \in Threads : s # t => pc'[s] = pc[s]
    BY <2>1, GotoType DEF Pcs
  <2>3. waits'[t[1]] = 1 /\ \A c \in Clients : c # t[1] => waits'[c] = waits[c]
    BY <1>1, <2>1 DEF TypeOK
  <2>4. ASSUME NEW c \in Clients, c # t[1] PROVE <<c, 1>> \in Threads /\ <<c, 1>> # t
    BY <1>1, <2>4 DEF Threads
  <2>5. Apart(t)
    BY <1>2, <1>4, <2>2, <2>3, <2>4 DEF Apart
  <2>6. ASSUME crashes = 0 PROVE Agrees(t[1])'
    BY <1>1, <1>2, <1>3, <1>4, <2>2, <2>3, <2>6 DEF Agrees, Agree, After
  <2> QED BY <1>2, <2>5, <2>6, AloneStep
<1>5. CASE UNCHANGED <<pc, waits>>
  <2>1. \/ Accepts(t[1]) /\ client' = [client EXCEPT ![t[1]] = "served"]
        \/ UNCHANGED runs /\ \E k \in {"error", "lost"} : client' = [client EXCEPT ![t[1]] = k]
    <3>1. CASE Post(t)
      <4>1. client[t[1]] = "new" /\ ~Send(t, "submit")
        <5>1. pc[t] = "idle" /\ "submit" # "idle"
          BY <1>2
        <5> QED BY <1>5, <3>1, <5>1 DEF Post, Send, Goto, TypeOK
      <4> QED BY <3>1, <4>1 DEF Post
    <3>2. CASE Get(t)
      <4>1. ~Send(t, "load")
        <5>1. pc[t] = "idle" /\ "load" # "idle"
          BY <1>2
        <5> QED BY <1>5, <5>1 DEF Send, Goto, TypeOK
      <4> QED BY <3>2, <4>1 DEF Get
    <3> QED BY <3>1, <3>2
  <2>2. PICK k \in States : client' = [client EXCEPT ![t[1]] = k]
    BY <2>1 DEF States, Over
  <2>3. client'[t[1]] = k /\ \A c \in Clients : c # t[1] => client'[c] = client[c]
    BY <1>1, <2>2 DEF TypeOK
  <2>4. Apart(t)
    BY <1>1, <1>2, <1>5, <2>1, <2>3, AcceptsType DEF Apart
  <2>5. ASSUME crashes = 0 PROVE Agrees(t[1])'
    <3>1. CASE Accepts(t[1]) /\ client' = [client EXCEPT ![t[1]] = "served"]
      <4>1. client'[t[1]] = "served" /\ runs'[t[1]] = 1
        BY <1>1, <1>3, <2>5, <3>1, AcceptsType DEF TypeOK
      <4> QED BY <1>1, <1>2, <1>3, <1>5, <2>5, <4>1 DEF Agrees, Agree, After
    <3>2. CASE UNCHANGED runs /\ \E e \in {"error", "lost"} : client' = [client EXCEPT ![t[1]] = e]
      <4>1. client'[t[1]] \in {"error", "lost"} /\ runs'[t[1]] = 0
        BY <1>1, <1>3, <2>5, <3>2 DEF TypeOK
      <4> QED BY <1>1, <1>2, <1>3, <1>5, <2>5, <4>1 DEF Agrees, Agree, After
    <3> QED BY <2>1, <3>1, <3>2
  <2> QED BY <1>2, <2>4, <2>5, AloneStep
<1>6. \/ UNCHANGED <<client, runs>> /\ \E p \in {"submit", "load"} : Send(t, p)
      \/ UNCHANGED <<pc, waits>>
  BY DEF Post, Get
<1> QED BY <1>4, <1>5, <1>6

LEMMA SubmitAlone ==
  ASSUME TypeOK, Alone, Tries = 1, NEW t \in Threads, SubmitStep(t) PROVE Alone'
<1>1. t = <<t[1], 1>> /\ t[1] \in Clients /\ t[2] = 1
  BY OneThread
<1>2. CASE WireSubmit(t)
  <2>1. /\ UNCHANGED <<crashes, runs>> /\ pc[t] \notin After \union {"idle"}
        /\ \/ Answer(t, "new")
           \/ \E p \in {"forward", "store", "resume"} : Goto(t, p) /\ UNCHANGED <<client, waits, out>>
    BY <1>2 DEF WireSubmit, Quiet, After
  <2>2. {"forward", "store", "resume"} \subseteq Pcs \ (After \union {"idle"})
    BY DEF Pcs, After
  <2> QED BY <2>1, <2>2, EarlyAlone
<1>3. CASE WireStart(t)
  <2>1. /\ UNCHANGED <<crashes, runs>> /\ pc[t] \notin After \union {"idle"}
        /\ Goto(t, "store") /\ UNCHANGED <<client, waits, out>>
    BY <1>3 DEF WireStart, Quiet, After
  <2>2. "store" \in Pcs \ (After \union {"idle"})
    BY DEF Pcs, After
  <2> QED BY <2>1, <2>2, EarlyAlone
<1>4. CASE StoreCapture(t)
  <2>1. /\ UNCHANGED <<crashes, runs>> /\ pc[t] \notin After \union {"idle"}
        /\ Answer(t, "holding") \/ Answer(t, "error")
    BY <1>4 DEF StoreCapture, After
  <2> QED BY <2>1, EarlyAlone
<1>5. CASE Forward(t)
  <2>1. PICK o \in {"served", "error"} :
          /\ Answer(t, o) /\ pc[t] = "forward" /\ UNCHANGED crashes
          /\ Accepts(t[1]) \/ (UNCHANGED runs /\ o = "error")
    BY <1>5 DEF Forward
  <2>2. Apart(t)
    BY <1>1, <2>1, ApartMoves DEF States, Over
  <2>3. ASSUME crashes = 0 PROVE Agrees(t[1])'
    <3>1. Agrees(t[1]) /\ runs[t[1]] = 0
      BY <1>1, <2>1, <2>3 DEF Alone, Agrees, Agree, After
    <3>2. runs'[t[1]] <= 1 /\ (o = "served" => runs'[t[1]] = 1)
      BY <1>1, <2>1, <3>1, AcceptsType
    <3> QED BY <1>1, <2>1, <3>1, <3>2, AnswerAgrees DEF States, Over
  <2> QED BY <2>1, <2>2, <2>3, AloneStep
<1> QED BY <1>2, <1>3, <1>4, <1>5 DEF SubmitStep

LEMMA PollAlone ==
  ASSUME TypeOK, Alone, Tries = 1, NEW t \in Threads, PollStep(t) PROVE Alone'
<1>1. t = <<t[1], 1>> /\ t[1] \in Clients /\ t[2] = 1
  BY OneThread
<1>2. {"drop", "cluster", "probe", "probe_sync", "probe_push", "replay", "endpoint"} \subseteq Pcs \ (After \union {"idle"})
  BY DEF Pcs, After
<1>3. CASE LoadCapture(t)
  <2>1. /\ UNCHANGED <<crashes, runs>> /\ pc[t] \notin After \union {"idle"}
        /\ \/ Answer(t, "failed")
           \/ \E p \in {"drop", "cluster"} : Goto(t, p) /\ UNCHANGED <<client, waits, out>>
    BY <1>3 DEF LoadCapture, Quiet, After
  <2> QED BY <1>2, <2>1, EarlyAlone
<1>4. CASE DropCapture(t)
  <2>1. UNCHANGED <<crashes, runs>> /\ pc[t] \notin After \union {"idle"} /\ Answer(t, "failed")
    BY <1>4 DEF DropCapture, After
  <2> QED BY <2>1, EarlyAlone
<1>5. CASE PollCluster(t)
  <2>1. /\ UNCHANGED <<crashes, runs>> /\ pc[t] \notin After \union {"idle"}
        /\ Decide(t, status) \/ (Goto(t, "probe") /\ UNCHANGED <<client, waits, out>>)
    BY <1>5 DEF PollCluster, Quiet, After
  <2> QED BY <1>2, <2>1, EarlyAlone, DecideAlone
<1>6. CASE PollProbe(t)
  <2>1. /\ UNCHANGED <<crashes, runs>> /\ pc[t] \notin After \union {"idle"}
        /\ (\E s \in Statuses : Decide(t, s)) \/ (Goto(t, "probe_sync") /\ UNCHANGED <<client, waits, out>>)
    BY <1>6 DEF PollProbe, Quiet, After, TypeOK, Statuses
  <2> QED BY <1>2, <2>1, EarlyAlone, DecideAlone
<1>7. CASE Endpoint(t)
  <2>1. /\ UNCHANGED <<crashes, runs>> /\ pc[t] \notin After \union {"idle"}
        /\ Answer(t, "holding") \/ (Goto(t, "replay") /\ UNCHANGED <<client, waits, out>>)
    BY <1>7 DEF Endpoint, Quiet, After
  <2> QED BY <1>2, <2>1, EarlyAlone
<1>8. CASE Replay(t)
  <2>0. pc[t] = "replay" /\ UNCHANGED crashes
    BY <1>8 DEF Replay
  <2>1. ASSUME crashes = 0 PROVE Agrees(t[1]) /\ runs[t[1]] = 0
    BY <1>1, <2>0, <2>1 DEF Alone, Agrees, Agree, After
  <2>2. CASE Answer(t, "error") /\ (Accepts(t[1]) \/ UNCHANGED runs)
    <3>1. Apart(t)
      BY <2>2, ApartMoves DEF States, Over
    <3>2. ASSUME crashes = 0 PROVE Agrees(t[1])'
      <4>1. runs'[t[1]] <= 1
        BY <1>1, <2>1, <2>2, <3>2, AcceptsType
      <4> QED BY <2>0, <2>1, <2>2, <3>2, <4>1, AnswerAgrees DEF States, Over
    <3> QED BY <2>0, <3>1, <3>2, AloneStep
  <2>3. CASE /\ Goto(t, "delete") /\ UNCHANGED <<client, waits>>
             /\ \/ Accepts(t[1]) /\ out' = [out EXCEPT ![t] = "served"]
                \/ UNCHANGED runs /\ out' = [out EXCEPT ![t] = "error"]
    <3>1. pc'[t] = "delete" /\ \A s \in Threads : s # t => pc'[s] = pc[s]
      BY <2>3, GotoType DEF Pcs
    <3>2. PICK o \in {"served", "error"} : out' = [out EXCEPT ![t] = o] /\ (Accepts(t[1]) \/ (UNCHANGED runs /\ o = "error"))
      BY <2>3
    <3>3. out'[t] = o /\ \A s \in Threads : s # t => out'[s] = out[s]
      BY <3>2 DEF TypeOK
    <3>4. ASSUME NEW c \in Clients, c # t[1] PROVE <<c, 1>> \in Threads /\ <<c, 1>> # t
      BY <1>1, <3>4 DEF Threads
    <3>5. Apart(t)
      BY <1>1, <2>3, <3>1, <3>2, <3>3, <3>4, AcceptsType DEF Apart
    <3>6. ASSUME crashes = 0 PROVE Agrees(t[1])'
      <4>1. runs'[t[1]] <= 1 /\ (o = "served" => runs'[t[1]] = 1)
        BY <1>1, <2>1, <3>2, <3>6, AcceptsType
      <4> QED BY <1>1, <2>0, <2>1, <2>3, <3>1, <3>3, <3>6, <4>1 DEF Agrees, Agree, After
    <3> QED BY <2>0, <3>5, <3>6, AloneStep
  <2> QED BY <1>8, <2>2, <2>3 DEF Replay, Quiet
<1>9. CASE DeleteCapture(t) \/ (PollSyncs(t) /\ pc[t] = "sync")
  <2>1. PICK p \in {"sync", "push"} :
          Goto(t, p) /\ UNCHANGED <<client, waits, out, runs, crashes>> /\ pc[t] \in After
    BY <1>9 DEF DeleteCapture, PollSyncs, Quiet, After
  <2>2. Apart(t)
    BY <2>1, ApartMoves DEF Pcs
  <2>3. pc'[t] = p
    BY <2>1, GotoType DEF Pcs
  <2>4. ASSUME crashes = 0 PROVE Agrees(t[1])'
    BY <1>1, <2>1, <2>3, <2>4 DEF Alone, Agrees, Agree, After
  <2> QED BY <2>1, <2>2, <2>4, AloneStep
<1>10. CASE PollSyncs(t) /\ pc[t] # "sync"
  <2>1. /\ UNCHANGED <<crashes, runs>> /\ pc[t] \notin After \union {"idle"}
        /\ Goto(t, "probe_push") /\ UNCHANGED <<client, waits, out>>
    BY <1>10 DEF PollSyncs, Quiet, After
  <2> QED BY <1>2, <2>1, EarlyAlone
<1>11. CASE PollPushes(t) /\ pc[t] = "push"
  <2>1. Answer(t, out[t]) /\ UNCHANGED <<runs, crashes>>
    BY <1>11 DEF PollPushes
  <2>2. out[t] \in States
    BY DEF TypeOK
  <2>3. Apart(t)
    BY <2>1, <2>2, ApartMoves
  <2>4. ASSUME crashes = 0 PROVE Agrees(t[1])'
    <3>1. /\ Agrees(t[1]) /\ out[t] \in {"served", "error"}
          /\ runs[t[1]] <= 1 /\ (out[t] = "served" => runs[t[1]] = 1)
      BY <1>1, <1>11, <2>4 DEF Alone, Agrees, Agree, After
    <3> QED BY <1>11, <2>1, <2>2, <3>1, AnswerAgrees
  <2> QED BY <2>1, <2>3, <2>4, AloneStep
<1>12. CASE PollPushes(t) /\ pc[t] # "push"
  <2>1. UNCHANGED <<crashes, runs>> /\ pc[t] \notin After \union {"idle"} /\ Decide(t, "Running")
    BY <1>12 DEF PollPushes, After
  <2> QED BY <2>1, DecideAlone
<1> QED BY <1>3, <1>4, <1>5, <1>6, <1>7, <1>8, <1>9, <1>10, <1>11, <1>12 DEF PollStep

LEMMA OutsideAlone ==
  ASSUME TypeOK, Alone, Tries = 1,
         \/ \E c \in Clients : GiveUp(c) \/ Clock(c)
         \/ \E h \in Hooks : HookStep(h)
         \/ Expire \/ ClusterMoves \/ Crash \/ UNCHANGED vars
  PROVE  Alone'
<1>1. ASSUME NEW c \in Clients, GiveUp(c) PROVE Alone'
  <2>1. /\ client[c] = "holding" /\ client' = [client EXCEPT ![c] = "error"]
        /\ waits' = [waits EXCEPT ![c] = 0] /\ UNCHANGED <<pc, out, runs, crashes>>
    BY <1>1 DEF GiveUp, locals
  <2>2. /\ client'[c] = "error" /\ waits'[c] = 0
        /\ \A d \in Clients : d # c => client'[d] = client[d] /\ waits'[d] = waits[d]
    BY <2>1 DEF TypeOK
  <2> QED BY ZenonT(40), <2>1, <2>2 DEF Alone, Agrees, Agree, After
<1>2. CASE Crash
  <2>1. crashes' # 0
    BY <1>2 DEF Crash, TypeOK
  <2> QED BY <2>1 DEF Alone
<1>3. CASE \/ \E c \in Clients : Clock(c)
           \/ \E h \in Hooks : HookStep(h)
           \/ Expire \/ ClusterMoves \/ UNCHANGED vars
  <2>1. UNCHANGED <<runs, client, waits, pc, out, crashes>>
    BY <1>3 DEF Clock, HookStep, HookReads, HookPushes, HookSkips, Expire, ClusterMoves, vars, locals
  <2> QED BY <2>1 DEF Alone, Agrees
<1> QED BY <1>1, <1>2, <1>3

\* Until a crash, a client that sends one request at a time has its statement run at most once,
\* by Alone: until a handler hands the statement on no coordinator has it, the outcome says so
\* afterwards, and a client with nothing under way that may still ask has it run nowhere.
THEOREM RunsOnceAlways == Spec => []RunsOnce
<1>1. Init => Alone
  <2> SUFFICES ASSUME Init, Tries = 1 PROVE Alone
    BY DEF Alone
  <2> SUFFICES ASSUME NEW c \in Clients PROVE Agrees(c)
    BY DEF Alone
  <2>1. <<c, 1>> \in Threads
    BY DEF Threads
  <2>2. pc[<<c, 1>>] = "idle" /\ waits[c] = 0 /\ runs[c] = 0 /\ client[c] = "new"
    BY <2>1 DEF Init
  <2> QED BY <2>2 DEF Agrees, Agree, After
<1>2. TypeOK /\ Alone /\ [Next]_vars => Alone'
  <2>1. CASE Tries = 1
    BY <2>1, DriverAlone, SubmitAlone, PollAlone, OutsideAlone DEF Next
  <2>2. CASE Tries # 1
    BY <2>2 DEF Alone
  <2> QED BY <2>1, <2>2
<1>3. Alone => RunsOnce
  BY DEF Alone, Agrees, Agree, RunsOnce
<1> QED BY <1>1, <1>2, <1>3, TypeCorrect, PTL DEF Spec

=============================================================================
