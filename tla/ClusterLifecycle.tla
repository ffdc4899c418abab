--------------------------- MODULE ClusterLifecycle ---------------------------
(***************************************************************************)
(* The lifecycle of one cluster of TrinoHub: start_cluster,                *)
(* suspend_cluster, disable_cluster, delete_cluster, update_cluster on a   *)
(* running cluster and refresh_cluster_health (trinohub/server.py), run by *)
(* any number of threads of the control plane at the same time.            *)
(*                                                                         *)
(* Each handler is cut where another thread can come in: after every       *)
(* SQLite read, at every transaction and at every call to AWS.  A read in  *)
(* front of a transaction is outside it (sqlite3 begins a transaction at   *)
(* the first write), so a read and the write that relies on it are two     *)
(* steps here.                                                             *)
(*                                                                         *)
(* Left out: events, audit rows, notifications and the TLS gateway (they   *)
(* decide nothing about the lifecycle), the edits of update_cluster that   *)
(* do not reach the Auto Scaling Group, and the "Scaling" status, which    *)
(* the code tests for but never sets.                                      *)
(***************************************************************************)
EXTENDS Naturals, FiniteSets

CONSTANTS
  Callers,     \* threads of the control plane: request handlers, the poller
  Ops,         \* Ops[c] is the set of operations thread c may run
  MaxStarts,   \* bound: start claims in a behaviour
  MaxCrashes   \* bound: control-plane crashes in a behaviour

Operations == {"start", "suspend", "disable", "delete", "resize", "health", "poll"}
Teardowns  == {"suspend", "disable", "delete"}

ASSUME OpsAssumption    == Ops \in [Callers -> SUBSET Operations]
ASSUME BoundsAssumption == MaxStarts \in Nat /\ MaxCrashes \in Nat

VARIABLES
  status,    \* clusters.status, or NoCluster once the row is deleted
  tracked,   \* the cluster's rows of provider_resources
  token,     \* the start whose node bootstrap token is stored, 0 for none
  live,      \* what exists in AWS for this cluster
  going,     \* what AWS has been told to remove and is still shutting down
  booted,    \* coordinators (by start) that pulled their config and run Trino
  lost,      \* history: what was made by calls whose answer never came
  starts,    \* number of start claims so far
  inserts,   \* number of transactions that inserted into provider_resources
  crashes,   \* number of control-plane crashes so far
  stranded,  \* history: the starts that raised in front of their try block
  pc,        \* where each thread is
  op,        \* the operation it runs
  seen,      \* the status it read
  attempt,   \* its start number, or the coordinator whose health it reads
  group,     \* the security group its start uses
  snap,      \* the rows its teardown read and has not handled yet
  batch,     \* the rows whose AWS resource it just deleted
  failed,    \* TRUE once a cleanup step failed for good
  touched    \* TRUE once its cleanup deleted a coordinator or the workers

dbVars     == <<status, tracked, token>>
awsVars    == <<live, going, booted, lost>>
boundVars  == <<starts, inserts, crashes, stranded>>
startVars  == <<attempt, group>>
cleanVars  == <<snap, batch, failed, touched>>
vars == <<dbVars, awsVars, boundVars, pc, op, seen, startVars, cleanVars>>

-------------------------------------------------------------------------------
NoCluster == "NoCluster"
Statuses  == {"Not enabled", "Creating", "Starting", "Running", "Updating",
              "Suspending", "Suspended", "Deleting", "Failed"}

GroupTypes   == {"security_group", "shared_group"}
RuntimeTypes == {"coordinator_instance", "launch_template", "auto_scaling_group"}
ComputeTypes == {"coordinator_instance", "auto_scaling_group"}
Types        == GroupTypes \union RuntimeTypes

\* A row of provider_resources: id names the AWS resource, row is the primary
\* key (the insert that made it).  Ids are start numbers, except where the id is
\* a name that no start changes: the Auto Scaling Group, the configured group.
Rows      == [type : Types, id : Nat, row : Nat]
Resources == [type : Types, id : Nat, group : Nat]

StartPcs == {"resolve", "ensure_group", "record_group", "launch_coordinator",
             "record_coordinator", "create_template", "record_template",
             "create_workers", "record_workers", "start_failed"}
CleanupPcs == {"cleanup", "forget", "wait", "cleanup_groups", "finish"}
Pcs == StartPcs \union CleanupPcs \union
       {"idle", "claim", "mark", "resize_find", "resize_mark", "resize_finish",
        "probe", "health_write"}

RowExists       == status # NoCluster
OfType(S, T)    == {r \in S : r.type \in T}
Startable(s)    == s \notin {"Creating", "Starting", "Running", "Deleting", NoCluster}
Provisioning(c) == pc[c] \in StartPcs
Idle(c)         == pc[c] = "idle"

Row(type, id)   == [type |-> type, id |-> id, row |-> inserts + 1]
InGroup(g)      == {r \in live \union going : r.type \in ComputeTypes /\ r.group = g}
LiveGroups      == {r.id : r \in OfType(live, {"security_group"})}

\* The upsert of record_provider_resource: a row with the same type and id is
\* updated in place and keeps its primary key.
Recorded(S) ==
  tracked \union {r \in S : ~\E q \in tracked : q.type = r.type /\ q.id = r.id}

TypeOK ==
  /\ status \in Statuses \union {NoCluster}
  /\ tracked \in SUBSET Rows
  /\ token \in Nat
  /\ live \in SUBSET Resources /\ going \in SUBSET Resources
  /\ booted \in SUBSET Nat /\ lost \in SUBSET Resources
  /\ starts \in Nat /\ inserts \in Nat /\ crashes \in Nat /\ stranded \in SUBSET Nat
  /\ pc \in [Callers -> Pcs]
  /\ op \in [Callers -> Operations \union {"none"}]
  /\ seen \in [Callers -> Statuses \union {NoCluster}]
  /\ attempt \in [Callers -> Nat] /\ group \in [Callers -> Nat]
  /\ snap \in [Callers -> SUBSET Rows] /\ batch \in [Callers -> SUBSET Rows]
  /\ failed \in [Callers -> BOOLEAN] /\ touched \in [Callers -> BOOLEAN]

-------------------------------------------------------------------------------
(* A cluster that was just created, and one that its first start brought up. *)
FreshInit ==
  /\ status = "Not enabled" /\ tracked = {} /\ token = 0
  /\ live = {} /\ booted = {} /\ starts = 0 /\ inserts = 0

UpInit ==
  /\ status = "Running" /\ token = 1 /\ booted = {1} /\ starts = 1 /\ inserts = 4
  /\ tracked = {[type |-> "security_group",       id |-> 1, row |-> 1],
                [type |-> "shared_group",         id |-> 0, row |-> 1],
                [type |-> "coordinator_instance", id |-> 1, row |-> 2],
                [type |-> "launch_template",      id |-> 1, row |-> 3],
                [type |-> "auto_scaling_group",   id |-> 0, row |-> 4]}
  /\ live = {[type |-> "security_group",       id |-> 1, group |-> 1],
             [type |-> "coordinator_instance", id |-> 1, group |-> 1],
             [type |-> "launch_template",      id |-> 1, group |-> 1],
             [type |-> "auto_scaling_group",   id |-> 0, group |-> 1]}

IdleInit ==
  /\ going = {} /\ lost = {} /\ crashes = 0 /\ stranded = {}
  /\ pc = [c \in Callers |-> "idle"] /\ op = [c \in Callers |-> "none"]
  /\ seen = [c \in Callers |-> NoCluster]
  /\ attempt = [c \in Callers |-> 0] /\ group = [c \in Callers |-> 0]
  /\ snap = [c \in Callers |-> {}] /\ batch = [c \in Callers |-> {}]
  /\ failed = [c \in Callers |-> FALSE] /\ touched = [c \in Callers |-> FALSE]

Init == (FreshInit \/ UpInit) /\ IdleInit

-------------------------------------------------------------------------------
(* Control flow of one thread. *)
Goto(c, p) == pc' = [pc EXCEPT ![c] = p]

Enter(c, o, p) ==
  /\ Idle(c) /\ o \in Ops[c]
  /\ op' = [op EXCEPT ![c] = o]
  /\ Goto(c, p)

\* The handler returns or raises: its locals are gone.
Return(c) ==
  /\ Goto(c, "idle")
  /\ op' = [op EXCEPT ![c] = "none"] /\ seen' = [seen EXCEPT ![c] = NoCluster]
  /\ attempt' = [attempt EXCEPT ![c] = 0] /\ group' = [group EXCEPT ![c] = 0]
  /\ snap' = [snap EXCEPT ![c] = {}] /\ batch' = [batch EXCEPT ![c] = {}]
  /\ failed' = [failed EXCEPT ![c] = FALSE] /\ touched' = [touched EXCEPT ![c] = FALSE]

-------------------------------------------------------------------------------
\* Mutant of StartRead: tracked runtime resources do not block a start.
StartReadUnblocked(c) ==
  /\ starts + Cardinality({d \in Callers : pc[d] = "claim"}) < MaxStarts
  /\ Startable(status)
  /\ Enter(c, "start", "claim")
  /\ seen' = [seen EXCEPT ![c] = status]
  /\ UNCHANGED <<dbVars, awsVars, boundVars, startVars, cleanVars>>

(* start_cluster: the checks and the read of the row it will claim. *)
StartRead(c) ==
  /\ starts + Cardinality({d \in Callers : pc[d] = "claim"}) < MaxStarts
  /\ Startable(status)
  /\ OfType(tracked, RuntimeTypes) = {}
  /\ Enter(c, "start", "claim")
  /\ seen' = [seen EXCEPT ![c] = status]
  /\ UNCHANGED <<dbVars, awsVars, boundVars, startVars, cleanVars>>

\* Mutant of StartClaim: the claim does not compare the status.
StartClaimUnconditional(c) ==
  /\ pc[c] = "claim"
  /\ status' = "Creating"
  /\ starts' = starts + 1
  /\ token' = starts'
  /\ attempt' = [attempt EXCEPT ![c] = starts']
  /\ Goto(c, "resolve")
  /\ UNCHANGED <<tracked, awsVars, inserts, crashes, stranded, op, seen, group, cleanVars>>

\* UPDATE ... SET status = 'Creating' WHERE status = <the status read>, and in
\* the same transaction a new node bootstrap token.  No row updated: 409.
StartClaim(c) ==
  /\ pc[c] = "claim" /\ status = seen[c]
  /\ status' = "Creating"
  /\ starts' = starts + 1
  /\ token' = starts'
  /\ attempt' = [attempt EXCEPT ![c] = starts']
  /\ Goto(c, "resolve")
  /\ UNCHANGED <<tracked, awsVars, inserts, crashes, stranded, op, seen, group, cleanVars>>

\* Mutant of StartRefused: the loser of the claim clears the bootstrap token.
StartRefusedClearsToken(c) ==
  /\ pc[c] = "claim" /\ status # seen[c]
  /\ token' = 0
  /\ Return(c)
  /\ UNCHANGED <<status, tracked, awsVars, boundVars>>

StartRefused(c) ==
  /\ pc[c] = "claim" /\ status # seen[c]
  /\ Return(c)
  /\ UNCHANGED <<dbVars, awsVars, boundVars>>

\* The claim is committed; the instance type and the address for the nodes come
\* next, in front of the try block.
Resolve(c) ==
  /\ pc[c] = "resolve"
  /\ Goto(c, "ensure_group")
  /\ UNCHANGED <<dbVars, awsVars, boundVars, op, seen, startVars, cleanVars>>

\* A preset none of whose instance types is available raises there: nobody
\* writes Failed, and a cluster that is Creating cannot be started.
ResolveRaises(c) ==
  /\ pc[c] = "resolve"
  /\ stranded' = stranded \union {attempt[c]}
  /\ Return(c)
  /\ UNCHANGED <<dbVars, awsVars, starts, inserts, crashes>>

\* The node group is found by its name or created; the rules added afterwards
\* may fail, which leaves the group behind.
EnsureGroup(c) ==
  /\ pc[c] = "ensure_group"
  /\ \E g \in (IF LiveGroups = {} THEN {attempt[c]} ELSE LiveGroups) :
       /\ live' = live \union {[type |-> "security_group", id |-> g, group |-> g]}
       /\ group' = [group EXCEPT ![c] = g]
  /\ \E p \in {"record_group", "start_failed"} : Goto(c, p)
  /\ UNCHANGED <<dbVars, going, booted, lost, boundVars, op, seen, attempt, cleanVars>>

\* One transaction that inserts rows S of the start of thread c.
Record(c, S, next) ==
  /\ RowExists
  /\ tracked' = Recorded(S)
  /\ inserts' = inserts + 1
  /\ Goto(c, next)
  /\ UNCHANGED <<awsVars, starts, crashes, stranded, op, seen, startVars, cleanVars>>

RecordGroup(c) ==
  /\ pc[c] = "record_group"
  /\ Record(c, {Row("security_group", group[c]), Row("shared_group", 0)},
            "launch_coordinator")
  /\ UNCHANGED <<status, token>>

\* AWS makes r.  Its answer may not come: the call then raises, as it does when
\* its repetition is told that r exists already.
Make(c, r, next) ==
  /\ live' = live \union {r}
  /\ \/ Goto(c, next) /\ UNCHANGED lost
     \/ Goto(c, "start_failed") /\ lost' = lost \union {r}
  /\ UNCHANGED <<dbVars, going, booted, boundVars, op, seen, startVars, cleanVars>>

\* EC2 refuses an instance in a security group that does not exist.
LaunchCoordinator(c) ==
  /\ pc[c] = "launch_coordinator"
  /\ group[c] \in LiveGroups
  /\ Make(c, [type |-> "coordinator_instance", id |-> attempt[c], group |-> group[c]],
          "record_coordinator")

RecordCoordinator(c) ==
  /\ pc[c] = "record_coordinator"
  /\ Record(c, {Row("coordinator_instance", attempt[c])}, "create_template")
  /\ UNCHANGED <<status, token>>

\* The template's name is the same in every start, and EC2 refuses a second one.
CreateTemplate(c) ==
  /\ pc[c] = "create_template"
  /\ OfType(live, {"launch_template"}) = {}
  /\ Make(c, [type |-> "launch_template", id |-> attempt[c], group |-> group[c]],
          "record_template")

RecordTemplate(c) ==
  /\ pc[c] = "record_template"
  /\ Record(c, {Row("launch_template", attempt[c])}, "create_workers")
  /\ UNCHANGED <<status, token>>

\* Retried while a group of the same name is still being deleted; one that was
\* made without an answer stands in the way of every later start.
CreateWorkers(c) ==
  /\ pc[c] = "create_workers"
  /\ OfType(live \union going, {"auto_scaling_group"}) = {}
  /\ \E t \in OfType(live, {"launch_template"}) : t.id = attempt[c]
  /\ Make(c, [type |-> "auto_scaling_group", id |-> 0, group |-> group[c]],
          "record_workers")

\* The last record, with the status in the same transaction.
RecordWorkers(c) ==
  /\ pc[c] = "record_workers" /\ RowExists
  /\ tracked' = Recorded({Row("auto_scaling_group", 0)})
  /\ status' = "Starting"
  /\ inserts' = inserts + 1
  /\ Return(c)
  /\ UNCHANGED <<token, awsVars, starts, crashes, stranded>>

\* An AWS call that did nothing raises, or a record meets the foreign key of a deleted row.
StartStepFails(c) ==
  /\ \/ pc[c] \in {"ensure_group", "launch_coordinator", "create_template", "create_workers"}
     \/ /\ pc[c] \in {"record_group", "record_coordinator", "record_template", "record_workers"}
        /\ ~RowExists
  /\ Goto(c, "start_failed")
  /\ UNCHANGED <<dbVars, awsVars, boundVars, op, seen, startVars, cleanVars>>

\* The except block.  Its event insert rolls it back when the row is gone.
StartFailed(c) ==
  /\ pc[c] = "start_failed"
  /\ IF RowExists THEN status' = "Failed" /\ token' = 0 ELSE UNCHANGED <<status, token>>
  /\ Return(c)
  /\ UNCHANGED <<tracked, awsVars, boundVars>>

-------------------------------------------------------------------------------
(* suspend_cluster, disable_cluster, delete_cluster.  None of them looks at   *)
(* the status: a teardown may begin at any moment.                            *)
TeardownRead(c) ==
  /\ RowExists
  /\ \E o \in Teardowns : Enter(c, o, "mark")
  /\ snap' = [snap EXCEPT ![c] = tracked]
  /\ UNCHANGED <<dbVars, awsVars, boundVars, seen, startVars, batch, failed, touched>>

TeardownMark(c) ==
  /\ pc[c] = "mark" /\ RowExists
  /\ status' = IF op[c] = "delete" THEN "Deleting" ELSE "Suspending"
  /\ Goto(c, "cleanup")
  /\ UNCHANGED <<tracked, token, awsVars, boundVars, op, seen, startVars, cleanVars>>

\* cleanup_tracked_resources works through the rows the handler read, in this
\* order: worker group, coordinators (one call for all), launch templates.
RuntimeBatches(S) ==
  LET workers      == OfType(S, {"auto_scaling_group"})
      coordinators == OfType(S, {"coordinator_instance"})
      templates    == OfType(S, {"launch_template"})
  IN  IF workers # {} THEN {{r} : r \in workers}
      ELSE IF coordinators # {} THEN {coordinators}
      ELSE {{r} : r \in templates}

\* What AWS holds under the ids of rows S.  Removing what is not there succeeds.
Named(S) == {r \in live : \E row \in S : row.type = r.type /\ row.id = r.id}

\* AWS removes R: a node or a worker group takes its time.
Remove(R) == live' = live \ R /\ going' = going \union OfType(R, ComputeTypes)

DeleteRuntime(c) ==
  /\ pc[c] = "cleanup"
  /\ \E rows \in RuntimeBatches(snap[c]) :
       /\ Remove(Named(rows))
       /\ batch' = [batch EXCEPT ![c] = rows]
       /\ touched' = [touched EXCEPT ![c] = @ \/ OfType(rows, ComputeTypes) # {}]
  /\ Goto(c, "forget")
  /\ UNCHANGED <<dbVars, booted, lost, boundVars, op, seen, startVars, snap, failed>>

\* Mutant of DeleteRuntimeFails: the failure is not counted.
DeleteRuntimeIgnored(c) ==
  /\ pc[c] = "cleanup"
  /\ \E rows \in RuntimeBatches(snap[c]) :
       snap' = [snap EXCEPT ![c] = @ \ rows]
  /\ UNCHANGED <<dbVars, awsVars, boundVars, pc, op, seen, startVars, batch, failed, touched>>

\* The call raises, whether or not AWS did what it asks: the rows stay.
DeleteRuntimeFails(c) ==
  /\ pc[c] = "cleanup"
  /\ \E rows \in RuntimeBatches(snap[c]) :
       /\ \E gone \in SUBSET Named(rows) : Remove(gone)
       /\ snap' = [snap EXCEPT ![c] = @ \ rows]
  /\ failed' = [failed EXCEPT ![c] = TRUE]
  /\ UNCHANGED <<dbVars, booted, lost, boundVars, pc, op, seen, startVars, batch, touched>>

\* delete_resource_record, one transaction per row, by primary key.
Forget(c) ==
  /\ pc[c] = "forget"
  /\ \E r \in batch[c] :
       /\ tracked' = tracked \ {r}
       /\ snap'  = [snap EXCEPT ![c] = @ \ {r}]
       /\ batch' = [batch EXCEPT ![c] = @ \ {r}]
       /\ Goto(c, IF batch[c] # {r} THEN "forget"
                  ELSE IF r.type \in GroupTypes THEN "cleanup_groups" ELSE "cleanup")
  /\ UNCHANGED <<status, token, awsVars, boundVars, op, seen, startVars, failed, touched>>

RuntimeCleaned(c) ==
  /\ pc[c] = "cleanup" /\ OfType(snap[c], RuntimeTypes) = {}
  /\ Goto(c, IF touched[c] THEN "wait" ELSE "cleanup_groups")
  /\ UNCHANGED <<dbVars, awsVars, boundVars, op, seen, startVars, cleanVars>>

\* wait_for_cluster_instances_gone: returns when they are gone and also after
\* its timeout; only an AWS error makes it raise.
WaitForInstances(c) ==
  /\ pc[c] = "wait"
  /\ \E raised \in BOOLEAN : failed' = [failed EXCEPT ![c] = @ \/ raised]
  /\ Goto(c, "cleanup_groups")
  /\ UNCHANGED <<dbVars, awsVars, boundVars, op, seen, startVars, snap, batch, touched>>

\* The group TrinoHub made; EC2 refuses while an instance still uses it.
DeleteGroup(c) ==
  /\ pc[c] = "cleanup_groups"
  /\ \E r \in OfType(snap[c], {"security_group"}) :
       /\ InGroup(r.id) = {}
       /\ Remove(Named({r}))
       /\ batch' = [batch EXCEPT ![c] = {r}]
  /\ Goto(c, "forget")
  /\ UNCHANGED <<dbVars, booted, lost, boundVars, op, seen, startVars, snap, failed, touched>>

\* Mutant of DeleteGroupFails: delete is not strict about security groups.
DeleteGroupLenient(c) ==
  /\ pc[c] = "cleanup_groups"
  /\ \E r \in OfType(snap[c], {"security_group"}) :
       snap' = [snap EXCEPT ![c] = @ \ {r}]
  /\ UNCHANGED <<dbVars, awsVars, boundVars, pc, op, seen, startVars, batch, failed, touched>>

\* Left pending by suspend and disable; delete is strict.  The call may have
\* removed the group.
DeleteGroupFails(c) ==
  /\ pc[c] = "cleanup_groups"
  /\ \E r \in OfType(snap[c], {"security_group"}) :
       /\ \E gone \in SUBSET Named({r}) : (gone # {} => InGroup(r.id) = {}) /\ Remove(gone)
       /\ snap' = [snap EXCEPT ![c] = @ \ {r}]
  /\ failed' = [failed EXCEPT ![c] = @ \/ op[c] = "delete"]
  /\ UNCHANGED <<dbVars, booted, lost, boundVars, pc, op, seen, startVars, batch, touched>>

\* The group of the setup settings is only forgotten, never deleted.
SkipSharedGroup(c) ==
  /\ pc[c] = "cleanup_groups"
  /\ \E r \in OfType(snap[c], {"shared_group"}) :
       /\ tracked' = tracked \ {r}
       /\ snap' = [snap EXCEPT ![c] = @ \ {r}]
  /\ UNCHANGED <<status, token, awsVars, boundVars, pc, op, seen, startVars, batch, failed, touched>>

GroupsCleaned(c) ==
  /\ pc[c] = "cleanup_groups" /\ snap[c] = {}
  /\ Goto(c, "finish")
  /\ UNCHANGED <<dbVars, awsVars, boundVars, op, seen, startVars, cleanVars>>

\* The closing transaction of suspend and disable, and of a delete that failed.
FinishTeardown(c) ==
  /\ pc[c] = "finish" /\ RowExists
  /\ failed[c] \/ op[c] # "delete"
  /\ status' = IF failed[c] THEN "Failed"
               ELSE IF op[c] = "suspend" THEN "Suspended" ELSE "Not enabled"
  /\ token' = 0
  /\ Return(c)
  /\ UNCHANGED <<tracked, awsVars, boundVars>>

\* Mutant of FinishDelete: the row goes even when a step of the cleanup failed.
FinishDeleteAnyway(c) ==
  /\ pc[c] = "finish" /\ op[c] = "delete"
  /\ status' = NoCluster /\ tracked' = {} /\ token' = 0
  /\ Return(c)
  /\ UNCHANGED <<awsVars, boundVars>>

\* DELETE FROM clusters: the rows that refer to it go with it.
FinishDelete(c) ==
  /\ pc[c] = "finish" /\ op[c] = "delete" /\ ~failed[c]
  /\ status' = NoCluster /\ tracked' = {} /\ token' = 0
  /\ Return(c)
  /\ UNCHANGED <<awsVars, boundVars>>

\* The event insert of a marking or closing transaction has no row to refer to.
TeardownRaises(c) ==
  /\ ~RowExists
  /\ \/ pc[c] = "mark"
     \/ pc[c] = "finish" /\ (failed[c] \/ op[c] # "delete")
  /\ Return(c)
  /\ UNCHANGED <<dbVars, awsVars, boundVars>>

-------------------------------------------------------------------------------
(* update_cluster changing the worker range of a Running cluster, and           *)
(* _apply_worker_sizing_live: the status check, the look for the worker group,  *)
(* the transient status, and its end whether or not AWS took the sizes.         *)
ResizeRead(c) ==
  /\ status = "Running"
  /\ Enter(c, "resize", "resize_find")
  /\ UNCHANGED <<dbVars, awsVars, boundVars, seen, startVars, cleanVars>>

ResizeFind(c) ==
  /\ pc[c] = "resize_find"
  /\ IF OfType(tracked, {"auto_scaling_group"}) # {}
       THEN Goto(c, "resize_mark") /\ UNCHANGED <<op, seen, startVars, cleanVars>>
       ELSE Return(c)
  /\ UNCHANGED <<dbVars, awsVars, boundVars>>

\* update_cluster_status: 404 when the row is gone.
SetStatus(s) == status' = IF RowExists THEN s ELSE status

ResizeMark(c) ==
  /\ pc[c] = "resize_mark"
  /\ SetStatus("Updating")
  /\ IF RowExists
       THEN Goto(c, "resize_finish") /\ UNCHANGED <<op, seen, startVars, cleanVars>>
       ELSE Return(c)
  /\ UNCHANGED <<tracked, token, awsVars, boundVars>>

\* Mutant of ResizeFinish: a failing AWS call leaves the transient status.
ResizeFinishUnreverted(c) ==
  /\ pc[c] = "resize_finish"
  /\ \E applied \in BOOLEAN : IF applied THEN SetStatus("Running") ELSE UNCHANGED status
  /\ Return(c)
  /\ UNCHANGED <<tracked, token, awsVars, boundVars>>

ResizeFinish(c) ==
  /\ pc[c] = "resize_finish"
  /\ SetStatus("Running")
  /\ Return(c)
  /\ UNCHANGED <<tracked, token, awsVars, boundVars>>

-------------------------------------------------------------------------------
(* refresh_cluster_health: by the API at any status, by the poller when          *)
(* Starting.  It looks at the coordinator recorded last.                         *)
HealthRead(c) ==
  /\ RowExists
  /\ \/ Enter(c, "health", "probe")
     \/ status = "Starting" /\ Enter(c, "poll", "probe")
  /\ \E r \in OfType(tracked, {"coordinator_instance"}) :
       /\ \A q \in OfType(tracked, {"coordinator_instance"}) : q.row <= r.row
       /\ attempt' = [attempt EXCEPT ![c] = r.id]
  /\ seen' = [seen EXCEPT ![c] = status]
  /\ UNCHANGED <<dbVars, awsVars, boundVars, group, cleanVars>>

Healthy(n) == n \in booted /\ \E r \in OfType(live, {"coordinator_instance"}) : r.id = n

Probe(c) ==
  /\ pc[c] = "probe"
  /\ IF Healthy(attempt[c]) /\ seen[c] # "Running"
       THEN Goto(c, "health_write") /\ UNCHANGED <<op, seen, startVars, cleanVars>>
       ELSE Return(c)
  /\ UNCHANGED <<dbVars, awsVars, boundVars>>

\* Mutant of HealthWrite: a healthy coordinator is noted but not written.
HealthWriteLost(c) ==
  /\ pc[c] = "health_write"
  /\ Return(c)
  /\ UNCHANGED <<dbVars, awsVars, boundVars>>

HealthWrite(c) ==
  /\ pc[c] = "health_write"
  /\ SetStatus("Running")
  /\ Return(c)
  /\ UNCHANGED <<tracked, token, awsVars, boundVars>>

-------------------------------------------------------------------------------
(* A coordinator pulls its config with its bootstrap token and starts Trino.    *)
Boot ==
  /\ \E r \in OfType(live, {"coordinator_instance"}) :
       /\ r.id = token /\ r.id \notin booted
       /\ booted' = booted \union {r.id}
  /\ UNCHANGED <<dbVars, live, going, lost, boundVars, pc, op, seen, startVars, cleanVars>>

\* AWS finishes a removal.
Vanish ==
  /\ \E r \in going : going' = going \ {r}
  /\ UNCHANGED <<dbVars, live, booted, lost, boundVars, pc, op, seen, startVars, cleanVars>>

\* The control plane restarts: the database and AWS stay, the threads do not.
Crash ==
  /\ crashes < MaxCrashes
  /\ \E c \in Callers : ~Idle(c)
  /\ crashes' = crashes + 1
  /\ pc' = [c \in Callers |-> "idle"] /\ op' = [c \in Callers |-> "none"]
  /\ seen' = [c \in Callers |-> NoCluster]
  /\ attempt' = [c \in Callers |-> 0] /\ group' = [c \in Callers |-> 0]
  /\ snap' = [c \in Callers |-> {}] /\ batch' = [c \in Callers |-> {}]
  /\ failed' = [c \in Callers |-> FALSE] /\ touched' = [c \in Callers |-> FALSE]
  /\ UNCHANGED <<dbVars, awsVars, starts, inserts, stranded>>

-------------------------------------------------------------------------------
StartStep(c) ==
  \/ StartClaim(c) \/ StartRefused(c) \/ Resolve(c) \/ ResolveRaises(c)
  \/ EnsureGroup(c) \/ RecordGroup(c)
  \/ LaunchCoordinator(c) \/ RecordCoordinator(c) \/ CreateTemplate(c)
  \/ RecordTemplate(c) \/ CreateWorkers(c) \/ RecordWorkers(c)
  \/ StartStepFails(c) \/ StartFailed(c)

TeardownStep(c) ==
  \/ TeardownMark(c) \/ DeleteRuntime(c) \/ DeleteRuntimeFails(c) \/ Forget(c)
  \/ RuntimeCleaned(c) \/ WaitForInstances(c) \/ DeleteGroup(c)
  \/ DeleteGroupFails(c) \/ SkipSharedGroup(c) \/ GroupsCleaned(c)
  \/ FinishTeardown(c) \/ FinishDelete(c) \/ TeardownRaises(c)

ResizeStep(c) == ResizeFind(c) \/ ResizeMark(c) \/ ResizeFinish(c)
HealthStep(c) == Probe(c) \/ HealthWrite(c)

\* A thread that runs a handler goes on with it.
Continue(c) == StartStep(c) \/ TeardownStep(c) \/ ResizeStep(c) \/ HealthStep(c)
Begin(c)    == StartRead(c) \/ TeardownRead(c) \/ ResizeRead(c) \/ HealthRead(c)

Next == (\E c \in Callers : Begin(c) \/ Continue(c)) \/ Boot \/ Vanish \/ Crash

Spec == Init /\ [][Next]_vars

\* Threads run, removals end, a node with a valid token boots, and the poller
\* thread comes back to a Starting cluster every 30 seconds.
Fairness ==
  /\ \A c \in Callers : WF_vars(Continue(c))
  /\ \A c \in Callers : WF_vars("poll" \in Ops[c] /\ HealthRead(c))
  /\ WF_vars(Boot) /\ WF_vars(Vanish)

FairSpec == Spec /\ Fairness

-------------------------------------------------------------------------------
(* Properties.  The operations a run gives its threads decide which hold.       *)

Compute == OfType(live, ComputeTypes)

\* The compute that start_cluster was told of.
Known == Compute \ lost

\* start_cluster: the claim lets one caller at a time through to AWS, whatever
\* other starts, health checks and edits are in flight.
OneProvisioner ==
  \A c, d \in Callers : Provisioning(c) /\ Provisioning(d) => c = d

\* A Starting cluster is whole and can boot: the token its coordinator was
\* launched with is still the one stored, and coordinator and workers exist and
\* are tracked.  Lost, every later health check fails and it starts forever.
StartingCanBoot ==
  status = "Starting" =>
    /\ \E r \in tracked : r.type = "coordinator_instance" /\ r.id = token /\ Named({r}) # {}
    /\ \E r \in tracked : r.type = "auto_scaling_group" /\ Named({r}) # {}

Transient == {"Creating", "Suspending", "Deleting", "Updating"}

\* Thread c is in the handler whose last transaction ends the transient status s;
\* for Creating, in the start whose bootstrap token is stored.
Ends(c, s) ==
  \/ s = "Creating"   /\ Provisioning(c) /\ attempt[c] = token
  \/ s = "Suspending" /\ pc[c] \in CleanupPcs /\ op[c] # "delete"
  \/ s = "Deleting"   /\ pc[c] \in CleanupPcs /\ op[c] = "delete"
  \/ s = "Updating"   /\ pc[c] = "resize_finish"

\* Until the control plane crashes, a transient status is always somebody's: the
\* handler that has yet to write the final one.  So a cluster nobody works on is
\* never left in one, with one exception that start_cluster makes: a start that
\* raises after its claim and before its try block leaves Creating behind, and
\* only a teardown gets the cluster out of it.
TransientHasOwner ==
  crashes = 0 /\ status \in Transient =>
    \/ \E c \in Callers : Ends(c, status)
    \/ status = "Creating" /\ token \in stranded

\* Suspended and Not enabled mean that no coordinator and no worker group runs.
OffMeansNoNodes == status \in {"Suspended", "Not enabled"} => Compute = {}

\* Once the row is deleted nothing TrinoHub made for the cluster exists, not
\* even an instance that is still shutting down.
DeletedLeavesNothing == status = NoCluster => live = {} /\ OfType(going, ComputeTypes) = {}

\* Every coordinator and worker group in AWS is tracked, or about to be by the
\* start that made it.  The exception is what a call made that never answered:
\* start_cluster records nothing of it, and no teardown will remove it.
LiveIsTracked ==
  \A r \in Known :
    \/ \E row \in tracked : row.type = r.type /\ row.id = r.id
    \/ \E c \in Callers :
         pc[c] = IF r.type = "auto_scaling_group" THEN "record_workers" ELSE "record_coordinator"

\* What ClusterService calls the cluster's mode.
Mode ==
  CASE status \in {"Not enabled", "Suspended"}        -> "off"
    [] status = "Creating"                            -> "provisioning"
    [] status \in {"Starting", "Running", "Updating"} -> "on"
    [] status \in {"Suspending", "Deleting"}          -> "stopping"
    [] status = "Failed"                              -> "broken"
    [] status = NoCluster                             -> "gone"

Service == INSTANCE ClusterService WITH mode <- Mode, compute <- (Known # {})

\* One operator at a time gets the service the documentation describes, as far as
\* AWS answers: a cluster that is off or gone has no compute but what a call made
\* that never answered, and it is turned on from nothing else only.
ImplementsService == Service!Spec

\* The poller gets every Starting cluster out of Starting.
StartingEnds == status = "Starting" ~> status # "Starting"
=============================================================================
