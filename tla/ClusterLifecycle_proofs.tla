------------------------ MODULE ClusterLifecycle_proofs ------------------------
(***************************************************************************)
(* Proofs about ClusterLifecycle for every set of threads and every bound: *)
(* its type invariant; that a transient status always has the handler that *)
(* will end it; that without teardowns one start at a time is in AWS, and  *)
(* a Starting cluster can boot; that without starts a cluster that is off  *)
(* has no nodes, and a deleted one leaves nothing; and that one operator   *)
(* loses no node and gets what ClusterService promises.                    *)
(***************************************************************************)
EXTENDS ClusterLifecycle, TLAPS

\* record_provider_resource keeps the table a set of resource rows.
LEMMA RecordedType ==
  ASSUME NEW S \in SUBSET Rows, TypeOK
  PROVE  Recorded(S) \in SUBSET Rows
BY DEF Recorded, TypeOK

\* The row a start is about to insert is a resource row.
LEMMA RowType ==
  ASSUME TypeOK, NEW type \in Types, NEW id \in Nat
  PROVE  Row(type, id) \in Rows
BY DEF Row, Rows, TypeOK

\* A handler that returns leaves its thread with the locals of an idle one.
LEMMA ReturnType ==
  ASSUME TypeOK, NEW c \in Callers, Return(c)
  PROVE  /\ pc' \in [Callers -> Pcs]
         /\ op' \in [Callers -> Operations \union {"none"}]
         /\ seen' \in [Callers -> Statuses \union {NoCluster}]
         /\ attempt' \in [Callers -> Nat] /\ group' \in [Callers -> Nat]
         /\ snap' \in [Callers -> SUBSET Rows] /\ batch' \in [Callers -> SUBSET Rows]
         /\ failed' \in [Callers -> BOOLEAN] /\ touched' \in [Callers -> BOOLEAN]
BY DEF TypeOK, Return, Goto, Pcs

\* A call that makes a resource leaves the types, whether or not it answers.
LEMMA MakeType ==
  ASSUME TypeOK, NEW c \in Callers, NEW r \in Resources, NEW p \in Pcs, Make(c, r, p)
  PROVE  TypeOK'
<1>1. live' \in SUBSET Resources /\ lost' \in SUBSET Resources
  BY DEF Make, TypeOK
<1>2. pc' \in [Callers -> Pcs]
  BY DEF Make, TypeOK, Goto, Pcs, StartPcs
<1> QED BY <1>1, <1>2 DEF Make, TypeOK, dbVars, boundVars, startVars, cleanVars

\* What a teardown has removed leaves the types.
LEMMA RemoveType ==
  ASSUME TypeOK, NEW R \in SUBSET live, Remove(R)
  PROVE  live' \in SUBSET Resources /\ going' \in SUBSET Resources
BY DEF Remove, OfType, TypeOK

\* No step of start_cluster leaves the types.
LEMMA StartStepType ==
  ASSUME TypeOK, NEW c \in Callers, StartStep(c)
  PROVE  TypeOK'
<1> USE DEF dbVars, awsVars, boundVars, startVars, cleanVars
<1>1. CASE StartClaim(c)
  <2>0. starts' \in Nat
    BY <1>1 DEF StartClaim, TypeOK
  <2>1. status' \in Statuses /\ token' \in Nat /\ attempt' \in [Callers -> Nat]
    BY <1>1, <2>0 DEF StartClaim, TypeOK, Statuses
  <2>2. pc' \in [Callers -> Pcs]
    BY <1>1 DEF StartClaim, TypeOK, Goto, Pcs, StartPcs
  <2> QED BY <1>1, <2>0, <2>1, <2>2 DEF StartClaim, TypeOK
<1>2. CASE StartRefused(c)
  BY <1>2, ReturnType DEF StartRefused, TypeOK
<1>3. CASE EnsureGroup(c)
  <2>1. PICK g \in (IF LiveGroups = {} THEN {attempt[c]} ELSE LiveGroups) :
          /\ live' = live \union {[type |-> "security_group", id |-> g, group |-> g]}
          /\ group' = [group EXCEPT ![c] = g]
    BY <1>3 DEF EnsureGroup
  <2>2. g \in Nat
    BY <2>1 DEF TypeOK, LiveGroups, OfType, Resources
  <2>3. live' \in SUBSET Resources /\ group' \in [Callers -> Nat]
    BY <2>1, <2>2 DEF TypeOK, Resources, Types, GroupTypes
  <2>4. pc' \in [Callers -> Pcs]
    BY <1>3 DEF EnsureGroup, TypeOK, Goto, Pcs, StartPcs
  <2> QED BY <1>3, <2>3, <2>4 DEF EnsureGroup, TypeOK
<1>4. CASE RecordGroup(c)
  <2>1. {Row("security_group", group[c]), Row("shared_group", 0)} \in SUBSET Rows
    BY RowType DEF TypeOK, Types, GroupTypes
  <2>2. tracked' \in SUBSET Rows /\ inserts' \in Nat
    BY <1>4, <2>1, RecordedType DEF RecordGroup, Record, TypeOK
  <2>3. pc' \in [Callers -> Pcs]
    BY <1>4 DEF RecordGroup, Record, TypeOK, Goto, Pcs, StartPcs
  <2> QED BY <1>4, <2>2, <2>3 DEF RecordGroup, Record, TypeOK
<1>5. CASE LaunchCoordinator(c)
  <2>1. [type |-> "coordinator_instance", id |-> attempt[c], group |-> group[c]] \in Resources
    BY DEF TypeOK, Resources, Types, RuntimeTypes
  <2> QED BY <1>5, <2>1, MakeType DEF LaunchCoordinator, Pcs, StartPcs
<1>6. CASE RecordCoordinator(c)
  <2>0. attempt[c] \in Nat
    BY DEF TypeOK
  <2>1. {Row("coordinator_instance", attempt[c])} \in SUBSET Rows
    BY <2>0, RowType DEF Types, RuntimeTypes
  <2>2. tracked' \in SUBSET Rows /\ inserts' \in Nat
    BY <1>6, <2>1, RecordedType DEF RecordCoordinator, Record, TypeOK
  <2>3. pc' \in [Callers -> Pcs]
    BY <1>6 DEF RecordCoordinator, Record, TypeOK, Goto, Pcs, StartPcs
  <2> QED BY <1>6, <2>2, <2>3 DEF RecordCoordinator, Record, TypeOK
<1>7. CASE CreateTemplate(c)
  <2>1. [type |-> "launch_template", id |-> attempt[c], group |-> group[c]] \in Resources
    BY DEF TypeOK, Resources, Types, RuntimeTypes
  <2> QED BY <1>7, <2>1, MakeType DEF CreateTemplate, Pcs, StartPcs
<1>8. CASE RecordTemplate(c)
  <2>0. attempt[c] \in Nat
    BY DEF TypeOK
  <2>1. {Row("launch_template", attempt[c])} \in SUBSET Rows
    BY <2>0, RowType DEF Types, RuntimeTypes
  <2>2. tracked' \in SUBSET Rows /\ inserts' \in Nat
    BY <1>8, <2>1, RecordedType DEF RecordTemplate, Record, TypeOK
  <2>3. pc' \in [Callers -> Pcs]
    BY <1>8 DEF RecordTemplate, Record, TypeOK, Goto, Pcs, StartPcs
  <2> QED BY <1>8, <2>2, <2>3 DEF RecordTemplate, Record, TypeOK
<1>9. CASE CreateWorkers(c)
  <2>1. [type |-> "auto_scaling_group", id |-> 0, group |-> group[c]] \in Resources
    BY DEF TypeOK, Resources, Types, RuntimeTypes
  <2> QED BY <1>9, <2>1, MakeType DEF CreateWorkers, Pcs, StartPcs
<1>10. CASE RecordWorkers(c)
  <2>1. {Row("auto_scaling_group", 0)} \in SUBSET Rows
    BY RowType DEF Types, RuntimeTypes
  <2>2. tracked' \in SUBSET Rows
    BY <1>10, <2>1, RecordedType DEF RecordWorkers
  <2>3. status' \in Statuses
    BY <1>10 DEF RecordWorkers, Statuses
  <2>4. inserts' \in Nat
    BY <1>10 DEF RecordWorkers, TypeOK
  <2> QED BY <1>10, <2>2, <2>3, <2>4, ReturnType DEF RecordWorkers, TypeOK
<1>11. CASE StartStepFails(c)
  <2>1. pc' \in [Callers -> Pcs]
    BY <1>11 DEF StartStepFails, TypeOK, Goto, Pcs, StartPcs
  <2> QED BY <1>11, <2>1 DEF StartStepFails, TypeOK
<1>12. CASE StartFailed(c)
  <2>1. status' \in Statuses \union {NoCluster} /\ token' \in Nat
    <3>1. CASE RowExists
      BY <1>12, <3>1 DEF StartFailed, Statuses
    <3>2. CASE ~RowExists
      BY <1>12, <3>2 DEF StartFailed, TypeOK
    <3> QED BY <3>1, <3>2
  <2> QED BY <1>12, <2>1, ReturnType DEF StartFailed, TypeOK
<1>13. CASE Resolve(c)
  <2>1. pc' \in [Callers -> Pcs]
    BY <1>13 DEF Resolve, TypeOK, Goto, Pcs, StartPcs
  <2> QED BY <1>13, <2>1 DEF Resolve, TypeOK
<1>14. CASE ResolveRaises(c)
  BY <1>14, ReturnType DEF ResolveRaises, TypeOK
<1> QED BY <1>1, <1>2, <1>3, <1>4, <1>5, <1>6, <1>7, <1>8, <1>9, <1>10, <1>11, <1>12, <1>13, <1>14 DEF StartStep

\* No step of suspend_cluster, disable_cluster or delete_cluster leaves the types.
LEMMA TeardownStepType ==
  ASSUME TypeOK, NEW c \in Callers, TeardownStep(c)
  PROVE  TypeOK'
<1> USE DEF dbVars, awsVars, boundVars, startVars, cleanVars
<1>0. ASSUME NEW S PROVE Named(S) \in SUBSET live
  BY DEF Named
<1>1. CASE TeardownMark(c)
  <2>1. status' \in Statuses
    BY <1>1 DEF TeardownMark, Statuses
  <2>2. pc' \in [Callers -> Pcs]
    BY <1>1 DEF TeardownMark, TypeOK, Goto, Pcs, CleanupPcs
  <2> QED BY <1>1, <2>1, <2>2 DEF TeardownMark, TypeOK
<1>2. CASE DeleteRuntime(c)
  <2>1. PICK rows \in RuntimeBatches(snap[c]) :
          /\ Remove(Named(rows))
          /\ batch' = [batch EXCEPT ![c] = rows]
          /\ touched' = [touched EXCEPT ![c] = @ \/ OfType(rows, ComputeTypes) # {}]
    BY <1>2 DEF DeleteRuntime
  <2>2. snap[c] \in SUBSET Rows
    BY DEF TypeOK
  <2>3. rows \in SUBSET Rows
    BY <2>1, <2>2 DEF RuntimeBatches, OfType
  <2>4. live' \in SUBSET Resources /\ going' \in SUBSET Resources
    BY <1>0, <2>1, RemoveType
  <2>5. batch' \in [Callers -> SUBSET Rows]
    BY <2>1, <2>3 DEF TypeOK
  <2>6. touched' \in [Callers -> BOOLEAN]
    BY <2>1 DEF TypeOK
  <2>7. pc' \in [Callers -> Pcs]
    BY <1>2 DEF DeleteRuntime, TypeOK, Goto, Pcs, CleanupPcs
  <2> QED BY <1>2, <2>4, <2>5, <2>6, <2>7 DEF DeleteRuntime, TypeOK
<1>3. CASE DeleteRuntimeFails(c)
  <2>1. snap' \in [Callers -> SUBSET Rows]
    BY <1>3 DEF DeleteRuntimeFails, TypeOK
  <2>2. failed' \in [Callers -> BOOLEAN]
    BY <1>3 DEF DeleteRuntimeFails, TypeOK
  <2>3. \E S : \E gone \in SUBSET Named(S) : Remove(gone)
    BY <1>3 DEF DeleteRuntimeFails
  <2>4. live' \in SUBSET Resources /\ going' \in SUBSET Resources
    BY <1>0, <2>3, RemoveType
  <2> QED BY <1>3, <2>1, <2>2, <2>4 DEF DeleteRuntimeFails, TypeOK
<1>4. CASE Forget(c)
  <2>1. tracked' \in SUBSET Rows
    BY <1>4 DEF Forget, TypeOK
  <2>2. snap' \in [Callers -> SUBSET Rows] /\ batch' \in [Callers -> SUBSET Rows]
    BY <1>4 DEF Forget, TypeOK
  <2>3. pc' \in [Callers -> Pcs]
    BY <1>4 DEF Forget, TypeOK, Goto, Pcs, CleanupPcs
  <2> QED BY <1>4, <2>1, <2>2, <2>3 DEF Forget, TypeOK
<1>5. CASE RuntimeCleaned(c)
  <2>1. pc' \in [Callers -> Pcs]
    BY <1>5 DEF RuntimeCleaned, TypeOK, Goto, Pcs, CleanupPcs
  <2> QED BY <1>5, <2>1 DEF RuntimeCleaned, TypeOK
<1>6. CASE WaitForInstances(c)
  <2>1. pc' \in [Callers -> Pcs]
    BY <1>6 DEF WaitForInstances, TypeOK, Goto, Pcs, CleanupPcs
  <2>2. failed' \in [Callers -> BOOLEAN]
    BY <1>6 DEF WaitForInstances, TypeOK
  <2> QED BY <1>6, <2>1, <2>2 DEF WaitForInstances, TypeOK
<1>7. CASE DeleteGroup(c)
  <2>1. PICK r \in OfType(snap[c], {"security_group"}) :
          Remove(Named({r})) /\ batch' = [batch EXCEPT ![c] = {r}]
    BY <1>7 DEF DeleteGroup
  <2>2. r \in Rows
    BY <2>1 DEF TypeOK, OfType
  <2>3. /\ live' \in SUBSET Resources /\ going' \in SUBSET Resources
        /\ batch' \in [Callers -> SUBSET Rows]
    BY <1>0, <2>1, <2>2, RemoveType DEF TypeOK
  <2>4. pc' \in [Callers -> Pcs]
    BY <1>7 DEF DeleteGroup, TypeOK, Goto, Pcs, CleanupPcs
  <2> QED BY <1>7, <2>3, <2>4 DEF DeleteGroup, TypeOK
<1>8. CASE DeleteGroupFails(c)
  <2>1. snap' \in [Callers -> SUBSET Rows]
    BY <1>8 DEF DeleteGroupFails, TypeOK
  <2>2. failed' \in [Callers -> BOOLEAN]
    BY <1>8 DEF DeleteGroupFails, TypeOK
  <2>3. \E S : \E gone \in SUBSET Named(S) : Remove(gone)
    BY <1>8 DEF DeleteGroupFails
  <2>4. live' \in SUBSET Resources /\ going' \in SUBSET Resources
    BY <1>0, <2>3, RemoveType
  <2> QED BY <1>8, <2>1, <2>2, <2>4 DEF DeleteGroupFails, TypeOK
<1>9. CASE SkipSharedGroup(c)
  BY <1>9 DEF SkipSharedGroup, TypeOK
<1>10. CASE GroupsCleaned(c)
  <2>1. pc' \in [Callers -> Pcs]
    BY <1>10 DEF GroupsCleaned, TypeOK, Goto, Pcs, CleanupPcs
  <2> QED BY <1>10, <2>1 DEF GroupsCleaned, TypeOK
<1>11. CASE FinishTeardown(c)
  <2>1. status' \in Statuses
    BY <1>11 DEF FinishTeardown, Statuses
  <2> QED BY <1>11, <2>1, ReturnType DEF FinishTeardown, TypeOK
<1>12. CASE FinishDelete(c)
  BY <1>12, ReturnType DEF FinishDelete, TypeOK
<1>13. CASE TeardownRaises(c)
  BY <1>13, ReturnType DEF TeardownRaises, TypeOK
<1> QED BY <1>1, <1>2, <1>3, <1>4, <1>5, <1>6, <1>7, <1>8, <1>9, <1>10, <1>11, <1>12, <1>13 DEF TeardownStep

\* No step of _apply_worker_sizing_live leaves the types.
LEMMA ResizeStepType ==
  ASSUME TypeOK, NEW c \in Callers, ResizeStep(c)
  PROVE  TypeOK'
<1> USE DEF dbVars, awsVars, boundVars, startVars, cleanVars
<1>1. CASE ResizeFind(c)
  <2>1. CASE OfType(tracked, {"auto_scaling_group"}) # {}
    <3>1. pc' \in [Callers -> Pcs]
      BY <1>1, <2>1 DEF ResizeFind, TypeOK, Goto, Pcs
    <3> QED BY <1>1, <2>1, <3>1 DEF ResizeFind, TypeOK
  <2>2. CASE ~(OfType(tracked, {"auto_scaling_group"}) # {})
    BY <1>1, <2>2, ReturnType DEF ResizeFind, TypeOK
  <2> QED BY <2>1, <2>2
<1>2. CASE ResizeMark(c)
  <2>0. status' \in Statuses \union {NoCluster}
    BY <1>2 DEF ResizeMark, SetStatus, TypeOK, Statuses
  <2>1. CASE RowExists
    <3>1. pc' \in [Callers -> Pcs]
      BY <1>2, <2>1 DEF ResizeMark, TypeOK, Goto, Pcs
    <3> QED BY <1>2, <2>0, <2>1, <3>1 DEF ResizeMark, TypeOK
  <2>2. CASE ~RowExists
    BY <1>2, <2>0, <2>2, ReturnType DEF ResizeMark, TypeOK
  <2> QED BY <2>1, <2>2
<1>3. CASE ResizeFinish(c)
  <2>1. status' \in Statuses \union {NoCluster}
    BY <1>3 DEF ResizeFinish, SetStatus, TypeOK, Statuses
  <2> QED BY <1>3, <2>1, ReturnType DEF ResizeFinish, TypeOK
<1> QED BY <1>1, <1>2, <1>3 DEF ResizeStep

\* No step of refresh_cluster_health leaves the types.
LEMMA HealthStepType ==
  ASSUME TypeOK, NEW c \in Callers, HealthStep(c)
  PROVE  TypeOK'
<1> USE DEF dbVars, awsVars, boundVars, startVars, cleanVars
<1>1. CASE Probe(c)
  <2>1. CASE Healthy(attempt[c]) /\ seen[c] # "Running"
    <3>1. pc' \in [Callers -> Pcs]
      BY <1>1, <2>1 DEF Probe, TypeOK, Goto, Pcs
    <3> QED BY <1>1, <2>1, <3>1 DEF Probe, TypeOK
  <2>2. CASE ~(Healthy(attempt[c]) /\ seen[c] # "Running")
    BY <1>1, <2>2, ReturnType DEF Probe, TypeOK
  <2> QED BY <2>1, <2>2
<1>2. CASE HealthWrite(c)
  <2>1. status' \in Statuses \union {NoCluster}
    BY <1>2 DEF HealthWrite, SetStatus, TypeOK, Statuses
  <2> QED BY <1>2, <2>1, ReturnType DEF HealthWrite, TypeOK
<1> QED BY <1>1, <1>2 DEF HealthStep

\* A thread that takes up an operation has a control point and an operation of its type.
LEMMA EnterType ==
  ASSUME TypeOK, NEW c \in Callers, NEW o \in Operations, NEW p \in Pcs, Enter(c, o, p)
  PROVE  pc' \in [Callers -> Pcs] /\ op' \in [Callers -> Operations \union {"none"}]
BY DEF TypeOK, Enter, Goto

\* The first read of each handler leaves the types.
LEMMA BeginType ==
  ASSUME TypeOK, NEW c \in Callers, Begin(c)
  PROVE  TypeOK'
<1> USE DEF dbVars, awsVars, boundVars, startVars, cleanVars
<1>1. CASE StartRead(c)
  <2>1. pc' \in [Callers -> Pcs] /\ op' \in [Callers -> Operations \union {"none"}]
    BY <1>1, EnterType DEF StartRead, Operations, Pcs
  <2>2. seen' \in [Callers -> Statuses \union {NoCluster}]
    BY <1>1 DEF StartRead, TypeOK
  <2> QED BY <1>1, <2>1, <2>2 DEF StartRead, TypeOK
<1>2. CASE TeardownRead(c)
  <2>1. pc' \in [Callers -> Pcs] /\ op' \in [Callers -> Operations \union {"none"}]
    BY <1>2, EnterType DEF TeardownRead, Teardowns, Operations, Pcs
  <2>2. snap' \in [Callers -> SUBSET Rows]
    BY <1>2 DEF TeardownRead, TypeOK
  <2> QED BY <1>2, <2>1, <2>2 DEF TeardownRead, TypeOK
<1>3. CASE ResizeRead(c)
  <2>1. pc' \in [Callers -> Pcs] /\ op' \in [Callers -> Operations \union {"none"}]
    BY <1>3, EnterType DEF ResizeRead, Operations, Pcs
  <2> QED BY <1>3, <2>1 DEF ResizeRead, TypeOK
<1>4. CASE HealthRead(c)
  <2>1. pc' \in [Callers -> Pcs] /\ op' \in [Callers -> Operations \union {"none"}]
    BY <1>4, EnterType DEF HealthRead, Operations, Pcs
  <2>2. attempt' \in [Callers -> Nat]
    BY <1>4 DEF HealthRead, TypeOK, OfType, Rows
  <2>3. seen' \in [Callers -> Statuses \union {NoCluster}]
    BY <1>4 DEF HealthRead, TypeOK
  <2> QED BY <1>4, <2>1, <2>2, <2>3 DEF HealthRead, TypeOK
<1> QED BY <1>1, <1>2, <1>3, <1>4 DEF Begin

\* Nor do booting nodes, finished removals and a crash.
LEMMA EnvironmentType ==
  ASSUME TypeOK, Boot \/ Vanish \/ Crash
  PROVE  TypeOK'
<1> USE DEF dbVars, awsVars, boundVars, startVars, cleanVars
<1>1. CASE Boot
  <2>1. booted' \in SUBSET Nat
    BY <1>1 DEF Boot, TypeOK, OfType, Resources
  <2> QED BY <1>1, <2>1 DEF Boot, TypeOK
<1>2. CASE Vanish
  BY <1>2 DEF Vanish, TypeOK
<1>3. CASE Crash
  <2>1. crashes' \in Nat
    BY <1>3 DEF Crash, TypeOK
  <2>2. /\ pc' \in [Callers -> Pcs] /\ op' \in [Callers -> Operations \union {"none"}]
        /\ seen' \in [Callers -> Statuses \union {NoCluster}]
        /\ attempt' \in [Callers -> Nat] /\ group' \in [Callers -> Nat]
        /\ snap' \in [Callers -> SUBSET Rows] /\ batch' \in [Callers -> SUBSET Rows]
        /\ failed' \in [Callers -> BOOLEAN] /\ touched' \in [Callers -> BOOLEAN]
    BY <1>3 DEF Crash, Pcs
  <2> QED BY <1>3, <2>1, <2>2 DEF Crash, TypeOK
<1> QED BY <1>1, <1>2, <1>3

\* The threads start idle.
LEMMA IdleType ==
  ASSUME Init
  PROVE  /\ going \in SUBSET Resources /\ lost \in SUBSET Resources
         /\ crashes \in Nat /\ stranded \in SUBSET Nat
         /\ pc \in [Callers -> Pcs] /\ op \in [Callers -> Operations \union {"none"}]
         /\ seen \in [Callers -> Statuses \union {NoCluster}]
         /\ attempt \in [Callers -> Nat] /\ group \in [Callers -> Nat]
         /\ snap \in [Callers -> SUBSET Rows] /\ batch \in [Callers -> SUBSET Rows]
         /\ failed \in [Callers -> BOOLEAN] /\ touched \in [Callers -> BOOLEAN]
BY DEF Init, IdleInit, Pcs

\* A fresh cluster and one its first start brought up have the types.
LEMMA InitType == Init => TypeOK
<1> SUFFICES ASSUME Init PROVE TypeOK
  OBVIOUS
<1>1. CASE FreshInit
  BY <1>1, IdleType DEF FreshInit, TypeOK, Statuses
<1>2. CASE UpInit
  <2>1. tracked \in SUBSET Rows
    <3>1. {"security_group", "shared_group", "coordinator_instance", "launch_template",
           "auto_scaling_group"} \in SUBSET Types
      BY DEF Types, GroupTypes, RuntimeTypes
    <3> QED BY <1>2, <3>1 DEF UpInit, Rows
  <2>2. live \in SUBSET Resources
    <3>1. {"security_group", "coordinator_instance", "launch_template",
           "auto_scaling_group"} \in SUBSET Types
      BY DEF Types, GroupTypes, RuntimeTypes
    <3> QED BY <1>2, <3>1 DEF UpInit, Resources
  <2>3. status \in Statuses /\ token \in Nat /\ booted \in SUBSET Nat
    BY <1>2 DEF UpInit, Statuses
  <2>4. starts \in Nat /\ inserts \in Nat
    BY <1>2 DEF UpInit
  <2> QED BY <2>1, <2>2, <2>3, <2>4, IdleType DEF TypeOK
<1> QED BY <1>1, <1>2 DEF Init

\* The type invariant is inductive as it stands.
LEMMA NextType == TypeOK /\ [Next]_vars => TypeOK'
<1> SUFFICES ASSUME TypeOK, [Next]_vars PROVE TypeOK'
  OBVIOUS
<1>1. ASSUME NEW c \in Callers, Begin(c) \/ Continue(c) PROVE TypeOK'
  BY <1>1, BeginType, StartStepType, TeardownStepType, ResizeStepType, HealthStepType
     DEF Continue
<1>2. CASE Boot \/ Vanish \/ Crash
  BY <1>2, EnvironmentType
<1>3. CASE UNCHANGED vars
  BY <1>3 DEF vars, dbVars, awsVars, boundVars, startVars, cleanVars, TypeOK
<1> QED BY <1>1, <1>2, <1>3 DEF Next

\* Every reachable state of the lifecycle has the shape the tables and the
\* handlers' locals give it, for any threads, operations and bounds.
THEOREM TypeCorrect == Spec => []TypeOK
BY InitType, NextType, PTL DEF Spec

(***************************************************************************)
(* A transient status has an owner.  A step of thread c touches the        *)
(* program counter of c alone; it keeps c the owner of the status it       *)
(* leaves in place, or strands it, and makes c the owner of a transient    *)
(* status it writes.                                                       *)
(***************************************************************************)
Stranded == status = "Creating" /\ token \in stranded

Owned(c) ==
  /\ \A d \in Callers \ {c} : pc'[d] = pc[d] /\ op'[d] = op[d] /\ attempt'[d] = attempt[d]
  /\ status' = status /\ status = "Creating" => token' = token \/ Ends(c, status)'
  /\ status' = status /\ status \in Transient /\ Ends(c, status) => Ends(c, status)' \/ Stranded'
  /\ status' # status /\ status' \in Transient => Ends(c, status)'
  /\ status' = status /\ Stranded => Stranded' \/ Ends(c, status)'

\* start_cluster: a step leaves its thread the owner of the status it wrote, or the
\* status settled; and it keeps the ownership of every other thread.
LEMMA StartStepOwned ==
  ASSUME TypeOK, NEW c \in Callers, StartStep(c)
  PROVE  Owned(c)
<1>0. /\ pc \in [Callers -> Pcs] /\ op \in [Callers -> Operations \union {"none"}]
      /\ attempt \in [Callers -> Nat]
  BY DEF TypeOK
<1> USE <1>0 DEF Owned, Stranded, Ends, Transient, NoCluster, Provisioning, StartPcs, CleanupPcs, Goto, Return,
                 dbVars, awsVars, boundVars, startVars, cleanVars
<1>1. CASE StartClaim(c)
  BY <1>1 DEF StartClaim
<1>2. CASE StartRefused(c)
  BY <1>2 DEF StartRefused
<1>3. CASE EnsureGroup(c)
  BY <1>3 DEF EnsureGroup
<1>4. CASE RecordGroup(c)
  BY <1>4 DEF RecordGroup, Record
<1>5. CASE LaunchCoordinator(c)
  BY <1>5 DEF LaunchCoordinator, Make
<1>6. CASE RecordCoordinator(c)
  BY <1>6 DEF RecordCoordinator, Record
<1>7. CASE CreateTemplate(c)
  BY <1>7 DEF CreateTemplate, Make
<1>8. CASE RecordTemplate(c)
  BY <1>8 DEF RecordTemplate, Record
<1>9. CASE CreateWorkers(c)
  BY <1>9 DEF CreateWorkers, Make
<1>10. CASE RecordWorkers(c)
  BY <1>10 DEF RecordWorkers
<1>11. CASE StartStepFails(c)
  BY <1>11 DEF StartStepFails
<1>12. CASE StartFailed(c)
  BY <1>12 DEF StartFailed, RowExists
<1>13. CASE Resolve(c)
  BY <1>13 DEF Resolve
<1>14. CASE ResolveRaises(c)
  BY <1>14 DEF ResolveRaises
<1> QED BY <1>1, <1>2, <1>3, <1>4, <1>5, <1>6, <1>7, <1>8, <1>9, <1>10, <1>11, <1>12, <1>13, <1>14 DEF StartStep

\* The same for the teardowns: whichever of them marks the row last owns the mark.
LEMMA TeardownStepOwned ==
  ASSUME TypeOK, NEW c \in Callers, TeardownStep(c)
  PROVE  Owned(c)
<1>0. /\ pc \in [Callers -> Pcs] /\ op \in [Callers -> Operations \union {"none"}]
      /\ attempt \in [Callers -> Nat]
  BY DEF TypeOK
<1> USE <1>0 DEF Owned, Stranded, Ends, Transient, NoCluster, Provisioning, StartPcs, CleanupPcs, Goto, Return,
                 dbVars, awsVars, boundVars, startVars, cleanVars
<1>1. CASE TeardownMark(c)
  BY <1>1 DEF TeardownMark
<1>2. CASE DeleteRuntime(c)
  BY <1>2 DEF DeleteRuntime
<1>3. CASE DeleteRuntimeFails(c)
  BY <1>3 DEF DeleteRuntimeFails
<1>4. CASE Forget(c)
  BY <1>4 DEF Forget
<1>5. CASE RuntimeCleaned(c)
  BY <1>5 DEF RuntimeCleaned
<1>6. CASE WaitForInstances(c)
  BY <1>6 DEF WaitForInstances
<1>7. CASE DeleteGroup(c)
  BY <1>7 DEF DeleteGroup
<1>8. CASE DeleteGroupFails(c)
  BY <1>8 DEF DeleteGroupFails
<1>9. CASE SkipSharedGroup(c)
  BY <1>9 DEF SkipSharedGroup
<1>10. CASE GroupsCleaned(c)
  BY <1>10 DEF GroupsCleaned
<1>11. CASE FinishTeardown(c)
  BY <1>11 DEF FinishTeardown
<1>12. CASE FinishDelete(c)
  BY <1>12 DEF FinishDelete
<1>13. CASE TeardownRaises(c)
  BY <1>13 DEF TeardownRaises, RowExists
<1> QED BY <1>1, <1>2, <1>3, <1>4, <1>5, <1>6, <1>7, <1>8, <1>9, <1>10, <1>11, <1>12, <1>13 DEF TeardownStep

\* The same for edits, health checks and the first reads.
LEMMA OtherStepOwned ==
  ASSUME TypeOK, NEW c \in Callers, ResizeStep(c) \/ HealthStep(c) \/ Begin(c)
  PROVE  Owned(c)
<1>0. /\ pc \in [Callers -> Pcs] /\ op \in [Callers -> Operations \union {"none"}]
      /\ attempt \in [Callers -> Nat]
  BY DEF TypeOK
<1> USE <1>0 DEF Owned, Stranded, Ends, Transient, NoCluster, Provisioning, StartPcs, CleanupPcs, Goto, Return,
                 dbVars, awsVars, boundVars, startVars, cleanVars
<1>1. CASE ResizeFind(c)
  BY <1>1 DEF ResizeFind
<1>2. CASE ResizeMark(c)
  BY <1>2 DEF ResizeMark, SetStatus, RowExists
<1>3. CASE ResizeFinish(c)
  BY <1>3 DEF ResizeFinish, SetStatus, RowExists
<1>4. CASE Probe(c)
  BY <1>4 DEF Probe
<1>5. CASE HealthWrite(c)
  BY <1>5 DEF HealthWrite, SetStatus, RowExists
<1>6. CASE StartRead(c)
  BY <1>6 DEF StartRead, Enter, Idle
<1>7. CASE TeardownRead(c)
  BY <1>7 DEF TeardownRead, Enter, Idle
<1>8. CASE ResizeRead(c)
  BY <1>8 DEF ResizeRead, Enter, Idle
<1>9. CASE HealthRead(c)
  BY <1>9 DEF HealthRead, Enter, Idle
<1> QED BY <1>1, <1>2, <1>3, <1>4, <1>5, <1>6, <1>7, <1>8, <1>9 DEF ResizeStep, HealthStep, Begin

\* No thread's step is a crash.
LEMMA CrashesKept ==
  ASSUME NEW c \in Callers, Begin(c) \/ Continue(c)
  PROVE  crashes' = crashes
<1> USE DEF boundVars
<1>1. CASE Begin(c)
  BY <1>1 DEF Begin, StartRead, TeardownRead, ResizeRead, HealthRead
<1>2. CASE StartStep(c)
  BY <1>2 DEF StartStep, StartClaim, StartRefused, Resolve, ResolveRaises, EnsureGroup,
       RecordGroup, Record, Make, LaunchCoordinator, RecordCoordinator, CreateTemplate, RecordTemplate,
       CreateWorkers, RecordWorkers, StartStepFails, StartFailed
<1>3. CASE TeardownStep(c)
  BY <1>3 DEF TeardownStep, TeardownMark, DeleteRuntime, DeleteRuntimeFails, Forget,
       RuntimeCleaned, WaitForInstances, DeleteGroup, DeleteGroupFails,
       SkipSharedGroup, GroupsCleaned, FinishTeardown, FinishDelete, TeardownRaises
<1>4. CASE ResizeStep(c) \/ HealthStep(c)
  BY <1>4 DEF ResizeStep, HealthStep, ResizeFind, ResizeMark, ResizeFinish, Probe, HealthWrite
<1> QED BY <1>1, <1>2, <1>3, <1>4 DEF Continue

\* Every step of a thread is one of those.
LEMMA StepOwned ==
  ASSUME TypeOK, NEW c \in Callers, Begin(c) \/ Continue(c)
  PROVE  Owned(c)
BY StartStepOwned, TeardownStepOwned, OtherStepOwned DEF Continue

\* Ownership is inductive until the control plane crashes.
LEMMA NextOwned == TypeOK /\ TransientHasOwner /\ [Next]_vars => TransientHasOwner'
<1> SUFFICES ASSUME TypeOK, TransientHasOwner, [Next]_vars,
                    crashes' = 0, status' \in Transient
             PROVE  Stranded' \/ \E c \in Callers : Ends(c, status)'
  BY DEF TransientHasOwner, Stranded
<1>1. ASSUME NEW c \in Callers, Begin(c) \/ Continue(c)
      PROVE  Stranded' \/ \E d \in Callers : Ends(d, status)'
  <2>1. Owned(c)
    BY <1>1, StepOwned
  <2>2. CASE status' # status
    BY <2>1, <2>2 DEF Owned
  <2>3. CASE status' = status
    <3>1. crashes = 0
      BY <1>1, CrashesKept
    <3>2. CASE Stranded
      BY <2>1, <2>3, <3>2 DEF Owned
    <3>3. ASSUME NEW d \in Callers, Ends(d, status)
          PROVE  Stranded' \/ Ends(c, status)' \/ Ends(d, status)'
      <4>1. CASE d = c
        BY <2>1, <2>3, <3>3, <4>1 DEF Owned
      <4>2. CASE d # c
        BY <2>1, <2>3, <3>3, <4>2 DEF Owned, Ends, Provisioning
      <4> QED BY <4>1, <4>2
    <3> QED BY <2>3, <3>1, <3>2, <3>3 DEF TransientHasOwner, Stranded
  <2> QED BY <2>2, <2>3
<1>2. CASE Boot \/ Vanish
  BY <1>2 DEF Boot, Vanish, TransientHasOwner, Stranded, Ends, Provisioning, dbVars, boundVars, startVars
<1>3. CASE Crash
  BY <1>3 DEF Crash, TypeOK
<1>4. CASE UNCHANGED vars
  BY <1>4 DEF vars, dbVars, boundVars, startVars, TransientHasOwner, Stranded, Ends, Provisioning
<1> QED BY <1>1, <1>2, <1>3, <1>4 DEF Next

\* While the control plane does not crash, a transient status always has the
\* handler that ends it, however many handlers run and whichever calls fail; so
\* when every handler has returned the status is a settled one, or Creating of a
\* start that raised between its claim and its try block.
THEOREM TransientOwned == Spec => []TransientHasOwner
<1>1. Init => TransientHasOwner
  BY DEF Init, FreshInit, UpInit, TransientHasOwner, Transient
<1> QED BY <1>1, TypeCorrect, NextOwned, PTL DEF Spec

(***************************************************************************)
(* One start at a time.  Without teardowns the tracked resources only grow, *)
(* so a start in AWS shows in the status (ClaimedStatus), no thread can     *)
(* hold that status as the one it read before its claim (ClaimSeen), and an *)
(* edit in progress shows in the tracked resources, which keeps starts out  *)
(* (EditsTracked).                                                          *)
(***************************************************************************)
NoTeardown == \A c \in Callers : pc[c] \notin CleanupPcs \union {"mark"}

ClaimedStatus ==
  \A c \in Callers : Provisioning(c) => status \in {"Creating", "Running", "Updating"}

ClaimSeen ==
  \A c \in Callers :
    pc[c] = "claim" => seen[c] \in {"Not enabled", "Suspending", "Suspended", "Failed"}

EditsTracked ==
  status = "Updating" \/ (\E c \in Callers : pc[c] \in {"resize_mark", "resize_finish"})
    => OfType(tracked, RuntimeTypes) # {}

ClaimInv == OneProvisioner /\ NoTeardown /\ ClaimedStatus /\ ClaimSeen /\ EditsTracked

\* start_cluster keeps the strengthened invariant: its claim is the only step that
\* adds a provisioner, and the status it compares with is one no provisioner has.
LEMMA StartStepClaim ==
  ASSUME TypeOK, ClaimInv, NEW c \in Callers, StartStep(c)
  PROVE  ClaimInv'
<1>0. pc \in [Callers -> Pcs] /\ seen \in [Callers -> Statuses \union {NoCluster}]
      /\ status \in Statuses \union {NoCluster}
  BY DEF TypeOK
<1> USE <1>0 DEF ClaimInv, NoTeardown, ClaimedStatus, ClaimSeen, EditsTracked, OneProvisioner,
                 Provisioning, StartPcs, CleanupPcs, Goto, Return, OfType,
                 dbVars, awsVars, boundVars, startVars, cleanVars
<1>1. CASE StartClaim(c)
  BY ZenonT(40), <1>1 DEF StartClaim
<1>2. CASE StartRefused(c)
  BY <1>2 DEF StartRefused
<1>3. CASE EnsureGroup(c)
  BY <1>3 DEF EnsureGroup
<1>4. CASE RecordGroup(c)
  BY <1>4 DEF RecordGroup, Record, Recorded
<1>5. CASE LaunchCoordinator(c)
  BY ZenonT(40), <1>5 DEF LaunchCoordinator, Make
<1>6. CASE RecordCoordinator(c)
  BY <1>6 DEF RecordCoordinator, Record, Recorded
<1>7. CASE CreateTemplate(c)
  BY <1>7 DEF CreateTemplate, Make
<1>8. CASE RecordTemplate(c)
  BY <1>8 DEF RecordTemplate, Record, Recorded
<1>9. CASE CreateWorkers(c)
  BY ZenonT(40), <1>9 DEF CreateWorkers, Make
<1>10. CASE RecordWorkers(c)
  BY <1>10 DEF RecordWorkers, Recorded
<1>11. CASE StartStepFails(c)
  BY <1>11 DEF StartStepFails
<1>12. CASE StartFailed(c)
  BY <1>12 DEF StartFailed, RowExists
<1>13. CASE Resolve(c)
  BY ZenonT(40), <1>13 DEF Resolve
<1>14. CASE ResolveRaises(c)
  BY <1>14 DEF ResolveRaises
<1> QED BY <1>1, <1>2, <1>3, <1>4, <1>5, <1>6, <1>7, <1>8, <1>9, <1>10, <1>11, <1>12, <1>13, <1>14 DEF StartStep

\* Health checks and edits keep it: what they write, Running and Updating, is no
\* status a start is claimed from.
LEMMA OtherStepClaim ==
  ASSUME TypeOK, ClaimInv, NEW c \in Callers, Ops[c] \intersect Teardowns = {},
         TeardownStep(c) \/ ResizeStep(c) \/ HealthStep(c) \/ Begin(c)
  PROVE  ClaimInv'
<1>0. pc \in [Callers -> Pcs] /\ seen \in [Callers -> Statuses \union {NoCluster}]
      /\ status \in Statuses \union {NoCluster}
  BY DEF TypeOK
<1> USE <1>0 DEF ClaimInv, NoTeardown, ClaimedStatus, ClaimSeen, EditsTracked, OneProvisioner,
                 Provisioning, StartPcs, CleanupPcs, Goto, Return, OfType,
                 dbVars, awsVars, boundVars, startVars, cleanVars
<1>1. CASE TeardownStep(c)
  BY <1>1 DEF TeardownStep, TeardownMark, DeleteRuntime, DeleteRuntimeFails, Forget,
       RuntimeCleaned, WaitForInstances, DeleteGroup, DeleteGroupFails, SkipSharedGroup,
       GroupsCleaned, FinishTeardown, FinishDelete, TeardownRaises
<1>2. CASE ResizeFind(c)
  <2>0. status' = status /\ tracked' = tracked
    BY <1>2 DEF ResizeFind
  <2>1. CASE OfType(tracked, {"auto_scaling_group"}) # {}
    <3>1. OfType(tracked, RuntimeTypes) # {}
      BY <2>1 DEF RuntimeTypes
    <3>2. pc' = [pc EXCEPT ![c] = "resize_mark"] /\ seen' = seen
      BY <1>2, <2>1 DEF ResizeFind
    <3> QED BY <2>0, <3>1, <3>2
  <2>2. CASE ~(OfType(tracked, {"auto_scaling_group"}) # {})
    <3>1. pc' = [pc EXCEPT ![c] = "idle"] /\ seen' = [seen EXCEPT ![c] = NoCluster]
      BY <1>2, <2>2 DEF ResizeFind
    <3> QED BY <2>0, <3>1
  <2> QED BY <2>1, <2>2
<1>3. CASE ResizeMark(c)
  <2>0. tracked' = tracked
    BY <1>3 DEF ResizeMark
  <2>1. CASE RowExists
    <3>1. pc' = [pc EXCEPT ![c] = "resize_finish"] /\ seen' = seen /\ status' = "Updating"
      BY <1>3, <2>1 DEF ResizeMark, SetStatus
    <3>2. pc[c] = "resize_mark"
      BY <1>3 DEF ResizeMark
    <3> QED BY <2>0, <3>1, <3>2
  <2>2. CASE ~RowExists
    <3>1. /\ pc' = [pc EXCEPT ![c] = "idle"] /\ seen' = [seen EXCEPT ![c] = NoCluster]
          /\ status' = status
      BY <1>3, <2>2 DEF ResizeMark, SetStatus
    <3> QED BY <2>0, <3>1
  <2> QED BY <2>1, <2>2
<1>4. CASE ResizeFinish(c)
  BY <1>4 DEF ResizeFinish, SetStatus, RowExists
<1>5. CASE Probe(c)
  <2>0. status' = status /\ tracked' = tracked
    BY <1>5 DEF Probe
  <2>1. CASE Healthy(attempt[c]) /\ seen[c] # "Running"
    <3>1. pc' = [pc EXCEPT ![c] = "health_write"] /\ seen' = seen
      BY <1>5, <2>1 DEF Probe
    <3> QED BY <2>0, <3>1
  <2>2. CASE ~(Healthy(attempt[c]) /\ seen[c] # "Running")
    <3>1. pc' = [pc EXCEPT ![c] = "idle"] /\ seen' = [seen EXCEPT ![c] = NoCluster]
      BY <1>5, <2>2 DEF Probe
    <3> QED BY <2>0, <3>1
  <2> QED BY <2>1, <2>2
<1>6. CASE HealthWrite(c)
  BY <1>6 DEF HealthWrite, SetStatus, RowExists
<1>7. CASE StartRead(c)
  BY <1>7 DEF StartRead, Enter, Idle, Startable, Statuses
<1>8. CASE TeardownRead(c)
  BY <1>8 DEF TeardownRead, Enter, Idle
<1>9. CASE ResizeRead(c)
  BY <1>9 DEF ResizeRead, Enter, Idle
<1>10. CASE HealthRead(c)
  <2>1. /\ pc[c] = "idle" /\ pc' = [pc EXCEPT ![c] = "probe"]
        /\ \A d \in Callers \ {c} : seen'[d] = seen[d]
        /\ status' = status /\ tracked' = tracked
    BY <1>10 DEF HealthRead, Enter, Idle
  <2> QED BY <2>1
<1> QED BY <1>1, <1>2, <1>3, <1>4, <1>5, <1>6, <1>7, <1>8, <1>9, <1>10 DEF ResizeStep, HealthStep, Begin

\* Without teardowns the strengthened invariant holds throughout.
LEMMA ClaimAlways ==
  ASSUME \A c \in Callers : Ops[c] \intersect Teardowns = {}
  PROVE  Spec => []ClaimInv
<1>1. Init => ClaimInv
  BY DEF Init, FreshInit, UpInit, IdleInit, ClaimInv, OneProvisioner, NoTeardown,
         ClaimedStatus, ClaimSeen, EditsTracked, Provisioning, StartPcs, CleanupPcs
<1>2. TypeOK /\ ClaimInv /\ [Next]_vars => ClaimInv'
  <2> SUFFICES ASSUME TypeOK, ClaimInv, [Next]_vars PROVE ClaimInv'
    OBVIOUS
  <2>1. ASSUME NEW c \in Callers, Begin(c) \/ Continue(c) PROVE ClaimInv'
    BY <2>1, StartStepClaim, OtherStepClaim DEF Continue
  <2> USE DEF ClaimInv, OneProvisioner, NoTeardown, ClaimedStatus, ClaimSeen, EditsTracked,
              Provisioning
  <2>2. CASE Boot \/ Vanish
    BY <2>2 DEF Boot, Vanish, dbVars
  <2>3. CASE Crash
    BY <2>3 DEF Crash, dbVars, StartPcs, CleanupPcs
  <2>4. CASE UNCHANGED vars
    BY <2>4 DEF vars, dbVars
  <2> QED BY <2>1, <2>2, <2>3, <2>4 DEF Next
<1> QED BY <1>1, <1>2, TypeCorrect, PTL DEF Spec

\* As long as nobody suspends, disables or deletes the cluster, any number of
\* starts, health checks and edits, and crashes too, let one start at a time
\* into the part that creates AWS resources.
THEOREM OneProvisionerAlways ==
  ASSUME \A c \in Callers : Ops[c] \intersect Teardowns = {}
  PROVE  Spec => []OneProvisioner
<1>1. Spec => []ClaimInv
  BY ClaimAlways
<1>2. ClaimInv => OneProvisioner
  BY DEF ClaimInv
<1> QED BY <1>1, <1>2, PTL

(***************************************************************************)
(* A Starting cluster can boot.  Without teardowns what exists and what is *)
(* tracked only grows, so what a start has made so far is still    *)
(* there (Progress), and the stored token is that of the one start that is *)
(* in AWS.                                                                 *)
(***************************************************************************)
Exists(type, id) == \E r \in live : r.type = type /\ r.id = id
Listed(type, id) == \E r \in tracked : r.type = type /\ r.id = id
Bootable(n)      == Exists("coordinator_instance", n) /\ Listed("coordinator_instance", n)

Progress ==
  /\ RowExists
  /\ \A c \in Callers :
       /\ Provisioning(c) => token = attempt[c]
       /\ pc[c] = "record_coordinator" => Exists("coordinator_instance", attempt[c])
       /\ pc[c] \in {"create_template", "record_template", "create_workers", "record_workers"}
            => Bootable(attempt[c])
       /\ pc[c] = "record_workers" => Exists("auto_scaling_group", 0)
  /\ status = "Starting" =>
       Bootable(token) /\ Exists("auto_scaling_group", 0) /\ Listed("auto_scaling_group", 0)

\* record_provider_resource leaves a row of the type and the id it is given.
LEMMA RecordedLists ==
  ASSUME NEW type
  PROVE  \A id \in Nat :
           tracked' = Recorded({Row(type, id)})
             => tracked \subseteq tracked' /\ \E q \in tracked' : q.type = type /\ q.id = id
<1> SUFFICES ASSUME NEW id \in Nat, tracked' = Recorded({Row(type, id)})
             PROVE  tracked \subseteq tracked' /\ \E q \in tracked' : q.type = type /\ q.id = id
  OBVIOUS
<1> DEFINE r == Row(type, id)
<1>1. r.type = type /\ r.id = id
  BY DEF Row
<1>2. tracked' = tracked \union {q \in {r} : ~\E p \in tracked : p.type = q.type /\ p.id = q.id}
  BY DEF Recorded
<1> HIDE DEF r
<1>3. CASE \E p \in tracked : p.type = r.type /\ p.id = r.id
  BY <1>1, <1>2, <1>3
<1>4. CASE ~\E p \in tracked : p.type = r.type /\ p.id = r.id
  <2>1. r \in tracked'
    BY <1>2, <1>4
  <2> QED BY <1>1, <1>2, <2>1
<1> QED BY <1>3, <1>4

\* start_cluster makes progress: each resource exists before it is recorded, and is
\* recorded before the next one is made.
LEMMA StartStepProgress ==
  ASSUME TypeOK, ClaimInv, Progress, NEW c \in Callers, StartStep(c)
  PROVE  Progress'
<1>0. /\ pc \in [Callers -> Pcs] /\ attempt \in [Callers -> Nat]
      /\ OneProvisioner /\ ClaimedStatus /\ ClaimSeen
  BY DEF TypeOK, ClaimInv
<1> USE <1>0 DEF Progress, Exists, Listed, Bootable, Provisioning, StartPcs, Goto, Return, RowExists,
                 NoCluster, dbVars, awsVars, boundVars, startVars, cleanVars
<1>1. CASE StartClaim(c)
  <2>1. \A d \in Callers : pc[d] \notin StartPcs
    BY <1>1 DEF StartClaim, ClaimedStatus, ClaimSeen
  <2> QED BY <1>1, <2>1 DEF StartClaim
<1>2. CASE StartRefused(c)
  BY <1>2 DEF StartRefused
<1>3. CASE EnsureGroup(c)
  <2>1. PICK g : live' = live \union {[type |-> "security_group", id |-> g, group |-> g]}
    BY <1>3 DEF EnsureGroup
  <2>2. live \subseteq live'
    BY <2>1
  <2> QED BY <1>3, <2>2 DEF EnsureGroup
<1>4. CASE RecordGroup(c)
  <2>1. tracked \subseteq tracked'
    BY <1>4 DEF RecordGroup, Record, Recorded
  <2> QED BY ZenonT(40), <1>4, <2>1 DEF RecordGroup, Record
<1>5. CASE LaunchCoordinator(c)
  <2>0. /\ live \subseteq live'
        /\ [type |-> "coordinator_instance", id |-> attempt[c], group |-> group[c]] \in live'
    BY <1>5 DEF LaunchCoordinator, Make
  <2>1. live \subseteq live' /\ \E r \in live' : r.type = "coordinator_instance" /\ r.id = attempt[c]
    BY <2>0
  <2>2. /\ tracked' = tracked /\ status' = status /\ token' = token /\ attempt' = attempt
        /\ pc[c] = "launch_coordinator"
        /\ \E p \in {"record_coordinator", "start_failed"} : pc' = [pc EXCEPT ![c] = p]
    BY <1>5 DEF LaunchCoordinator, Make
  <2> QED BY <2>1, <2>2
<1>6. CASE RecordCoordinator(c)
  <2>0. tracked' = Recorded({Row("coordinator_instance", attempt[c])}) /\ attempt[c] \in Nat
    BY <1>6 DEF RecordCoordinator, Record
  <2>1. /\ tracked \subseteq tracked'
        /\ \E r \in tracked' : r.type = "coordinator_instance" /\ r.id = attempt[c]
    BY ONLY <2>0, RecordedLists
  <2>2. attempt' = attempt /\ live' = live /\ status' = status /\ token' = token
        /\ pc' = [pc EXCEPT ![c] = "create_template"] /\ pc[c] = "record_coordinator"
    BY <1>6 DEF RecordCoordinator, Record
  <2> QED BY <2>1, <2>2
<1>7. CASE CreateTemplate(c)
  BY <1>7 DEF CreateTemplate, Make
<1>8. CASE RecordTemplate(c)
  <2>1. tracked \subseteq tracked'
    BY <1>8 DEF RecordTemplate, Record, Recorded
  <2> QED BY ZenonT(40), <1>8, <2>1 DEF RecordTemplate, Record
<1>9. CASE CreateWorkers(c)
  <2>0. /\ live \subseteq live'
        /\ [type |-> "auto_scaling_group", id |-> 0, group |-> group[c]] \in live'
    BY <1>9 DEF CreateWorkers, Make
  <2>1. live \subseteq live' /\ \E r \in live' : r.type = "auto_scaling_group" /\ r.id = 0
    BY <2>0
  <2>2. /\ tracked' = tracked /\ status' = status /\ token' = token /\ attempt' = attempt
        /\ pc[c] = "create_workers"
        /\ \E p \in {"record_workers", "start_failed"} : pc' = [pc EXCEPT ![c] = p]
    BY <1>9 DEF CreateWorkers, Make
  <2> QED BY <2>1, <2>2
<1>10. CASE RecordWorkers(c)
  <2>0. tracked' = Recorded({Row("auto_scaling_group", 0)})
    BY <1>10 DEF RecordWorkers
  <2>1. /\ tracked \subseteq tracked'
        /\ \E r \in tracked' : r.type = "auto_scaling_group" /\ r.id = 0
    BY <2>0, RecordedLists
  <2>2. /\ live' = live /\ status' = "Starting" /\ token' = token /\ pc[c] = "record_workers"
        /\ pc' = [pc EXCEPT ![c] = "idle"] /\ attempt' = [attempt EXCEPT ![c] = 0]
    BY <1>10 DEF RecordWorkers
  <2> QED BY <2>1, <2>2
<1>11. CASE StartStepFails(c)
  BY <1>11 DEF StartStepFails
<1>12. CASE StartFailed(c)
  <2>1. \A d \in Callers \ {c} : pc[d] \notin StartPcs
    BY <1>12 DEF StartFailed, OneProvisioner
  <2>2. /\ live' = live /\ tracked' = tracked /\ status' = "Failed"
        /\ pc' = [pc EXCEPT ![c] = "idle"] /\ attempt' = [attempt EXCEPT ![c] = 0]
    BY <1>12 DEF StartFailed
  <2> QED BY <2>1, <2>2
<1>13. CASE Resolve(c)
  BY <1>13 DEF Resolve
<1>14. CASE ResolveRaises(c)
  BY <1>14 DEF ResolveRaises
<1> QED BY <1>1, <1>2, <1>3, <1>4, <1>5, <1>6, <1>7, <1>8, <1>9, <1>10, <1>11, <1>12, <1>13, <1>14 DEF StartStep

\* Health checks and edits make nothing Starting and touch neither AWS nor the token.
LEMMA OtherStepProgress ==
  ASSUME TypeOK, ClaimInv, Progress, NEW c \in Callers, Ops[c] \intersect Teardowns = {},
         TeardownStep(c) \/ ResizeStep(c) \/ HealthStep(c) \/ Begin(c)
  PROVE  Progress'
<1>0. pc \in [Callers -> Pcs] /\ attempt \in [Callers -> Nat] /\ NoTeardown
  BY DEF TypeOK, ClaimInv
<1>1. pc[c] \notin CleanupPcs \union {"mark"}
  BY <1>0 DEF NoTeardown
<1>2. ~TeardownStep(c)
  BY <1>1 DEF TeardownStep, TeardownMark, DeleteRuntime, DeleteRuntimeFails, Forget,
       RuntimeCleaned, WaitForInstances, DeleteGroup, DeleteGroupFails, SkipSharedGroup,
       GroupsCleaned, FinishTeardown, FinishDelete, TeardownRaises, CleanupPcs
<1>3. /\ live' = live /\ tracked' = tracked /\ token' = token
      /\ status' \in {status, "Running", "Updating"}
  <2> USE DEF dbVars, awsVars
  <2>1. CASE ResizeStep(c)
    BY <2>1 DEF ResizeStep, ResizeFind, ResizeMark, ResizeFinish, SetStatus
  <2>2. CASE HealthStep(c)
    BY <2>2 DEF HealthStep, Probe, HealthWrite, SetStatus
  <2>3. CASE Begin(c)
    BY <2>3 DEF Begin, StartRead, TeardownRead, ResizeRead, HealthRead
  <2> QED BY <1>2, <2>1, <2>2, <2>3
<1>4. /\ pc'[c] \notin StartPcs
      /\ \A d \in Callers \ {c} : pc'[d] = pc[d] /\ attempt'[d] = attempt[d]
  <2> USE <1>0 DEF Goto, Return, startVars, StartPcs
  <2>1. CASE ResizeStep(c)
    BY <2>1 DEF ResizeStep, ResizeFind, ResizeMark, ResizeFinish
  <2>2. CASE HealthStep(c)
    BY <2>2 DEF HealthStep, Probe, HealthWrite
  <2>3. CASE Begin(c)
    BY <2>3 DEF Begin, StartRead, TeardownRead, ResizeRead, HealthRead, Enter
  <2> QED BY <1>2, <2>1, <2>2, <2>3
<1> QED BY <1>3, <1>4 DEF Progress, Exists, Listed, Bootable, Provisioning, StartPcs, RowExists, NoCluster

\* As long as nobody suspends, disables or deletes the cluster, no race of starts,
\* health checks, edits and crashes leaves it Starting with a coordinator that has no
\* valid token, or without its workers.
THEOREM StartingCanBootAlways ==
  ASSUME \A c \in Callers : Ops[c] \intersect Teardowns = {}
  PROVE  Spec => []StartingCanBoot
<1>1. Init => Progress
  BY DEF Init, FreshInit, UpInit, IdleInit, Progress, Provisioning, StartPcs, RowExists, NoCluster
<1>2. TypeOK /\ ClaimInv /\ Progress /\ [Next]_vars => Progress'
  <2> SUFFICES ASSUME TypeOK, ClaimInv, Progress, [Next]_vars PROVE Progress'
    OBVIOUS
  <2>1. ASSUME NEW c \in Callers, Begin(c) \/ Continue(c) PROVE Progress'
    BY <2>1, StartStepProgress, OtherStepProgress DEF Continue
  <2> USE DEF Progress, Exists, Listed, Bootable, Provisioning, RowExists
  <2>2. CASE Boot \/ Vanish
    BY <2>2 DEF Boot, Vanish, dbVars, startVars
  <2>3. CASE Crash
    BY <2>3 DEF Crash, dbVars, awsVars, StartPcs
  <2>4. CASE UNCHANGED vars
    BY <2>4 DEF vars, dbVars, awsVars, startVars
  <2> QED BY <2>1, <2>2, <2>3, <2>4 DEF Next
<1>3. Progress => StartingCanBoot
  BY DEF Progress, Exists, Listed, Bootable, StartingCanBoot, Named
<1>4. Spec => []ClaimInv
  BY ClaimAlways
<1> QED BY <1>1, <1>2, <1>3, <1>4, TypeCorrect, PTL DEF Spec

(***************************************************************************)
(* Teardowns racing each other.  Nothing is made any more, so what a       *)
(* teardown read covers what there is to delete until it deletes it, and a *)
(* row is forgotten, by whomever, only once what it names is gone.         *)
(***************************************************************************)
Covered(R, S) == \A r \in R : \E row \in S : row.type = r.type /\ row.id = r.id

NoStart == \A c \in Callers : pc[c] \notin StartPcs \union {"claim"}

\* What a teardown that has not failed still has to handle.
TeardownSees ==
  \A c \in Callers :
    /\ pc[c] \in CleanupPcs \union {"mark"} /\ ~failed[c] =>
         /\ Covered(OfType(live, ComputeTypes), snap[c])
         /\ op[c] = "delete" => Covered(live, snap[c])
    /\ pc[c] = "forget" => Named(batch[c]) = {}
    /\ pc[c] = "finish" => snap[c] = {}

\* A node or a worker group uses a security group that still exists.
Housed ==
  \A r \in OfType(live \union going, ComputeTypes) :
    \E g \in live : g.type = "security_group" /\ g.id = r.group

\* The group of the setup settings is not TrinoHub's, so none of what lives is one.
OwnOnly == \A r \in live : r.type # "shared_group"

CleanInv ==
  /\ NoStart /\ TeardownSees /\ Housed /\ OwnOnly
  /\ Covered(live, tracked)
  /\ OffMeansNoNodes
  /\ status = NoCluster => live = {}

\* A step of thread c that changes nothing in AWS, and after which the thread is in no
\* teardown.
Aside(c) ==
  /\ live' = live /\ going' = going /\ tracked' = tracked
  /\ status' \in {status} \union {"Running", "Updating", "Failed", "Deleting", "Suspending"}
  /\ status = NoCluster => status' = NoCluster
  /\ pc'[c] \notin StartPcs \union CleanupPcs \union {"claim", "mark"}
  /\ \A d \in Callers \ {c} : /\ pc'[d] = pc[d] /\ op'[d] = op[d] /\ snap'[d] = snap[d]
                              /\ batch'[d] = batch[d] /\ failed'[d] = failed[d]

\* Such a step keeps the invariant.
LEMMA AsideClean ==
  ASSUME TypeOK, CleanInv, NEW c \in Callers, Aside(c)
  PROVE  CleanInv'
<1>1. NoStart'
  BY DEF CleanInv, NoStart, Aside, CleanupPcs
<1>2. TeardownSees'
  BY DEF CleanInv, TeardownSees, Aside, CleanupPcs, Named
<1>3. Housed' /\ OwnOnly' /\ Covered(live, tracked)'
  BY DEF CleanInv, Housed, OwnOnly, Aside
<1>4. OffMeansNoNodes' /\ (status = NoCluster => live = {})'
  BY DEF CleanInv, OffMeansNoNodes, Compute, Aside, NoCluster
<1> QED BY <1>1, <1>2, <1>3, <1>4 DEF CleanInv

\* Edits and health checks are such steps.
LEMMA OtherStepAside ==
  ASSUME TypeOK, CleanInv, NEW c \in Callers, ResizeStep(c) \/ HealthStep(c) \/ ResizeRead(c) \/ HealthRead(c)
  PROVE  Aside(c)
<1>0. /\ pc \in [Callers -> Pcs] /\ op \in [Callers -> Operations \union {"none"}]
      /\ snap \in [Callers -> SUBSET Rows] /\ batch \in [Callers -> SUBSET Rows]
      /\ failed \in [Callers -> BOOLEAN]
  BY DEF TypeOK
<1> USE <1>0 DEF Aside, StartPcs, CleanupPcs, Goto, Return, SetStatus, RowExists, NoCluster,
                 dbVars, awsVars, boundVars, startVars, cleanVars
<1>1. CASE ResizeFind(c)
  BY <1>1 DEF ResizeFind
<1>2. CASE ResizeMark(c)
  BY <1>2 DEF ResizeMark
<1>3. CASE ResizeFinish(c)
  BY <1>3 DEF ResizeFinish
<1>4. CASE Probe(c)
  BY <1>4 DEF Probe
<1>5. CASE HealthWrite(c)
  BY <1>5 DEF HealthWrite
<1>6. CASE ResizeRead(c)
  BY <1>6 DEF ResizeRead, Enter
<1>7. CASE HealthRead(c)
  BY <1>7 DEF HealthRead, Enter
<1> QED BY <1>1, <1>2, <1>3, <1>4, <1>5, <1>6, <1>7 DEF ResizeStep, HealthStep

\* What one batch of the cleanup deletes is compute, templates and nothing else.
LEMMA BatchRows ==
  ASSUME NEW S, NEW rows \in RuntimeBatches(S)
  PROVE  rows \subseteq OfType(S, RuntimeTypes)
BY DEF RuntimeBatches, OfType, RuntimeTypes

\* Removing a security group starts the end of no node.
LEMMA GroupRemoved ==
  ASSUME NEW S, NEW r \in OfType(S, {"security_group"}), NEW R \in SUBSET Named({r}), Remove(R)
  PROVE  live' = live \ R /\ going' = going
BY DEF Remove, OfType, Named, ComputeTypes

\* suspend_cluster, disable_cluster and delete_cluster keep the invariant.
LEMMA TeardownStepClean ==
  ASSUME TypeOK, CleanInv, NEW c \in Callers, TeardownStep(c) \/ TeardownRead(c)
  PROVE  CleanInv'
<1>0. /\ pc \in [Callers -> Pcs] /\ op \in [Callers -> Operations \union {"none"}]
      /\ snap \in [Callers -> SUBSET Rows] /\ batch \in [Callers -> SUBSET Rows]
      /\ failed \in [Callers -> BOOLEAN]
      /\ NoStart /\ TeardownSees /\ Housed /\ OwnOnly /\ Covered(live, tracked) /\ OffMeansNoNodes
      /\ status = NoCluster => live = {}
  BY DEF TypeOK, CleanInv
<1> USE <1>0 DEF NoStart, StartPcs, CleanupPcs, Goto, Return, dbVars, awsVars, boundVars, startVars, cleanVars
<1>1. CASE TeardownRead(c)
  <2>1. /\ live' = live /\ going' = going /\ tracked' = tracked /\ status' = status
        /\ pc' = [pc EXCEPT ![c] = "mark"] /\ snap' = [snap EXCEPT ![c] = tracked]
        /\ \A d \in Callers \ {c} : op'[d] = op[d]
        /\ batch' = batch /\ failed' = failed
    BY <1>1 DEF TeardownRead, Enter
  <2>2. NoStart'
    BY <2>1
  <2>3. Covered(OfType(live, ComputeTypes), tracked)
    BY DEF Covered, OfType
  <2>4. TeardownSees'
    BY <2>1, <2>3 DEF TeardownSees, Named
  <2> QED BY <2>1, <2>2, <2>4 DEF CleanInv, Housed, OwnOnly, OffMeansNoNodes, Compute
<1>2. CASE TeardownMark(c)
  <2>1. /\ live' = live /\ going' = going /\ tracked' = tracked
        /\ status' \in {"Deleting", "Suspending"} /\ pc[c] = "mark"
        /\ pc' = [pc EXCEPT ![c] = "cleanup"] /\ op' = op /\ snap' = snap
        /\ batch' = batch /\ failed' = failed
    BY <1>2 DEF TeardownMark
  <2>2. NoStart'
    BY <2>1
  <2>3. TeardownSees'
    BY <2>1 DEF TeardownSees, Named
  <2> QED BY <2>1, <2>2, <2>3 DEF CleanInv, Housed, OwnOnly, OffMeansNoNodes, NoCluster
<1>3. CASE DeleteRuntime(c)
  <2>1. PICK rows \in RuntimeBatches(snap[c]) :
          /\ live'  = live \ Named(rows)
          /\ going' = going \union OfType(Named(rows), ComputeTypes)
          /\ batch' = [batch EXCEPT ![c] = rows]
    BY <1>3 DEF DeleteRuntime, Remove
  <2>2. /\ tracked' = tracked /\ status' = status /\ pc[c] = "cleanup"
        /\ pc' = [pc EXCEPT ![c] = "forget"] /\ op' = op /\ snap' = snap /\ failed' = failed
    BY <1>3 DEF DeleteRuntime
  <2>3. NoStart'
    BY <2>2
  <2>4. live' \subseteq live
    BY <2>1
  <2>5. Named(rows)' = {}
    BY <2>1 DEF Named
  <2>6. ASSUME NEW S PROVE Named(S) = {} => Named(S)' = {}
    BY <2>4 DEF Named
  <2>7. TeardownSees'
    BY <2>1, <2>2, <2>4, <2>5, <2>6 DEF TeardownSees, Covered, OfType
  <2>8. \A r \in Named(rows) : r.type # "security_group"
    BY <2>1, BatchRows DEF Named, OfType, RuntimeTypes
  <2>9. Housed'
    BY <2>1, <2>8 DEF Housed, OfType, Named
  <2> QED BY <2>2, <2>3, <2>4, <2>7, <2>9 DEF CleanInv, OwnOnly, Covered, OffMeansNoNodes, Compute, OfType
<1>4. CASE DeleteRuntimeFails(c)
  <2>1. PICK rows \in RuntimeBatches(snap[c]) : \E gone \in SUBSET Named(rows) : Remove(gone)
    BY <1>4 DEF DeleteRuntimeFails
  <2>2. PICK gone \in SUBSET Named(rows) :
          live' = live \ gone /\ going' = going \union OfType(gone, ComputeTypes)
    BY <2>1 DEF Remove
  <2>3. /\ tracked' = tracked /\ status' = status
        /\ pc' = pc /\ op' = op /\ batch' = batch /\ pc[c] = "cleanup"
        /\ failed' = [failed EXCEPT ![c] = TRUE]
        /\ \A d \in Callers \ {c} : snap'[d] = snap[d]
    BY <1>4 DEF DeleteRuntimeFails
  <2>4. live' \subseteq live
    BY <2>2
  <2>5. ASSUME NEW S PROVE Named(S) = {} => Named(S)' = {}
    BY <2>4 DEF Named
  <2>6. TeardownSees'
    BY <2>3, <2>4, <2>5 DEF TeardownSees, Covered, OfType
  <2>7. gone \subseteq live /\ \A r \in gone : r.type # "security_group"
    BY <2>2, BatchRows DEF Named, OfType, RuntimeTypes
  <2>8. Housed'
    BY <2>2, <2>7 DEF Housed, OfType
  <2> QED BY <2>3, <2>4, <2>6, <2>8 DEF CleanInv, OwnOnly, Covered, OffMeansNoNodes, Compute, OfType
<1>5. CASE Forget(c)
  <2>1. PICK r \in batch[c] :
          /\ tracked' = tracked \ {r}
          /\ snap'  = [snap EXCEPT ![c] = @ \ {r}]
          /\ batch' = [batch EXCEPT ![c] = @ \ {r}]
          /\ pc' = [pc EXCEPT ![c] = IF batch[c] # {r} THEN "forget"
                  ELSE IF r.type \in GroupTypes THEN "cleanup_groups" ELSE "cleanup"]
    BY <1>5 DEF Forget
  <2>2. /\ live' = live /\ going' = going /\ status' = status /\ op' = op /\ failed' = failed
        /\ pc[c] = "forget"
    BY <1>5 DEF Forget
  <2>3. NoStart'
    BY <2>1
  <2>4. \A q \in live : ~(r.type = q.type /\ r.id = q.id)
    BY <2>1, <2>2 DEF TeardownSees, Named
  <2>5. ASSUME NEW R, R \subseteq live, NEW S, Covered(R, S) PROVE Covered(R, S \ {r})
    BY <2>4, <2>5 DEF Covered
  <2>6. OfType(live, ComputeTypes) \subseteq live
    BY DEF OfType
  <2>7. Named(batch[c] \ {r}) = {}
    BY <2>2 DEF TeardownSees, Named
  <2>8. pc'[c] # "finish" /\ pc'[c] \in CleanupPcs
    BY <2>1
  <2>9. snap'[c] = snap[c] \ {r} /\ batch'[c] = batch[c] \ {r}
        /\ \A d \in Callers \ {c} : snap'[d] = snap[d] /\ batch'[d] = batch[d] /\ pc'[d] = pc[d]
    BY <2>1
  <2>10. TeardownSees'
    <3>1. ASSUME NEW d \in Callers, d # c
          PROVE  /\ (pc[d] \in CleanupPcs \union {"mark"} /\ ~failed[d] =>
                       /\ Covered(OfType(live, ComputeTypes), snap[d])
                       /\ op[d] = "delete" => Covered(live, snap[d]))'
                 /\ (pc[d] = "forget" => Named(batch[d]) = {})'
                 /\ (pc[d] = "finish" => snap[d] = {})'
      BY <2>2, <2>9, <3>1 DEF TeardownSees, Named
    <3>2. /\ (pc[c] \in CleanupPcs \union {"mark"} /\ ~failed[c] =>
                /\ Covered(OfType(live, ComputeTypes), snap[c])
                /\ op[c] = "delete" => Covered(live, snap[c]))'
      BY <2>2, <2>5, <2>6, <2>9 DEF TeardownSees
    <3>3. (pc[c] = "forget" => Named(batch[c]) = {})'
      BY <2>2, <2>7, <2>9 DEF Named
    <3> QED BY <2>8, <3>1, <3>2, <3>3 DEF TeardownSees
  <2>11. Covered(live, tracked)'
    BY <2>1, <2>2, <2>5
  <2> QED BY <2>2, <2>3, <2>10, <2>11 DEF CleanInv, Housed, OwnOnly, OffMeansNoNodes, Compute
<1>6. CASE RuntimeCleaned(c) \/ WaitForInstances(c)
  <2>1. /\ live' = live /\ going' = going /\ tracked' = tracked /\ status' = status
        /\ pc[c] \in {"cleanup", "wait"} /\ pc'[c] \in {"wait", "cleanup_groups"}
        /\ \A d \in Callers \ {c} : pc'[d] = pc[d] /\ failed'[d] = failed[d]
        /\ op' = op /\ batch' = batch /\ snap' = snap
        /\ failed[c] => failed'[c]
    BY <1>6 DEF RuntimeCleaned, WaitForInstances
  <2>2. TeardownSees'
    BY <2>1 DEF TeardownSees, Named
  <2>3. NoStart'
    BY <2>1
  <2> QED BY <2>1, <2>2, <2>3 DEF CleanInv, Housed, OwnOnly, OffMeansNoNodes, Compute
<1>7. CASE DeleteGroup(c)
  <2>1. PICK r \in OfType(snap[c], {"security_group"}) :
          InGroup(r.id) = {} /\ Remove(Named({r})) /\ batch' = [batch EXCEPT ![c] = {r}]
    BY <1>7 DEF DeleteGroup
  <2>11. live' = live \ Named({r}) /\ going' = going
    BY <2>1, GroupRemoved
  <2>2. /\ tracked' = tracked /\ status' = status /\ pc[c] = "cleanup_groups"
        /\ pc' = [pc EXCEPT ![c] = "forget"] /\ op' = op /\ snap' = snap /\ failed' = failed
    BY <1>7 DEF DeleteGroup
  <2>3. NoStart'
    BY <2>2
  <2>4. live' \subseteq live
    BY <2>11
  <2>5. Named({r})' = {}
    BY <2>11 DEF Named
  <2>6. ASSUME NEW S PROVE Named(S) = {} => Named(S)' = {}
    BY <2>4 DEF Named
  <2>7. TeardownSees'
    BY <2>1, <2>2, <2>4, <2>5, <2>6 DEF TeardownSees, Covered, OfType
  <2>8. \A q \in OfType(live \union going, ComputeTypes) : q.group # r.id
    BY <2>1 DEF InGroup, OfType
  <2>9. \A g \in live : g.type = "security_group" /\ g.id # r.id => g \in live'
    BY <2>11 DEF Named
  <2>10. Housed'
    BY <2>11, <2>4, <2>8, <2>9 DEF Housed, OfType
  <2> QED BY <2>2, <2>3, <2>4, <2>7, <2>10 DEF CleanInv, OwnOnly, Covered, OffMeansNoNodes, Compute, OfType
<1>8. CASE DeleteGroupFails(c)
  <2>1. PICK r \in OfType(snap[c], {"security_group"}) :
          /\ \E gone \in SUBSET Named({r}) : (gone # {} => InGroup(r.id) = {}) /\ Remove(gone)
          /\ snap' = [snap EXCEPT ![c] = @ \ {r}]
    BY <1>8 DEF DeleteGroupFails
  <2>2. PICK gone \in SUBSET Named({r}) : (gone # {} => InGroup(r.id) = {}) /\ Remove(gone)
    BY <2>1
  <2>3. live' = live \ gone /\ going' = going /\ gone \subseteq Named({r})
    BY <2>1, <2>2, GroupRemoved
  <2>4. /\ status' = status /\ pc[c] = "cleanup_groups"
        /\ pc' = pc /\ op' = op /\ batch' = batch /\ tracked' = tracked
        /\ \A d \in Callers \ {c} : snap'[d] = snap[d] /\ failed'[d] = failed[d]
    BY <1>8 DEF DeleteGroupFails
  <2>5. ~failed'[c] => ~failed[c] /\ op[c] # "delete"
    BY <1>8 DEF DeleteGroupFails
  <2>6. live' \subseteq live
    BY <2>3
  <2>7. r.type \notin ComputeTypes
    BY <2>1 DEF OfType, ComputeTypes
  <2>8. \A S : Covered(OfType(live, ComputeTypes), S) => Covered(OfType(live', ComputeTypes), S \ {r})
    BY <2>6, <2>7 DEF Covered, OfType
  <2>9. ASSUME NEW S PROVE /\ Named(S) = {} => Named(S)' = {}
                           /\ Covered(live, S) => Covered(live', S)
                           /\ Covered(OfType(live, ComputeTypes), S) => Covered(OfType(live', ComputeTypes), S)
    BY <2>6 DEF Named, Covered, OfType
  <2>10. snap'[c] = snap[c] \ {r}
    BY <2>1
  <2>11. TeardownSees'
    BY <2>4, <2>5, <2>8, <2>9, <2>10 DEF TeardownSees
  <2>12. Housed'
    <3>1. CASE gone = {}
      BY <2>3, <3>1 DEF Housed
    <3>2. CASE gone # {}
      <4>1. \A q \in OfType(live \union going, ComputeTypes) : q.group # r.id
        BY <2>2, <3>2 DEF InGroup, OfType
      <4>2. \A g \in live : g.type = "security_group" /\ g.id # r.id => g \in live'
        BY <2>3 DEF Named
      <4> QED BY <2>3, <2>6, <4>1, <4>2 DEF Housed, OfType
    <3> QED BY <3>1, <3>2
  <2> QED BY <2>4, <2>6, <2>11, <2>12 DEF CleanInv, OwnOnly, Covered, OffMeansNoNodes, Compute, OfType
<1>13. CASE SkipSharedGroup(c)
  <2>1. PICK r \in OfType(snap[c], {"shared_group"}) :
          tracked' = tracked \ {r} /\ snap' = [snap EXCEPT ![c] = @ \ {r}]
    BY <1>13 DEF SkipSharedGroup
  <2>2. /\ live' = live /\ going' = going /\ status' = status /\ pc[c] = "cleanup_groups"
        /\ pc' = pc /\ op' = op /\ batch' = batch /\ failed' = failed
    BY <1>13 DEF SkipSharedGroup
  <2>3. \A q \in live : r.type # q.type
    BY <2>1 DEF OfType, OwnOnly
  <2>4. \A R \in SUBSET live : \A S : Covered(R, S) => Covered(R, S \ {r})
    BY <2>3 DEF Covered
  <2>5. OfType(live, ComputeTypes) \in SUBSET live
    BY DEF OfType
  <2>6. snap'[c] = snap[c] \ {r} /\ \A d \in Callers \ {c} : snap'[d] = snap[d]
    BY <2>1
  <2>7. TeardownSees'
    BY <2>2, <2>4, <2>5, <2>6 DEF TeardownSees, Named
  <2>8. Covered(live, tracked)'
    BY <2>1, <2>2, <2>4
  <2> QED BY <2>2, <2>7, <2>8 DEF CleanInv, Housed, OwnOnly, OffMeansNoNodes, Compute
<1>9. CASE GroupsCleaned(c)
  <2>1. /\ live' = live /\ going' = going /\ tracked' = tracked /\ status' = status
        /\ pc[c] = "cleanup_groups" /\ pc' = [pc EXCEPT ![c] = "finish"]
        /\ snap[c] = {} /\ op' = op /\ batch' = batch /\ snap' = snap /\ failed' = failed
    BY <1>9 DEF GroupsCleaned
  <2>2. TeardownSees'
    BY <2>1 DEF TeardownSees, Named
  <2>3. NoStart'
    BY <2>1
  <2> QED BY <2>1, <2>2, <2>3 DEF CleanInv, Housed, OwnOnly, OffMeansNoNodes, Compute
<1>10. CASE FinishTeardown(c)
  <2>1. /\ live' = live /\ going' = going /\ tracked' = tracked /\ status # NoCluster
        /\ pc[c] = "finish" /\ pc' = [pc EXCEPT ![c] = "idle"]
        /\ \A d \in Callers \ {c} : /\ op'[d] = op[d] /\ snap'[d] = snap[d]
                                    /\ batch'[d] = batch[d] /\ failed'[d] = failed[d]
    BY <1>10 DEF FinishTeardown, RowExists
  <2>2. status' \in {"Failed", "Suspended", "Not enabled"} /\ (failed[c] => status' = "Failed")
    <3>1. CASE failed[c]
      BY <1>10, <3>1 DEF FinishTeardown
    <3>2. CASE ~failed[c] /\ op[c] = "suspend"
      BY <1>10, <3>2 DEF FinishTeardown
    <3>3. CASE ~failed[c] /\ op[c] # "suspend"
      BY <1>10, <3>3 DEF FinishTeardown
    <3> QED BY <3>1, <3>2, <3>3
  <2>3. NoStart' /\ TeardownSees'
    BY <2>1 DEF TeardownSees, Named
  <2>4. ~failed[c] => Compute = {}
    BY <2>1 DEF TeardownSees, Covered, Compute
  <2>5. OffMeansNoNodes'
    BY <2>1, <2>2, <2>4 DEF OffMeansNoNodes, Compute
  <2> QED BY <2>1, <2>2, <2>3, <2>5 DEF CleanInv, Housed, OwnOnly, NoCluster
<1>11. CASE FinishDelete(c)
  <2>1. /\ live' = live /\ going' = going /\ status' = NoCluster
        /\ pc[c] = "finish" /\ op[c] = "delete" /\ ~failed[c] /\ pc' = [pc EXCEPT ![c] = "idle"]
        /\ \A d \in Callers \ {c} : /\ op'[d] = op[d] /\ snap'[d] = snap[d]
                                    /\ batch'[d] = batch[d] /\ failed'[d] = failed[d]
    BY <1>11 DEF FinishDelete
  <2>2. live = {}
    BY <2>1 DEF TeardownSees, Covered
  <2>3. NoStart' /\ TeardownSees'
    BY <2>1 DEF TeardownSees, Named
  <2> QED BY <2>1, <2>2, <2>3 DEF CleanInv, Housed, OwnOnly, Covered, OffMeansNoNodes, Compute, OfType
<1>12. CASE TeardownRaises(c)
  <2>1. Aside(c)
    BY <1>12 DEF TeardownRaises, Aside
  <2> QED BY <2>1, AsideClean
<1> QED BY <1>1, <1>2, <1>3, <1>4, <1>5, <1>6, <1>7, <1>8, <1>9, <1>10, <1>11, <1>12, <1>13 DEF TeardownStep

\* With nobody who starts the cluster the invariant holds throughout, whatever suspends,
\* disables, deletes, edits and checks it at once, and however often the control plane crashes.
LEMMA CleanAlways ==
  ASSUME \A c \in Callers : "start" \notin Ops[c]
  PROVE  Spec => []CleanInv
<1>1. Init => CleanInv
  <2> SUFFICES ASSUME Init PROVE CleanInv
    OBVIOUS
  <2>1. NoStart /\ TeardownSees
    BY DEF Init, IdleInit, NoStart, TeardownSees, StartPcs, CleanupPcs
  <2>2. CASE FreshInit
    BY <2>1, <2>2 DEF Init, IdleInit, FreshInit, CleanInv, Housed, OwnOnly, Covered, OffMeansNoNodes, Compute, OfType, NoCluster
  <2>3. CASE UpInit
    <3>1. OwnOnly /\ Covered(live, tracked)
      BY <2>3 DEF UpInit, OwnOnly, Covered
    <3>2. going = {}
      BY DEF Init, IdleInit
    <3>3. Housed
      BY <2>3, <3>2 DEF UpInit, Housed, OfType
    <3> QED BY <2>1, <2>3, <3>1, <3>3 DEF UpInit, CleanInv, OffMeansNoNodes, NoCluster
  <2> QED BY <2>2, <2>3 DEF Init
<1>2. TypeOK /\ CleanInv /\ [Next]_vars => CleanInv'
  <2> SUFFICES ASSUME TypeOK, CleanInv, [Next]_vars PROVE CleanInv'
    OBVIOUS
  <2>1. ASSUME NEW c \in Callers, Begin(c) \/ Continue(c) PROVE CleanInv'
    <3>1. ~StartRead(c)
      BY DEF StartRead, Enter
    <3>2. ~StartStep(c)
      BY DEF CleanInv, NoStart, StartStep, StartClaim, StartRefused, Resolve, ResolveRaises, EnsureGroup, RecordGroup,
         LaunchCoordinator, RecordCoordinator, CreateTemplate, RecordTemplate, CreateWorkers,
         RecordWorkers, StartStepFails, StartFailed, StartPcs
    <3>3. CASE ResizeStep(c) \/ HealthStep(c) \/ ResizeRead(c) \/ HealthRead(c)
      BY <3>3, OtherStepAside, AsideClean
    <3> QED BY <2>1, <3>1, <3>2, <3>3, TeardownStepClean DEF Begin, Continue
  <2>2. CASE Boot
    BY <2>2 DEF Boot, dbVars, cleanVars, CleanInv, NoStart, TeardownSees, Housed, OwnOnly,
       OffMeansNoNodes, Compute, Named
  <2>3. CASE Vanish
    <3>1. /\ going' \subseteq going /\ live' = live /\ UNCHANGED <<dbVars, pc, op, cleanVars>>
      BY <2>3 DEF Vanish
    <3>2. Housed'
      BY <3>1 DEF CleanInv, Housed, OfType
    <3> QED BY <3>1, <3>2 DEF dbVars, cleanVars, CleanInv, NoStart, TeardownSees, OwnOnly,
       OffMeansNoNodes, Compute, Named
  <2>4. CASE Crash
    BY <2>4 DEF Crash, dbVars, awsVars, CleanInv, NoStart, TeardownSees, Housed, OwnOnly,
       OffMeansNoNodes, Compute, Named, StartPcs, CleanupPcs
  <2>5. CASE UNCHANGED vars
    BY <2>5 DEF vars, dbVars, awsVars, cleanVars, CleanInv, NoStart, TeardownSees, Housed, OwnOnly,
       OffMeansNoNodes, Compute, Named
  <2> QED BY <2>1, <2>2, <2>3, <2>4, <2>5 DEF Next
<1> QED BY <1>1, <1>2, TypeCorrect, PTL DEF Spec

\* Suspended and Not enabled mean that no coordinator and no workers run, however many
\* teardowns race each other, health checks, edits and crashes: a teardown that has not failed
\* has handled every node, and rows it did not read were forgotten for nodes that are gone.
THEOREM OffMeansNoNodesAlways ==
  ASSUME \A c \in Callers : "start" \notin Ops[c]
  PROVE  Spec => []OffMeansNoNodes
<1>1. Spec => []CleanInv
  BY CleanAlways
<1>2. CleanInv => OffMeansNoNodes
  BY DEF CleanInv
<1> QED BY <1>1, <1>2, PTL

\* A deleted row leaves nothing behind, not even a node that is still shutting down.
THEOREM DeletedLeavesNothingAlways ==
  ASSUME \A c \in Callers : "start" \notin Ops[c]
  PROVE  Spec => []DeletedLeavesNothing
<1>1. Spec => []CleanInv
  BY CleanAlways
<1>2. CleanInv => DeletedLeavesNothing
  BY DEF CleanInv, DeletedLeavesNothing, Housed, OfType
<1> QED BY <1>1, <1>2, PTL

(***************************************************************************)
(* One operator.  With one thread and no crash the status tells where the  *)
(* thread is, a node that is not tracked is the one the thread is about to *)
(* record or one that was never answered for, and a teardown covers all    *)
(* others.  A coordinator that was never answered for is never tracked     *)
(* (LostAt), so no health check takes it for the cluster's.  From there    *)
(* every step of the lifecycle is a step of ClusterService or none.        *)
(***************************************************************************)
OneOperator == \A c, d \in Callers : c = d

Settled == {"Not enabled", "Starting", "Running", "Suspended", "Failed", NoCluster}

\* Where a start is before it has launched its coordinator, and after.
BeforeLaunch == {"claim", "resolve", "ensure_group", "record_group", "launch_coordinator"}
AfterLaunch  == {"record_coordinator", "create_template", "record_template",
                 "create_workers", "record_workers"}

\* A start that raised in front of its try block leaves Creating to an idle thread.
StatusAt(c) ==
  /\ pc[c] \in {"idle", "probe"} => status \in Settled \union {"Creating"}
  /\ pc[c] \in {"mark", "health_write"} => status \in (Settled \union {"Creating"}) \ {NoCluster}
  /\ pc[c] = "claim" => status = seen[c] /\ status \in {"Not enabled", "Suspended", "Failed"}
  /\ pc[c] \in StartPcs => status = "Creating"
  /\ pc[c] \in {"resize_find", "resize_mark"} => status = "Running"
  /\ pc[c] = "resize_finish" => status = "Updating"
  /\ pc[c] \in CleanupPcs => status = IF op[c] = "delete" THEN "Deleting" ELSE "Suspending"

Coordinator(c) == [type |-> "coordinator_instance", id |-> attempt[c], group |-> group[c]]

ComputeAt(c) ==
  /\ pc[c] \in BeforeLaunch => Known = {}
  /\ pc[c] \in AfterLaunch => Coordinator(c) \in Known
  /\ pc[c] = "health_write" => Known # {}
  /\ pc[c] \in CleanupPcs \union {"mark"} /\ ~failed[c] => Covered(Known, snap[c])
  /\ pc[c] = "forget" => Named(batch[c]) = {}
  /\ pc[c] = "finish" => snap[c] = {}

\* Thread c has made r and is about to record it.
AboutTo(c, r) ==
  \/ pc[c] = "record_coordinator" /\ r.type = "coordinator_instance" /\ r.id = attempt[c]
  \/ pc[c] = "record_workers" /\ r.type = "auto_scaling_group" /\ r.id = 0

LostAt(c) ==
  /\ \A r \in OfType(lost, {"coordinator_instance"}) :
       /\ r.id <= starts /\ ~Listed("coordinator_instance", r.id)
       /\ pc[c] \in BeforeLaunch \union AfterLaunch => pc[c] = "claim" \/ r.id # attempt[c]
  /\ pc[c] \in BeforeLaunch \ {"claim"} => attempt[c] <= starts
  /\ pc[c] \in BeforeLaunch => OfType(tracked, RuntimeTypes) = {}
  /\ pc[c] = "probe" => Listed("coordinator_instance", attempt[c])

Accounted ==
  \A r \in Known : Listed(r.type, r.id) \/ \E c \in Callers : AboutTo(c, r)

OffHasNone == status \in {"Not enabled", "Suspended", NoCluster} => Known = {}

SoloInv ==
  /\ \A c \in Callers : StatusAt(c) /\ ComputeAt(c) /\ LostAt(c)
  /\ Accounted /\ OffHasNone

\* One thread is all threads, so the invariant is what holds of it.
LEMMA SoloMeans ==
  ASSUME OneOperator, NEW c \in Callers
  PROVE  /\ (StatusAt(c)' /\ ComputeAt(c)' /\ LostAt(c)' /\ Accounted' /\ OffHasNone') => SoloInv'
         /\ SoloInv => (StatusAt(c) /\ ComputeAt(c) /\ LostAt(c) /\ Accounted /\ OffHasNone)
         /\ \A r : (\E d \in Callers : AboutTo(d, r)) <=> AboutTo(c, r)
         /\ \A r : (\E d \in Callers : AboutTo(d, r)') <=> AboutTo(c, r)'
<1>1. \A d \in Callers : d = c
  BY DEF OneOperator
<1> QED BY <1>1 DEF SoloInv

\* A step that changes nothing in AWS and in the records, of a thread that has recorded
\* what it made.
LEMMA QuietStep ==
  ASSUME OneOperator, SoloInv, NEW c \in Callers,
         live' = live, lost' = lost, tracked' = tracked,
         pc[c] \notin {"record_coordinator", "record_workers"}
  PROVE  Known' = Known /\ Accounted'
<1>1. Known' = Known
  BY DEF Known, Compute
<1>2. ASSUME NEW r \in Known PROVE Listed(r.type, r.id) \/ AboutTo(c, r)
  BY SoloMeans DEF Accounted
<1>3. ASSUME NEW r \in Known, Listed(r.type, r.id) PROVE \E q \in tracked' : q.type = r.type /\ q.id = r.id
  BY <1>3 DEF Listed
<1>4. ASSUME NEW r \in Known PROVE ~AboutTo(c, r)
  BY DEF AboutTo
<1> QED BY <1>1, <1>2, <1>3, <1>4, SoloMeans DEF Accounted, Listed

\* A step in which every call answers and no coordinator is recorded.
LEMMA LostKept ==
  ASSUME NEW c \in Callers, LostAt(c), lost' = lost, starts' = starts,
         \A q \in tracked' : q \in tracked \/ q.type # "coordinator_instance",
         pc'[c] \in BeforeLaunch \union AfterLaunch =>
           /\ pc[c] \in (BeforeLaunch \union AfterLaunch) \ {"claim"}
           /\ attempt'[c] = attempt[c],
         pc'[c] \in BeforeLaunch => pc[c] \in BeforeLaunch /\ OfType(tracked', RuntimeTypes) = {},
         pc'[c] # "probe"
  PROVE  LostAt(c)'
<1>1. \A id : Listed("coordinator_instance", id)' => Listed("coordinator_instance", id)
  BY DEF Listed
<1> QED BY <1>1 DEF LostAt, OfType, BeforeLaunch, AfterLaunch

\* A step of start_cluster that makes r, in a start that has a status and a coordinator,
\* or not yet one.
LEMMA MakeMeans ==
  ASSUME TypeOK, NEW c \in Callers, NEW r, NEW p, Make(c, r, p)
  PROVE  /\ live' = live \union {r} /\ tracked' = tracked /\ status' = status /\ starts' = starts
         /\ attempt' = attempt /\ group' = group /\ failed' = failed /\ snap' = snap /\ batch' = batch
         /\ \/ pc' = [pc EXCEPT ![c] = p] /\ lost' = lost
            \/ pc' = [pc EXCEPT ![c] = "start_failed"] /\ lost' = lost \union {r}
BY DEF Make, Goto, dbVars, boundVars, startVars, cleanVars

\* start_cluster keeps the invariant.
LEMMA StartStepSolo ==
  ASSUME TypeOK, OneOperator, SoloInv, NEW c \in Callers, StartStep(c) \/ StartRead(c)
  PROVE  SoloInv'
<1>0. /\ pc \in [Callers -> Pcs] /\ op \in [Callers -> Operations \union {"none"}]
      /\ seen \in [Callers -> Statuses \union {NoCluster}] /\ attempt \in [Callers -> Nat]
      /\ StatusAt(c) /\ ComputeAt(c) /\ LostAt(c) /\ Accounted /\ OffHasNone
  BY SoloMeans DEF TypeOK
<1> USE <1>0 DEF Goto, Return, dbVars, awsVars, boundVars, startVars, cleanVars
<1>1. SUFFICES StatusAt(c)' /\ ComputeAt(c)' /\ LostAt(c)' /\ Accounted' /\ OffHasNone'
  BY SoloMeans
<1>2. CASE StartRead(c)
  <2>1. /\ live' = live /\ lost' = lost /\ tracked' = tracked /\ status' = status /\ Startable(status)
        /\ OfType(tracked, RuntimeTypes) = {} /\ starts' = starts /\ attempt' = attempt
        /\ pc[c] = "idle" /\ pc' = [pc EXCEPT ![c] = "claim"] /\ seen' = [seen EXCEPT ![c] = status]
    BY <1>2 DEF StartRead, Enter, Idle
  <2>2. Known' = Known /\ Accounted'
    BY <2>1, QuietStep
  <2>3. ASSUME NEW r \in Known PROVE FALSE
    <3>1. Listed(r.type, r.id)
      BY <2>1, SoloMeans DEF Accounted, AboutTo
    <3>2. r.type \in RuntimeTypes
      BY DEF Known, Compute, OfType, ComputeTypes, RuntimeTypes
    <3> QED BY <2>1, <3>1, <3>2 DEF Listed, OfType
  <2>4. StatusAt(c)'
    BY <2>1 DEF StatusAt, Settled, Startable, StartPcs, CleanupPcs, NoCluster
  <2>5. ComputeAt(c)'
    BY <2>1, <2>2, <2>3 DEF ComputeAt, CleanupPcs, AfterLaunch
  <2>6. LostAt(c)'
    BY <2>1 DEF LostAt, Listed, OfType, BeforeLaunch
  <2> QED BY <2>1, <2>2, <2>4, <2>5, <2>6 DEF OffHasNone
<1>3. CASE StartClaim(c)
  <2>1. /\ live' = live /\ lost' = lost /\ tracked' = tracked /\ status' = "Creating"
        /\ starts' = starts + 1 /\ attempt'[c] = starts + 1
        /\ pc[c] = "claim" /\ pc' = [pc EXCEPT ![c] = "resolve"]
    BY <1>3 DEF StartClaim
  <2>2. Known' = Known /\ Accounted'
    BY <2>1, QuietStep
  <2>3. StatusAt(c)' /\ ComputeAt(c)'
    BY <2>1, <2>2 DEF StatusAt, ComputeAt, StartPcs, CleanupPcs, BeforeLaunch, AfterLaunch
  <2>4. starts \in Nat /\ \A r \in OfType(lost, {"coordinator_instance"}) : r.id \in Nat
    BY DEF TypeOK, OfType, Resources
  <2>5. LostAt(c)'
    BY <2>1, <2>4 DEF LostAt, Listed, OfType, BeforeLaunch
  <2> QED BY <2>1, <2>2, <2>3, <2>5 DEF OffHasNone, NoCluster
<1>4. CASE StartRefused(c)
  BY <1>4 DEF StartRefused, StatusAt
<1>15. CASE Resolve(c)
  <2>1. /\ live' = live /\ lost' = lost /\ tracked' = tracked /\ status' = status
        /\ starts' = starts /\ attempt' = attempt /\ group' = group
        /\ pc[c] = "resolve" /\ pc' = [pc EXCEPT ![c] = "ensure_group"]
    BY <1>15 DEF Resolve
  <2>2. Known' = Known /\ Accounted'
    BY <2>1, QuietStep
  <2>3. StatusAt(c)' /\ ComputeAt(c)'
    BY <2>1, <2>2 DEF StatusAt, ComputeAt, StartPcs, CleanupPcs, BeforeLaunch, AfterLaunch
  <2>4. LostAt(c)'
    BY <2>1, LostKept DEF LostAt, BeforeLaunch, AfterLaunch
  <2> QED BY <2>1, <2>2, <2>3, <2>4 DEF OffHasNone
<1>16. CASE ResolveRaises(c)
  <2>1. /\ live' = live /\ lost' = lost /\ tracked' = tracked /\ status' = status
        /\ starts' = starts
        /\ pc[c] = "resolve" /\ pc' = [pc EXCEPT ![c] = "idle"]
    BY <1>16 DEF ResolveRaises
  <2>2. Known' = Known /\ Accounted'
    BY <2>1, QuietStep
  <2>3. StatusAt(c)' /\ ComputeAt(c)'
    BY <2>1, <2>2 DEF StatusAt, ComputeAt, StartPcs, CleanupPcs, BeforeLaunch, AfterLaunch
  <2>4. LostAt(c)'
    BY <2>1, LostKept DEF BeforeLaunch, AfterLaunch
  <2> QED BY <2>1, <2>2, <2>3, <2>4 DEF OffHasNone
<1>5. CASE EnsureGroup(c)
  <2>1. PICK g : live' = live \union {[type |-> "security_group", id |-> g, group |-> g]}
    BY <1>5 DEF EnsureGroup
  <2>2. /\ tracked' = tracked /\ lost' = lost /\ status' = status /\ starts' = starts /\ attempt' = attempt
        /\ pc[c] = "ensure_group" /\ pc'[c] \in {"record_group", "start_failed"}
    BY <1>5 DEF EnsureGroup
  <2>3. Known' = Known
    BY <2>1, <2>2 DEF Known, Compute, OfType, ComputeTypes
  <2>4. Accounted'
    BY <2>2, <2>3 DEF ComputeAt, BeforeLaunch, Accounted
  <2>5. StatusAt(c)' /\ ComputeAt(c)'
    BY <2>2, <2>3 DEF StatusAt, ComputeAt, StartPcs, CleanupPcs, BeforeLaunch, AfterLaunch
  <2>6. LostAt(c)'
    BY <2>2, LostKept DEF LostAt, BeforeLaunch, AfterLaunch
  <2> QED BY <2>2, <2>3, <2>4, <2>5, <2>6 DEF OffHasNone
<1>6. CASE RecordGroup(c)
  <2>1. /\ live' = live /\ lost' = lost /\ status' = status /\ starts' = starts /\ attempt' = attempt
        /\ tracked' = Recorded({Row("security_group", group[c]), Row("shared_group", 0)})
        /\ pc[c] = "record_group" /\ pc' = [pc EXCEPT ![c] = "launch_coordinator"]
    BY <1>6 DEF RecordGroup, Record
  <2>2. \A q \in tracked' : q \in tracked \/ q.type \in GroupTypes
    BY <2>1 DEF Recorded, Row, GroupTypes
  <2>3. Known' = Known
    BY <2>1 DEF Known, Compute
  <2>4. Accounted'
    BY <2>1, <2>3 DEF ComputeAt, BeforeLaunch, Accounted
  <2>5. StatusAt(c)' /\ ComputeAt(c)'
    BY <2>1, <2>3 DEF StatusAt, ComputeAt, StartPcs, CleanupPcs, BeforeLaunch, AfterLaunch
  <2>6. OfType(tracked', RuntimeTypes) = {}
    BY <2>1, <2>2 DEF LostAt, OfType, RuntimeTypes, GroupTypes, BeforeLaunch
  <2>7. LostAt(c)'
    BY <2>1, <2>2, <2>6, LostKept DEF BeforeLaunch, AfterLaunch, GroupTypes
  <2> QED BY <2>1, <2>3, <2>4, <2>5, <2>7 DEF OffHasNone
<1>7. CASE LaunchCoordinator(c)
  <2> DEFINE r == Coordinator(c)
  <2>1. pc[c] = "launch_coordinator" /\ Make(c, r, "record_coordinator")
    BY <1>7 DEF LaunchCoordinator, Coordinator
  <2>2. r.type = "coordinator_instance" /\ r.id = attempt[c] /\ r \in OfType({r}, ComputeTypes)
    BY DEF Coordinator, OfType, ComputeTypes
  <2>3. Known = {} /\ status = "Creating" /\ attempt[c] <= starts /\ OfType(tracked, RuntimeTypes) = {}
    BY <2>1 DEF ComputeAt, StatusAt, LostAt, StartPcs, BeforeLaunch
  <2>4. r \notin lost
    BY <2>1, <2>2 DEF LostAt, OfType, BeforeLaunch
  <2>5. ~Listed("coordinator_instance", attempt[c])
    BY <2>3 DEF Listed, OfType, RuntimeTypes
  <2>6. /\ live' = live \union {r} /\ tracked' = tracked /\ status' = status /\ starts' = starts
        /\ attempt' = attempt /\ group' = group
        /\ \/ pc' = [pc EXCEPT ![c] = "record_coordinator"] /\ lost' = lost
           \/ pc' = [pc EXCEPT ![c] = "start_failed"] /\ lost' = lost \union {r}
    BY <2>1, MakeMeans
  <2>7. Coordinator(c)' = r
    BY <2>6 DEF Coordinator
  <2> HIDE DEF r
  <2>8. CASE pc' = [pc EXCEPT ![c] = "record_coordinator"] /\ lost' = lost
    <3>1. Known' = {r}
      BY <2>2, <2>3, <2>4, <2>6, <2>8 DEF Known, Compute, OfType
    <3>2. \A q : q.type = "coordinator_instance" /\ q.id = attempt[c] => AboutTo(c, q)'
      BY <2>6, <2>8 DEF AboutTo
    <3>3. Accounted'
      BY <2>2, <3>1, <3>2 DEF Accounted
    <3>4. StatusAt(c)' /\ ComputeAt(c)'
      BY <2>3, <2>6, <2>7, <2>8, <3>1 DEF StatusAt, ComputeAt, StartPcs, CleanupPcs, BeforeLaunch, AfterLaunch
    <3>5. LostAt(c)'
      BY <2>1, <2>6, <2>8, LostKept DEF BeforeLaunch, AfterLaunch
    <3> QED BY <2>3, <2>6, <3>3, <3>4, <3>5 DEF OffHasNone, NoCluster
  <2>9. CASE pc' = [pc EXCEPT ![c] = "start_failed"] /\ lost' = lost \union {r}
    <3>1. Known' = {}
      BY <2>3, <2>6, <2>9 DEF Known, Compute, OfType
    <3>2. StatusAt(c)' /\ ComputeAt(c)'
      BY <2>3, <2>6, <2>9 DEF StatusAt, ComputeAt, StartPcs, CleanupPcs, BeforeLaunch, AfterLaunch
    <3>3. LostAt(c)'
      BY <2>2, <2>3, <2>5, <2>6, <2>9 DEF LostAt, Listed, OfType, BeforeLaunch, AfterLaunch
    <3> QED BY <2>3, <2>6, <3>1, <3>2, <3>3 DEF OffHasNone, Accounted
  <2> QED BY <2>6, <2>8, <2>9
<1>8. CASE RecordCoordinator(c)
  <2>0. /\ tracked' = Recorded({Row("coordinator_instance", attempt[c])}) /\ attempt[c] \in Nat
        /\ live' = live /\ lost' = lost /\ status' = status /\ starts' = starts
        /\ attempt' = attempt /\ group' = group
        /\ pc[c] = "record_coordinator" /\ pc' = [pc EXCEPT ![c] = "create_template"]
    BY <1>8 DEF RecordCoordinator, Record
  <2>1. /\ tracked \subseteq tracked'
        /\ \E r \in tracked' : r.type = "coordinator_instance" /\ r.id = attempt[c]
    BY <2>0, RecordedLists
  <2>2. Known' = Known /\ Coordinator(c)' = Coordinator(c)
    BY <2>0 DEF Known, Compute, Coordinator
  <2>3. Accounted'
    <3>1. \A r \in Known : Listed(r.type, r.id) \/ (r.type = "coordinator_instance" /\ r.id = attempt[c])
      BY <2>0, SoloMeans DEF Accounted, AboutTo
    <3> QED BY <2>1, <2>2, <3>1 DEF Accounted, Listed
  <2>4. StatusAt(c)' /\ ComputeAt(c)'
    BY <2>0, <2>2 DEF StatusAt, ComputeAt, StartPcs, CleanupPcs, BeforeLaunch, AfterLaunch
  <2>5. \A q \in tracked' : q \in tracked \/ q.id = attempt[c]
    BY <2>0 DEF Recorded, Row
  <2>6. LostAt(c)'
    BY <2>0, <2>5 DEF LostAt, Listed, OfType, BeforeLaunch, AfterLaunch
  <2> QED BY <2>0, <2>2, <2>3, <2>4, <2>6 DEF OffHasNone
<1>9. CASE CreateTemplate(c)
  <2> DEFINE r == [type |-> "launch_template", id |-> attempt[c], group |-> group[c]]
  <2>1. pc[c] = "create_template" /\ Make(c, r, "record_template")
    BY <1>9 DEF CreateTemplate
  <2>2. r.type = "launch_template"
    OBVIOUS
  <2> HIDE DEF r
  <2>3. /\ live' = live \union {r} /\ tracked' = tracked /\ status' = status /\ starts' = starts
        /\ attempt' = attempt /\ group' = group
        /\ \/ pc' = [pc EXCEPT ![c] = "record_template"] /\ lost' = lost
           \/ pc' = [pc EXCEPT ![c] = "start_failed"] /\ lost' = lost \union {r}
    BY <2>1, MakeMeans
  <2>4. Known' = Known /\ Coordinator(c)' = Coordinator(c)
    BY <2>2, <2>3 DEF Known, Compute, OfType, ComputeTypes, Coordinator
  <2>5. Accounted'
    <3>1. \A q \in Known : Listed(q.type, q.id)
      BY <2>1, SoloMeans DEF Accounted, AboutTo
    <3> QED BY <2>3, <2>4, <3>1 DEF Accounted, Listed
  <2>6. StatusAt(c)' /\ ComputeAt(c)'
    BY <2>1, <2>3, <2>4 DEF StatusAt, ComputeAt, StartPcs, CleanupPcs, BeforeLaunch, AfterLaunch
  <2>7. LostAt(c)'
    BY <2>1, <2>2, <2>3 DEF LostAt, Listed, OfType, BeforeLaunch, AfterLaunch
  <2> QED BY <2>3, <2>4, <2>5, <2>6, <2>7 DEF OffHasNone
<1>10. CASE RecordTemplate(c)
  <2>1. /\ live' = live /\ lost' = lost /\ status' = status /\ starts' = starts /\ attempt' = attempt
        /\ group' = group /\ tracked' = Recorded({Row("launch_template", attempt[c])})
        /\ pc[c] = "record_template" /\ pc' = [pc EXCEPT ![c] = "create_workers"]
    BY <1>10 DEF RecordTemplate, Record
  <2>2. tracked \subseteq tracked' /\ \A q \in tracked' : q \in tracked \/ q.type # "coordinator_instance"
    BY <2>1 DEF Recorded, Row
  <2>3. Known' = Known /\ Coordinator(c)' = Coordinator(c)
    BY <2>1 DEF Known, Compute, Coordinator
  <2>4. Accounted'
    <3>1. \A r \in Known : Listed(r.type, r.id)
      BY <2>1, SoloMeans DEF Accounted, AboutTo
    <3> QED BY <2>2, <2>3, <3>1 DEF Accounted, Listed
  <2>5. StatusAt(c)' /\ ComputeAt(c)'
    BY <2>1, <2>3 DEF StatusAt, ComputeAt, StartPcs, CleanupPcs, BeforeLaunch, AfterLaunch
  <2>6. LostAt(c)'
    BY <2>1, <2>2, LostKept DEF BeforeLaunch, AfterLaunch
  <2> QED BY <2>1, <2>3, <2>4, <2>5, <2>6 DEF OffHasNone
<1>11. CASE CreateWorkers(c)
  <2> DEFINE r == [type |-> "auto_scaling_group", id |-> 0, group |-> group[c]]
  <2>1. pc[c] = "create_workers" /\ Make(c, r, "record_workers")
    BY <1>11 DEF CreateWorkers
  <2>2. r.type = "auto_scaling_group" /\ r.id = 0
    OBVIOUS
  <2> HIDE DEF r
  <2>3. /\ live' = live \union {r} /\ tracked' = tracked /\ status' = status /\ starts' = starts
        /\ attempt' = attempt /\ group' = group
        /\ \/ pc' = [pc EXCEPT ![c] = "record_workers"] /\ lost' = lost
           \/ pc' = [pc EXCEPT ![c] = "start_failed"] /\ lost' = lost \union {r}
    BY <2>1, MakeMeans
  <2>4. /\ \A q \in Known' : q \in Known \/ (q = r /\ pc' = [pc EXCEPT ![c] = "record_workers"])
        /\ Coordinator(c)' = Coordinator(c) /\ Coordinator(c) # r
    BY <2>2, <2>3 DEF Known, Compute, OfType, ComputeTypes, Coordinator
  <2>5. Coordinator(c) \in Known /\ Coordinator(c) \in Known'
    <3>1. Coordinator(c) \in Known
      BY <2>1 DEF ComputeAt, AfterLaunch
    <3> QED BY <2>3, <2>4, <3>1 DEF Known, Compute, OfType
  <2>6. \A q \in Known : Listed(q.type, q.id)
    BY <2>1, SoloMeans DEF Accounted, AboutTo
  <2>7. Accounted'
    <3>1. pc' = [pc EXCEPT ![c] = "record_workers"] =>
            \A q : q.type = "auto_scaling_group" /\ q.id = 0 => AboutTo(c, q)'
      BY DEF AboutTo
    <3>2. \A q \in Known : Listed(q.type, q.id)'
      BY <2>3, <2>6 DEF Listed
    <3> QED BY <2>2, <2>4, <3>1, <3>2 DEF Accounted
  <2>8. StatusAt(c)' /\ ComputeAt(c)'
    BY <2>1, <2>3, <2>4, <2>5 DEF StatusAt, ComputeAt, StartPcs, CleanupPcs, BeforeLaunch, AfterLaunch
  <2>9. LostAt(c)'
    BY <2>1, <2>2, <2>3 DEF LostAt, Listed, OfType, BeforeLaunch, AfterLaunch
  <2>10. OffHasNone'
    BY <2>1, <2>3 DEF StatusAt, StartPcs, OffHasNone, NoCluster
  <2> QED BY <2>7, <2>8, <2>9, <2>10
<1>12. CASE RecordWorkers(c)
  <2>0. /\ tracked' = Recorded({Row("auto_scaling_group", 0)}) /\ starts' = starts
        /\ live' = live /\ lost' = lost /\ status' = "Starting" /\ pc[c] = "record_workers"
        /\ pc' = [pc EXCEPT ![c] = "idle"]
    BY <1>12 DEF RecordWorkers
  <2>1. /\ tracked \subseteq tracked'
        /\ \E r \in tracked' : r.type = "auto_scaling_group" /\ r.id = 0
    BY ONLY <2>0, RecordedLists
  <2>2. Known' = Known
    BY <2>0 DEF Known, Compute
  <2>3. Accounted'
    <3>1. \A r \in Known : Listed(r.type, r.id) \/ (r.type = "auto_scaling_group" /\ r.id = 0)
      BY <2>0, SoloMeans DEF Accounted, AboutTo
    <3> QED BY <2>1, <2>2, <3>1 DEF Accounted, Listed
  <2>4. StatusAt(c)' /\ ComputeAt(c)'
    BY <2>0 DEF StatusAt, ComputeAt, Settled, StartPcs, CleanupPcs, BeforeLaunch, AfterLaunch
  <2>5. \A q \in tracked' : q \in tracked \/ q.type # "coordinator_instance"
    BY <2>0 DEF Recorded, Row
  <2>6. LostAt(c)'
    BY <2>0, <2>5, LostKept DEF BeforeLaunch, AfterLaunch
  <2> QED BY <2>0, <2>3, <2>4, <2>6 DEF OffHasNone, NoCluster
<1>13. CASE StartStepFails(c)
  <2>1. /\ live' = live /\ lost' = lost /\ tracked' = tracked /\ status' = status /\ pc[c] \in StartPcs
        /\ starts' = starts /\ pc' = [pc EXCEPT ![c] = "start_failed"]
        /\ RowExists => pc[c] \notin {"record_coordinator", "record_workers"}
    BY <1>13 DEF StartStepFails, StartPcs
  <2>2. RowExists
    BY <2>1 DEF StatusAt, RowExists, NoCluster
  <2>3. Known' = Known /\ Accounted'
    BY <2>1, <2>2, QuietStep
  <2>4. StatusAt(c)' /\ ComputeAt(c)'
    BY <2>1 DEF StatusAt, ComputeAt, StartPcs, CleanupPcs, BeforeLaunch, AfterLaunch
  <2>5. LostAt(c)'
    BY <2>1, LostKept DEF BeforeLaunch, AfterLaunch
  <2> QED BY <2>1, <2>3, <2>4, <2>5 DEF OffHasNone
<1>14. CASE StartFailed(c)
  <2>1. /\ live' = live /\ lost' = lost /\ tracked' = tracked /\ pc[c] = "start_failed"
        /\ starts' = starts /\ pc' = [pc EXCEPT ![c] = "idle"]
        /\ RowExists => status' = "Failed"
    BY <1>14 DEF StartFailed
  <2>2. RowExists
    BY <2>1 DEF StatusAt, StartPcs, RowExists, NoCluster
  <2>3. Known' = Known /\ Accounted'
    BY <2>1, QuietStep
  <2>4. StatusAt(c)' /\ ComputeAt(c)'
    BY <2>1, <2>2 DEF StatusAt, ComputeAt, Settled, StartPcs, CleanupPcs, BeforeLaunch, AfterLaunch
  <2>5. LostAt(c)'
    BY <2>1, LostKept DEF BeforeLaunch, AfterLaunch
  <2> QED BY <2>1, <2>2, <2>3, <2>4, <2>5 DEF OffHasNone, NoCluster
<1> QED BY <1>2, <1>3, <1>4, <1>5, <1>6, <1>7, <1>8, <1>9, <1>10, <1>11, <1>12, <1>13, <1>14, <1>15, <1>16 DEF StartStep

\* suspend_cluster, disable_cluster and delete_cluster keep it.
LEMMA TeardownStepSolo ==
  ASSUME TypeOK, OneOperator, SoloInv, NEW c \in Callers, TeardownStep(c) \/ TeardownRead(c)
  PROVE  SoloInv'
<1>0. /\ pc \in [Callers -> Pcs] /\ op \in [Callers -> Operations \union {"none"}]
      /\ snap \in [Callers -> SUBSET Rows] /\ batch \in [Callers -> SUBSET Rows]
      /\ failed \in [Callers -> BOOLEAN]
      /\ StatusAt(c) /\ ComputeAt(c) /\ LostAt(c) /\ Accounted /\ OffHasNone
  BY SoloMeans DEF TypeOK
<1> USE <1>0 DEF Goto, Return, dbVars, awsVars, boundVars, startVars, cleanVars
<1>12. LostAt(c)'
  <2>1. lost' = lost /\ starts' = starts /\ tracked' \subseteq tracked
    BY DEF TeardownStep, TeardownRead, Enter, TeardownMark, DeleteRuntime, DeleteRuntimeFails, Forget,
       RuntimeCleaned, WaitForInstances, DeleteGroup, DeleteGroupFails, SkipSharedGroup, GroupsCleaned,
       FinishTeardown, FinishDelete, TeardownRaises
  <2>2. pc'[c] \in CleanupPcs \union {"mark", "idle"}
    BY DEF TeardownStep, TeardownRead, Enter, Idle, TeardownMark, DeleteRuntime, DeleteRuntimeFails, Forget,
       RuntimeCleaned, WaitForInstances, DeleteGroup, DeleteGroupFails, SkipSharedGroup, GroupsCleaned,
       FinishTeardown, FinishDelete, TeardownRaises, CleanupPcs
  <2> QED BY <2>1, <2>2, LostKept DEF BeforeLaunch, AfterLaunch, CleanupPcs
<1>1. SUFFICES StatusAt(c)' /\ ComputeAt(c)' /\ Accounted' /\ OffHasNone'
  BY <1>12, SoloMeans
<1>2. CASE TeardownRead(c)
  <2>1. /\ live' = live /\ lost' = lost /\ tracked' = tracked /\ status' = status /\ status # NoCluster
        /\ pc[c] = "idle" /\ pc' = [pc EXCEPT ![c] = "mark"] /\ snap' = [snap EXCEPT ![c] = tracked]
    BY <1>2 DEF TeardownRead, Enter, Idle, RowExists
  <2>2. Known' = Known /\ Accounted'
    BY <2>1, QuietStep
  <2>3. Covered(Known, tracked)
    BY <2>1, SoloMeans DEF Accounted, AboutTo, Listed, Covered
  <2>4. StatusAt(c)'
    BY <2>1 DEF StatusAt, Settled, StartPcs, CleanupPcs
  <2>5. ComputeAt(c)'
    BY <2>1, <2>2, <2>3 DEF ComputeAt, CleanupPcs, BeforeLaunch, AfterLaunch
  <2> QED BY <2>1, <2>2, <2>4, <2>5 DEF OffHasNone
<1>3. CASE TeardownMark(c)
  <2>1. /\ live' = live /\ lost' = lost /\ tracked' = tracked /\ op' = op /\ snap' = snap /\ failed' = failed
        /\ status' = IF op[c] = "delete" THEN "Deleting" ELSE "Suspending"
        /\ pc[c] = "mark" /\ pc' = [pc EXCEPT ![c] = "cleanup"]
    BY <1>3 DEF TeardownMark
  <2>2. Known' = Known /\ Accounted'
    BY <2>1, QuietStep
  <2>3. StatusAt(c)'
    BY <2>1 DEF StatusAt, Settled, StartPcs, CleanupPcs
  <2>4. ComputeAt(c)'
    BY <2>1, <2>2 DEF ComputeAt, CleanupPcs, BeforeLaunch, AfterLaunch
  <2> QED BY <2>1, <2>2, <2>3, <2>4 DEF OffHasNone, NoCluster
<1>4. CASE DeleteRuntime(c) \/ DeleteGroup(c)
  <2>1. PICK rows : live' = live \ Named(rows) /\ batch' = [batch EXCEPT ![c] = rows]
    BY <1>4 DEF DeleteRuntime, DeleteGroup, Remove
  <2>2. /\ tracked' = tracked /\ lost' = lost /\ status' = status /\ pc[c] \in CleanupPcs /\ op' = op
        /\ snap' = snap /\ failed' = failed /\ pc' = [pc EXCEPT ![c] = "forget"]
    BY <1>4 DEF DeleteRuntime, DeleteGroup, CleanupPcs
  <2>3. Known' \subseteq Known /\ Named(rows)' = {}
    BY <2>1, <2>2 DEF Known, Compute, OfType, Named
  <2>4. Accounted'
    <3>1. \A r \in Known : Listed(r.type, r.id)
      BY <2>2, SoloMeans DEF Accounted, AboutTo, CleanupPcs
    <3> QED BY <2>2, <2>3, <3>1 DEF Accounted, Listed
  <2>5. StatusAt(c)'
    BY <2>2 DEF StatusAt, StartPcs, CleanupPcs, BeforeLaunch, AfterLaunch
  <2>6. batch'[c] = rows
    BY <2>1
  <2>7. ComputeAt(c)'
    BY <2>2, <2>3, <2>6 DEF ComputeAt, CleanupPcs, Covered, Named, BeforeLaunch, AfterLaunch
  <2> QED BY <2>2, <2>3, <2>4, <2>5, <2>7 DEF OffHasNone
<1>5. CASE DeleteRuntimeFails(c)
  <2>1. live' \subseteq live
    BY <1>5 DEF DeleteRuntimeFails, Remove
  <2>2. /\ lost' = lost /\ tracked' = tracked /\ status' = status /\ pc' = pc /\ op' = op
        /\ pc[c] = "cleanup" /\ failed'[c]
    BY <1>5 DEF DeleteRuntimeFails
  <2>3. Known' \subseteq Known
    BY <2>1, <2>2 DEF Known, Compute, OfType
  <2>4. Accounted'
    <3>1. \A r \in Known : Listed(r.type, r.id)
      BY <2>2, SoloMeans DEF Accounted, AboutTo
    <3> QED BY <2>2, <2>3, <3>1 DEF Accounted, Listed
  <2>5. StatusAt(c)' /\ ComputeAt(c)'
    BY <2>2 DEF StatusAt, ComputeAt, StartPcs, CleanupPcs, BeforeLaunch, AfterLaunch
  <2> QED BY <2>2, <2>3, <2>4, <2>5 DEF OffHasNone
<1>6. CASE Forget(c)
  <2>1. PICK r \in batch[c] :
          /\ tracked' = tracked \ {r}
          /\ snap'  = [snap EXCEPT ![c] = @ \ {r}]
          /\ batch' = [batch EXCEPT ![c] = @ \ {r}]
          /\ pc' = [pc EXCEPT ![c] = IF batch[c] # {r} THEN "forget"
                  ELSE IF r.type \in GroupTypes THEN "cleanup_groups" ELSE "cleanup"]
    BY <1>6 DEF Forget
  <2>2. live' = live /\ lost' = lost /\ status' = status /\ op' = op /\ failed' = failed /\ pc[c] = "forget"
    BY <1>6 DEF Forget
  <2>3. \A q \in Known : ~(r.type = q.type /\ r.id = q.id)
    BY <2>1, <2>2 DEF ComputeAt, Named, Known, Compute, OfType
  <2>4. Known' = Known
    BY <2>2 DEF Known, Compute
  <2>5. Accounted'
    <3>1. \A q \in Known : Listed(q.type, q.id)
      BY <2>2, SoloMeans DEF Accounted, AboutTo
    <3>2. \A q \in Known : \E row \in tracked \ {r} : row.type = q.type /\ row.id = q.id
      BY <2>3, <3>1 DEF Listed
    <3> QED BY <2>1, <2>4, <3>2 DEF Accounted, Listed
  <2>6. pc'[c] \in {"forget", "cleanup_groups", "cleanup"} /\ snap'[c] = snap[c] \ {r}
        /\ batch'[c] = batch[c] \ {r}
    BY <2>1
  <2>7. Covered(Known, snap[c]) => Covered(Known, snap[c] \ {r})
    BY <2>3 DEF Covered
  <2>8. Named(batch[c] \ {r}) = {}
    BY <2>2 DEF ComputeAt, Named
  <2>9. StatusAt(c)'
    BY <2>2, <2>6 DEF StatusAt, StartPcs, CleanupPcs, BeforeLaunch, AfterLaunch
  <2>10. ComputeAt(c)'
    BY <2>2, <2>4, <2>6, <2>7, <2>8 DEF ComputeAt, CleanupPcs, Named, BeforeLaunch, AfterLaunch
  <2> QED BY <2>2, <2>4, <2>5, <2>9, <2>10 DEF OffHasNone
<1>7. CASE RuntimeCleaned(c) \/ WaitForInstances(c) \/ GroupsCleaned(c)
  <2>1. /\ live' = live /\ lost' = lost /\ tracked' = tracked /\ status' = status /\ op' = op /\ snap' = snap
        /\ pc[c] \in {"cleanup", "wait", "cleanup_groups"}
        /\ pc'[c] \in {"wait", "cleanup_groups", "finish"}
        /\ pc'[c] = "finish" => snap[c] = {}
        /\ failed[c] => failed'[c]
    BY <1>7 DEF RuntimeCleaned, WaitForInstances, GroupsCleaned
  <2>2. Known' = Known /\ Accounted'
    BY <2>1, QuietStep
  <2>3. StatusAt(c)' /\ ComputeAt(c)'
    BY <2>1, <2>2 DEF StatusAt, ComputeAt, StartPcs, CleanupPcs, BeforeLaunch, AfterLaunch
  <2> QED BY <2>1, <2>2, <2>3 DEF OffHasNone
<1>8. CASE DeleteGroupFails(c) \/ SkipSharedGroup(c)
  <2>1. PICK r \in OfType(snap[c], GroupTypes) :
          /\ snap' = [snap EXCEPT ![c] = @ \ {r}]
          /\ tracked' = tracked \/ tracked' = tracked \ {r}
    BY <1>8 DEF DeleteGroupFails, SkipSharedGroup, OfType, GroupTypes
  <2>2. /\ lost' = lost /\ status' = status /\ op' = op /\ pc[c] = "cleanup_groups" /\ pc' = pc
        /\ failed[c] => failed'[c]
    BY <1>8 DEF DeleteGroupFails, SkipSharedGroup
  <2>3. \A q \in Known : r.type # q.type
    BY <2>1 DEF Known, Compute, OfType, GroupTypes, ComputeTypes
  <2>4. Known' = Known
    <3>1. \A q : q \in live /\ q \notin live' => q.type \in GroupTypes
      BY <1>8 DEF DeleteGroupFails, SkipSharedGroup, Remove, Named, OfType, GroupTypes
    <3>2. live' \subseteq live
      BY <1>8 DEF DeleteGroupFails, SkipSharedGroup, Remove
    <3> QED BY <2>2, <3>1, <3>2 DEF Known, Compute, OfType, GroupTypes, ComputeTypes
  <2>5. Accounted'
    <3>1. \A q \in Known : Listed(q.type, q.id)
      BY <2>2, SoloMeans DEF Accounted, AboutTo
    <3>2. \A q \in Known : \E row \in tracked' : row.type = q.type /\ row.id = q.id
      BY <2>1, <2>3, <3>1 DEF Listed
    <3> QED BY <2>4, <3>2 DEF Accounted, Listed
  <2>6. snap'[c] = snap[c] \ {r}
    BY <2>1
  <2>7. Covered(Known, snap[c]) => Covered(Known, snap[c] \ {r})
    BY <2>3 DEF Covered
  <2>8. StatusAt(c)' /\ ComputeAt(c)'
    BY <2>2, <2>4, <2>6, <2>7 DEF StatusAt, ComputeAt, StartPcs, CleanupPcs, BeforeLaunch, AfterLaunch
  <2> QED BY <2>2, <2>4, <2>5, <2>8 DEF OffHasNone
<1>9. CASE FinishTeardown(c)
  <2>1. /\ live' = live /\ lost' = lost /\ tracked' = tracked
        /\ pc[c] = "finish" /\ pc' = [pc EXCEPT ![c] = "idle"]
    BY <1>9 DEF FinishTeardown
  <2>2. Known' = Known /\ Accounted'
    BY <2>1, QuietStep
  <2>3. status' \in {"Failed", "Suspended", "Not enabled"} /\ (failed[c] => status' = "Failed")
    BY <1>9 DEF FinishTeardown
  <2>4. ~failed[c] => Known = {}
    BY <2>1 DEF ComputeAt, Covered, CleanupPcs
  <2>5. StatusAt(c)' /\ ComputeAt(c)'
    BY <2>1, <2>3 DEF StatusAt, ComputeAt, Settled, StartPcs, CleanupPcs, BeforeLaunch, AfterLaunch
  <2> QED BY <2>2, <2>3, <2>4, <2>5 DEF OffHasNone, NoCluster
<1>10. CASE FinishDelete(c)
  <2>1. /\ live' = live /\ lost' = lost /\ status' = NoCluster
        /\ pc[c] = "finish" /\ ~failed[c] /\ pc' = [pc EXCEPT ![c] = "idle"]
    BY <1>10 DEF FinishDelete
  <2>2. Known = {} /\ Known' = {}
    BY <2>1 DEF ComputeAt, Covered, CleanupPcs, Known, Compute
  <2>3. StatusAt(c)' /\ ComputeAt(c)'
    BY <2>1 DEF StatusAt, ComputeAt, Settled, StartPcs, CleanupPcs, BeforeLaunch, AfterLaunch
  <2> QED BY <2>2, <2>3 DEF OffHasNone, Accounted
<1>11. CASE TeardownRaises(c)
  BY <1>11 DEF TeardownRaises, RowExists, StatusAt, CleanupPcs, NoCluster
<1> QED BY <1>2, <1>3, <1>4, <1>5, <1>6, <1>7, <1>8, <1>9, <1>10, <1>11 DEF TeardownStep

\* Edits and health checks keep it.
LEMMA OtherStepSolo ==
  ASSUME TypeOK, OneOperator, SoloInv, NEW c \in Callers,
         ResizeStep(c) \/ HealthStep(c) \/ ResizeRead(c) \/ HealthRead(c)
  PROVE  SoloInv'
<1>0. /\ pc \in [Callers -> Pcs] /\ attempt \in [Callers -> Nat]
      /\ StatusAt(c) /\ ComputeAt(c) /\ LostAt(c) /\ Accounted /\ OffHasNone
  BY SoloMeans DEF TypeOK
<1> USE <1>0 DEF Goto, Return, dbVars, awsVars, boundVars, startVars, cleanVars
<1>1. /\ live' = live /\ lost' = lost /\ tracked' = tracked /\ starts' = starts
      /\ pc[c] \in {"idle", "resize_find", "resize_mark", "resize_finish", "probe", "health_write"}
      /\ pc'[c] \in {"idle", "resize_find", "resize_mark", "resize_finish", "probe", "health_write"}
  BY DEF ResizeStep, ResizeFind, ResizeMark, ResizeFinish, HealthStep, Probe, HealthWrite,
         ResizeRead, HealthRead, Enter, Idle
<1>2. Known' = Known /\ Accounted'
  BY <1>1, QuietStep
<1>11. LostAt(c)'
  <2>1. CASE HealthRead(c)
    <3>1. PICK r \in OfType(tracked, {"coordinator_instance"}) : attempt' = [attempt EXCEPT ![c] = r.id]
      BY <2>1 DEF HealthRead
    <3>2. attempt'[c] = r.id /\ r \in tracked' /\ r.type = "coordinator_instance"
      BY <1>1, <3>1 DEF OfType
    <3>3. Listed("coordinator_instance", attempt[c])'
      BY <3>2 DEF Listed
    <3> QED BY <1>1, <3>3 DEF LostAt, Listed, BeforeLaunch, AfterLaunch
  <2>2. CASE ~HealthRead(c)
    <3>1. pc'[c] # "probe"
      BY <2>2 DEF ResizeStep, ResizeFind, ResizeMark, ResizeFinish, HealthStep, Probe, HealthWrite,
         ResizeRead, Enter, Idle
    <3> QED BY <1>1, <3>1, LostKept DEF BeforeLaunch, AfterLaunch
  <2> QED BY <2>1, <2>2
<1>3. SUFFICES StatusAt(c)' /\ ComputeAt(c)' /\ OffHasNone'
  BY <1>2, <1>11, SoloMeans
<1> USE DEF StatusAt, ComputeAt, OffHasNone, Settled, StartPcs, CleanupPcs, BeforeLaunch, AfterLaunch,
            NoCluster, SetStatus, RowExists
<1>4. CASE ResizeRead(c)
  BY <1>2, <1>4 DEF ResizeRead, Enter, Idle
<1>5. CASE ResizeFind(c)
  BY <1>2, <1>5 DEF ResizeFind
<1>6. CASE ResizeMark(c)
  BY <1>2, <1>6 DEF ResizeMark
<1>7. CASE ResizeFinish(c)
  BY <1>2, <1>7 DEF ResizeFinish
<1>8. CASE HealthRead(c)
  BY <1>2, <1>8 DEF HealthRead, Enter, Idle
<1>9. CASE Probe(c)
  <2>1. Healthy(attempt[c]) => Known # {}
    BY <1>9 DEF Probe, LostAt, Healthy, Known, Compute, OfType, ComputeTypes
  <2>2. /\ status' = status /\ pc[c] = "probe"
        /\ pc'[c] \in {"health_write", "idle"}
        /\ pc'[c] = "health_write" => Healthy(attempt[c])
    BY <1>9 DEF Probe
  <2>3. CASE pc'[c] = "health_write"
    BY <1>2, <2>1, <2>2, <2>3
  <2>4. CASE pc'[c] = "idle"
    BY <1>2, <2>2, <2>4
  <2> QED BY <2>2, <2>3, <2>4
<1>10. CASE HealthWrite(c)
  BY <1>2, <1>10 DEF HealthWrite
<1> QED BY <1>4, <1>5, <1>6, <1>7, <1>8, <1>9, <1>10 DEF ResizeStep, HealthStep

\* With one operator and no crash the invariant holds throughout.
LEMMA SoloAlways ==
  ASSUME OneOperator, MaxCrashes = 0
  PROVE  Spec => []SoloInv
<1>1. Init => SoloInv
  <2> SUFFICES ASSUME Init PROVE SoloInv
    OBVIOUS
  <2>1. \A c \in Callers : pc[c] = "idle"
    BY DEF Init, IdleInit
  <2>2. CASE FreshInit
    BY <2>1, <2>2 DEF FreshInit, Init, IdleInit, SoloInv, StatusAt, ComputeAt, LostAt, Accounted, OffHasNone,
       Known, Compute, OfType, Settled, StartPcs, CleanupPcs, BeforeLaunch, AfterLaunch, BeforeLaunch, AfterLaunch
  <2>3. CASE UpInit
    <3>1. \A r \in live : Listed(r.type, r.id)
      BY <2>3 DEF UpInit, Listed
    <3>2. Accounted
      BY <3>1 DEF Accounted, Known, Compute, OfType
    <3>3. \A c \in Callers : LostAt(c)
      BY <2>1 DEF Init, IdleInit, LostAt, OfType, BeforeLaunch, AfterLaunch
    <3> QED BY <2>1, <2>3, <3>2, <3>3 DEF UpInit, SoloInv, StatusAt, ComputeAt, OffHasNone, Settled, StartPcs,
         CleanupPcs, BeforeLaunch, AfterLaunch, NoCluster
  <2> QED BY <2>2, <2>3 DEF Init
<1>2. TypeOK /\ SoloInv /\ [Next]_vars => SoloInv'
  <2> SUFFICES ASSUME TypeOK, SoloInv, [Next]_vars PROVE SoloInv'
    OBVIOUS
  <2>1. ASSUME NEW c \in Callers, Begin(c) \/ Continue(c) PROVE SoloInv'
    BY <2>1, StartStepSolo, TeardownStepSolo, OtherStepSolo DEF Begin, Continue
  <2>2. CASE UNCHANGED <<status, tracked, live, lost, starts, pc, op, seen, attempt, group, snap, batch, failed>>
    <3>1. Known' = Known /\ Accounted' /\ OffHasNone'
      BY <2>2 DEF SoloInv, Accounted, AboutTo, OffHasNone, Listed, Known, Compute
    <3>2. ASSUME NEW c \in Callers PROVE StatusAt(c)' /\ ComputeAt(c)' /\ LostAt(c)'
      BY ZenonT(40), <2>2, <3>1 DEF SoloInv, StatusAt, ComputeAt, LostAt, Listed, Coordinator, Covered, Named
    <3> QED BY <3>1, <3>2 DEF SoloInv
  <2>3. CASE Boot \/ Vanish \/ UNCHANGED vars
    BY <2>2, <2>3 DEF Boot, Vanish, vars, dbVars, awsVars, boundVars, startVars, cleanVars
  <2>4. ~Crash
    <3>1. crashes \in Nat
      BY DEF TypeOK
    <3> QED BY <3>1 DEF Crash
  <2> QED BY <2>1, <2>2, <2>3, <2>4 DEF Next
<1> QED BY <1>1, <1>2, TypeCorrect, PTL DEF Spec

\* One operator loses no node that AWS answered for: it is tracked, or the start that made
\* it is about to record it, whatever fails on the way.  Only a node or a worker group made
\* by a call whose answer is lost runs without a record.
THEOREM LiveIsTrackedAlways ==
  ASSUME OneOperator, MaxCrashes = 0
  PROVE  Spec => []LiveIsTracked
<1>1. Spec => []SoloInv
  BY SoloAlways
<1>2. SoloInv => LiveIsTracked
  BY DEF SoloInv, Accounted, AboutTo, LiveIsTracked, Listed
<1> QED BY <1>1, <1>2, PTL

\* The mode of each status.
LEMMA ModeOf ==
  /\ status \in {"Not enabled", "Suspended"} => Mode = "off"
  /\ status = "Creating" => Mode = "provisioning"
  /\ status \in {"Starting", "Running", "Updating"} => Mode = "on"
  /\ status \in {"Suspending", "Deleting"} => Mode = "stopping"
  /\ status = "Failed" => Mode = "broken"
  /\ status = NoCluster => Mode = "gone"
BY DEF Mode, NoCluster

\* The same after the step.
LEMMA ModeAfter ==
  /\ status' \in {"Not enabled", "Suspended"} => Mode' = "off"
  /\ status' = "Creating" => Mode' = "provisioning"
  /\ status' \in {"Starting", "Running", "Updating"} => Mode' = "on"
  /\ status' \in {"Suspending", "Deleting"} => Mode' = "stopping"
  /\ status' = "Failed" => Mode' = "broken"
  /\ status' = NoCluster => Mode' = "gone"
BY DEF Mode, NoCluster

\* A step that ClusterService allows, or one it does not see.
ServiceStep == [Service!Next]_<<Mode, Known # {}>>

\* start_cluster is Provision, Launch, TurnOn and Break.
LEMMA StartStepService ==
  ASSUME TypeOK, OneOperator, SoloInv, NEW c \in Callers, StartStep(c) \/ StartRead(c)
  PROVE  ServiceStep
<1>0. pc \in [Callers -> Pcs] /\ StatusAt(c) /\ ComputeAt(c)
  BY SoloMeans DEF TypeOK
<1> USE <1>0 DEF ServiceStep, dbVars, awsVars
<1>1. CASE status' = status /\ (Known' = {} <=> Known = {})
  BY <1>1 DEF Mode
<1>2. CASE StartClaim(c)
  <2>1. Mode \in {"off", "broken"} /\ Mode' = "provisioning" /\ Known = {} /\ Known' = {}
    BY <1>2, ModeOf, ModeAfter DEF StartClaim, StatusAt, ComputeAt, BeforeLaunch, Known, Compute
  <2> QED BY <2>1 DEF Service!Next, Service!Provision
<1>3. CASE LaunchCoordinator(c) \/ CreateWorkers(c)
  <2>1. status = "Creating" /\ status' = status
    BY <1>3 DEF LaunchCoordinator, CreateWorkers, Make, StatusAt, StartPcs
  <2>2. Mode = "provisioning" /\ Mode' = Mode
    BY <2>1, ModeOf, ModeAfter
  <2>3. CASE Known' = {} <=> Known = {}
    BY <2>1, <2>3, <1>1
  <2>4. CASE Known' # {}
    BY <2>2, <2>4 DEF Service!Next, Service!Launch
  <2>5. CASE Known' = {} /\ Known # {}
    <3>1. CreateWorkers(c) /\ Coordinator(c) \in Known
      BY <1>3, <2>5 DEF LaunchCoordinator, CreateWorkers, ComputeAt, BeforeLaunch, AfterLaunch
    <3>2. /\ live \subseteq live'
          /\ \A r \in lost' : r \in lost \/ r.type = "auto_scaling_group"
      BY <3>1 DEF CreateWorkers, Make
    <3>3. Coordinator(c) \in Known'
      BY <3>1, <3>2 DEF Known, Compute, OfType, Coordinator
    <3> QED BY <2>5, <3>3
  <2> QED BY <2>3, <2>4, <2>5
<1>4. CASE RecordWorkers(c)
  <2>1. status = "Creating" /\ status' = "Starting" /\ Known' = Known /\ Known # {}
    BY <1>4 DEF RecordWorkers, StatusAt, StartPcs, ComputeAt, AfterLaunch, Known, Compute
  <2>2. Mode = "provisioning" /\ Mode' = "on"
    BY <2>1, ModeOf, ModeAfter
  <2> QED BY <2>1, <2>2 DEF Service!Next, Service!TurnOn
<1>5. CASE StartFailed(c)
  <2>1. status = "Creating" /\ status' = "Failed" /\ Known' = Known
    BY <1>5 DEF StartFailed, StatusAt, StartPcs, Known, Compute, RowExists, NoCluster
  <2>2. Mode = "provisioning" /\ Mode' = "broken"
    BY <2>1, ModeOf, ModeAfter
  <2> QED BY <2>1, <2>2 DEF Service!Next, Service!Break
<1>6. CASE EnsureGroup(c) \/ CreateTemplate(c)
  <2>1. status' = status /\ Known' = Known
    BY <1>6 DEF EnsureGroup, CreateTemplate, Make, Known, Compute, OfType, ComputeTypes
  <2> QED BY <2>1, <1>1
<1>7. CASE \/ StartRead(c) \/ StartRefused(c) \/ RecordGroup(c) \/ RecordCoordinator(c)
           \/ RecordTemplate(c) \/ StartStepFails(c) \/ Resolve(c) \/ ResolveRaises(c)
  <2>1. status' = status /\ live' = live /\ lost' = lost
    BY <1>7 DEF StartRead, StartRefused, Resolve, ResolveRaises, RecordGroup, RecordCoordinator, RecordTemplate, Record, StartStepFails
  <2> QED BY <2>1, <1>1 DEF Known, Compute
<1> QED BY <1>2, <1>3, <1>4, <1>5, <1>6, <1>7 DEF StartStep

\* The teardowns are Stop, Release, TurnOff, Remove and Break.
LEMMA TeardownStepService ==
  ASSUME TypeOK, OneOperator, SoloInv, NEW c \in Callers, TeardownStep(c) \/ TeardownRead(c)
  PROVE  ServiceStep
<1>0. pc \in [Callers -> Pcs] /\ StatusAt(c) /\ ComputeAt(c)
  BY SoloMeans DEF TypeOK
<1> USE <1>0 DEF ServiceStep, dbVars, awsVars
<1>1. CASE status' = status /\ (Known' = {} <=> Known = {})
  BY <1>1 DEF Mode
<1>2. CASE TeardownMark(c)
  <2>1. /\ status \in (Settled \union {"Creating"}) \ {NoCluster}
        /\ status' \in {"Deleting", "Suspending"} /\ Known' = Known
    BY <1>2 DEF TeardownMark, StatusAt, Known, Compute
  <2>2. Mode # "gone" /\ Mode' = "stopping"
    BY <2>1, ModeOf, ModeAfter DEF Settled
  <2> QED BY <2>1, <2>2 DEF Service!Next, Service!Stop
<1>3. CASE DeleteRuntime(c) \/ DeleteRuntimeFails(c) \/ DeleteGroup(c) \/ DeleteGroupFails(c)
  <2>1. /\ status \in {"Deleting", "Suspending"} /\ status' = status
        /\ live' \subseteq live /\ lost' = lost
    BY <1>3 DEF DeleteRuntime, DeleteRuntimeFails, DeleteGroup, DeleteGroupFails, Remove, StatusAt, CleanupPcs
  <2>2. Known' \subseteq Known /\ Mode = "stopping" /\ Mode' = Mode
    BY <2>1, ModeOf, ModeAfter DEF Known, Compute, OfType
  <2>3. CASE Known' = {} /\ Known # {}
    BY <2>2, <2>3 DEF Service!Next, Service!Release
  <2> QED BY <2>1, <2>2, <2>3, <1>1
<1>4. CASE FinishTeardown(c)
  <2>1. /\ status \in {"Deleting", "Suspending"} /\ Known' = Known
        /\ pc[c] = "finish"
    BY <1>4 DEF FinishTeardown, StatusAt, CleanupPcs, Known, Compute
  <2>2. Mode = "stopping"
    BY <2>1, ModeOf
  <2>3. CASE failed[c]
    <3>1. Mode' = "broken"
      BY <1>4, <2>3, ModeAfter DEF FinishTeardown
    <3> QED BY <2>1, <2>2, <3>1 DEF Service!Next, Service!Break
  <2>4. CASE ~failed[c]
    <3>1. status' \in {"Suspended", "Not enabled"}
      BY <1>4, <2>4 DEF FinishTeardown
    <3>2. Mode' = "off" /\ Known = {}
      BY <2>1, <2>4, <3>1, ModeAfter DEF ComputeAt, Covered, CleanupPcs
    <3> QED BY <2>1, <2>2, <3>2 DEF Service!Next, Service!TurnOff
  <2> QED BY <2>3, <2>4
<1>5. CASE FinishDelete(c)
  <2>1. /\ status \in {"Deleting", "Suspending"} /\ Known' = Known /\ status' = NoCluster
        /\ pc[c] = "finish" /\ ~failed[c]
    BY <1>5 DEF FinishDelete, StatusAt, CleanupPcs, Known, Compute
  <2>2. Mode = "stopping" /\ Mode' = "gone" /\ Known = {}
    BY <2>1, ModeOf, ModeAfter DEF ComputeAt, Covered, CleanupPcs
  <2> QED BY <2>1, <2>2 DEF Service!Next, Service!Remove
<1>6. CASE \/ TeardownRead(c) \/ Forget(c) \/ RuntimeCleaned(c) \/ WaitForInstances(c)
           \/ SkipSharedGroup(c) \/ GroupsCleaned(c) \/ TeardownRaises(c)
  <2>1. status' = status /\ live' = live /\ lost' = lost
    BY <1>6 DEF TeardownRead, Forget, RuntimeCleaned, WaitForInstances, SkipSharedGroup, GroupsCleaned, TeardownRaises
  <2> QED BY <2>1, <1>1 DEF Known, Compute
<1> QED BY <1>2, <1>3, <1>4, <1>5, <1>6 DEF TeardownStep

\* Edits change nothing, and a health check at most turns on a cluster that has nodes.
LEMMA OtherStepService ==
  ASSUME TypeOK, OneOperator, SoloInv, NEW c \in Callers,
         ResizeStep(c) \/ HealthStep(c) \/ ResizeRead(c) \/ HealthRead(c)
  PROVE  ServiceStep
<1>0. pc \in [Callers -> Pcs] /\ StatusAt(c) /\ ComputeAt(c) /\ OffHasNone
  BY SoloMeans DEF TypeOK
<1>1. live' = live /\ Known' = Known
  BY DEF ResizeStep, ResizeFind, ResizeMark, ResizeFinish, HealthStep, Probe, HealthWrite,
         ResizeRead, HealthRead, Known, Compute, awsVars
<1>2. CASE HealthWrite(c)
  <2>1. status \in (Settled \union {"Creating"}) \ {NoCluster} /\ Known # {} /\ status' = "Running"
    BY <1>0, <1>2 DEF HealthWrite, StatusAt, ComputeAt, SetStatus, RowExists
  <2>2. status \in {"Creating", "Starting", "Running", "Failed"}
    BY <1>0, <2>1 DEF OffHasNone, Settled
  <2>3. Mode \in {"provisioning", "on", "broken"} /\ Mode' = "on"
    BY <2>1, <2>2, ModeOf, ModeAfter
  <2> QED BY <1>1, <2>1, <2>3 DEF ServiceStep, Service!Next, Service!TurnOn
<1>3. CASE ~HealthWrite(c)
  <2>1. \/ status' = status
        \/ status = "Running" /\ status' = "Updating"
        \/ status = "Updating" /\ status' = "Running"
    BY <1>0, <1>3 DEF ResizeStep, ResizeFind, ResizeMark, ResizeFinish, HealthStep, Probe,
       ResizeRead, HealthRead, SetStatus, StatusAt, dbVars
  <2>2. Mode' = Mode
    BY <2>1, ModeOf, ModeAfter DEF Mode
  <2> QED BY <1>1, <2>2 DEF ServiceStep
<1> QED BY <1>2, <1>3

\* One operation at a time the lifecycle is the service the documentation describes, as far
\* as AWS answers: a cluster that is off or gone has no nodes, it is turned on from nothing
\* only, and it is off or gone again only once its nodes are released.  What a call made
\* whose answer is lost is no part of it.
THEOREM ServiceImplemented ==
  ASSUME OneOperator, MaxCrashes = 0
  PROVE  Spec => ImplementsService
<1>1. Init => Service!Init
  <2>1. ASSUME FreshInit PROVE Mode = "off" /\ Known = {}
    BY <2>1, ModeOf DEF FreshInit, Known, Compute, OfType
  <2>2. ASSUME UpInit, IdleInit PROVE Mode = "on" /\ Known # {}
    <3>1. [type |-> "auto_scaling_group", id |-> 0, group |-> 1] \in Known
      BY <2>2 DEF UpInit, IdleInit, Known, Compute, OfType, ComputeTypes
    <3> QED BY <2>2, <3>1, ModeOf DEF UpInit
  <2> QED BY <2>1, <2>2 DEF Init, Service!Init
<1>2. TypeOK /\ SoloInv /\ [Next]_vars => ServiceStep
  <2> SUFFICES ASSUME TypeOK, SoloInv, [Next]_vars PROVE ServiceStep
    OBVIOUS
  <2>1. ASSUME NEW c \in Callers, Begin(c) \/ Continue(c) PROVE ServiceStep
    BY <2>1, StartStepService, TeardownStepService, OtherStepService DEF Begin, Continue
  <2>2. CASE Boot \/ Vanish \/ UNCHANGED vars
    <3>1. status' = status /\ live' = live /\ lost' = lost
      BY <2>2 DEF Boot, Vanish, vars, dbVars, awsVars
    <3> QED BY <3>1 DEF ServiceStep, Mode, Known, Compute
  <2>3. ~Crash
    <3>1. crashes \in Nat
      BY DEF TypeOK
    <3> QED BY <3>1 DEF Crash
  <2> QED BY <2>1, <2>2, <2>3 DEF Next
<1>3. Spec => []SoloInv
  BY SoloAlways
<1> QED BY <1>1, <1>2, <1>3, TypeCorrect, PTL DEF Spec, ImplementsService, Service!Spec, ServiceStep
=============================================================================
