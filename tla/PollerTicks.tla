------------------------------ MODULE PollerTicks ------------------------------
(***************************************************************************)
(* The poller's rounds over one cluster: the autoscaler                      *)
(* (poll_autoscaling_once) moves the size of the worker Auto Scaling Group    *)
(* inside the limits of the cluster's row, then the auto-suspender            *)
(* (poll_auto_suspend_once) stops a cluster that stayed idle, while operators  *)
(* edit the row, resize the live group, suspend and start.                    *)
(*                                                                          *)
(* Time is counted in rounds: what happened is kept as its age, which stops    *)
(* growing at Long, so that the clock itself needs no bound.  A column that is *)
(* NULL has NoAge; no scaling event at all is one of age Long.                *)
(*                                                                          *)
(* ClusterLifecycle has the races of starts and teardowns: here each is one    *)
(* step.  Left out: events, audit, the signals kept for display.              *)
(***************************************************************************)
EXTENDS Integers

CONSTANTS
  Rows,             \* the rows an operator may give the cluster
  QueuedIntervals,  \* AUTOSCALE_QUEUED_SCALE_UP_INTERVALS
  CpuIntervals,     \* AUTOSCALE_CPU_SCALE_UP_INTERVALS
  UpCooldown,       \* AUTOSCALE_SCALE_UP_COOLDOWN_SECONDS, in rounds
  DownCooldown,     \* AUTOSCALE_SCALE_DOWN_COOLDOWN_SECONDS, in rounds
  IdleLow,          \* AUTOSCALE_IDLE_SCALE_DOWN_SECONDS, in rounds
  Long,             \* where ages stop
  MaxCalls,         \* bound: edits, suspensions and starts asked for by operators
  MaxMishaps        \* bound: crashes, failed calls, statistics that could not be read

\* A cluster's row: suspend is auto_suspend_minutes in rounds, 0 when it is NULL.
RowType == [mode : {"autoscale", "fixed"}, min : Nat \ {0}, max : Nat \ {0}, suspend : Nat]

ASSUME RowsAssumption ==
  /\ Rows \subseteq RowType /\ Rows # {}
  /\ \A r \in Rows : r.min <= r.max /\ r.suspend <= Long
ASSUME NumbersAssumption ==
  /\ QueuedIntervals \in Nat /\ CpuIntervals \in Nat /\ MaxCalls \in Nat /\ MaxMishaps \in Nat
  /\ Long \in Nat /\ UpCooldown \in 0..Long /\ DownCooldown \in 0..Long /\ IdleLow \in 0..Long

VARIABLES
  status, row,
  group,   \* the Auto Scaling Group, with the rest of the nodes; NoGroup when they are gone
  timers,  \* the row of cluster_timer_state
  scaled,  \* age of the latest scaling event
  load,    \* what the cluster is doing while a round looks at it
  pc, tick, \* the poller's place, and what it has read
  edit,    \* update_cluster's place and what it has read
  moved,     \* age of the autoscaler's last change of the group
  unrecorded, \* that change has no scaling event
  quiet,     \* age of the last round in which the cluster was in use
  missed,    \* it was in use in a round that could not see it, since the idle clock was set or stopped
  calls, mishaps

poller == <<pc, tick>>
ghosts == <<moved, unrecorded, quiet, missed>>
vars == <<status, row, group, timers, scaled, load, pc, tick, edit, ghosts, calls, mishaps>>

-------------------------------------------------------------------------------
NoAge   == -1
NoGroup == [min |-> 0, max |-> 0, desired |-> 0]
Ages    == 0..Long
Older(age) == IF age = NoAge \/ age = Long THEN age ELSE age + 1

\* queued and cpu are counts of rounds, low and idle the ages of two dates.
Timers   == [queued : 0..QueuedIntervals, cpu : 0..CpuIntervals, low : Ages \union {NoAge},
             idle : Ages \union {NoAge}]
NoTimers == [queued |-> 0, cpu |-> 0, low |-> NoAge, idle |-> NoAge]

\* What TrinoHub and Trino say of the queries.  In "warm" there are none, but it is
\* inside a keep-warm window; in "local" only TrinoHub has one that has not ended.
Loads == {"idle", "warm", "local", "running", "queued"}

Group == [min : Nat, max : Nat, desired : Nat]
ScalePcs   == {"scale", "group", "decide", "persist", "set", "record", "reset"}
SuspendPcs == {"list", "check", "judge", "mark", "call", "forget"}
EditPcs    == {"idle", "mark", "describe", "set", "done", "write"}

TypeOK ==
  /\ status \in {"Off", "Starting", "Running", "Updating"} /\ row \in Rows
  /\ group \in Group /\ timers \in Timers
  /\ scaled \in Ages /\ moved \in Ages /\ quiet \in Ages
  /\ load \in Loads
  /\ pc \in {"sleep"} \union ScalePcs \union SuspendPcs
  /\ tick \in [row : Rows, desired : Nat, to : Nat, timers : Timers]
  /\ edit \in [pc : EditPcs, row : Rows, desired : Nat]
  /\ unrecorded \in BOOLEAN /\ missed \in BOOLEAN
  /\ calls \in 0..MaxCalls /\ mishaps \in 0..MaxMishaps

\* create_worker_auto_scaling_group.
NewGroup(r) == [min |-> r.min, max |-> r.max, desired |-> r.min]

AnyRow == CHOOSE r \in Rows : TRUE
NoTick == [row |-> AnyRow, desired |-> 0, to |-> 0, timers |-> NoTimers]
NoEdit == [pc |-> "idle", row |-> AnyRow, desired |-> 0]

Init ==
  /\ row \in Rows /\ status = "Running" /\ group = NewGroup(row)
  /\ timers = NoTimers /\ scaled = Long
  /\ load = "idle" /\ pc = "sleep" /\ tick = NoTick /\ edit = NoEdit
  /\ moved = Long /\ unrecorded = FALSE /\ quiet = 0 /\ missed = FALSE
  /\ calls = 0 /\ mishaps = 0

-------------------------------------------------------------------------------
(* A round begins when the poller has slept. *)

\* The auto-suspender must leave a cluster alone that has or had work, or is kept warm.
InUse == load # "idle"

TimePasses ==
  /\ timers' = [timers EXCEPT !.low = Older(@), !.idle = Older(@)]
  /\ scaled' = Older(scaled) /\ moved' = Older(moved)

\* The next round, at whatever the cluster is doing by then.
Wake ==
  /\ pc = "sleep" /\ pc' = "scale"
  /\ load' \in Loads
  /\ quiet' = IF InUse' THEN 0 ELSE Older(quiet)
  /\ TimePasses
  /\ UNCHANGED <<status, row, group, tick, edit, unrecorded, missed, calls, mishaps>>

At(p)    == pc = p
GoTo(p)  == pc' = p
Mishap   == mishaps < MaxMishaps /\ mishaps' = mishaps + 1

\* The round is over: its data are dropped, what the cluster did is history.
Sleep == pc' = "sleep" /\ tick' = NoTick /\ load' = "idle"

-------------------------------------------------------------------------------
(* autoscale_cluster_once. *)

AfterScaling == GoTo("list") /\ tick' = NoTick

\* The list of running autoscale clusters and the second look at this one.
ScaleRead ==
  /\ At("scale")
  /\ IF status = "Running" /\ row.mode = "autoscale" /\ group # NoGroup
     THEN GoTo("group") /\ tick' = [tick EXCEPT !.row = row]
     ELSE AfterScaling
  /\ UNCHANGED <<status, row, group, timers, scaled, load, edit, ghosts, calls, mishaps>>

\* worker_auto_scaling_group: what AWS says the group wants; it may be gone.
ScaleGroup ==
  /\ At("group")
  /\ IF group = NoGroup THEN AfterScaling ELSE GoTo("decide") /\ tick' = [tick EXCEPT !.desired = group.desired]
  /\ UNCHANGED <<status, row, group, timers, scaled, load, edit, ghosts, calls, mishaps>>

Least(a, b) == IF a < b THEN a ELSE b
Most(a, b)  == IF a > b THEN a ELSE b

\* autoscaling_decision's counters after a look, for the processors' level cpu ("mid" also when unknown).
Counted(cpu) ==
  [timers EXCEPT
    !.queued = IF load = "queued" THEN Least(@ + 1, QueuedIntervals) ELSE 0,
    !.cpu    = IF cpu = "high" THEN Least(@ + 1, CpuIntervals) ELSE 0,
    !.low    = IF load \notin {"queued", "running"} /\ cpu = "low" THEN (IF @ = NoAge THEN 0 ELSE @) ELSE NoAge]

PressedBoth(t) == t.queued >= QueuedIntervals /\ t.cpu >= CpuIntervals
Pressed(t) == t.queued >= QueuedIntervals \/ t.cpu >= CpuIntervals
Rested(t)  == t.low >= IdleLow

DecidedUpAtOnce(t, r, desired) ==
  IF desired < r.max /\ Pressed(t) THEN Least(r.max, desired + 1)
  ELSE IF desired > r.min /\ Rested(t) /\ scaled >= DownCooldown THEN Most(r.min, desired - 1) ELSE desired

\* autoscaling_decision: the size to go to, or the present one for "hold".
Decided(t, r, desired) ==
  IF desired < r.max /\ Pressed(t)
  THEN IF scaled >= UpCooldown THEN Least(r.max, desired + 1) ELSE desired
  ELSE IF desired > r.min /\ Rested(t) /\ scaled >= DownCooldown THEN Most(r.min, desired - 1) ELSE desired

\* Statistics, processor load, the stored counters and the decision.
ScaleDecide ==
  /\ At("decide")
  /\ \E cpu \in {"low", "mid", "high"} :
       LET t == Counted(cpu)
           n == Decided(t, tick.row, tick.desired) IN
       /\ GoTo(IF n = tick.desired THEN "persist" ELSE "set")
       /\ tick' = [tick EXCEPT !.timers = t, !.to = n]
  /\ UNCHANGED <<status, row, group, timers, scaled, load, edit, ghosts, calls, mishaps>>

UpsertRow(t) == timers' = [t EXCEPT !.idle = NoAge]

\* _persist_autoscale_state writes its three columns and leaves the idle date alone.
Upsert(t) == timers' = [t EXCEPT !.idle = timers.idle]

ScalePersist ==
  /\ At("persist") /\ AfterScaling
  /\ Upsert(tick.timers)
  /\ UNCHANGED <<status, row, group, scaled, load, edit, ghosts, calls, mishaps>>

\* AWS takes a size only inside the limits that come with it, and only of a group that exists.
Accepted(n, r) == group # NoGroup /\ r.min <= n /\ n <= r.max

ScaleSet ==
  /\ At("set")
  /\ IF Accepted(tick.to, tick.row)
     THEN /\ GoTo("record") /\ UNCHANGED tick
          /\ group' = [min |-> tick.row.min, max |-> tick.row.max, desired |-> tick.to]
          /\ moved' = 0 /\ unrecorded' = TRUE
     ELSE AfterScaling /\ UNCHANGED <<group, moved, unrecorded>>
  /\ UNCHANGED <<status, row, timers, scaled, load, edit, quiet, missed, calls, mishaps>>

ScaleRecord ==
  /\ At("record") /\ GoTo("reset")
  /\ scaled' = 0 /\ unrecorded' = FALSE
  /\ UNCHANGED <<status, row, group, timers, load, tick, edit, moved, quiet, missed, calls, mishaps>>

ScaleReset ==
  /\ At("reset") /\ AfterScaling
  /\ Upsert(NoTimers)
  /\ UNCHANGED <<status, row, group, scaled, load, edit, ghosts, calls, mishaps>>

-------------------------------------------------------------------------------
(* auto_suspend_cluster_once. *)

Eligible == status = "Running" /\ row.suspend > 0

\* A cluster that is not in the list is not looked at in this round.
SuspendList ==
  /\ At("list")
  /\ IF Eligible THEN GoTo("check") /\ UNCHANGED <<tick, load, missed>>
                 ELSE Sleep /\ missed' = (missed \/ InUse)
  /\ UNCHANGED <<status, row, group, timers, scaled, edit, moved, unrecorded, quiet, calls, mishaps>>

\* The second look, the keep-warm windows, the coordinator and TrinoHub's own queries.
SuspendCheck ==
  /\ At("check")
  /\ IF Eligible /\ load # "warm" /\ group # NoGroup
     THEN GoTo("judge") /\ tick' = [tick EXCEPT !.row = row]
     ELSE GoTo("forget") /\ UNCHANGED tick
  /\ UNCHANGED <<status, row, group, timers, scaled, load, edit, ghosts, calls, mishaps>>

BusyInTrino == load \in {"running", "queued"}

\* Trino's queries and TrinoHub's own.
Busy == load \in {"local", "running", "queued"}

\* Trino's statistics, and the idle date.
SuspendJudge ==
  /\ At("judge")
  /\ \/ Busy /\ GoTo("forget") /\ UNCHANGED <<tick, load>>
     \/ ~Busy /\ timers.idle = NoAge /\ GoTo("mark") /\ UNCHANGED <<tick, load>>
     \/ ~Busy /\ timers.idle >= tick.row.suspend /\ GoTo("call") /\ UNCHANGED <<tick, load>>
     \/ ~Busy /\ timers.idle \in 0..(tick.row.suspend - 1) /\ Sleep
  /\ UNCHANGED <<status, row, group, timers, scaled, edit, ghosts, calls, mishaps>>

SuspendMark ==
  /\ At("mark") /\ Sleep
  /\ timers' = [timers EXCEPT !.idle = 0] /\ missed' = FALSE
  /\ UNCHANGED <<status, row, group, scaled, edit, moved, unrecorded, quiet, calls, mishaps>>

SuspendForget ==
  /\ At("forget") /\ Sleep
  /\ timers' = [timers EXCEPT !.idle = NoAge] /\ missed' = FALSE
  /\ UNCHANGED <<status, row, group, scaled, edit, moved, unrecorded, quiet, calls, mishaps>>

\* suspend_cluster.
Off == status' = "Off" /\ group' = NoGroup /\ timers' = NoTimers

SuspendCall ==
  /\ At("call") /\ GoTo("forget") /\ Off
  /\ UNCHANGED <<row, scaled, load, tick, edit, ghosts, calls, mishaps>>

-------------------------------------------------------------------------------
(* What goes wrong in a round. *)

\* The autoscaler's calls or statistics fail: it holds, or its exception is caught.
ScaleFails ==
  /\ pc \in {"group", "decide", "set"} /\ Mishap /\ AfterScaling
  /\ UNCHANGED <<status, row, group, timers, scaled, load, edit, ghosts, calls>>

\* AWS did what it was asked, but its answer is lost.
ScaleAnswerLost ==
  /\ At("record") /\ Mishap /\ AfterScaling
  /\ UNCHANGED <<status, row, group, timers, scaled, load, edit, ghosts, calls>>

\* Statistics unavailable: not known to be idle.
SuspendBlind ==
  /\ At("judge") /\ Mishap /\ GoTo("forget")
  /\ UNCHANGED <<status, row, group, timers, scaled, load, tick, edit, ghosts, calls>>

\* The control plane stops; the poller and the edits of the process are gone.
Crash ==
  /\ Mishap /\ Sleep
  /\ edit' = NoEdit
  /\ missed' = (missed \/ InUse)
  /\ UNCHANGED <<status, row, group, timers, scaled, moved, unrecorded, quiet, calls>>

\* Nobody polls for a round's time: the process is down, or a round takes long.
Unpolled ==
  /\ pc = "sleep" /\ TimePasses
  /\ quiet' = Older(quiet)
  /\ UNCHANGED <<status, row, group, load, pc, tick, edit, unrecorded, missed, calls, mishaps>>

-------------------------------------------------------------------------------
(* update_cluster, and the other calls of operators. *)

Call == calls < MaxCalls /\ calls' = calls + 1

Sizes(r) == <<r.mode, r.min, r.max>>

EditRead ==
  /\ edit.pc = "idle" /\ Call /\ status \in {"Running", "Off"}
  /\ \E r \in Rows \ {row} :
       edit' = [edit EXCEPT !.row = r,
                  !.pc = IF status = "Running" /\ Sizes(r) # Sizes(row) THEN "mark" ELSE "write"]
  /\ UNCHANGED <<status, row, group, timers, scaled, load, poller, ghosts, mishaps>>

\* _apply_worker_sizing_live: without a tracked group there is nothing to resize.
EditMark ==
  /\ edit.pc = "mark"
  /\ IF group = NoGroup THEN edit' = [edit EXCEPT !.pc = "write"] /\ UNCHANGED status
                        ELSE edit' = [edit EXCEPT !.pc = "describe"] /\ status' = "Updating"
  /\ UNCHANGED <<row, group, timers, scaled, load, poller, ghosts, calls, mishaps>>

Clamped(n, r) == Most(r.min, Least(r.max, n))

EditDescribe ==
  /\ edit.pc = "describe"
  /\ edit' = [edit EXCEPT !.pc = "set",
                !.desired = IF group.desired = 0 THEN edit.row.min ELSE Clamped(group.desired, edit.row)]
  /\ UNCHANGED <<status, row, group, timers, scaled, load, poller, ghosts, calls, mishaps>>

\* Any failure puts the status back to Running and refuses the edit.
Reverted == edit' = NoEdit /\ status' = "Running" /\ UNCHANGED group

EditSet ==
  /\ edit.pc = "set"
  /\ IF Accepted(edit.desired, edit.row)
     THEN /\ group' = [min |-> edit.row.min, max |-> edit.row.max, desired |-> edit.desired]
          /\ edit' = [edit EXCEPT !.pc = "done"] /\ UNCHANGED status
     ELSE Reverted
  /\ UNCHANGED <<row, timers, scaled, load, poller, ghosts, calls, mishaps>>

EditFails ==
  /\ edit.pc \in {"describe", "set", "done"} /\ Mishap /\ Reverted
  /\ UNCHANGED <<row, timers, scaled, load, poller, ghosts, calls>>

EditDone ==
  /\ edit.pc = "done" /\ edit' = [edit EXCEPT !.pc = "write"] /\ status' = "Running"
  /\ UNCHANGED <<row, group, timers, scaled, load, poller, ghosts, calls, mishaps>>

EditWrite ==
  /\ edit.pc = "write" /\ edit' = NoEdit
  /\ row' = edit.row
  /\ UNCHANGED <<status, group, timers, scaled, load, poller, ghosts, calls, mishaps>>

Suspend ==
  /\ Call /\ Off
  /\ UNCHANGED <<row, scaled, load, poller, edit, ghosts, mishaps>>

\* start_cluster up to its last transaction.
Start ==
  /\ status = "Off" /\ group = NoGroup /\ Call
  /\ status' = "Starting" /\ group' = NewGroup(row) /\ timers' = NoTimers
  /\ quiet' = 0 /\ missed' = At("call")
  /\ UNCHANGED <<row, scaled, load, poller, edit, moved, unrecorded, mishaps>>

Boot ==
  /\ status = "Starting" /\ status' = "Running"
  /\ UNCHANGED <<row, group, timers, scaled, load, poller, edit, ghosts, calls, mishaps>>

-------------------------------------------------------------------------------
Round ==
  \/ Wake
  \/ ScaleRead \/ ScaleGroup \/ ScaleDecide \/ ScalePersist \/ ScaleSet \/ ScaleRecord \/ ScaleReset
  \/ SuspendList \/ SuspendCheck \/ SuspendJudge \/ SuspendMark \/ SuspendForget \/ SuspendCall

Fault == ScaleFails \/ ScaleAnswerLost \/ SuspendBlind \/ Crash \/ Unpolled \/ EditFails

Editing == EditMark \/ EditDescribe \/ EditSet \/ EditDone \/ EditWrite

Next == Round \/ Fault \/ EditRead \/ Editing \/ Suspend \/ Start \/ Boot

Spec == Init /\ [][Next]_vars

\* The poller's thread goes on, and a call that was begun ends.
FairSpec == Spec /\ WF_vars(Round) /\ WF_vars(Editing) /\ WF_vars(Boot)

-------------------------------------------------------------------------------
(* Properties. *)

\* The autoscaler changes the size again only when the cooldown of that direction is over,
\* although the date it goes by is stored after the change, by a transaction that may not happen.
CooldownKept ==
  [][pc = "set" /\ pc' = "record" =>
       unrecorded \/ moved >= (IF tick.to > tick.desired THEN UpCooldown ELSE DownCooldown)]_vars

\* A cluster is suspended for being idle only when no round in all that time met it in use,
\* across edits, crashes, suspensions and starts - or the round could not see that it was:
\* auto-suspend was switched off or an edit was being applied, and the idle date stayed, or
\* an operator suspended and started it after the last look.
SuspendsOnlyIdle ==
  [][pc = "call" /\ pc' = "forget" /\ group # NoGroup => quiet >= tick.row.suspend \/ missed]_vars

Steady == status = "Running" /\ group # NoGroup /\ edit.pc = "idle"

\* A running cluster with auto-suspend that stays idle is suspended.
IdleIsSuspended == ~<>[](Steady /\ row.suspend > 0 /\ load = "idle")

\* Queries that keep waiting get workers, up to the maximum, as long as the size is inside the
\* limits (outside them AWS refuses every step of one worker).
QueuedScalesUp ==
  ~<>[](/\ Steady /\ row.mode = "autoscale" /\ (pc # "sleep" => load = "queued")
        /\ group.desired \in row.min..(row.max - 1))
=============================================================================
