-------------------------- MODULE PollerTicks_proofs --------------------------
(***************************************************************************)
(* Proofs about PollerTicks for any rows, thresholds and bounds: its type     *)
(* invariant, that the autoscaler keeps its cooldowns, and that only a         *)
(* cluster that stayed idle is suspended for it.                              *)
(***************************************************************************)
EXTENDS PollerTicks, TLAPS

LEMMA AnyRowIsRow == AnyRow \in Rows
BY RowsAssumption DEF AnyRow

LEMMA RowNumbers ==
  ASSUME NEW r \in Rows
  PROVE  /\ r.min \in Nat /\ r.max \in Nat /\ r.suspend \in Nat
         /\ r.min >= 1 /\ r.min <= r.max /\ r.suspend <= Long
BY RowsAssumption DEF RowType

\* An age stays one, and does not get younger.
LEMMA OlderAge ==
  ASSUME NEW a \in Ages
  PROVE  Older(a) \in Ages /\ Older(a) >= a
BY NumbersAssumption DEF Older, Ages, NoAge

LEMMA OlderDate ==
  ASSUME NEW a \in Ages \union {NoAge}
  PROVE  Older(a) \in Ages \union {NoAge} /\ (Older(a) = NoAge <=> a = NoAge)
BY NumbersAssumption DEF Older, Ages, NoAge

LEMMA NoTimersType == NoTimers \in Timers
BY NumbersAssumption DEF NoTimers, Timers

LEMMA NoTickType == NoTick \in [row : Rows, desired : Nat, to : Nat, timers : Timers]
BY AnyRowIsRow, NoTimersType DEF NoTick

LEMMA NoEditType == NoEdit \in [pc : EditPcs, row : Rows, desired : Nat]
BY AnyRowIsRow DEF NoEdit, EditPcs

LEMMA NewGroupType ==
  ASSUME NEW r \in Rows
  PROVE  NewGroup(r) \in Group
BY RowNumbers DEF NewGroup, Group

LEMMA CountedType ==
  ASSUME timers \in Timers, NEW cpu
  PROVE  Counted(cpu) \in Timers
<1> DEFINE q == IF load = "queued" THEN Least(timers.queued + 1, QueuedIntervals) ELSE 0
           c == IF cpu = "high" THEN Least(timers.cpu + 1, CpuIntervals) ELSE 0
           l == IF load \notin {"queued", "running"} /\ cpu = "low"
                THEN (IF timers.low = NoAge THEN 0 ELSE timers.low) ELSE NoAge
<1>1. q \in 0..QueuedIntervals /\ c \in 0..CpuIntervals
  BY NumbersAssumption DEF Least, Timers
<1>2. l \in Ages \union {NoAge}
  BY NumbersAssumption DEF Timers, Ages
<1>3. Counted(cpu) = [timers EXCEPT !.queued = q, !.cpu = c, !.low = l]
  BY DEF Counted
<1> HIDE DEF q, c, l
<1> QED BY <1>1, <1>2, <1>3 DEF Timers

\* A decision is a size, and what it takes to move to another.
LEMMA DecidedType ==
  ASSUME TypeOK, NEW t, NEW r \in Rows, NEW n \in Nat
  PROVE  /\ Decided(t, r, n) \in Nat
         /\ Decided(t, r, n) # n =>
              scaled >= (IF Decided(t, r, n) > n THEN UpCooldown ELSE DownCooldown)
BY RowNumbers, NumbersAssumption DEF Decided, Least, Most, TypeOK, Ages

-------------------------------------------------------------------------------
(* The type invariant. *)

LEMMA TypeInit == Init => TypeOK
<1> SUFFICES ASSUME Init PROVE TypeOK
  OBVIOUS
<1>1. group \in Group /\ timers \in Timers
  BY NewGroupType, NoTimersType DEF Init
<1>2. tick \in [row : Rows, desired : Nat, to : Nat, timers : Timers] /\ edit \in [pc : EditPcs, row : Rows, desired : Nat]
  BY NoTickType, NoEditType DEF Init
<1>3. /\ scaled \in Ages /\ moved \in Ages /\ quiet \in Ages
      /\ calls \in 0..MaxCalls /\ mishaps \in 0..MaxMishaps
  BY NumbersAssumption DEF Init, Ages
<1>4. unrecorded \in BOOLEAN /\ missed \in BOOLEAN
  BY DEF Init
<1>5. load \in Loads /\ pc \in {"sleep"} \union ScalePcs \union SuspendPcs
  BY DEF Init, Loads
<1>6. status \in {"Off", "Starting", "Running", "Updating"} /\ row \in Rows
  BY DEF Init
<1> QED BY <1>1, <1>2, <1>3, <1>4, <1>5, <1>6 DEF TypeOK

LEMMA TimePassesType ==
  ASSUME TypeOK, TimePasses
  PROVE  timers' \in Timers /\ scaled' \in Ages /\ moved' \in Ages
<1> DEFINE l == Older(timers.low)
           i == Older(timers.idle)
<1>1. l \in Ages \union {NoAge} /\ i \in Ages \union {NoAge}
  BY OlderDate DEF TypeOK, Timers
<1>2. timers' = [timers EXCEPT !.low = l, !.idle = i]
  BY DEF TimePasses
<1> HIDE DEF l, i
<1>3. timers' \in Timers
  BY <1>1, <1>2 DEF TypeOK, Timers
<1>4. scaled' \in Ages /\ moved' \in Ages
  BY OlderAge DEF TypeOK, TimePasses
<1> QED BY <1>3, <1>4

LEMMA UpsertType ==
  ASSUME TypeOK, NEW t \in Timers, Upsert(t)
  PROVE  timers' \in Timers
BY DEF Upsert, Timers, TypeOK

LEMMA WakeType == TypeOK /\ Wake => TypeOK'
<1> SUFFICES ASSUME TypeOK, Wake PROVE TypeOK'
  OBVIOUS
<1>1. timers' \in Timers /\ scaled' \in Ages /\ moved' \in Ages
  BY TimePassesType DEF Wake
<1>2. quiet' \in Ages
  BY OlderAge, NumbersAssumption DEF Wake, TypeOK, Ages
<1> QED BY <1>1, <1>2 DEF TypeOK, Wake, ScalePcs

LEMMA UnpolledType == TypeOK /\ Unpolled => TypeOK'
<1> SUFFICES ASSUME TypeOK, Unpolled PROVE TypeOK'
  OBVIOUS
<1>1. timers' \in Timers /\ scaled' \in Ages /\ moved' \in Ages
  BY TimePassesType DEF Unpolled
<1>2. quiet' \in Ages
  BY OlderAge DEF Unpolled, TypeOK
<1> QED BY <1>1, <1>2 DEF TypeOK, Unpolled

LEMMA ScaleReadType == TypeOK /\ ScaleRead => TypeOK'
BY NoTickType DEF TypeOK, ScaleRead, AfterScaling, GoTo, At, ScalePcs, SuspendPcs, ghosts

LEMMA ScaleGroupType == TypeOK /\ ScaleGroup => TypeOK'
BY NoTickType DEF TypeOK, ScaleGroup, AfterScaling, GoTo, At, ScalePcs, SuspendPcs, ghosts, Group

LEMMA ScaleDecideType == TypeOK /\ ScaleDecide => TypeOK'
<1> SUFFICES ASSUME TypeOK, ScaleDecide PROVE TypeOK'
  OBVIOUS
<1>0. PICK cpu \in {"low", "mid", "high"} : \E t, n :
        /\ t = Counted(cpu) /\ n = Decided(t, tick.row, tick.desired)
        /\ pc' = (IF n = tick.desired THEN "persist" ELSE "set")
        /\ tick' = [tick EXCEPT !.timers = t, !.to = n]
  BY DEF ScaleDecide, GoTo
<1>1. PICK t, n :
        /\ t = Counted(cpu) /\ n = Decided(t, tick.row, tick.desired)
        /\ pc' = (IF n = tick.desired THEN "persist" ELSE "set")
        /\ tick' = [tick EXCEPT !.timers = t, !.to = n]
  BY <1>0
<1>2. t \in Timers
  BY <1>1, CountedType DEF TypeOK
<1>3. n \in Nat
  BY <1>1, DecidedType DEF TypeOK
<1>4. tick' \in [row : Rows, desired : Nat, to : Nat, timers : Timers]
  BY <1>1, <1>2, <1>3 DEF TypeOK
<1>5. pc' \in ScalePcs
  BY <1>1 DEF ScalePcs
<1> QED BY <1>4, <1>5 DEF TypeOK, ScaleDecide, ghosts

LEMMA ScalePersistType == TypeOK /\ ScalePersist => TypeOK'
<1> SUFFICES ASSUME TypeOK, ScalePersist PROVE TypeOK'
  OBVIOUS
<1>1. timers' \in Timers
  BY UpsertType DEF ScalePersist, TypeOK
<1> QED BY <1>1, NoTickType DEF TypeOK, ScalePersist, AfterScaling, GoTo, SuspendPcs, ghosts

LEMMA ScaleSetType == TypeOK /\ ScaleSet => TypeOK'
<1> SUFFICES ASSUME TypeOK, ScaleSet PROVE TypeOK'
  OBVIOUS
<1>1. tick.row.min \in Nat /\ tick.row.max \in Nat /\ tick.to \in Nat
  BY RowNumbers DEF TypeOK
<1>2. group' \in Group
  BY <1>1 DEF ScaleSet, TypeOK, Group
<1>3. moved' \in Ages
  BY NumbersAssumption DEF ScaleSet, TypeOK, Ages
<1>4. unrecorded' \in BOOLEAN
  BY DEF ScaleSet, TypeOK
<1> QED BY <1>2, <1>3, <1>4, NoTickType DEF TypeOK, ScaleSet, AfterScaling, GoTo, ScalePcs, SuspendPcs

LEMMA ScaleRecordType == TypeOK /\ ScaleRecord => TypeOK'
<1> SUFFICES ASSUME TypeOK, ScaleRecord PROVE TypeOK'
  OBVIOUS
<1>1. scaled' \in Ages
  BY NumbersAssumption DEF ScaleRecord, Ages
<1>2. unrecorded' \in BOOLEAN /\ pc' \in ScalePcs
  BY DEF ScaleRecord, GoTo, ScalePcs
<1> QED BY <1>1, <1>2 DEF TypeOK, ScaleRecord

LEMMA ScaleResetType == TypeOK /\ ScaleReset => TypeOK'
<1> SUFFICES ASSUME TypeOK, ScaleReset PROVE TypeOK'
  OBVIOUS
<1>1. timers' \in Timers
  BY UpsertType, NoTimersType DEF ScaleReset
<1> QED BY <1>1, NoTickType DEF TypeOK, ScaleReset, AfterScaling, GoTo, SuspendPcs, ghosts

LEMMA SuspendListType == TypeOK /\ SuspendList => TypeOK'
BY NoTickType DEF TypeOK, SuspendList, Sleep, GoTo, SuspendPcs, InUse, Loads

LEMMA SuspendCheckType == TypeOK /\ SuspendCheck => TypeOK'
BY DEF TypeOK, SuspendCheck, GoTo, SuspendPcs, ghosts

LEMMA SuspendJudgeType == TypeOK /\ SuspendJudge => TypeOK'
BY NoTickType DEF TypeOK, SuspendJudge, Sleep, GoTo, SuspendPcs, Loads, ghosts

LEMMA SuspendMarkType == TypeOK /\ SuspendMark => TypeOK'
<1> SUFFICES ASSUME TypeOK, SuspendMark PROVE TypeOK'
  OBVIOUS
<1>1. timers' \in Timers
  BY NumbersAssumption DEF SuspendMark, TypeOK, Timers, Ages
<1> QED BY <1>1, NoTickType DEF TypeOK, SuspendMark, Sleep, Loads

LEMMA SuspendForgetType == TypeOK /\ SuspendForget => TypeOK'
<1> SUFFICES ASSUME TypeOK, SuspendForget PROVE TypeOK'
  OBVIOUS
<1>1. timers' \in Timers
  BY DEF SuspendForget, TypeOK, Timers
<1> QED BY <1>1, NoTickType DEF TypeOK, SuspendForget, Sleep, Loads

LEMMA OffType ==
  ASSUME Off
  PROVE  status' = "Off" /\ group' \in Group /\ timers' \in Timers
BY NoTimersType DEF Off, NoGroup, Group

LEMMA SuspendCallType == TypeOK /\ SuspendCall => TypeOK'
BY OffType DEF TypeOK, SuspendCall, GoTo, SuspendPcs, ghosts

LEMMA FaultType == TypeOK /\ (ScaleFails \/ ScaleAnswerLost \/ SuspendBlind \/ Crash) => TypeOK'
<1>1. TypeOK /\ (ScaleFails \/ ScaleAnswerLost) => TypeOK'
  BY NoTickType, NumbersAssumption
     DEF TypeOK, ScaleFails, ScaleAnswerLost, Mishap, AfterScaling, GoTo, SuspendPcs, ghosts
<1>2. TypeOK /\ SuspendBlind => TypeOK'
  BY NumbersAssumption DEF TypeOK, SuspendBlind, Mishap, GoTo, SuspendPcs, ghosts
<1>3. TypeOK /\ Crash => TypeOK'
  BY NoTickType, NoEditType, NumbersAssumption DEF TypeOK, Crash, Mishap, Sleep, InUse, Loads
<1> QED BY <1>1, <1>2, <1>3

LEMMA ClampedType ==
  ASSUME NEW n \in Nat, NEW r \in Rows
  PROVE  Clamped(n, r) \in Nat
BY RowNumbers DEF Clamped, Most, Least

LEMMA EditReadType == TypeOK /\ EditRead => TypeOK'
<1> SUFFICES ASSUME TypeOK, EditRead PROVE TypeOK'
  OBVIOUS
<1>1. PICK r \in Rows, p \in {"mark", "write"} : edit' = [edit EXCEPT !.row = r, !.pc = p]
  BY DEF EditRead
<1>2. edit' \in [pc : EditPcs, row : Rows, desired : Nat]
  BY <1>1 DEF TypeOK, EditPcs
<1>3. calls' \in 0..MaxCalls
  BY NumbersAssumption DEF EditRead, Call, TypeOK
<1> QED BY <1>2, <1>3 DEF TypeOK, EditRead, poller, ghosts

LEMMA EditMarkType == TypeOK /\ EditMark => TypeOK'
BY DEF TypeOK, EditMark, EditPcs, poller, ghosts

LEMMA EditDescribeType == TypeOK /\ EditDescribe => TypeOK'
<1> SUFFICES ASSUME TypeOK, EditDescribe PROVE TypeOK'
  OBVIOUS
<1> DEFINE n == IF group.desired = 0 THEN edit.row.min ELSE Clamped(group.desired, edit.row)
<1>1. n \in Nat
  BY ClampedType, RowNumbers DEF TypeOK, Group
<1>2. edit' = [edit EXCEPT !.pc = "set", !.desired = n]
  BY DEF EditDescribe
<1> HIDE DEF n
<1>3. edit' \in [pc : EditPcs, row : Rows, desired : Nat]
  BY <1>1, <1>2 DEF TypeOK, EditPcs
<1> QED BY <1>3 DEF TypeOK, EditDescribe, poller, ghosts

LEMMA EditSetType == TypeOK /\ (EditSet \/ EditFails) => TypeOK'
<1> SUFFICES ASSUME TypeOK, EditSet \/ EditFails PROVE TypeOK'
  OBVIOUS
<1>1. edit.row.min \in Nat /\ edit.row.max \in Nat /\ edit.desired \in Nat
  BY RowNumbers DEF TypeOK
<1>2. group' \in Group
  BY <1>1 DEF EditSet, EditFails, Reverted, TypeOK, Group
<1>3. edit' \in [pc : EditPcs, row : Rows, desired : Nat]
  BY NoEditType DEF EditSet, EditFails, Reverted, TypeOK, EditPcs
<1>4. status' \in {"Off", "Starting", "Running", "Updating"}
  BY DEF EditSet, EditFails, Reverted, TypeOK
<1> QED BY <1>2, <1>3, <1>4, NumbersAssumption DEF TypeOK, EditSet, EditFails, Mishap, poller, ghosts

LEMMA EditDoneType == TypeOK /\ EditDone => TypeOK'
BY DEF TypeOK, EditDone, EditPcs, poller, ghosts

LEMMA EditWriteType == TypeOK /\ EditWrite => TypeOK'
BY NoEditType DEF TypeOK, EditWrite, poller, ghosts

LEMMA OperatorType == TypeOK /\ (Suspend \/ Start \/ Boot) => TypeOK'
<1>1. TypeOK /\ Suspend => TypeOK'
  BY OffType, NumbersAssumption DEF TypeOK, Suspend, Call, poller, ghosts
<1>2. TypeOK /\ Start => TypeOK'
  BY NewGroupType, NoTimersType, NumbersAssumption DEF TypeOK, Start, Call, At, poller, Ages
<1>3. TypeOK /\ Boot => TypeOK'
  BY DEF TypeOK, Boot, poller, ghosts
<1> QED BY <1>1, <1>2, <1>3

LEMMA TypeStep == TypeOK /\ [Next]_vars => TypeOK'
<1> SUFFICES ASSUME TypeOK, [Next]_vars PROVE TypeOK'
  OBVIOUS
<1>1. CASE UNCHANGED vars
  BY <1>1 DEF TypeOK, vars, ghosts
<1>2. CASE Round
  BY <1>2, WakeType, ScaleReadType, ScaleGroupType, ScaleDecideType, ScalePersistType, ScaleSetType,
     ScaleRecordType, ScaleResetType, SuspendListType, SuspendCheckType, SuspendJudgeType,
     SuspendMarkType, SuspendForgetType, SuspendCallType DEF Round
<1>3. CASE Fault
  BY <1>3, FaultType, UnpolledType, EditSetType DEF Fault
<1>4. CASE EditRead \/ Editing
  BY <1>4, EditReadType, EditMarkType, EditDescribeType, EditSetType, EditDoneType, EditWriteType DEF Editing
<1>5. CASE Suspend \/ Start \/ Boot
  BY <1>5, OperatorType
<1> QED BY <1>1, <1>2, <1>3, <1>4, <1>5 DEF Next

\* Every variable keeps its type.
THEOREM TypeCorrect == Spec => []TypeOK
BY TypeInit, TypeStep, PTL DEF Spec

-------------------------------------------------------------------------------
(* Cooldowns: the age the autoscaler goes by is that of its last change, except  *)
(* between a change and its event, and it decided to change only when that age    *)
(* allowed it; no time passes inside a round.                                    *)

Cooldown == IF tick.to > tick.desired THEN UpCooldown ELSE DownCooldown

CooldownInv ==
  /\ unrecorded \/ scaled = moved
  /\ pc = "set" => scaled >= Cooldown
  /\ pc = "record" => moved = 0

LEMMA CooldownInit == Init => CooldownInv
BY DEF Init, CooldownInv

LEMMA CooldownDecide ==
  ASSUME TypeOK, CooldownInv, ScaleDecide
  PROVE  CooldownInv'
<1>0. PICK cpu \in {"low", "mid", "high"} : \E t, n :
        /\ t = Counted(cpu) /\ n = Decided(t, tick.row, tick.desired)
        /\ pc' = (IF n = tick.desired THEN "persist" ELSE "set")
        /\ tick' = [tick EXCEPT !.timers = t, !.to = n]
  BY DEF ScaleDecide, GoTo
<1>1. PICK t, n :
        /\ t = Counted(cpu) /\ n = Decided(t, tick.row, tick.desired)
        /\ pc' = (IF n = tick.desired THEN "persist" ELSE "set")
        /\ tick' = [tick EXCEPT !.timers = t, !.to = n]
  BY <1>0
<1>2. n # tick.desired => scaled >= (IF n > tick.desired THEN UpCooldown ELSE DownCooldown)
  BY <1>1, DecidedType DEF TypeOK
<1>3. tick'.to = n /\ tick'.desired = tick.desired
  BY <1>1 DEF TypeOK
<1> QED BY <1>1, <1>2, <1>3 DEF ScaleDecide, ghosts, CooldownInv, Cooldown

LEMMA CooldownStep == TypeOK /\ CooldownInv /\ [Next]_vars => CooldownInv'
<1> SUFFICES ASSUME TypeOK, CooldownInv, [Next]_vars PROVE CooldownInv'
  OBVIOUS
<1>1. CASE UNCHANGED vars
  BY <1>1 DEF CooldownInv, Cooldown, vars, ghosts
<1>2. CASE Wake \/ Unpolled
  BY <1>2 DEF CooldownInv, Cooldown, Wake, Unpolled, TimePasses
<1>3. CASE ScaleDecide
  BY <1>3, CooldownDecide
<1>4. CASE ScaleSet \/ ScaleRecord
  <2>1. CASE ScaleSet
    BY <2>1 DEF CooldownInv, ScaleSet, AfterScaling, GoTo
  <2>2. CASE ScaleRecord
    BY <2>2 DEF CooldownInv, ScaleRecord, GoTo, At
  <2> QED BY <1>4, <2>1, <2>2
<1>5. CASE ScaleRead \/ ScaleGroup \/ ScalePersist \/ ScaleReset \/ ScaleFails \/ ScaleAnswerLost
  BY <1>5 DEF CooldownInv, ScaleRead, ScaleGroup, ScalePersist, ScaleReset, ScaleFails, ScaleAnswerLost,
     AfterScaling, GoTo, ghosts
<1>6. CASE SuspendList \/ SuspendCheck \/ SuspendJudge \/ SuspendMark \/ SuspendForget \/ SuspendCall
           \/ SuspendBlind \/ Crash
  BY <1>6 DEF CooldownInv, SuspendList, SuspendCheck, SuspendJudge, SuspendMark, SuspendForget,
     SuspendCall, SuspendBlind, Crash, Sleep, GoTo, At, ghosts
<1>7. CASE EditFails \/ EditRead \/ Editing \/ Suspend \/ Start \/ Boot
  BY <1>7 DEF CooldownInv, Cooldown, EditFails, EditRead, Editing, EditMark, EditDescribe, EditSet,
     EditDone, EditWrite, Suspend, Start, Boot, poller, ghosts
<1> QED BY <1>1, <1>2, <1>3, <1>4, <1>5, <1>6, <1>7 DEF Next, Round, Fault

\* Between two changes of the size lies the cooldown of the second, unless the first one's
\* event was never stored.
THEOREM CooldownAlways == Spec => CooldownKept
<1>1. CooldownInv /\ [Next]_vars =>
        [pc = "set" /\ pc' = "record" =>
           unrecorded \/ moved >= (IF tick.to > tick.desired THEN UpCooldown ELSE DownCooldown)]_vars
  BY DEF CooldownInv, Cooldown
<1> QED BY <1>1, TypeInit, TypeStep, CooldownInit, CooldownStep, PTL DEF Spec, CooldownKept

-------------------------------------------------------------------------------
(* Auto-suspend: the idle date is not older than the last use anybody could have  *)
(* seen, except in a round that is about to see one.                             *)

Ahead == InUse /\ pc \in ScalePcs \union {"list", "check", "judge", "forget"}

IdleInv ==
  /\ timers.idle # NoAge => missed \/ Ahead \/ quiet >= timers.idle
  /\ pc = "sleep" => ~InUse
  /\ pc \in {"mark", "call"} => ~Busy /\ load # "warm"
  /\ pc = "judge" => load # "warm"
  /\ pc = "call" => missed \/ group = NoGroup \/ quiet >= tick.row.suspend

LEMMA IdleInit == Init => IdleInv
BY DEF Init, IdleInv, NoTimers, InUse

\* A round begins: the date grows older, and so does the last use, or the cluster is in use.
LEMMA IdleTime ==
  ASSUME TypeOK, IdleInv, Wake \/ Unpolled
  PROVE  IdleInv'
<1>1. pc = "sleep" /\ ~InUse /\ ~Ahead
  BY DEF Wake, Unpolled, IdleInv, Ahead
<1>2. timers'.idle = Older(timers.idle) /\ missed' = missed
  BY DEF Wake, Unpolled, TimePasses, TypeOK, Timers
<1>3. timers.idle # NoAge /\ ~missed => quiet >= timers.idle
  BY <1>1 DEF IdleInv
<1>4. timers.idle \in Ages \union {NoAge} /\ quiet \in Ages
  BY DEF TypeOK, Timers
<1>5. timers'.idle # NoAge /\ ~missed => Older(quiet) >= timers'.idle
  BY <1>2, <1>3, <1>4, NumbersAssumption DEF Older, Ages, NoAge
<1>6. CASE Wake
  <2>1. pc' = "scale" /\ quiet' = (IF InUse' THEN 0 ELSE Older(quiet))
    BY <1>6 DEF Wake
  <2>2. timers'.idle # NoAge => missed' \/ Ahead' \/ quiet' >= timers'.idle
    BY <1>2, <1>5, <2>1 DEF Ahead, ScalePcs
  <2> QED BY <2>1, <2>2 DEF IdleInv
<1>7. CASE Unpolled
  <2>1. quiet' = Older(quiet) /\ pc' = "sleep" /\ load' = load
    BY <1>7 DEF Unpolled
  <2> QED BY <1>1, <1>2, <1>5, <2>1 DEF IdleInv, InUse
<1> QED BY <1>6, <1>7

\* The autoscaler writes its own columns, and a round it is in has the suspender still ahead.
LEMMA IdleScaling ==
  ASSUME TypeOK, IdleInv,
         ScaleRead \/ ScaleGroup \/ ScaleDecide \/ ScalePersist \/ ScaleSet \/ ScaleRecord \/ ScaleReset
           \/ ScaleFails \/ ScaleAnswerLost
  PROVE  IdleInv'
<1>1. pc \in ScalePcs /\ pc' \in ScalePcs \union {"list"}
  BY DEF ScaleRead, ScaleGroup, ScaleDecide, ScalePersist, ScaleSet, ScaleRecord, ScaleReset, ScaleFails,
     ScaleAnswerLost, AfterScaling, At, GoTo, ScalePcs
<1>2. missed' = missed /\ quiet' = quiet /\ load' = load
  BY DEF ScaleRead, ScaleGroup, ScaleDecide, ScalePersist, ScaleSet, ScaleRecord, ScaleReset, ScaleFails,
     ScaleAnswerLost, ghosts
<1>3. ASSUME NEW t \in Timers, Upsert(t) PROVE timers'.idle = timers.idle
  BY <1>3 DEF Upsert, Timers
<1>4. timers'.idle = timers.idle
  <2>1. CASE ScalePersist \/ ScaleReset
    BY <1>3, <2>1, NoTimersType DEF ScalePersist, ScaleReset, TypeOK
  <2>2. CASE ~(ScalePersist \/ ScaleReset)
    BY <2>2 DEF ScaleRead, ScaleGroup, ScaleDecide, ScaleSet, ScaleRecord, ScaleFails, ScaleAnswerLost
  <2> QED BY <2>1, <2>2
<1>5. Ahead => Ahead'
  BY <1>1, <1>2 DEF Ahead, InUse
<1>6. pc' \notin {"sleep", "mark", "judge", "call"}
  BY <1>1 DEF ScalePcs
<1> QED BY <1>2, <1>4, <1>5, <1>6 DEF IdleInv

LEMMA IdleListed ==
  ASSUME TypeOK, IdleInv, SuspendList \/ SuspendCheck \/ SuspendBlind
  PROVE  IdleInv'
<1>1. CASE SuspendList
  BY <1>1 DEF SuspendList, Sleep, GoTo, At, IdleInv, Ahead, InUse
<1>2. CASE SuspendCheck
  BY <1>2 DEF SuspendCheck, GoTo, At, IdleInv, Ahead, InUse, ghosts
<1>3. CASE SuspendBlind
  BY <1>3 DEF SuspendBlind, GoTo, At, IdleInv, Ahead, InUse, ghosts
<1> QED BY <1>1, <1>2, <1>3

LEMMA IdleJudged ==
  ASSUME TypeOK, IdleInv, SuspendJudge
  PROVE  IdleInv'
<1>1. pc = "judge" /\ load # "warm" /\ UNCHANGED <<timers, quiet, missed, group>>
  BY DEF SuspendJudge, At, IdleInv, ghosts
<1>2. CASE Busy /\ GoTo("forget") /\ UNCHANGED <<tick, load>>
  BY <1>1, <1>2 DEF IdleInv, Ahead, InUse, Busy, GoTo
<1>3. CASE ~Busy
  <2>1. ~InUse /\ ~Ahead
    BY <1>1, <1>3 DEF InUse, Busy, Ahead, TypeOK, Loads
  <2>2. timers.idle # NoAge => missed \/ quiet >= timers.idle
    BY <2>1 DEF IdleInv
  <2>3. CASE GoTo("mark") /\ UNCHANGED <<tick, load>>
    BY <1>1, <1>3, <2>2, <2>3 DEF IdleInv, GoTo, Busy
  <2>4. CASE timers.idle >= tick.row.suspend /\ GoTo("call") /\ UNCHANGED <<tick, load>>
    <3>1. tick.row.suspend \in Nat /\ timers.idle \in Int /\ quiet \in Int
      BY RowNumbers, NumbersAssumption DEF TypeOK, Timers, Ages, NoAge
    <3>2. timers.idle # NoAge
      BY <2>4, <3>1 DEF NoAge
    <3>3. missed \/ quiet >= tick.row.suspend
      BY <2>2, <2>4, <3>1, <3>2
    <3> QED BY <1>1, <1>3, <2>2, <2>4, <3>3 DEF IdleInv, GoTo, Busy
  <2>5. CASE Sleep
    BY <1>1, <2>2, <2>5 DEF IdleInv, Sleep, InUse
  <2> QED BY <1>3, <2>3, <2>4, <2>5 DEF SuspendJudge
<1> QED BY <1>2, <1>3 DEF SuspendJudge

LEMMA IdleWritten ==
  ASSUME TypeOK, IdleInv, SuspendMark \/ SuspendForget \/ SuspendCall \/ Crash
  PROVE  IdleInv'
<1>1. CASE SuspendMark
  <2>1. timers'.idle = 0 /\ quiet' = quiet /\ pc' = "sleep" /\ load' = "idle"
    BY <1>1 DEF SuspendMark, Sleep, TypeOK, Timers
  <2>2. quiet >= 0
    BY NumbersAssumption DEF TypeOK, Ages
  <2> QED BY <2>1, <2>2 DEF IdleInv, InUse
<1>2. CASE SuspendForget
  BY <1>2 DEF SuspendForget, Sleep, TypeOK, Timers, IdleInv, InUse
<1>3. CASE SuspendCall
  BY <1>3 DEF SuspendCall, Off, NoTimers, GoTo, IdleInv
<1>4. CASE Crash
  BY <1>4 DEF Crash, Sleep, IdleInv, InUse, Ahead
<1> QED BY <1>1, <1>2, <1>3, <1>4

\* An operator's calls do not move the poller; a start leaves no idle date.
LEMMA IdleCalls ==
  ASSUME TypeOK, IdleInv, EditFails \/ EditRead \/ Editing \/ Suspend \/ Start \/ Boot
  PROVE  IdleInv'
<1>1. pc' = pc /\ tick' = tick /\ load' = load
  BY DEF EditFails, EditRead, Editing, EditMark, EditDescribe, EditSet, EditDone, EditWrite, Suspend,
     Start, Boot, poller
<1>2. CASE EditFails \/ EditRead \/ Editing \/ Boot
  <2>1. timers' = timers /\ quiet' = quiet /\ missed' = missed
    BY <1>2 DEF EditFails, EditRead, Editing, EditMark, EditDescribe, EditSet, EditDone, EditWrite, Boot, ghosts
  <2>2. group = NoGroup => group' = NoGroup
    BY <1>2 DEF EditFails, EditRead, Editing, EditMark, EditDescribe, EditSet, EditDone, EditWrite, Boot,
       Reverted, Accepted
  <2> QED BY <1>1, <2>1, <2>2 DEF IdleInv, Ahead, InUse, Busy
<1>3. CASE Suspend
  BY <1>1, <1>3 DEF Suspend, Off, NoTimers, IdleInv, Ahead, InUse, Busy
<1>4. CASE Start
  BY <1>1, <1>4 DEF Start, At, NoTimers, IdleInv, Ahead, InUse, Busy
<1> QED BY <1>2, <1>3, <1>4

LEMMA IdleStep == TypeOK /\ IdleInv /\ [Next]_vars => IdleInv'
<1> SUFFICES ASSUME TypeOK, IdleInv, [Next]_vars PROVE IdleInv'
  OBVIOUS
<1>1. CASE UNCHANGED vars
  BY <1>1 DEF IdleInv, Ahead, InUse, Busy, vars, ghosts
<1>2. CASE Round \/ Fault
  BY <1>2, IdleTime, IdleScaling, IdleListed, IdleJudged, IdleWritten, IdleCalls DEF Round, Fault
<1>3. CASE EditRead \/ Editing \/ Suspend \/ Start \/ Boot
  BY <1>3, IdleCalls
<1> QED BY <1>1, <1>2, <1>3 DEF Next

\* What the poller suspends has not been in use for the time its row asks for, unless a round
\* could not see it.
THEOREM SuspendsOnlyIdleAlways == Spec => SuspendsOnlyIdle
<1>1. IdleInv /\ [Next]_vars =>
        [pc = "call" /\ pc' = "forget" /\ group # NoGroup => quiet >= tick.row.suspend \/ missed]_vars
  BY DEF IdleInv
<1> QED BY <1>1, TypeInit, TypeStep, IdleInit, IdleStep, PTL DEF Spec, SuspendsOnlyIdle
=============================================================================
