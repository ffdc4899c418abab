---------------------------------- MODULE Cron ----------------------------------
(***************************************************************************)
(* Cron expressions of scheduled jobs: what a field means and when an expression   *)
(* next runs.  The calendar is scaled: hours of a day, minutes of an hour, days of    *)
(* a week and lengths of months are constants, and so is the number of days that      *)
(* next_cron_run searches (366 in the code, the days of a leap year).             *)
(*                                                                          *)
(* A field is a list of parts, star for "*", each with the step after its "/".     *)
(* A moment counts minutes from the start of the calendar.                    *)
(***************************************************************************)
EXTENDS Naturals, Sequences, FiniteSets, SequencesExt

CONSTANTS
  Minutes,      \* of an hour
  Hours,        \* of a day
  WeekDays,     \* of a week
  MonthLengths, \* of the months of the calendar, year after year
  YearMonths,   \* months of a year
  SearchDays,   \* days that are searched
  CronFields    \* the expressions that are tried

Part == [star : BOOLEAN, bare : BOOLEAN, from : Nat, to : Nat, step : Nat]

ASSUME CronAssumption ==
  /\ {Minutes, Hours, WeekDays} \subseteq Nat \ {0} /\ SearchDays \in Nat
  /\ CronFields \subseteq [minute : Seq(Part), hour : Seq(Part), dom : Seq(Part), month : Seq(Part), dow : Seq(Part)]

VARIABLES
  expression, \* the five fields
  after       \* the moment next_cron_run is asked about

cronVars == <<expression, after>>

-------------------------------------------------------------------------------
\* The calendar: the days in order, the first a Sunday.
Days == FlattenSeq([m \in DOMAIN MonthLengths |->
          [d \in 1 .. MonthLengths[m] |-> [dom |-> d, month |-> ((m - 1) % YearMonths) + 1]]])
Day(t)    == t \div (Hours * Minutes)
Hour(t)   == (t \div Minutes) % Hours
Minute(t) == t % Minutes
Moment(day, hour, minute) == (day * Hours + hour) * Minutes + minute
MonthDays == CHOOSE n \in {MonthLengths[m] : m \in DOMAIN MonthLengths} : \A m \in DOMAIN MonthLengths : MonthLengths[m] <= n

-------------------------------------------------------------------------------
\* parse_cron_field: the values of one part, and of a field.
Bounds(part, low, high) == IF part.star THEN <<low, high>> ELSE <<part.from, part.to>>
Steps(part, low, high) ==
  LET b == Bounds(part, low, high) IN {n \in b[1] .. b[2] : (n - b[1]) % part.step = 0}
Valid(field, low, high) ==
  field # <<>> /\ \A i \in DOMAIN field :
    LET b == Bounds(field[i], low, high) IN field[i].step >= 1 /\ low <= b[1] /\ b[2] <= high /\ b[1] <= b[2]
Values(field, low, high) == UNION {Steps(field[i], low, high) : i \in DOMAIN field}

\* parse_cron_expression: restricted is a field that is not written as a lone "*".
Lone(field) == Len(field) = 1 /\ field[1].star /\ field[1].bare
Parsed(e) ==
  [minute |-> Values(e.minute, 0, Minutes - 1), hour |-> Values(e.hour, 0, Hours - 1),
   dom |-> Values(e.dom, 1, MonthDays), month |-> Values(e.month, 1, YearMonths),
   dow |-> {n % WeekDays : n \in Values(e.dow, 0, WeekDays)},
   either |-> ~Lone(e.dom) /\ ~Lone(e.dow)]
Accepted(e) ==
  /\ Valid(e.minute, 0, Minutes - 1) /\ Valid(e.hour, 0, Hours - 1) /\ Valid(e.dom, 1, MonthDays)
  /\ Valid(e.month, 1, YearMonths) /\ Valid(e.dow, 0, WeekDays)

DayMatches(cron, d) ==
  LET day == Days[d + 1]
      dom == day.dom \in cron.dom
      dow == d % WeekDays \in cron.dow
  IN day.month \in cron.month /\ IF cron.either THEN dom \/ dow ELSE dom /\ dow

Never == 0  \* a run is after some moment, so none is at 0

MinutesLeftAlways(cron, candidate, hour) == {m \in cron.minute : m >= Minute(candidate)}

\* The minutes left of an hour: all, except in the hour the day is entered in.
MinutesLeft(cron, candidate, hour) ==
  {m \in cron.minute : hour = Hour(candidate) => m >= Minute(candidate)}

\* The first match of a day that is entered at candidate, the hours and then the minutes in order.
FirstOfDay(cron, candidate) ==
  LET hours == {h \in cron.hour : h >= Hour(candidate) /\ MinutesLeft(cron, candidate, h) # {}}
      hour  == CHOOSE h \in hours : \A g \in hours : h <= g
      left  == MinutesLeft(cron, candidate, hour)
  IN IF ~DayMatches(cron, Day(candidate)) \/ hours = {} THEN Never
     ELSE Moment(Day(candidate), hour, CHOOSE m \in left : \A n \in left : m <= n)

\* next_cron_run: the days from candidate's on, entered at their start but for the first.
SearchFrom(cron, candidate) ==
  LET entered == [n \in 1 .. SearchDays |-> IF n = 1 THEN candidate ELSE Moment(Day(candidate) + n - 1, 0, 0)]
      found   == {n \in DOMAIN entered : FirstOfDay(cron, entered[n]) # Never}
  IN IF found = {} THEN Never ELSE FirstOfDay(cron, entered[CHOOSE n \in found : \A k \in found : n <= k])
NextCronRun == SearchFrom(Parsed(expression), after + 1)

-------------------------------------------------------------------------------
CronInit == expression \in {e \in CronFields : Accepted(e)} /\ after = 0

\* The poller asks again after every run; the calendar holds the days that are searched.
PassMinute ==
  /\ Day(after + 2) + SearchDays <= Len(Days)
  /\ after' = after + 1 /\ UNCHANGED expression

CronSpec == CronInit /\ [][PassMinute]_cronVars

-------------------------------------------------------------------------------
\* A minute matches if its hour, its minute, its month and its day do: the day by either field where both
\* say something, else by both.
MatchesMinute(cron, t) ==
  Minute(t) \in cron.minute /\ Hour(t) \in cron.hour /\ DayMatches(cron, Day(t))

\* Of an expression that is accepted, the run that is found is the first match after the moment, and none is
\* missed: it is said never to match only if nothing matches from now to the last of the days that are searched.
NextRunIsFirst ==
  LET cron == Parsed(expression)
      next == NextCronRun
      last == Moment(Day(after + 1) + SearchDays, 0, 0) - 1
      Missed(times) == \E t \in times : MatchesMinute(cron, t)
  IN Accepted(expression) =>
     IF next = Never THEN ~Missed(after + 1 .. last)
     ELSE next > after /\ MatchesMinute(cron, next) /\ ~Missed(after + 1 .. next - 1)
=============================================================================
