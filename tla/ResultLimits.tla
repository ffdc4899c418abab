------------------------------ MODULE ResultLimits ------------------------------
(***************************************************************************)
(* What a run keeps of the rows Trino returns: page after page, up to the limits     *)
(* of the list that is shown and of the one that is downloaded.                   *)
(*                                                                          *)
(* A row is its number and its size in bytes as JSON; a list of rows takes two       *)
(* brackets and a comma between rows.                                        *)
(***************************************************************************)
EXTENDS Naturals, Sequences, FiniteSets, SequencesExt

CONSTANTS
  Sizes,         \* sizes of rows
  Pages,         \* bound: numbers of rows in a page
  MaxGiven,      \* bound: rows of a run
  ShownRows, ShownBytes,       \* MAX_QUERY_RESULT_ROWS and MAX_QUERY_RESULT_BYTES
  DownloadRows, DownloadBytes  \* MAX_QUERY_DOWNLOAD_ROWS and MAX_QUERY_DOWNLOAD_BYTES

\* The code's limits are 1000 and 10000 rows, 10 and 50 megabytes.
ASSUME LimitsAssumption ==
  /\ Sizes \subseteq Nat /\ Pages \subseteq Nat /\ MaxGiven \in Nat
  /\ \A limit \in {ShownRows, ShownBytes, DownloadRows, DownloadBytes} : limit \in Nat
  /\ ShownBytes >= 2 /\ DownloadBytes >= 2

VARIABLES
  given, \* every row Trino has returned for the run, in order
  kept   \* the run's row: data, download, what is said of them, and the rows a page before left

limitVars == <<given, kept>>

-------------------------------------------------------------------------------
Sum(rows) == LET first[n \in 0 .. Len(rows)] == IF n = 0 THEN 0 ELSE first[n - 1] + rows[n].size IN first[Len(rows)]

\* len(dumps(rows)).
Bytes(rows) == 2 + Sum(rows) + (IF rows = <<>> THEN 0 ELSE Len(rows) - 1)

AddBare(list, row, maxRows, maxBytes) ==
  IF Len(list.rows) < maxRows /\ list.bytes + row.size <= maxBytes
  THEN [list EXCEPT !.rows = Append(@, row), !.bytes = @ + row.size]
  ELSE [list EXCEPT !.limited = TRUE]

\* One incoming row: kept if it fits, with a comma; a smaller one after it may still fit.
Add(list, row, maxRows, maxBytes) ==
  IF Len(list.rows) < maxRows /\ list.bytes + row.size + 1 <= maxBytes
  THEN [list EXCEPT !.rows = Append(@, row), !.bytes = @ + row.size + 1]
  ELSE [list EXCEPT !.limited = TRUE]

\* rows_with_limits: the list so far is measured again, and is dropped whole if it is too long.
Start(existing, maxRows, maxBytes) ==
  LET rows == SubSeq(existing, 1, IF Len(existing) < maxRows THEN Len(existing) ELSE maxRows) IN
  IF Bytes(rows) > maxBytes THEN [rows |-> <<>>, bytes |-> Bytes(<<>>), limited |-> TRUE]
  ELSE [rows |-> rows, bytes |-> Bytes(rows), limited |-> Len(existing) > Len(rows)]
RowsWithLimits(existing, incoming, maxRows, maxBytes) ==
  LET after[n \in 0 .. Len(incoming)] ==
        IF n = 0 THEN Start(existing, maxRows, maxBytes) ELSE Add(after[n - 1], incoming[n], maxRows, maxBytes)
  IN after[Len(incoming)]

\* apply_trino_response: both lists, and whether either lacks a row.
Applied(run, incoming) ==
  LET shown    == RowsWithLimits(run.data, incoming, ShownRows, ShownBytes)
      download == RowsWithLimits(run.download, incoming, DownloadRows, DownloadBytes)
      total    == run.total + Len(incoming)
  IN [data |-> shown.rows, download |-> download.rows, total |-> total, bytes |-> shown.bytes,
      truncated |-> shown.limited \/ total > Len(shown.rows),
      downloadTruncated |-> download.limited \/ total > Len(download.rows),
      before |-> <<run.data, run.download>>]

-------------------------------------------------------------------------------
LimitsInit ==
  /\ given = <<>>
  /\ kept = [data |-> <<>>, download |-> <<>>, total |-> 0, bytes |-> 0, truncated |-> FALSE, downloadTruncated |-> FALSE,
             before |-> <<<<>>, <<>>>>]

\* A response of Trino with a page of rows, none while the query still plans.
Page ==
  /\ Len(given) < MaxGiven
  /\ \E n \in {k \in Pages : Len(given) + k <= MaxGiven} : \E sizes \in [1 .. n -> Sizes] :
       LET incoming == [i \in 1 .. n |-> [id |-> Len(given) + i, size |-> sizes[i]]] IN
       /\ given' = given \o incoming
       /\ kept' = Applied(kept, incoming)

LimitsSpec == LimitsInit /\ [][Page]_limitVars

-------------------------------------------------------------------------------
\* What was kept stays: a later page neither drops rows nor moves them, though it measures the list again;
\* the lists hold rows of the run in their order, within their limits; and whether one lacks a row is told,
\* however many pages ago that row came.
KeptForGood ==
  LET Honest(rows, before, maxRows, maxBytes, told) ==
        /\ IsPrefix(before, rows) /\ Len(rows) <= maxRows /\ Bytes(rows) <= maxBytes
        /\ \A i, j \in DOMAIN rows : i < j => rows[i].id < rows[j].id
        /\ \A i \in DOMAIN rows : rows[i] = given[rows[i].id]
        /\ told <=> rows # given
  IN given # <<>> => /\ Honest(kept.data, kept.before[1], ShownRows, ShownBytes, kept.truncated)
                     /\ Honest(kept.download, kept.before[2], DownloadRows, DownloadBytes, kept.downloadTruncated)
=============================================================================
