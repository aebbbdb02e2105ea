------------------------------ MODULE MCDrain ------------------------------
(* The drain on small instances: one cfg per question.                     *)
EXTENDS Drain

CONSTANTS n1, n2, A, B

Ingest(i, t, d, old) ==
  [op |-> "ingest", id |-> i, text |-> t, date |-> d, supersedes |-> old, valid |-> TRUE]
Forget(i) ==
  [op |-> "forget", id |-> i, text |-> NoText, date |-> NoDate, supersedes |-> NoId,
   valid |-> TRUE]
ForgetIssue(d) ==
  [op |-> "forgetSource", id |-> NoId, text |-> NoText, date |-> d, supersedes |-> NoId,
   valid |-> TRUE]
Bad(record) == [record EXCEPT !.valid = FALSE]
Batch(kind, recs) == [kind |-> kind, records |-> recs]

MCDates == {1, 2}
MCOneDate == {1}
MCNone == {}

\* A batch with two issues, one that supersedes, one partly invalid, one that
\* forgets an issue, one that moves a text to another id, one that is no
\* batch.
TwoIssues == Batch("ingest", <<Ingest(n1, A, 1, NoId), Ingest(n2, B, 2, NoId)>>)
Renewal   == Batch("ingest", <<Ingest(n1, A, 1, NoId), Ingest(n2, B, 1, n1)>>)
Plain     == Batch("ingest", <<Ingest(n1, A, NoDate, NoId)>>)
Changed   == Batch("ingest", <<Ingest(n1, B, 1, NoId)>>)
Mixed     == Batch("ingest", <<Bad(Ingest(n1, A, 1, NoId)), Ingest(n2, B, NoDate, NoId)>>)
Issue1    == Batch("forget", <<ForgetIssue(1)>>)
NotN1      == Batch("forget", <<Forget(n1)>>)
Moved     == Batch("ingest", <<Ingest(n2, A, NoDate, NoId), Ingest(n1, B, NoDate, NoId)>>)
Garbage   == Batch("malformed", <<>>)

MCOrder     == {Renewal, Changed, Issue1, NotN1}
MCDeferred  == {Plain, NotN1}
MCMoved     == {Plain, Moved}
MCLive      == {TwoIssues, Mixed, Garbage}
=============================================================================
