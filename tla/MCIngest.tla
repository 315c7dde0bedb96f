----------------------------- MODULE MCIngest -----------------------------
(* Small command lines for Ingest. *)
EXTENDS Ingest

Line(b, c, n, s, w) == [backend |-> b, count |-> c, names |-> n, batch |-> s, workers |-> w]

\* Two workers and a short last batch; one worker and a channel that fills;
\* counts that are no multiple of the series or of the spans of a trace, and
\* a count smaller than a trace.
ManyLines ==
  {Line("zabbix", 5, 5, 2, 2), Line("zabbix", 5, 5, 1, 1),
   Line("remotewrite", 7, 3, 4, 2), Line("remotewrite", 2, 5, 1, 1),
   Line("loki", 5, 2, 2, 2), Line("elasticsearch", 5, 2, 2, 2),
   Line("spans", 17, 2, 12, 2), Line("spans", 3, 2, 4, 1)}

TwoChunks == {Line("zabbix", 3, 3, 1, 1)}
===========================================================================
