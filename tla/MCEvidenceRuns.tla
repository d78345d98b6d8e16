-------------------------- MODULE MCEvidenceRuns --------------------------
(* Small instances of EvidenceRuns: a baseline and two candidates, each with *)
(* what it may be ingested as later.                                         *)
EXTENDS EvidenceRuns

Base == QuantRun("b", 18, 92, 14)
Good == QuantRun("c", 26, 120, 12)
Risky == QuantRun("d", 28, 130, 25)

QuantRuns == <<"good", "risky">>
QuantContent ==
  [base |-> Base, moved |-> [Base EXCEPT !.workflow = "v"],
   good |-> Good,
   made_up |-> [Good EXCEPT !.kind = "synthetic", !.schema = <<>>],
   dark |-> [Good EXCEPT !.trace = {}],
   risky |-> Risky, short |-> [QuantRun("d", 22, 100, 14) EXCEPT !.metrics["sample_count"] = 20]]
QuantPayloads == DOMAIN QuantContent
===========================================================================
