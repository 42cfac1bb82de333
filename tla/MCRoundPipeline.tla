-------------------------- MODULE MCRoundPipeline --------------------------
(* Model-checking instances of RoundPipeline: two clients, which the Sentinel *)
(* sorts in another order, as it does "client-10" and "client-2".            *)
EXTENDS RoundPipeline

CONSTANTS c1, c2

MCClients == {c1, c2}
MCClientOrder == <<c1, c2>>
MCSentinelOrder == <<c2, c1>>

Verdict(path, action, anomaly) == [path |-> path, action |-> action, anomaly |-> anomaly]

\* The Sentinel's own scores stay below 76 (ScoreAloneNeverRecovers of
\* SentinelEngine); the firewall scores 100, and an update whose pipeline failed
\* before its anomaly scores 0.
MCScores == {0, 40, 75, 100}
MCVerdicts ==
    { Verdict("firewall", "QUARANTINE", 100),
      Verdict("complete", "ACCEPT", 40),
      Verdict("complete", "DOWN_WEIGHT", 75),
      Verdict("failed_early", "QUARANTINE", 0),
      Verdict("failed_late", "QUARANTINE", 75) }

\* The verdicts that matter over several rounds: trusted, quarantined below the
\* threshold, and rejected, which is above it.
MCFewVerdicts ==
    { Verdict("complete", "ACCEPT", 40),
      Verdict("complete", "QUARANTINE", 75),
      Verdict("firewall", "QUARANTINE", 100) }
=============================================================================
