--------------------------- MODULE MCIngestPlane ---------------------------
EXTENDS IngestPlane, TLC

SamePage == \A r, s \in Receipts : fetch[r].hash = fetch[s].hash

\* Attempts that fetch different pages meet only at the checkpoints: they are of
\* one unit and one correlation.  Attempts that fetch the same page may differ in both.
MCInit ==
  /\ Init
  /\ SamePage \/ \A r, s \in Receipts :
       fetch[r].unit = fetch[s].unit /\ fetch[r].corr = fetch[s].corr

\* The evidence of different pages is retained and deleted apart: one orphan shows the
\* one at work while the other page is committed.
OrphansApart == SamePage \/ recorded' <= 1

MCSpec == MCInit /\ [][Next /\ OrphansApart]_vars

\* Attempts, units, correlations and reapers are told apart by nothing.
MCSymmetry ==
  Permutations(Receipts) \cup Permutations(Units) \cup Permutations(Correlations)
    \cup Permutations(Reapers)
=============================================================================
