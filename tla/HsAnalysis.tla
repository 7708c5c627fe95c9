----------------------------- MODULE HsAnalysis -----------------------------
(***************************************************************************)
(* tools/analyze_hs_csv.py: what the host makes of a serial capture of the *)
(* connection benchmark.  A line is a record with the number of its comma- *)
(* separated fields; what those of a legacy format mean decides how a line *)
(* that was cut is read.  One scheme, board and campaign.                  *)
(***************************************************************************)
EXTENDS Integers, Sequences, FiniteSets

RowFields   == 44   \* columns of csv_hs, the tag included
StartFields == 7    \* columns of csv_hs_start

\* One row of LEGACY_FIELDS_13 or LEGACY_FIELDS_17 as the current format fills it: column
\* 4, the run of the old formats, is the campaign of the new, and success is assumed.
LegacyRow(k) ==
    [at |-> k, legacy |-> TRUE, run |-> "campaign", success |-> TRUE, stage |-> "none",
     error |-> "ok", timeout |-> FALSE]

CurrentRow(line, k) ==
    [at |-> k, legacy |-> FALSE, run |-> line.run, success |-> line.success,
     stage |-> line.stage, error |-> line.error, timeout |-> line.timeout]

HeaderSeen(capture, k) == \E j \in 1 .. k - 1 : capture[j].type = "header"

\* The rows parse keeps: a line of 17 fields would need a number where a cut row has the
\* name of the failure stage, and normalize gives up on it.
parse(capture) ==
    LET Lines == {k \in DOMAIN capture : capture[k].type = "row"}
    IN  {CurrentRow(capture[k], k) : k \in {j \in Lines : /\ capture[j].fields = RowFields
                                                          /\ HeaderSeen(capture, j)}}
        \cup {LegacyRow(k) : k \in {j \in Lines : capture[j].fields = 13}}

\* The runs that were started and have no row.
incomplete_attempts(capture) ==
    {capture[k].run : k \in {j \in DOMAIN capture : /\ capture[j].type = "start"
                                                    /\ capture[j].fields = StartFields}}
    \ {row.run : row \in {r \in parse(capture) : ~r.legacy}}

summarize(capture) ==
    LET rows == parse(capture)
        good == {row \in rows : row.success}
    IN  [attempted |-> Cardinality(rows), successful |-> Cardinality(good),
         failures  |-> Cardinality(rows) - Cardinality(good),
         timeouts  |-> Cardinality({row \in rows : row.timeout})]
=============================================================================
