------------------------------ MODULE MCIngest ------------------------------
(* Instances of Ingest. *)
EXTENDS Ingest

CONSTANTS c1, c2, u1, j1, t1, t2

Traffic == {{"ingest", "sync", "process"},
            {"ingest", "async"},
            {"file", "time", "settings"},
            {"file", "async", "ingest"},
            {"file", "time", "delete"}}
=============================================================================
