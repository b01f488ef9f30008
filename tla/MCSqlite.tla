------------------------------ MODULE MCSqlite ------------------------------
(* An instance of Snapshots for TLC: three connections.                    *)
EXTENDS Snapshots

CONSTANTS a, b, d,  \* connections
          n1        \* a name for snapshots
=============================================================================
