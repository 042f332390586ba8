-------------------------- MODULE MCHistorySchema --------------------------
(***************************************************************************)
(* HistorySchema on a small instance.  Earlier versions have left a legacy *)
(* table without the columns, with two of them, or with all and its index. *)
(***************************************************************************)
EXTENDS HistorySchema

AllFaults == SchemaFaultKinds
NoFaults == {}

Legacy == {"conversations"}
Earlier == {Legacy, Legacy \cup {"topic", "url"}, Legacy \cup Columns \cup {"idx_updated_at"}}
=============================================================================
