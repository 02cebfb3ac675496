--------------------------- MODULE MCAutoRecovery ---------------------------
(* Small instances of AutoRecovery, with the limits of the code. *)
EXTENDS AutoRecovery

TwoComponents == <<"clickhouse_db", "data_collectors">>
OneComponent  == <<"clickhouse_db">>
=============================================================================
