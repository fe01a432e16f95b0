-------------------------- MODULE MCKinesisConsumer --------------------------
(* Small instances of KinesisConsumer for TLC.                             *)
EXTENDS KinesisConsumer

CONSTANTS d1, d2, k1, k2

S3Buckets == <<"bank-datalake-bronze", "bank-datalake-dlq">>

Records == <<2, 1>>

\* The record of the second shard is malformed.
OneMalformed == {<<2, 1>>}

=============================================================================
