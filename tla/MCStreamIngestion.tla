-------------------------- MODULE MCStreamIngestion --------------------------
(* A small instance of StreamIngestion for TLC.                            *)
EXTENDS StreamIngestion

CONSTANTS s1, s2   \* two shards, as in deploy_infrastructure.STREAM_CONFIG

\* One malformed record on the reliable shard; every record of the other one.
MalformedFew == {<<s1, 1>>, <<s2, 1>>, <<s2, 2>>}

=============================================================================
