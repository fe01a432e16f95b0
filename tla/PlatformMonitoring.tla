-------------------------- MODULE PlatformMonitoring --------------------------
(***************************************************************************)
(* One run after another of alert_manager.py: it collects the metrics of   *)
(* six layers, one layer after the other while the platform goes on,       *)
(* compares them with the SLOs and posts every breach to a webhook.  The   *)
(* model registry it lists is the one of ModelRegistry.  Numbers are in    *)
(* thousandths, ages and the clock in minutes.                             *)
(***************************************************************************)
EXTENDS ModelRegistry, Integers, Sequences

CONSTANTS
  Jumps,      \* how many minutes may pass at once
  MaxTime,    \* bound: the last minute
  MaxEvents   \* bound: outages and recoveries

ASSUME MonitoringAssumption ==
  Jumps \subseteq Nat \ {0} /\ MaxTime \in Nat /\ MaxEvents \in Nat

VARIABLES
  now,       \* the clock
  events,    \* outages and recoveries so far
  stream,    \* what CloudWatch answers for the stream
  bronze,    \* when the newest file under BRONZE_PATH was written
  silver,    \* whether there is a parquet file under SILVER_PATH
  tables,    \* when the newest file under WAREHOUSE_PATH was written
  cost,      \* whether the reporter can be built, and what the cloud costs
  webhook,   \* whether the webhook takes an alert within 10 s
  check,     \* the run: the layer it is at, and the metrics it has
  breaches,  \* the breaches of the last collection that are still to be sent
  previous,  \* history: all breaches of the last collection
  told,      \* history: <<layer, metric>> of the alerts delivered in this run
  steady     \* history: the layers that have not changed since the run began

world == <<now, events, stream, bronze, silver, tables, cost, webhook>>
run == <<check, breaches, previous, told>>
vars == <<regVars, world, run, steady>>

Layers == <<"streaming_ingestion", "bronze", "silver", "ml", "warehouse", "cost">>
Layer == {Layers[i] : i \in DOMAIN Layers}

Never == MaxTime + 1   \* no file
Inf == 1000000000      \* float('inf')

Age(written) == now - written

-----------------------------------------------------------------------------
(* metrics_collector.py                                                    *)

\* An exception gives the same numbers as no datapoints.
CollectStreaming ==
  [event_latency_p99 |-> IF stream = "slow" THEN 600000 ELSE IF stream = "good" THEN 100000 ELSE 0,
   delivery_success_rate |-> IF stream \in {"good", "slow"} THEN 100000 ELSE 0,
   dlq_count |-> 0]

\* The defect of a freshness that is 0 when there is nothing to be fresh.
CollectBronzeFresh ==
  [data_freshness |-> IF bronze = Never THEN 0 ELSE 1000 * Age(bronze), schema_drift_count |-> 0]

CollectBronze ==
  [data_freshness |-> IF bronze = Never THEN Inf ELSE 1000 * Age(bronze), schema_drift_count |-> 0]

CollectSilver ==
  IF silver THEN [transformation_success_rate |-> 98500, feature_validity_rate |-> 99200]
  ELSE [transformation_success_rate |-> 0, feature_validity_rate |-> 0]

\* Zeros if no model is approved, and if list_models raises.
CollectMl ==
  IF ~ListRaises /\ ListModels("approved") # {}
  THEN [inference_latency_p99 |-> 45000, model_accuracy |-> 920, drift_score |-> 30]
  ELSE [inference_latency_p99 |-> 0, model_accuracy |-> 0, drift_score |-> 0]

\* table_freshness is in hours.
CollectWarehouse ==
  IF tables = Never THEN [etl_success_rate |-> 0, table_freshness |-> Inf]
  ELSE [etl_success_rate |-> 99500, table_freshness |-> (1000 * Age(tables)) \div 60]

\* Without credentials the reporter adds up canned amounts; if it raises, zeros.
CollectCost ==
  [daily_spend |-> IF cost = "high" THEN 6000000 ELSE IF cost = "canned" THEN 38097 ELSE 0,
   cost_per_prediction |-> IF cost = "high" THEN 60 ELSE 0]

\* What the collector reads of a layer as the platform is now.
Collected(layer) ==
  CASE layer = "streaming_ingestion" -> CollectStreaming
    [] layer = "bronze"    -> CollectBronze
    [] layer = "silver"    -> CollectSilver
    [] layer = "ml"        -> CollectMl
    [] layer = "warehouse" -> CollectWarehouse
    [] layer = "cost"      -> CollectCost

-----------------------------------------------------------------------------
(* alert_manager.py                                                        *)

\* slis_slos.yaml
Slo ==
  [streaming_ingestion |-> [event_latency_p99 |-> 500000, delivery_success_rate |-> 99900,
                            dlq_count |-> 100000],
   bronze    |-> [data_freshness |-> 15000, schema_drift_count |-> 0],
   silver    |-> [transformation_success_rate |-> 99500, feature_validity_rate |-> 99000],
   ml        |-> [inference_latency_p99 |-> 100000, model_accuracy |-> 90000, drift_score |-> 50],
   warehouse |-> [etl_success_rate |-> 99900, table_freshness |-> 60000],
   cost      |-> [daily_spend |-> 5000000, cost_per_prediction |-> 1]]

LowerIsBetter ==
  {"event_latency_p99", "dlq_count", "data_freshness", "schema_drift_count",
   "inference_latency_p99", "drift_score", "table_freshness", "daily_spend",
   "cost_per_prediction"}

\* The defect of a freshness that is taken for a rate.
IsBreachOfRate(metric, value, threshold) ==
  IF metric \in LowerIsBetter \ {"data_freshness"} THEN value > threshold ELSE value < threshold

IsBreach(metric, value, threshold) ==
  IF metric \in LowerIsBetter THEN value > threshold ELSE value < threshold

Abs(n) == IF n < 0 THEN 0 - n ELSE n

\* get_severity: 3 is critical, 2 is warning, 1 is info.
Severity(metric, value, threshold) ==
  IF metric \in {"delivery_success_rate", "schema_drift_count", "inference_latency_p99"} THEN 3
  ELSE IF threshold = 0 THEN 2
  ELSE IF 2 * Abs(value - threshold) > threshold THEN 3
  ELSE IF 5 * Abs(value - threshold) > threshold THEN 2
  ELSE 1

Breach(layer, metric, value) ==
  [layer |-> layer, metric |-> metric, value |-> value,
   severity |-> Severity(metric, value, Slo[layer][metric])]

CheckBreaches(metrics) ==
  UNION {{Breach(l, m, metrics[l][m]) :
            m \in {x \in DOMAIN Slo[l] : IsBreach(x, metrics[l][x], Slo[l][x])}} : l \in Layer}

-----------------------------------------------------------------------------
(* One run of alert_manager.py                                             *)

NoCheck == [at |-> 0, metrics |-> << >>, since |-> 0]

StartCheck ==
  /\ check.at = 0
  /\ check' = [at |-> 1, metrics |-> [l \in {} |-> << >>], since |-> now]
  /\ told' = {}
  /\ steady' = Layer
  /\ UNCHANGED <<regVars, world, breaches, previous>>

CollectLayer ==
  /\ check.at \in DOMAIN Layers
  /\ LET layer == Layers[check.at] IN
     check' = [check EXCEPT !.at = @ + 1,
                            !.metrics = [l \in DOMAIN check.metrics \cup {layer} |->
                              IF l = layer THEN Collected(l) ELSE check.metrics[l]]]
  /\ UNCHANGED <<regVars, world, breaches, previous, told, steady>>

\* collect_all saves the metrics; process_alerts compares them with the SLOs.
SaveAndCompare ==
  /\ check.at = Len(Layers) + 1
  /\ check' = [check EXCEPT !.at = @ + 1, !.metrics = << >>]
  /\ breaches' = CheckBreaches(check.metrics)
  /\ previous' = breaches'
  /\ UNCHANGED <<regVars, world, told, steady>>

Sending == check.at = Len(Layers) + 2 /\ breaches # {}

\* send_alert: what the webhook does not take is printed and forgotten.
SendAlert ==
  /\ Sending
  /\ LET b == CHOOSE x \in breaches : TRUE IN
       /\ breaches' = breaches \ {b}
       /\ told' = IF webhook THEN told \cup {<<b.layer, b.metric>>} ELSE told
  /\ UNCHANGED <<regVars, world, check, previous, steady>>

EndCheck ==
  /\ check.at = Len(Layers) + 2 /\ breaches = {}
  /\ check' = NoCheck
  /\ UNCHANGED <<regVars, world, breaches, previous, told, steady>>

\* The process is killed, or the metrics cannot be saved.
CheckDies ==
  /\ check.at # 0
  /\ events < MaxEvents
  /\ events' = events + 1
  /\ check' = NoCheck
  /\ breaches' = {}
  /\ UNCHANGED <<regVars, now, stream, bronze, silver, tables, cost, webhook, previous, told, steady>>

Check == StartCheck \/ CollectLayer \/ SaveAndCompare \/ SendAlert \/ EndCheck

-----------------------------------------------------------------------------
(* The platform                                                            *)

Pass ==
  /\ \E d \in Jumps : now + d <= MaxTime /\ now' = now + d
  /\ UNCHANGED <<regVars, run, steady, events, stream, bronze, silver, tables, cost, webhook>>

\* Files appear and go, CloudWatch answers or does not.
LayerChanges ==
  /\ events < MaxEvents
  /\ events' = events + 1
  /\ \/ /\ stream' \in {"error", "empty", "good", "slow"} \ {stream}
        /\ steady' = steady \ {"streaming_ingestion"}
        /\ UNCHANGED <<bronze, silver, tables, cost>>
     \/ /\ bronze' \in {now, Never}
        /\ steady' = steady \ {"bronze"}
        /\ UNCHANGED <<stream, silver, tables, cost>>
     \/ /\ silver' = ~silver
        /\ steady' = steady \ {"silver"}
        /\ UNCHANGED <<stream, bronze, tables, cost>>
     \/ /\ tables' \in {now, Never}
        /\ steady' = steady \ {"warehouse"}
        /\ UNCHANGED <<stream, bronze, silver, cost>>
     \/ /\ cost' \in {"error", "canned", "high"} \ {cost}
        /\ steady' = steady \ {"cost"}
        /\ UNCHANGED <<stream, bronze, silver, tables>>
  /\ UNCHANGED <<regVars, run, now, webhook>>

WebhookChanges ==
  /\ webhook' = ~webhook
  /\ UNCHANGED <<regVars, run, steady, now, events, stream, bronze, silver, tables, cost>>

RegistryChanges ==
  /\ RegistryNext
  /\ steady' = IF meta' = meta THEN steady ELSE steady \ {"ml"}
  /\ UNCHANGED <<world, run>>

-----------------------------------------------------------------------------
Init ==
  /\ RegistryInit
  /\ now = 0 /\ events = 0
  /\ stream = "good" /\ bronze = 0 /\ silver = TRUE /\ tables = 0
  /\ cost = "canned" /\ webhook = TRUE
  /\ check = NoCheck
  /\ breaches = {} /\ previous = {} /\ told = {} /\ steady = {}

Next == Check \/ CheckDies \/ Pass \/ LayerChanges \/ WebhookChanges \/ RegistryChanges

Spec == Init /\ [][Next]_vars

\* A run that has started goes on, and the schedule starts the next one.
FairSpec == Spec /\ WF_vars(Check)

-----------------------------------------------------------------------------
(* Properties                                                              *)

TypeOK ==
  /\ RegistryTypeOK
  /\ now \in 0 .. MaxTime /\ events \in 0 .. MaxEvents
  /\ stream \in {"error", "empty", "good", "slow"}
  /\ {bronze, tables} \subseteq 0 .. Never
  /\ silver \in BOOLEAN /\ webhook \in BOOLEAN /\ cost \in {"error", "canned", "high"}
  /\ check.at \in 0 .. Len(Layers) + 2 /\ check.since \in 0 .. now
  /\ breaches \subseteq previous
  /\ \A b \in previous : b.layer \in Layer /\ b.metric \in DOMAIN Slo[b.layer] /\ b.severity \in 1 .. 3
  /\ told \subseteq {<<l, m>> : l \in Layer, m \in UNION {DOMAIN Slo[x] : x \in Layer}}
  /\ steady \subseteq Layer

Alerting == check.at = Len(Layers) + 2

\* A layer whose source cannot be read or holds nothing.
Down(layer) ==
  \/ layer = "streaming_ingestion" /\ stream \in {"error", "empty"}
  \/ layer = "bronze" /\ bronze = Never
  \/ layer = "silver" /\ ~silver
  \/ layer = "ml" /\ (ListRaises \/ ListModels("approved") = {})
  \/ layer = "warehouse" /\ tables = Never

\* A layer that is down for the whole of a run is reported as critical by it:
\* none of the fallback values of metrics_collector.py looks like a good one.
OutageIsCritical ==
  Alerting => \A l \in steady : Down(l) => \E b \in previous : b.layer = l /\ b.severity = 3

\* If from some time on nothing is written to Bronze and the webhook is up, the
\* alert of data_freshness is delivered again and again, although a delivery
\* that fails is not repeated (alert_manager.py:118-129).
SilenceIsReported ==
  <>[](webhook /\ (bronze = Never \/ Age(bronze) > 15))
    => []<>(<<"bronze", "data_freshness">> \in told)

=============================================================================
