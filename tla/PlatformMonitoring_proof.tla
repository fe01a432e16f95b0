---------------------- MODULE PlatformMonitoring_proof ----------------------
(* Types and the alerts of a run, for any versions, clerks, calls, times and *)
(* outages.                                                                  *)
EXTENDS PlatformMonitoring, TLAPS

-----------------------------------------------------------------------------
(* The registry                                                            *)

Clerk == [pc : {"free", "read", "writing"}, version : Versions, held : {Empty} \cup Metadata]

\* Only metadata is read, approved and written.
ClerkInv ==
  \A c \in Clerks : clerk[c].pc \in {"read", "writing"} => clerk[c].held \in Metadata

\* The inductive invariant of the registry.
RegistryAll == RegistryTypeOK /\ ClerkInv

LEMMA FreeClerk == Free \in Clerk /\ Free.pc = "free"
BY RegistryAssumption DEF Free, Clerk

\* One clerk steps and one file may change.
LEMMA ClerkStep ==
  ASSUME RegistryAll, NEW c \in Clerks, NEW x \in Clerk,
         clerk' = [clerk EXCEPT ![c] = x], ops' \in 0 .. MaxOps,
         x.pc \in {"read", "writing"} => x.held \in Metadata,
         meta' \in [Versions -> {NoFile, Empty, Mixed} \cup Metadata]
  PROVE  RegistryAll'
<1>1. clerk'[c] = x /\ (\A q \in Clerks \ {c} : clerk'[q] = clerk[q])
      /\ clerk' \in [Clerks -> Clerk]
  BY DEF RegistryAll, RegistryTypeOK, Clerk
<1>2. RegistryTypeOK'
  BY <1>1 DEF RegistryAll, RegistryTypeOK, Clerk, Metadata
<1>3. ClerkInv'
  BY <1>1 DEF RegistryAll, ClerkInv, Metadata
<1> QED
  BY <1>2, <1>3 DEF RegistryAll

LEMMA RegistryInitAll == RegistryInit => RegistryAll
<1> SUFFICES ASSUME RegistryInit PROVE RegistryAll
  OBVIOUS
<1> DEFINE first == [status |-> "pending_approval"]
<1>1. first \in Metadata /\ 0 \in 0 .. MaxOps
  BY RegistryAssumption DEF Metadata
<1>2. clerk \in [Clerks -> Clerk] /\ \A c \in Clerks : clerk[c].pc = "free"
  BY FreeClerk DEF RegistryInit
<1>3. meta \in [Versions -> {NoFile, first}]
  BY DEF RegistryInit
<1> HIDE DEF first
<1>4. RegistryTypeOK
  BY <1>1, <1>2, <1>3 DEF RegistryInit, RegistryTypeOK, Clerk
<1>5. ClerkInv
  BY <1>2 DEF ClerkInv
<1> QED
  BY <1>4, <1>5 DEF RegistryAll

LEMMA RegisterAll ==
  ASSUME RegistryAll, NEW c \in Clerks, RegisterOpen(c)
  PROVE  RegistryAll'
<1>1. PICK v \in Versions :
        /\ clerk' = [clerk EXCEPT ![c] =
             [pc |-> "writing", version |-> v,
              held |-> [status |-> "pending_approval"]]]
        /\ meta' = [meta EXCEPT ![v] = Empty]
  BY DEF RegisterOpen
<1>2. ops' \in 0 .. MaxOps
  BY RegistryAssumption DEF RegisterOpen, RegistryAll, RegistryTypeOK
<1> DEFINE held == [status |-> "pending_approval"]
           x == [pc |-> "writing", version |-> v, held |-> held]
<1>3. held \in Metadata
  BY <1>2 DEF Metadata
<1> HIDE DEF held
<1>4. x \in Clerk /\ x.held = held
  BY <1>3 DEF Clerk
<1>5. clerk' = [clerk EXCEPT ![c] = x]
  BY <1>1 DEF held
<1> HIDE DEF x
<1>6. meta' \in [Versions -> {NoFile, Empty, Mixed} \cup Metadata]
  BY <1>1 DEF RegistryAll, RegistryTypeOK
<1> QED
  BY <1>2, <1>3, <1>4, <1>5, <1>6, ClerkStep

LEMMA ApproveReadAll ==
  ASSUME RegistryAll, NEW c \in Clerks, ApproveRead(c)
  PROVE  RegistryAll'
<1>1. PICK v \in Versions :
        /\ meta[v] \in Metadata
        /\ clerk' = [clerk EXCEPT ![c] = [pc |-> "read", version |-> v, held |-> meta[v]]]
  BY DEF ApproveRead
<1>2. ops' \in 0 .. MaxOps /\ meta' = meta
  BY RegistryAssumption DEF ApproveRead, RegistryAll, RegistryTypeOK
<1> DEFINE x == [pc |-> "read", version |-> v, held |-> meta[v]]
<1>3. x \in Clerk /\ x.held = meta[v]
  BY <1>1 DEF Clerk
<1>4. clerk' = [clerk EXCEPT ![c] = x]
  BY <1>1
<1> HIDE DEF x
<1>5. meta' \in [Versions -> {NoFile, Empty, Mixed} \cup Metadata]
  BY <1>2 DEF RegistryAll, RegistryTypeOK
<1> QED
  BY <1>1, <1>2, <1>3, <1>4, <1>5, ClerkStep

LEMMA ApproveOpenAll ==
  ASSUME RegistryAll, NEW c \in Clerks, ApproveOpen(c)
  PROVE  RegistryAll'
<1> DEFINE x == [clerk[c] EXCEPT !.pc = "writing", !.held = Approved(c)]
<1>1. /\ clerk[c].pc = "read" /\ clerk' = [clerk EXCEPT ![c] = x] /\ clerk[c] \in Clerk
      /\ meta' = [meta EXCEPT ![clerk[c].version] = Empty]
      /\ ops' = ops
  BY DEF ApproveOpen, RegistryAll, RegistryTypeOK, Clerk
<1>2. clerk[c].held \in Metadata
  BY <1>1 DEF RegistryAll, ClerkInv
<1>3. Approved(c) \in Metadata
  BY <1>2 DEF Approved, Metadata
<1>4. x \in Clerk /\ x.held = Approved(c)
  BY <1>1, <1>3 DEF Clerk
<1> HIDE DEF x
<1>5. meta' \in [Versions -> {NoFile, Empty, Mixed} \cup Metadata] /\ ops' \in 0 .. MaxOps
  BY <1>1 DEF RegistryAll, RegistryTypeOK
<1> QED
  BY <1>1, <1>3, <1>4, <1>5, ClerkStep

\* A clerk closes the file, or dies with it open.
LEMMA CloseAll ==
  ASSUME RegistryAll, NEW c \in Clerks, CloseFile(c) \/ ClerkDies(c)
  PROVE  RegistryAll'
<1>1. /\ clerk' = [clerk EXCEPT ![c] = Free]
      /\ ops' \in 0 .. MaxOps
  BY DEF CloseFile, ClerkDies, RegistryAll, RegistryTypeOK
<1>2. meta' \in [Versions -> {NoFile, Empty, Mixed} \cup Metadata]
  <2>1. CASE ClerkDies(c)
    BY <2>1 DEF ClerkDies, RegistryAll, RegistryTypeOK
  <2>2. CASE CloseFile(c)
    <3>1. clerk[c].held \in Metadata
      BY <2>2 DEF CloseFile, RegistryAll, ClerkInv
    <3> QED
      BY <2>2, <3>1 DEF CloseFile, RegistryAll, RegistryTypeOK
  <2> QED
    BY <2>1, <2>2
<1> QED
  BY <1>1, <1>2, FreeClerk, ClerkStep

LEMMA RegistryNextAll == RegistryAll /\ RegistryNext => RegistryAll'
BY RegisterAll, ApproveReadAll, ApproveOpenAll, CloseAll DEF RegistryNext

LEMMA RegistryStutters == RegistryAll /\ UNCHANGED regVars => RegistryAll'
BY DEF regVars, RegistryAll, RegistryTypeOK, ClerkInv

-----------------------------------------------------------------------------
(* The alerts                                                              *)

LEMMA LayersAre ==
  /\ Len(Layers) = 6 /\ DOMAIN Layers = 1 .. 6
  /\ Layer = {"streaming_ingestion", "bronze", "silver", "ml", "warehouse", "cost"}
  /\ \A i \in 1 .. 6 : Layers[i] \in Layer
  /\ \A l \in Layer : \E i \in 1 .. 6 : Layers[i] = l
<1>1. Len(Layers) = 6 /\ DOMAIN Layers = 1 .. 6
  BY DEF Layers
<1>2. \A i \in 1 .. 6 : Layers[i] \in Layer
  BY <1>1 DEF Layer
<1>3. \A l \in Layer : \E i \in 1 .. 6 : Layers[i] = l
  BY <1>1 DEF Layer
<1>4. /\ Layers[1] = "streaming_ingestion" /\ Layers[2] = "bronze" /\ Layers[3] = "silver"
      /\ Layers[4] = "ml" /\ Layers[5] = "warehouse" /\ Layers[6] = "cost"
  BY DEF Layers
<1>5. \A i \in 1 .. 6 : i = 1 \/ i = 2 \/ i = 3 \/ i = 4 \/ i = 5 \/ i = 6
  OBVIOUS
<1>6. \A l : l \in Layer <=> l \in {"streaming_ingestion", "bronze", "silver", "ml", "warehouse", "cost"}
  <2> HIDE DEF Layers
  <2> QED
    BY <1>2, <1>3, <1>4, <1>5
<1> QED
  BY <1>1, <1>2, <1>3, <1>6

LEMMA SloLayers ==
  /\ DOMAIN Slo = Layer
  /\ DOMAIN Slo["streaming_ingestion"] = {"event_latency_p99", "delivery_success_rate", "dlq_count"}
  /\ DOMAIN Slo["bronze"] = {"data_freshness", "schema_drift_count"}
  /\ DOMAIN Slo["silver"] = {"transformation_success_rate", "feature_validity_rate"}
  /\ DOMAIN Slo["ml"] = {"inference_latency_p99", "model_accuracy", "drift_score"}
  /\ DOMAIN Slo["warehouse"] = {"etl_success_rate", "table_freshness"}
BY LayersAre DEF Slo

\* A metric that the alert manager reports as critical.
CriticalMetric(l, values, m) ==
  /\ m \in DOMAIN Slo[l]
  /\ IsBreach(m, values[m], Slo[l][m])
  /\ Severity(m, values[m], Slo[l][m]) = 3

\* Some number of the layer breaks its objective critically.
Critical(l, values) == \E m \in DOMAIN Slo[l] : CriticalMetric(l, values, m)

\* None of the fallback values of a layer that is down looks like a good one.
LEMMA FallbackIsCritical ==
  ASSUME NEW l \in Layer, Down(l)
  PROVE  Critical(l, Collected(l))
<1>1. CASE l = "streaming_ingestion"
  <2>1. stream \in {"error", "empty"}
    BY <1>1 DEF Down
  <2>2. CollectStreaming["delivery_success_rate"] = 0
    BY <2>1 DEF CollectStreaming
  <2>3. Slo[l]["delivery_success_rate"] = 99900
    BY <1>1 DEF Slo
  <2>4. Collected(l) = CollectStreaming
    BY <1>1 DEF Collected
  <2>5. CriticalMetric(l, Collected(l), "delivery_success_rate")
    BY <1>1, <2>2, <2>3, <2>4, SloLayers DEF CriticalMetric, IsBreach, Severity, LowerIsBetter
  <2> QED
    BY <2>5 DEF Critical, CriticalMetric
<1>2. CASE l = "bronze"
  <2>1. CollectBronze["data_freshness"] = 1000000000
    BY <1>2 DEF Down, CollectBronze, Inf
  <2>2. Slo[l]["data_freshness"] = 15000
    BY <1>2 DEF Slo
  <2>3. Collected(l) = CollectBronze
    BY <1>2 DEF Collected
  <2>4. CriticalMetric(l, Collected(l), "data_freshness")
    BY <1>2, <2>1, <2>2, <2>3, SloLayers DEF CriticalMetric, IsBreach, Severity, LowerIsBetter, Abs
  <2> QED
    BY <2>4 DEF Critical, CriticalMetric
<1>3. CASE l = "silver"
  <2>1. CollectSilver["transformation_success_rate"] = 0
    BY <1>3 DEF Down, CollectSilver
  <2>2. Slo[l]["transformation_success_rate"] = 99500
    BY <1>3 DEF Slo
  <2>3. Collected(l) = CollectSilver
    BY <1>3 DEF Collected
  <2>4. CriticalMetric(l, Collected(l), "transformation_success_rate")
    BY <1>3, <2>1, <2>2, <2>3, SloLayers DEF CriticalMetric, IsBreach, Severity, LowerIsBetter, Abs
  <2> QED
    BY <2>4 DEF Critical, CriticalMetric
<1>4. CASE l = "ml"
  <2>1. CollectMl["model_accuracy"] = 0
    BY <1>4 DEF Down, CollectMl
  <2>2. Slo[l]["model_accuracy"] = 90000
    BY <1>4 DEF Slo
  <2>3. Collected(l) = CollectMl
    BY <1>4 DEF Collected
  <2>4. CriticalMetric(l, Collected(l), "model_accuracy")
    BY <1>4, <2>1, <2>2, <2>3, SloLayers DEF CriticalMetric, IsBreach, Severity, LowerIsBetter, Abs
  <2> QED
    BY <2>4 DEF Critical, CriticalMetric
<1>5. CASE l = "warehouse"
  <2>1. CollectWarehouse["table_freshness"] = 1000000000
    BY <1>5 DEF Down, CollectWarehouse, Inf
  <2>2. Slo[l]["table_freshness"] = 60000
    BY <1>5 DEF Slo
  <2>3. Collected(l) = CollectWarehouse
    BY <1>5 DEF Collected
  <2>4. CriticalMetric(l, Collected(l), "table_freshness")
    BY <1>5, <2>1, <2>2, <2>3, SloLayers DEF CriticalMetric, IsBreach, Severity, LowerIsBetter, Abs
  <2> QED
    BY <2>4 DEF Critical, CriticalMetric
<1>6. l # "cost"
  BY DEF Down
<1> QED
  BY <1>1, <1>2, <1>3, <1>4, <1>5, <1>6, LayersAre

LEMMA SeverityIs == ASSUME NEW m, NEW value, NEW threshold PROVE Severity(m, value, threshold) \in 1 .. 3
BY DEF Severity

\* The breach of a metric that is critical is among those the run finds.
LEMMA BreachesFound ==
  ASSUME NEW metrics, NEW l \in Layer, Critical(l, metrics[l])
  PROVE  \E b \in CheckBreaches(metrics) : b.layer = l /\ b.severity = 3
<1>1. PICK m \in DOMAIN Slo[l] : CriticalMetric(l, metrics[l], m)
  BY DEF Critical
<1> DEFINE b == Breach(l, m, metrics[l][m])
<1>2. b \in CheckBreaches(metrics)
  BY <1>1 DEF CriticalMetric, CheckBreaches
<1>3. b.layer = l /\ b.severity = 3
  BY <1>1 DEF CriticalMetric, Breach
<1> QED
  BY <1>2, <1>3

LEMMA BreachTypes ==
  ASSUME NEW metrics, NEW b \in CheckBreaches(metrics)
  PROVE  b.layer \in Layer /\ b.metric \in DOMAIN Slo[b.layer] /\ b.severity \in 1 .. 3
<1>1. PICK l \in Layer : \E m \in DOMAIN Slo[l] : b = Breach(l, m, metrics[l][m])
  BY DEF CheckBreaches
<1>2. PICK m \in DOMAIN Slo[l] : b = Breach(l, m, metrics[l][m])
  BY <1>1
<1>3. b.layer = l /\ b.metric = m /\ b.severity = Severity(m, metrics[l][m], Slo[l][m])
  BY <1>2 DEF Breach
<1> QED
  BY <1>2, <1>3, SeverityIs

\* A run that is collecting holds, of every layer it has been at and that has
\* stood still since, numbers that are critical if the layer is down.
CollectedInv ==
  \A i \in 1 .. 6 :
    i < check.at /\ check.at <= 7 =>
      /\ Layers[i] \in DOMAIN check.metrics
      /\ Layers[i] \in steady /\ Down(Layers[i]) => Critical(Layers[i], check.metrics[Layers[i]])

\* A run has these fields and no other.
CheckIsRun == check = [at |-> check.at, metrics |-> check.metrics, since |-> check.since]

\* The inductive invariant of the platform.
MonitorAll == RegistryAll /\ TypeOK /\ CheckIsRun /\ CollectedInv /\ OutageIsCritical

\* A layer is down only if it was down before, or has just changed.
LEMMA DownStays ==
  ASSUME Pass \/ WebhookChanges \/ LayerChanges \/ RegistryChanges \/ UNCHANGED vars
  PROVE  steady' \subseteq steady /\ \A l \in steady' : Down(l)' => Down(l)
<1>1. CASE Pass \/ WebhookChanges \/ UNCHANGED vars
  BY <1>1 DEF Pass, WebhookChanges, vars, world, regVars, Down, ListRaises, ListModels, Never
<1>2. CASE LayerChanges
  <2>1. UNCHANGED meta
    BY <1>2 DEF LayerChanges, regVars
  <2>2. \/ steady' = steady \ {"streaming_ingestion"} /\ UNCHANGED <<bronze, silver, tables>>
        \/ steady' = steady \ {"bronze"} /\ UNCHANGED <<stream, silver, tables>>
        \/ steady' = steady \ {"silver"} /\ UNCHANGED <<stream, bronze, tables>>
        \/ steady' = steady \ {"warehouse"} /\ UNCHANGED <<stream, bronze, silver>>
        \/ steady' = steady \ {"cost"} /\ UNCHANGED <<stream, bronze, silver, tables>>
    BY <1>2 DEF LayerChanges
  <2> QED
    BY <2>1, <2>2 DEF Down, ListRaises, ListModels, Never
<1>3. CASE RegistryChanges
  <2>1. UNCHANGED <<stream, bronze, silver, tables>>
    BY <1>3 DEF RegistryChanges, world
  <2>2. (meta' = meta /\ steady' = steady) \/ steady' = steady \ {"ml"}
    BY <1>3 DEF RegistryChanges
  <2> QED
    BY <2>1, <2>2 DEF Down, ListRaises, ListModels, Never
<1> QED
  BY <1>1, <1>2, <1>3

\* What the platform does leaves a run's numbers and breaches as good as they were.
LEMMA PlatformKeeps ==
  ASSUME MonitorAll, UNCHANGED run, steady' \subseteq steady,
         \A l \in steady' : Down(l)' => Down(l)
  PROVE  CheckIsRun' /\ CollectedInv' /\ OutageIsCritical'
<1>1. check' = check /\ previous' = previous
  BY DEF run
<1>2. CheckIsRun'
  BY <1>1 DEF MonitorAll, CheckIsRun
<1>3. CollectedInv'
  BY <1>1 DEF MonitorAll, CollectedInv, Critical, CriticalMetric
<1>4. OutageIsCritical'
  BY <1>1 DEF MonitorAll, OutageIsCritical, Alerting
<1> QED
  BY <1>2, <1>3, <1>4

LEMMA PlatformTypes ==
  ASSUME MonitorAll, Pass \/ WebhookChanges \/ LayerChanges \/ RegistryChanges \/ UNCHANGED vars
  PROVE  RegistryAll' /\ TypeOK'
<1>1. RegistryAll'
  BY RegistryNextAll, RegistryStutters
     DEF MonitorAll, Pass, WebhookChanges, LayerChanges, RegistryChanges, vars
<1>2. UNCHANGED run
  BY DEF Pass, WebhookChanges, LayerChanges, RegistryChanges, vars
<1>3. /\ now' \in 0 .. MaxTime /\ now <= now' /\ events' \in 0 .. MaxEvents
      /\ stream' \in {"error", "empty", "good", "slow"}
      /\ {bronze', tables'} \subseteq 0 .. Never
      /\ silver' \in BOOLEAN /\ webhook' \in BOOLEAN /\ cost' \in {"error", "canned", "high"}
      /\ steady' \subseteq Layer
  <2>1. /\ now \in 0 .. MaxTime /\ events \in 0 .. MaxEvents
        /\ stream \in {"error", "empty", "good", "slow"}
        /\ {bronze, tables} \subseteq 0 .. Never
        /\ silver \in BOOLEAN /\ webhook \in BOOLEAN /\ cost \in {"error", "canned", "high"}
        /\ steady \subseteq Layer
        /\ {now, Never} \subseteq 0 .. Never /\ MaxEvents \in Nat /\ MaxTime \in Nat
    BY MonitoringAssumption DEF MonitorAll, TypeOK, Never
  <2>2. CASE Pass
    <3>1. PICK d \in Jumps : now + d <= MaxTime /\ now' = now + d
      BY <2>2 DEF Pass
    <3> QED
      BY <2>1, <2>2, <3>1, MonitoringAssumption DEF Pass, Never
  <2>3. CASE WebhookChanges
    BY <2>1, <2>3 DEF WebhookChanges, Never
  <2>4. CASE LayerChanges
    <3>1. /\ events < MaxEvents /\ events' = events + 1 /\ now' = now /\ webhook' = webhook
          /\ stream' = stream \/ stream' \in {"error", "empty", "good", "slow"} \ {stream}
          /\ bronze' = bronze \/ bronze' \in {now, Never}
          /\ tables' = tables \/ tables' \in {now, Never}
          /\ silver' = silver \/ silver' = ~silver
          /\ cost' = cost \/ cost' \in {"error", "canned", "high"} \ {cost}
          /\ steady' \subseteq steady
      BY <2>4 DEF LayerChanges
    <3>2. events' \in 0 .. MaxEvents /\ now <= now'
      BY <2>1, <3>1
    <3>3. {bronze', tables'} \subseteq 0 .. Never
      BY <2>1, <3>1 DEF Never
    <3> QED
      BY <2>1, <3>1, <3>2, <3>3
  <2>5. CASE RegistryChanges
    BY <2>1, <2>5 DEF RegistryChanges, world, Never
  <2>6. CASE UNCHANGED vars
    BY <2>1, <2>6 DEF vars, world, Never
  <2> QED
    BY <2>2, <2>3, <2>4, <2>5, <2>6
<1>4. /\ check'.at \in 0 .. Len(Layers) + 2 /\ check'.since \in 0 .. now'
      /\ breaches' \subseteq previous'
      /\ \A b \in previous' : /\ b.layer \in Layer /\ b.metric \in DOMAIN Slo[b.layer]
                              /\ b.severity \in 1 .. 3
      /\ told' \subseteq {<<l, m>> : l \in Layer, m \in UNION {DOMAIN Slo[x] : x \in Layer}}
  BY <1>2, <1>3 DEF run, MonitorAll, TypeOK
<1> QED
  BY <1>1, <1>3, <1>4 DEF RegistryAll, TypeOK, Layer, Layers, Slo, Never, RegistryTypeOK

LEMMA StartCheckAll ==
  ASSUME MonitorAll, StartCheck
  PROVE  MonitorAll'
<1>1. /\ check.at = 0 /\ check' = [at |-> 1, metrics |-> [l \in {} |-> << >>], since |-> now]
      /\ told' = {} /\ steady' = Layer /\ UNCHANGED <<regVars, world, breaches, previous>>
  BY DEF StartCheck
<1>2. check'.at = 1 /\ check'.since = now /\ CheckIsRun'
  BY <1>1 DEF CheckIsRun
<1>3. RegistryAll'
  BY <1>1, RegistryStutters DEF MonitorAll
<1>4. CollectedInv' /\ OutageIsCritical'
  BY <1>2, LayersAre DEF CollectedInv, OutageIsCritical, Alerting
<1>5. TypeOK'
  <2>1. now \in 0 .. MaxTime /\ now \in 0 .. now
    BY MonitoringAssumption DEF MonitorAll, TypeOK
  <2> QED
    BY <1>1, <1>2, <1>3, <2>1, LayersAre DEF MonitorAll, TypeOK, RegistryAll, world, Never
<1> QED
  BY <1>2, <1>3, <1>4, <1>5 DEF MonitorAll

\* The types, for a step of a run.
LEMMA RunTypes ==
  ASSUME MonitorAll, UNCHANGED <<regVars, steady>>,
         UNCHANGED world
           \/ (events' \in 0 .. MaxEvents
                 /\ UNCHANGED <<now, stream, bronze, silver, tables, cost, webhook>>),
         check'.at \in 0 .. Len(Layers) + 2, check'.since \in 0 .. now,
         breaches' \subseteq previous',
         \A b \in previous' : /\ b.layer \in Layer /\ b.metric \in DOMAIN Slo[b.layer]
                              /\ b.severity \in 1 .. 3,
         told' \subseteq {<<l, m>> : l \in Layer, m \in UNION {DOMAIN Slo[x] : x \in Layer}}
  PROVE  RegistryAll' /\ TypeOK'
<1>1. RegistryAll'
  BY RegistryStutters DEF MonitorAll
<1>2. /\ UNCHANGED <<now, stream, bronze, silver, tables, cost, webhook>>
      /\ events' \in 0 .. MaxEvents
  BY DEF world, MonitorAll, TypeOK
<1> QED
  BY <1>1, <1>2 DEF MonitorAll, TypeOK, RegistryAll, Never

LEMMA CollectLayerAll ==
  ASSUME MonitorAll, CollectLayer
  PROVE  MonitorAll'
<1> DEFINE layer == Layers[check.at]
           metrics == [l \in DOMAIN check.metrics \cup {layer} |->
                         IF l = layer THEN Collected(l) ELSE check.metrics[l]]
<1>1. /\ check.at \in 1 .. 6 /\ layer \in Layer
      /\ check' = [check EXCEPT !.at = check.at + 1, !.metrics = metrics]
      /\ UNCHANGED <<regVars, world, breaches, previous, told, steady>>
  BY LayersAre DEF CollectLayer
<1>2. check'.at = check.at + 1 /\ check'.metrics = metrics /\ check'.since = check.since
      /\ CheckIsRun'
  <2> HIDE DEF metrics
  <2> QED
    BY <1>1 DEF MonitorAll, CheckIsRun
<1>3. RegistryAll' /\ TypeOK'
  <2>1. check'.at \in 0 .. Len(Layers) + 2 /\ check'.since \in 0 .. now
    BY <1>1, <1>2, LayersAre DEF MonitorAll, TypeOK
  <2> QED
    BY <1>1, <2>1, RunTypes DEF MonitorAll, TypeOK
<1>4. /\ \A l \in Layer : Down(l)' <=> Down(l)
      /\ steady' = steady
  BY <1>1 DEF Down, ListRaises, ListModels, regVars, world, Never
<1>5. CollectedInv'
  <2> SUFFICES ASSUME NEW i \in 1 .. 6, i < check.at + 1
               PROVE  /\ Layers[i] \in DOMAIN metrics
                      /\ Layers[i] \in steady /\ Down(Layers[i])
                           => Critical(Layers[i], metrics[Layers[i]])
    <3> HIDE DEF metrics
    <3>1. \A i \in 1 .. 6 : Down(Layers[i])' <=> Down(Layers[i])
      BY <1>4, LayersAre
    <3> QED
      BY <1>2, <1>4, <3>1 DEF CollectedInv, Critical, CriticalMetric
  <2>1. CASE Layers[i] = layer
    <3>1. Layers[i] \in DOMAIN metrics /\ metrics[Layers[i]] = Collected(Layers[i])
      BY <2>1
    <3> QED
      BY <1>1, <2>1, <3>1, FallbackIsCritical
  <2>2. CASE Layers[i] # layer
    <3>1. i < check.at /\ check.at <= 7
      BY <1>1, <2>2
    <3>2. Layers[i] \in DOMAIN check.metrics
          /\ (Layers[i] \in steady /\ Down(Layers[i])
                => Critical(Layers[i], check.metrics[Layers[i]]))
      BY <3>1 DEF MonitorAll, CollectedInv
    <3>3. Layers[i] \in DOMAIN metrics /\ metrics[Layers[i]] = check.metrics[Layers[i]]
      BY <2>2, <3>2
    <3> QED
      BY <3>2, <3>3
  <2> QED
    BY <2>1, <2>2
<1>6. OutageIsCritical'
  BY <1>1, <1>2, LayersAre DEF OutageIsCritical, Alerting
<1> QED
  BY <1>2, <1>3, <1>5, <1>6 DEF MonitorAll

LEMMA CompareAll ==
  ASSUME MonitorAll, SaveAndCompare
  PROVE  MonitorAll'
<1>1. /\ check.at = 7 /\ check' = [check EXCEPT !.at = check.at + 1, !.metrics = << >>]
      /\ breaches' = CheckBreaches(check.metrics) /\ previous' = breaches'
      /\ UNCHANGED <<regVars, world, told, steady>>
  BY LayersAre DEF SaveAndCompare
<1>2. check'.at = 8 /\ check'.since = check.since /\ CheckIsRun'
  <2>1. check = [at |-> check.at, metrics |-> check.metrics, since |-> check.since]
    BY DEF MonitorAll, CheckIsRun
  <2> DEFINE at == check.at + 1
             none == << >>
  <2>2. check' = [check EXCEPT !.at = at, !.metrics = none] /\ at = 8
    BY <1>1
  <2> HIDE DEF at, none
  <2>3. check' = [at |-> at, metrics |-> none, since |-> check.since]
    BY <2>1, <2>2
  <2> QED
    BY <2>2, <2>3 DEF CheckIsRun
<1>3. RegistryAll' /\ TypeOK'
  <2>1. check'.at \in 0 .. Len(Layers) + 2 /\ check'.since \in 0 .. now
    BY <1>2, LayersAre DEF MonitorAll, TypeOK
  <2> QED
    BY <1>1, <2>1, BreachTypes, RunTypes DEF MonitorAll, TypeOK
<1>4. \A l \in Layer : Down(l)' <=> Down(l)
  BY <1>1 DEF Down, ListRaises, ListModels, regVars, world, Never
<1>5. CollectedInv'
  BY <1>2 DEF CollectedInv
<1>6. OutageIsCritical'
  <2> SUFFICES ASSUME NEW l \in steady, Down(l)
               PROVE  \E b \in previous' : b.layer = l /\ b.severity = 3
    BY <1>1, <1>3, <1>4 DEF OutageIsCritical, TypeOK
  <2>1. l \in Layer
    BY DEF MonitorAll, TypeOK
  <2>2. PICK i \in 1 .. 6 : Layers[i] = l
    BY <2>1, LayersAre
  <2>3. Critical(l, check.metrics[l])
    BY <1>1, <2>2 DEF MonitorAll, CollectedInv
  <2> QED
    BY <1>1, <2>1, <2>3, BreachesFound
<1> QED
  BY <1>2, <1>3, <1>5, <1>6 DEF MonitorAll

LEMMA SendAlertAll ==
  ASSUME MonitorAll, SendAlert
  PROVE  MonitorAll'
<1>1. /\ \E b \in breaches : /\ breaches' = breaches \ {b}
                             /\ told' = IF webhook THEN told \cup {<<b.layer, b.metric>>} ELSE told
      /\ UNCHANGED <<regVars, world, check, previous, steady>>
  BY DEF SendAlert, Sending
<1>2. told' \subseteq {<<l, m>> : l \in Layer, m \in UNION {DOMAIN Slo[x] : x \in Layer}}
  BY <1>1 DEF MonitorAll, TypeOK
<1>3. RegistryAll' /\ TypeOK'
  BY <1>1, <1>2, RunTypes DEF MonitorAll, TypeOK
<1>4. \A l \in Layer : Down(l)' <=> Down(l)
  BY <1>1 DEF Down, ListRaises, ListModels, regVars, world, Never
<1>5. CheckIsRun' /\ CollectedInv' /\ OutageIsCritical'
  BY <1>1, <1>4, LayersAre
     DEF MonitorAll, TypeOK, CheckIsRun, CollectedInv, OutageIsCritical, Alerting, Critical,
         CriticalMetric
<1> QED
  BY <1>3, <1>5 DEF MonitorAll

\* A run ends, or dies.
LEMMA EndCheckAll ==
  ASSUME MonitorAll, EndCheck \/ CheckDies
  PROVE  MonitorAll'
<1>1. /\ check' = NoCheck /\ breaches' \subseteq breaches /\ steady' = steady
      /\ UNCHANGED <<regVars, previous, told>>
      /\ UNCHANGED world
           \/ (events' \in 0 .. MaxEvents
                 /\ UNCHANGED <<now, stream, bronze, silver, tables, cost, webhook>>)
  <2>1. events \in 0 .. MaxEvents /\ MaxEvents \in Nat
    BY MonitoringAssumption DEF MonitorAll, TypeOK
  <2>2. CASE EndCheck
    BY <2>2 DEF EndCheck
  <2>3. CASE CheckDies
    BY <2>1, <2>3 DEF CheckDies
  <2> QED
    BY <2>2, <2>3
<1>2. check'.at = 0 /\ check'.since = 0 /\ CheckIsRun'
  BY <1>1 DEF NoCheck, CheckIsRun
<1>3. 0 \in 0 .. Len(Layers) + 2 /\ 0 \in 0 .. now
  BY LayersAre, MonitoringAssumption DEF MonitorAll, TypeOK
<1>4. breaches' \subseteq previous'
  BY <1>1 DEF MonitorAll, TypeOK
<1>5. RegistryAll' /\ TypeOK'
  BY <1>1, <1>2, <1>3, <1>4, RunTypes DEF MonitorAll, TypeOK
<1>6. CollectedInv' /\ OutageIsCritical'
  BY <1>2, LayersAre DEF CollectedInv, OutageIsCritical, Alerting
<1> QED
  BY <1>2, <1>5, <1>6 DEF MonitorAll

LEMMA MonitorInit == Init => MonitorAll
<1> SUFFICES ASSUME Init PROVE MonitorAll
  OBVIOUS
<1>1. check.at = 0 /\ check.since = 0 /\ CheckIsRun
  BY DEF Init, NoCheck, CheckIsRun
<1>2. RegistryAll
  BY RegistryInitAll DEF Init
<1>3. CollectedInv /\ OutageIsCritical
  BY <1>1, LayersAre DEF CollectedInv, OutageIsCritical, Alerting
<1>4. TypeOK
  <2>1. 0 \in 0 .. MaxTime /\ 0 \in 0 .. MaxEvents /\ 0 \in 0 .. Never
        /\ 0 \in 0 .. Len(Layers) + 2 /\ 0 \in 0 .. 0
    BY LayersAre, MonitoringAssumption DEF Never
  <2> QED
    BY <1>1, <1>2, <2>1 DEF Init, TypeOK, RegistryAll
<1> QED
  BY <1>1, <1>2, <1>3, <1>4 DEF MonitorAll

LEMMA MonitorNext == MonitorAll /\ [Next]_vars => MonitorAll'
<1> SUFFICES ASSUME MonitorAll, [Next]_vars PROVE MonitorAll'
  OBVIOUS
<1>1. CASE Check
  BY <1>1, StartCheckAll, CollectLayerAll, CompareAll, SendAlertAll, EndCheckAll DEF Check
<1>2. CASE CheckDies
  BY <1>2, EndCheckAll
<1>3. CASE Pass \/ WebhookChanges \/ LayerChanges \/ RegistryChanges \/ UNCHANGED vars
  <2>1. UNCHANGED run
    BY <1>3 DEF Pass, WebhookChanges, LayerChanges, RegistryChanges, vars
  <2> QED
    BY <1>3, <2>1, DownStays, PlatformKeeps, PlatformTypes DEF MonitorAll
<1> QED
  BY <1>1, <1>2, <1>3 DEF Next

\* What the two theorems below are read off.
LEMMA MonitorAlways == Spec => []MonitorAll
BY MonitorInit, MonitorNext, PTL DEF Spec

\* Every variable of the registry, of the platform and of a run has its type.
THEOREM MonitoringTypes == Spec => []TypeOK
<1>1. MonitorAll => TypeOK
  BY DEF MonitorAll
<1> QED
  BY <1>1, MonitorAlways, PTL

\* A layer that is down for the whole of a run is reported as critical by it
\* (metrics_collector.py and alert_manager.py:47-76).
THEOREM OutagesAreCritical == Spec => []OutageIsCritical
<1>1. MonitorAll => OutageIsCritical
  BY DEF MonitorAll
<1> QED
  BY <1>1, MonitorAlways, PTL

=============================================================================
