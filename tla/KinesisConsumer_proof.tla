------------------------ MODULE KinesisConsumer_proof ------------------------
(* The deployment and the direct consumer on what it creates, for any number *)
(* of deployments, buckets, consumers, shards and records, and any batch     *)
(* size and interval.                                                        *)
EXTENDS KinesisConsumer, TLAPS

-----------------------------------------------------------------------------
(* The deployment                                                          *)

Run == [pc : Steps, at : DOMAIN Buckets]

\* A run is past the first bucket only when that exists; it encrypts a bucket
\* that exists and attaches policies to a role that exists, the second one to
\* a role that has the first.
RunInv(d) ==
  /\ (deploy[d].pc \notin {"idle", "bucket"} \/ deploy[d].at > 1) => Bronze \in buckets
  /\ deploy[d].pc = "encrypt" => Buckets[deploy[d].at] \in buckets
  /\ deploy[d].pc \in {"attach kinesis", "attach s3"} => policies # NoRole
  /\ deploy[d].pc = "attach s3" => Kinesis \in policies

\* What the steps of all runs have behind them.
DeployInv ==
  /\ stream # "none" => Bronze \in buckets
  /\ \A d \in Deployers : RunInv(d)

\* Nothing is ever taken away, and a run that ends says what it had begun.
Grows ==
  /\ buckets \subseteq buckets' /\ encrypted \subseteq encrypted' /\ cutAt \subseteq cutAt'
  /\ policies # NoRole => policies' # NoRole /\ policies \subseteq policies'

LEMMA BucketIndex ==
  /\ 1 \in DOMAIN Buckets /\ Bronze \in Bucket
  /\ \A i \in DOMAIN Buckets : Buckets[i] \in Bucket /\ i \in Nat /\ i >= 1
  /\ \A i \in DOMAIN Buckets : i < Len(Buckets) => i + 1 \in DOMAIN Buckets
BY DeploymentAssumption DEF Bucket, Bronze

LEMMA NotDeployingRun == NotDeploying \in Run
BY BucketIndex DEF NotDeploying, Run, Steps

\* One run steps, the others find what they had found.
LEMMA RunStep ==
  ASSUME DeployTypeOK, DeployInv, NEW d \in Deployers, NEW x \in Run,
         deploy' = [deploy EXCEPT ![d] = x], Grows,
         stream' # "none" => Bronze \in buckets',
         (x.pc \notin {"idle", "bucket"} \/ x.at > 1) => Bronze \in buckets',
         x.pc = "encrypt" => Buckets[x.at] \in buckets',
         x.pc \in {"attach kinesis", "attach s3"} => policies' # NoRole,
         x.pc = "attach s3" => Kinesis \in policies'
  PROVE  DeployInv' /\ deploy' \in [Deployers -> Run]
<1>1. deploy'[d] = x /\ (\A e \in Deployers \ {d} : deploy'[e] = deploy[e])
      /\ deploy' \in [Deployers -> Run]
  BY DEF DeployTypeOK, Run
<1>2. RunInv(d)'
  BY <1>1 DEF RunInv, Bronze
<1>3. ASSUME NEW e \in Deployers \ {d} PROVE RunInv(e)'
  BY <1>1 DEF RunInv, DeployInv, Grows, Bronze
<1> QED
  BY <1>1, <1>2, <1>3 DEF DeployInv, Bronze

\* A run that has made the bucket and still has to encrypt it.
Encrypting(d, b) == deploy[d].pc = "encrypt" /\ Buckets[deploy[d].at] = b

\* A run that has made the role and still has policies to attach.
Attaching(d) == deploy[d].pc \in {"attach kinesis", "attach s3"}

\* HalfBuiltIfCutShort with the two kinds of half-built resources kept apart,
\* also for a bucket that is called "role".
HalfInv ==
  /\ \A b \in buckets \ encrypted : b \in cutAt \/ \E d \in Deployers : Encrypting(d, b)
  /\ policies # NoRole /\ policies # {Kinesis, S3} =>
       "role" \in cutAt \/ \E d \in Deployers : Attaching(d)

\* What a run was at is finished by its step, or goes on, or is noted.
LEMMA HalfStep ==
  ASSUME DeployTypeOK, HalfInv, NEW d \in Deployers, NEW x \in Run,
         deploy' = [deploy EXCEPT ![d] = x], Grows,
         \A b \in buckets' \ (buckets \cup encrypted') : Encrypting(d, b)',
         \A b : Encrypting(d, b) => Encrypting(d, b)' \/ b \in cutAt' \/ b \in encrypted',
         Attaching(d) => Attaching(d)' \/ "role" \in cutAt' \/ policies' = {Kinesis, S3},
         policies' # policies => Attaching(d)' \/ policies' = {Kinesis, S3}
  PROVE  HalfInv'
<1>1. \A e \in Deployers \ {d} : deploy'[e] = deploy[e]
  BY DEF DeployTypeOK
<1>2. ASSUME NEW b \in buckets' \ encrypted', b \notin cutAt'
      PROVE  \E e \in Deployers : Encrypting(e, b)'
  <2>1. CASE b \notin buckets
    BY <1>2, <2>1
  <2>2. CASE b \in buckets
    <3>1. PICK e \in Deployers : Encrypting(e, b)
      BY <1>2, <2>2 DEF HalfInv, Grows
    <3>2. e # d => Encrypting(e, b)'
      BY <1>1, <3>1 DEF Encrypting
    <3> QED
      BY <1>2, <3>1, <3>2
  <2> QED
    BY <2>1, <2>2
<1>3. ASSUME policies' # NoRole, policies' # {Kinesis, S3}, "role" \notin cutAt'
      PROVE  \E e \in Deployers : Attaching(e)'
  <2>1. CASE policies' # policies
    BY <1>3, <2>1
  <2>2. CASE policies' = policies
    <3>1. PICK e \in Deployers : Attaching(e)
      BY <1>3, <2>2 DEF HalfInv, Grows
    <3>2. e # d => Attaching(e)'
      BY <1>1, <3>1 DEF Attaching
    <3> QED
      BY <1>3, <3>1, <3>2
  <2> QED
    BY <2>1, <2>2
<1> QED
  BY <1>2, <1>3 DEF HalfInv

\* The inductive invariant of the deployment.
DeployAll == DeployTypeOK /\ DeployInv /\ HalfInv

\* The loop over the buckets, once the bucket it is at exists.
LEMMA NextBucketRun ==
  ASSUME DeployTypeOK, NEW d \in Deployers, NextBucket(d), deploy[d].pc \in {"bucket", "encrypt"}
  PROVE  \E x \in Run : /\ deploy' = [deploy EXCEPT ![d] = x] /\ deploy'[d] = x
                        /\ x.pc \in {"bucket", "stream"}
<1>1. deploy[d] \in Run /\ deploy[d].at \in DOMAIN Buckets
  BY DEF DeployTypeOK, Run
<1> DEFINE x == IF deploy[d].at < Len(Buckets) THEN [pc |-> "bucket", at |-> deploy[d].at + 1]
                ELSE [pc |-> "stream", at |-> 1]
<1>2. x \in Run /\ x.pc \in {"bucket", "stream"}
  BY <1>1, BucketIndex DEF Run, Steps
<1>3. deploy' = [deploy EXCEPT ![d] = x] /\ deploy'[d] = x
  BY DEF NextBucket, DeployTypeOK
<1> HIDE DEF x
<1> QED
  BY <1>2, <1>3

LEMMA GotoRun ==
  ASSUME DeployTypeOK, NEW d \in Deployers, NEW p \in Steps, Goto(d, p)
  PROVE  \E x \in Run : /\ deploy' = [deploy EXCEPT ![d] = x] /\ deploy'[d] = x
                        /\ x.pc = p /\ x.at = deploy[d].at
<1>1. deploy[d] \in Run
  BY DEF DeployTypeOK, Run
<1>2. [deploy[d] EXCEPT !.pc = p] \in Run
  BY <1>1 DEF Run
<1> QED
  BY <1>1, <1>2 DEF Goto, DeployTypeOK, Run

\* What a step needs to show about the run it belongs to.
LEMMA DeployStepOf ==
  ASSUME DeployAll, NEW d \in Deployers, NEW x \in Run,
         deploy' = [deploy EXCEPT ![d] = x], Grows,
         encrypted' \subseteq buckets', buckets' \subseteq Bucket,
         stream' \in {"none", "creating", "active"},
         policies' \in {NoRole} \cup SUBSET {Kinesis, S3},
         function' \in BOOLEAN, mapping' \in BOOLEAN, cuts' \in 0 .. MaxCuts,
         cutAt' \subseteq Bucket \cup {"role"},
         stream' # "none" => Bronze \in buckets',
         (x.pc \notin {"idle", "bucket"} \/ x.at > 1) => Bronze \in buckets',
         x.pc = "encrypt" => Buckets[x.at] \in buckets',
         x.pc \in {"attach kinesis", "attach s3"} => policies' # NoRole,
         x.pc = "attach s3" => Kinesis \in policies',
         \A b \in buckets' \ (buckets \cup encrypted') : Encrypting(d, b)',
         \A b : Encrypting(d, b) => Encrypting(d, b)' \/ b \in cutAt' \/ b \in encrypted',
         Attaching(d) => Attaching(d)' \/ "role" \in cutAt' \/ policies' = {Kinesis, S3},
         policies' # policies => Attaching(d)' \/ policies' = {Kinesis, S3}
  PROVE  DeployAll'
<1>1. DeployInv' /\ deploy' \in [Deployers -> Run]
  BY RunStep DEF DeployAll
<1>2. HalfInv'
  BY HalfStep DEF DeployAll
<1> QED
  BY <1>1, <1>2 DEF DeployAll, DeployTypeOK, Run, Bucket

LEMMA CreateBucketAll ==
  ASSUME DeployAll, NEW d \in Deployers, CreateBucket(d)
  PROVE  DeployAll'
<1>1. /\ deploy[d].pc = "bucket" /\ deploy[d] \in Run /\ deploy[d].at \in DOMAIN Buckets
      /\ buckets' = buckets \cup {Buckets[deploy[d].at]}
      /\ UNCHANGED <<encrypted, stream, policies, function, mapping, cuts, cutAt>>
  BY DEF CreateBucket, DeployAll, DeployTypeOK, Run
<1>2. /\ Bronze \in buckets' /\ buckets' \subseteq Bucket /\ Grows
      /\ ~Attaching(d) /\ \A b : ~Encrypting(d, b)
  <2>1. deploy[d].at > 1 => Bronze \in buckets
    BY DEF DeployAll, DeployInv, RunInv
  <2>2. deploy[d].at = 1 => Bronze \in buckets'
    BY <1>1 DEF Bronze
  <2> QED
    BY <1>1, <2>1, <2>2, BucketIndex
       DEF DeployAll, DeployTypeOK, Grows, Attaching, Encrypting
<1>3. CASE Goto(d, "encrypt")
  <2>1. PICK x \in Run : /\ deploy' = [deploy EXCEPT ![d] = x] /\ deploy'[d] = x
                         /\ x.pc = "encrypt" /\ x.at = deploy[d].at
    BY <1>3, GotoRun DEF Steps, DeployAll
  <2>2. \A b \in buckets' \ buckets : Encrypting(d, b)'
    BY <1>1, <2>1 DEF Encrypting
  <2> QED
    BY <1>1, <1>2, <2>1, <2>2, DeployStepOf DEF DeployAll, DeployTypeOK
<1>4. CASE Buckets[deploy[d].at] \in buckets /\ NextBucket(d)
  <2>1. PICK x \in Run : /\ deploy' = [deploy EXCEPT ![d] = x] /\ deploy'[d] = x
                         /\ x.pc \in {"bucket", "stream"}
    BY <1>1, <1>4, NextBucketRun DEF DeployAll
  <2>2. buckets' = buckets
    BY <1>1, <1>4
  <2> QED
    BY <1>1, <1>2, <2>1, <2>2, DeployStepOf DEF DeployAll, DeployTypeOK
<1> QED
  BY <1>3, <1>4 DEF CreateBucket

LEMMA PutEncryptionAll ==
  ASSUME DeployAll, NEW d \in Deployers, PutBucketEncryption(d)
  PROVE  DeployAll'
<1>1. /\ deploy[d].pc = "encrypt" /\ deploy[d] \in Run
      /\ encrypted' = encrypted \cup {Buckets[deploy[d].at]}
      /\ NextBucket(d)
      /\ UNCHANGED <<buckets, stream, policies, function, mapping, cuts, cutAt>>
  BY DEF PutBucketEncryption, DeployAll, DeployTypeOK, Run
<1>2. Bronze \in buckets /\ Buckets[deploy[d].at] \in buckets
  BY <1>1 DEF DeployAll, DeployInv, RunInv
<1>3. PICK x \in Run : /\ deploy' = [deploy EXCEPT ![d] = x] /\ deploy'[d] = x
                       /\ x.pc \in {"bucket", "stream"}
  BY <1>1, NextBucketRun DEF DeployAll
<1>4. Grows /\ ~Attaching(d) /\ \A b : Encrypting(d, b) => b \in encrypted'
  BY <1>1 DEF Grows, Attaching, Encrypting
<1> QED
  BY <1>1, <1>2, <1>3, <1>4, DeployStepOf DEF DeployAll, DeployTypeOK

LEMMA CreateStreamAll ==
  ASSUME DeployAll, NEW d \in Deployers, CreateKinesisStream(d)
  PROVE  DeployAll'
<1>1. /\ deploy[d].pc = "stream"
      /\ stream' \in {"creating", stream} /\ Goto(d, "role")
      /\ UNCHANGED <<buckets, encrypted, policies, function, mapping, cuts, cutAt>>
  BY DEF CreateKinesisStream
<1>2. Bronze \in buckets
  BY <1>1 DEF DeployAll, DeployInv, RunInv
<1>3. PICK x \in Run : /\ deploy' = [deploy EXCEPT ![d] = x] /\ deploy'[d] = x
                       /\ x.pc = "role" /\ x.at = deploy[d].at
  BY <1>1, GotoRun DEF Steps, DeployAll
<1>4. Grows /\ ~Attaching(d) /\ \A b : ~Encrypting(d, b)
  BY <1>1 DEF Grows, Attaching, Encrypting
<1> QED
  BY <1>1, <1>2, <1>3, <1>4, DeployStepOf DEF DeployAll, DeployTypeOK

\* The three steps of the role and its policies.
LEMMA RoleAll ==
  ASSUME DeployAll, NEW d \in Deployers,
         CreateRole(d) \/ AttachKinesisPolicy(d) \/ AttachS3Policy(d)
  PROVE  DeployAll'
<1>1. /\ deploy[d].pc \in {"role", "attach kinesis", "attach s3"}
      /\ UNCHANGED <<buckets, encrypted, stream, function, mapping, cuts, cutAt>>
  BY DEF CreateRole, AttachKinesisPolicy, AttachS3Policy
<1>2. Bronze \in buckets /\ \A b : ~Encrypting(d, b)
  BY <1>1 DEF DeployAll, DeployInv, RunInv, Encrypting
<1>3. CASE deploy[d].pc = "role"
  <2>1. \/ policies = NoRole /\ policies' = {} /\ Goto(d, "attach kinesis")
        \/ policies' = policies /\ Goto(d, "function")
    BY <1>3 DEF CreateRole, AttachKinesisPolicy, AttachS3Policy
  <2>2. \E p \in {"attach kinesis", "function"} :
          /\ Goto(d, p)
          /\ p = "attach kinesis" => policies = NoRole /\ policies' = {}
          /\ p = "function" => policies' = policies
    BY <2>1
  <2>3. PICK p \in {"attach kinesis", "function"} :
          /\ Goto(d, p)
          /\ p = "attach kinesis" => policies = NoRole /\ policies' = {}
          /\ p = "function" => policies' = policies
    BY <2>2
  <2>4. PICK x \in Run : /\ deploy' = [deploy EXCEPT ![d] = x] /\ deploy'[d] = x
                         /\ x.pc = p /\ x.at = deploy[d].at
    <3>1. p \in Steps
      BY DEF Steps
    <3> QED
      BY <2>3, <3>1, GotoRun DEF DeployAll
  <2>5. Grows /\ ~Attaching(d) /\ {} # NoRole
    BY <1>1, <1>3, <2>3 DEF Grows, Attaching, NoRole
  <2>6. policies' # policies => Attaching(d)' /\ policies' = {}
    BY <2>3, <2>4 DEF Attaching
  <2> QED
    BY <1>1, <1>2, <2>3, <2>4, <2>5, <2>6, DeployStepOf DEF DeployAll, DeployTypeOK
<1>4. CASE deploy[d].pc = "attach kinesis"
  <2>1. policies' = policies \cup {Kinesis} /\ Goto(d, "attach s3") /\ policies # NoRole
    BY <1>4 DEF CreateRole, AttachKinesisPolicy, AttachS3Policy, DeployAll, DeployInv, RunInv
  <2>2. policies \in SUBSET {Kinesis, S3} /\ policies' \in SUBSET {Kinesis, S3}
        /\ policies' # NoRole
    BY <2>1 DEF DeployAll, DeployTypeOK, NoRole, Kinesis, S3
  <2>3. PICK x \in Run : /\ deploy' = [deploy EXCEPT ![d] = x] /\ deploy'[d] = x
                         /\ x.pc = "attach s3" /\ x.at = deploy[d].at
    BY <2>1, GotoRun DEF Steps, DeployAll
  <2>4. Grows /\ Attaching(d)'
    BY <1>1, <2>1, <2>2, <2>3 DEF Grows, Attaching
  <2> QED
    BY <1>1, <1>2, <2>1, <2>2, <2>3, <2>4, DeployStepOf DEF DeployAll, DeployTypeOK
<1>5. CASE deploy[d].pc = "attach s3"
  <2>1. /\ policies' = policies \cup {S3} /\ Goto(d, "function")
        /\ policies # NoRole /\ Kinesis \in policies
    BY <1>5 DEF CreateRole, AttachKinesisPolicy, AttachS3Policy, DeployAll, DeployInv, RunInv
  <2>2. policies \in SUBSET {Kinesis, S3} /\ policies' = {Kinesis, S3} /\ policies' # NoRole
    BY <2>1 DEF DeployAll, DeployTypeOK, NoRole, Kinesis, S3
  <2>3. PICK x \in Run : /\ deploy' = [deploy EXCEPT ![d] = x] /\ deploy'[d] = x
                         /\ x.pc = "function" /\ x.at = deploy[d].at
    BY <2>1, GotoRun DEF Steps, DeployAll
  <2>4. Grows
    BY <1>1, <2>1, <2>2 DEF Grows
  <2> QED
    BY <1>1, <1>2, <2>1, <2>2, <2>3, <2>4, DeployStepOf DEF DeployAll, DeployTypeOK
<1> QED
  BY <1>1, <1>3, <1>4, <1>5

LEMMA FunctionAll ==
  ASSUME DeployAll, NEW d \in Deployers, CreateLambdaFunction(d)
  PROVE  DeployAll'
<1>1. /\ deploy[d].pc = "function" /\ function' = TRUE /\ Goto(d, "mapping")
      /\ UNCHANGED <<buckets, encrypted, stream, policies, mapping, cuts, cutAt>>
  BY DEF CreateLambdaFunction
<1>2. Bronze \in buckets
  BY <1>1 DEF DeployAll, DeployInv, RunInv
<1>3. PICK x \in Run : /\ deploy' = [deploy EXCEPT ![d] = x] /\ deploy'[d] = x
                       /\ x.pc = "mapping" /\ x.at = deploy[d].at
  BY <1>1, GotoRun DEF Steps, DeployAll
<1>4. Grows /\ ~Attaching(d) /\ \A b : ~Encrypting(d, b)
  BY <1>1 DEF Grows, Attaching, Encrypting
<1> QED
  BY <1>1, <1>2, <1>3, <1>4, DeployStepOf DEF DeployAll, DeployTypeOK

\* A run starts, makes the mapping, or ends early.
LEMMA EndsAll ==
  ASSUME DeployAll, NEW d \in Deployers, StartDeploy(d) \/ CreateMapping(d) \/ DeployEnds(d)
  PROVE  DeployAll'
<1>1. /\ UNCHANGED <<buckets, encrypted, stream, policies, function>>
      /\ mapping' \in BOOLEAN /\ cuts' \in 0 .. MaxCuts
  <2>1. mapping \in BOOLEAN /\ cuts \in 0 .. MaxCuts /\ MaxCuts \in Nat
    BY DeploymentAssumption DEF DeployAll, DeployTypeOK
  <2>2. CASE StartDeploy(d)
    BY <2>1, <2>2 DEF StartDeploy
  <2>3. CASE CreateMapping(d)
    BY <2>1, <2>3 DEF CreateMapping
  <2>4. CASE DeployEnds(d)
    BY <2>1, <2>4 DEF DeployEnds
  <2> QED
    BY <2>2, <2>3, <2>4
<1>2. /\ Begun(d) \subseteq Bucket \cup {"role"}
      /\ \A b : Encrypting(d, b) => b \in Begun(d)
      /\ Attaching(d) => "role" \in Begun(d)
  BY DEF Begun, Encrypting, Attaching, DeployAll, DeployTypeOK, Bucket
<1>3. deploy[d].pc \in {"idle", "mapping"} => ~Attaching(d) /\ \A b : ~Encrypting(d, b)
  BY DEF Encrypting, Attaching
<1>4. CASE StartDeploy(d)
  <2>1. deploy[d].pc = "idle" /\ Goto(d, "bucket") /\ cutAt' = cutAt
    BY <1>4 DEF StartDeploy
  <2>2. PICK x \in Run : /\ deploy' = [deploy EXCEPT ![d] = x] /\ deploy'[d] = x
                         /\ x.pc = "bucket" /\ x.at = deploy[d].at
    BY <2>1, GotoRun DEF Steps, DeployAll
  <2>3. Grows /\ (deploy[d].at > 1 => Bronze \in buckets)
    BY <1>1, <2>1 DEF Grows, DeployAll, DeployInv, RunInv
  <2>4. stream # "none" => Bronze \in buckets
    BY DEF DeployAll, DeployInv
  <2> QED
    BY <1>1, <1>3, <2>1, <2>2, <2>3, <2>4, DeployStepOf DEF DeployAll, DeployTypeOK
<1>5. CASE CreateMapping(d) \/ DeployEnds(d)
  <2>1. deploy' = [deploy EXCEPT ![d] = NotDeploying] /\ cutAt \subseteq cutAt'
        /\ cutAt' \subseteq Bucket \cup {"role"}
        /\ ((~Attaching(d) /\ \A b : ~Encrypting(d, b)) \/ Begun(d) \subseteq cutAt')
    BY <1>2, <1>3, <1>5 DEF CreateMapping, DeployEnds, DeployAll, DeployTypeOK
  <2>2. Grows
    BY <1>1, <2>1 DEF Grows
  <2>3. NotDeploying.pc = "idle" /\ ~(NotDeploying.at > 1)
    BY DEF NotDeploying
  <2>4. stream # "none" => Bronze \in buckets
    BY DEF DeployAll, DeployInv
  <2>5. /\ \A b : Encrypting(d, b) => b \in cutAt'
        /\ Attaching(d) => "role" \in cutAt'
    BY <1>2, <2>1
  <2>6. /\ encrypted' \subseteq buckets' /\ buckets' \subseteq Bucket
        /\ stream' \in {"none", "creating", "active"}
        /\ policies' \in {NoRole} \cup SUBSET {Kinesis, S3}
        /\ function' \in BOOLEAN
        /\ buckets' \ (buckets \cup encrypted') = {} /\ policies' = policies
    BY <1>1 DEF DeployAll, DeployTypeOK
  <2>7. stream' # "none" => Bronze \in buckets'
    BY <1>1, <2>4
  <2> HIDE DEF Bronze
  <2> QED
    BY <1>1, <2>1, <2>2, <2>3, <2>5, <2>6, <2>7, NotDeployingRun, DeployStepOf
<1> QED
  BY <1>4, <1>5

LEMMA StreamActiveAll ==
  ASSUME DeployAll, StreamActive
  PROVE  DeployAll'
<1>1. /\ stream = "creating" /\ stream' = "active"
      /\ UNCHANGED <<buckets, encrypted, policies, function, mapping, deploy, cuts, cutAt>>
  BY DEF StreamActive
<1>2. DeployTypeOK'
  BY <1>1 DEF DeployAll, DeployTypeOK
<1>3. DeployInv'
  BY <1>1 DEF DeployAll, DeployInv, RunInv
<1>4. HalfInv'
  BY <1>1 DEF DeployAll, HalfInv, Encrypting, Attaching
<1> QED
  BY <1>2, <1>3, <1>4 DEF DeployAll

LEMMA DeployInitAll == DeployInit => DeployAll
<1> SUFFICES ASSUME DeployInit PROVE DeployAll
  OBVIOUS
<1>1. \A d \in Deployers : deploy[d].pc = "idle" /\ deploy[d].at = 1
    /\ ~(deploy[d].at > 1)
  BY DEF DeployInit, NotDeploying
<1>2. deploy \in [Deployers -> Run]
  BY NotDeployingRun DEF DeployInit
<1>3. cuts \in 0 .. MaxCuts
  BY DeploymentAssumption DEF DeployInit
<1>4. DeployTypeOK
  BY <1>2, <1>3 DEF DeployInit, DeployTypeOK, Run
<1>5. DeployInv
  <2>1. \A d \in Deployers : RunInv(d)
    BY <1>1 DEF RunInv
  <2> QED
    BY <2>1 DEF DeployInit, DeployInv
<1>6. HalfInv
  BY DEF DeployInit, HalfInv
<1> QED
  BY <1>4, <1>5, <1>6 DEF DeployAll

LEMMA DeployNextAll == DeployAll /\ DeployNext => DeployAll'
BY CreateBucketAll, PutEncryptionAll, CreateStreamAll, RoleAll, FunctionAll, EndsAll,
   StreamActiveAll
   DEF DeployNext, DeployInfrastructure

LEMMA DeployStutters == DeployAll /\ UNCHANGED deployVars => DeployAll'
BY DEF deployVars, DeployAll, DeployTypeOK, DeployInv, RunInv, HalfInv, Encrypting, Attaching

-----------------------------------------------------------------------------
(* The consumer                                                            *)

Consumer == [pc : {"off", "shard", "read", "flush"}, at : 1 .. Shards, pos : Nat,
             batch : Seq(Rec), waited : 0 .. Interval, got : SUBSET Rec]

\* The records of a batch.
In(batch) == {batch[i] : i \in DOMAIN batch}

\* A consumer that reads a shard has read no further than the shard goes, so
\* that what it reads next is there.
ConsumerInv ==
  /\ con \in [Consumers -> Consumer]
  /\ \A c \in Consumers :
       con[c].pc \in {"read", "flush"} => con[c].pos <= arrived[con[c].at]

\* The inductive invariant.
ConsumerAll == DeployAll /\ TypeOK /\ ConsumerInv /\ NothingDropped

LEMMA OffConsumer ==
  /\ Off \in Consumer /\ Off.pc = "off"
  /\ [Off EXCEPT !.pc = "shard"] \in Consumer
  /\ [Off EXCEPT !.pc = "shard"].pc = "shard" /\ [Off EXCEPT !.pc = "shard"].got = {}
<1>1. << >> \in Seq(Rec) /\ 1 \in 1 .. Shards /\ 0 \in 0 .. Interval
  BY ConsumerAssumption
<1> QED
  BY <1>1 DEF Off, Consumer

LEMMA RecOf ==
  ASSUME NEW s \in 1 .. Shards, NEW n \in 1 .. Length[s]
  PROVE  <<s, n>> \in Rec
BY DEF Rec

\* What is read is put behind what is held.
LEMMA BatchGrows ==
  ASSUME NEW S, NEW b \in Seq(S), NEW n \in Nat, NEW f, f = [i \in 1 .. n |-> f[i]],
         \A i \in 1 .. n : f[i] \in S
  PROVE  /\ b \o f \in Seq(S)
         /\ In(b \o f) = In(b) \cup {f[i] : i \in 1 .. n}
<1>1. f \in Seq(S) /\ Len(f) = n /\ DOMAIN f = 1 .. n
  OBVIOUS
<1>2. b \o f \in Seq(S) /\ DOMAIN (b \o f) = 1 .. Len(b) + n /\ Len(b) \in Nat
      /\ DOMAIN b = 1 .. Len(b)
  BY <1>1
<1>3. \A i \in 1 .. Len(b) : (b \o f)[i] = b[i]
  BY <1>1
<1>4. \A i \in 1 .. n : (b \o f)[Len(b) + i] = f[i] /\ Len(b) + i \in 1 .. Len(b) + n
  BY <1>1, <1>2
<1>5. ASSUME NEW i \in 1 .. Len(b) + n
      PROVE  (b \o f)[i] \in In(b) \cup {f[j] : j \in 1 .. n}
  <2>1. CASE i <= Len(b)
    BY <1>2, <1>3, <2>1 DEF In
  <2>2. CASE i > Len(b)
    <3>1. i - Len(b) \in 1 .. n /\ i = Len(b) + (i - Len(b))
      BY <1>2, <2>2
    <3> QED
      BY <1>4, <3>1
  <2> QED
    BY <1>2, <2>1, <2>2
<1>6. In(b) \subseteq In(b \o f)
  BY <1>2, <1>3 DEF In
<1>7. {f[i] : i \in 1 .. n} \subseteq In(b \o f)
  BY <1>2, <1>4 DEF In
<1> QED
  BY <1>2, <1>5, <1>6, <1>7 DEF In

LEMMA AfterShard ==
  ASSUME ConsumerInv, NEW c \in Consumers, NEW pos
  PROVE  /\ After(c, pos).pc \in {"read", "shard", "off"} /\ After(c, pos).at \in 1 .. Shards
         /\ After(c, pos).pc = "read" => After(c, pos).at = con[c].at
<1>1. con[c].at \in 1 .. Shards /\ 1 \in 1 .. Shards
      /\ (con[c].at < Shards => con[c].at + 1 \in 1 .. Shards)
  BY ConsumerAssumption DEF ConsumerInv, Consumer
<1> QED
  BY <1>1 DEF After

\* One consumer steps; what it leaves behind is in memory or in Bronze.
LEMMA ConsumerStep ==
  ASSUME ConsumerAll, NEW c \in Consumers, NEW x \in Consumer,
         con' = [con EXCEPT ![c] = x], UNCHANGED <<deployVars, arrived, closed>>,
         current \cup stored \cup replaced \subseteq current' \cup stored' \cup replaced',
         current' \cup stored' \cup replaced' \subseteq Rec, starts' \in 0 .. MaxStarts,
         x.pc \in {"read", "flush"} => x.pos <= arrived[x.at],
         x.pc # "off" => /\ Bronze \in buckets
                         /\ x.got \subseteq In(x.batch) \cup current' \cup stored' \cup replaced'
  PROVE  ConsumerAll'
<1>1. con'[c] = x /\ (\A q \in Consumers \ {c} : con'[q] = con[q])
      /\ con' \in [Consumers -> Consumer]
  BY DEF ConsumerAll, ConsumerInv
<1>2. DeployAll'
  BY DeployStutters DEF ConsumerAll
<1>3. ConsumerInv'
  <2>1. ASSUME NEW q \in Consumers, con'[q].pc \in {"read", "flush"}
        PROVE  con'[q].pos <= arrived'[con'[q].at]
    BY <1>1, <2>1 DEF ConsumerAll, ConsumerInv
  <2> QED
    BY <1>1, <2>1 DEF ConsumerInv
<1>4. NothingDropped'
  <2> SUFFICES ASSUME NEW q \in Consumers, con'[q].pc # "off"
               PROVE  /\ Bronze \in buckets'
                      /\ con'[q].got \subseteq In(con'[q].batch) \cup current' \cup stored' \cup replaced'
    BY DEF NothingDropped, Held, In, Bronze
  <2>1. buckets' = buckets
    BY DEF deployVars
  <2>2. CASE q = c
    BY <1>1, <2>1, <2>2
  <2>3. CASE q # c
    BY <1>1, <2>1, <2>3 DEF ConsumerAll, NothingDropped, Held, In
  <2> QED
    BY <2>2, <2>3
<1>5. TypeOK'
  <2>1. DeployTypeOK'
    BY <1>2 DEF DeployAll
  <2>2. \A q \in Consumers : con'[q] \in Consumer
    BY <1>1
  <2> QED
    BY <2>1, <2>2 DEF ConsumerAll, TypeOK, Consumer, Rec
<1> QED
  BY <1>2, <1>3, <1>4, <1>5 DEF ConsumerAll

LEMMA ListShardsAll ==
  ASSUME ConsumerAll, NEW c \in Consumers, ListShards(c)
  PROVE  ConsumerAll'
<1>1. /\ con' = [con EXCEPT ![c] = [Off EXCEPT !.pc = "shard"]]
      /\ starts < MaxStarts /\ starts' = starts + 1 /\ stream = "active"
      /\ UNCHANGED <<deployVars, arrived, closed, current, stored, replaced>>
  BY DEF ListShards
<1>2. Bronze \in buckets
  BY <1>1 DEF ConsumerAll, DeployAll, DeployInv
<1>3. starts' \in 0 .. MaxStarts /\ current \cup stored \cup replaced \subseteq Rec
  BY <1>1, ConsumerAssumption DEF ConsumerAll, TypeOK
<1> QED
  BY <1>1, <1>2, <1>3, OffConsumer, ConsumerStep

\* A consumer that ends holds nothing any more.
LEMMA ConsumerEnds ==
  ASSUME ConsumerAll, NEW c \in Consumers, con' = [con EXCEPT ![c] = Off],
         UNCHANGED <<deployVars, arrived, closed, stored, starts>>,
         UNCHANGED <<current, replaced>> \/ Put(c)
  PROVE  ConsumerAll'
<1>1. starts' \in 0 .. MaxStarts /\ current \cup stored \cup replaced \subseteq Rec
      /\ Held(c) \subseteq Rec
  BY DEF ConsumerAll, TypeOK, ConsumerInv, Consumer, Held
<1>2. /\ current \cup stored \cup replaced \subseteq current' \cup stored' \cup replaced'
      /\ current' \cup stored' \cup replaced' \subseteq Rec
  BY <1>1 DEF Put
<1> QED
  BY <1>1, <1>2, OffConsumer, ConsumerStep

LEMMA GetIteratorAll ==
  ASSUME ConsumerAll, NEW c \in Consumers, GetShardIterator(c)
  PROVE  ConsumerAll'
<1> DEFINE x == [con[c] EXCEPT !.pc = "read", !.pos = arrived[con[c].at]]
<1>1. /\ con[c].pc = "shard" /\ con[c] \in Consumer /\ con' = [con EXCEPT ![c] = x]
      /\ UNCHANGED <<deployVars, arrived, closed, current, stored, replaced, starts>>
  BY DEF GetShardIterator, ConsumerAll, ConsumerInv
<1>2. arrived[con[c].at] \in Nat
  BY <1>1 DEF ConsumerAll, TypeOK, Consumer
<1>3. x \in Consumer /\ x.pos = arrived[con[c].at] /\ x.at = con[c].at
      /\ x.pc = "read" /\ x.got = con[c].got /\ x.batch = con[c].batch
  BY <1>1, <1>2 DEF Consumer
<1>4. Bronze \in buckets /\ con[c].got \subseteq In(con[c].batch) \cup current \cup stored \cup replaced
  BY <1>1 DEF ConsumerAll, NothingDropped, Held, In
<1>5. starts' \in 0 .. MaxStarts /\ current \cup stored \cup replaced \subseteq Rec
  BY <1>1 DEF ConsumerAll, TypeOK
<1> HIDE DEF x
<1>6. x.pos <= arrived[x.at]
  BY <1>2, <1>3
<1> QED
  BY <1>1, <1>3, <1>4, <1>5, <1>6, ConsumerStep

LEMMA ReadRecordsAll ==
  ASSUME ConsumerAll, NEW c \in Consumers, ReadRecords(c)
  PROVE  ConsumerAll'
<1>1. /\ con[c].pc = "read" /\ con[c] \in Consumer /\ con[c].pos \in Nat
      /\ UNCHANGED <<deployVars, arrived, closed, current, stored, replaced, starts>>
  BY DEF ReadRecords, ConsumerAll, ConsumerInv, Consumer
<1>2. PICK n \in 0 .. BatchSize :
        /\ con[c].pos + n <= arrived[con[c].at]
        /\ LET recs == [i \in 1 .. n |-> <<con[c].at, con[c].pos + i>>]
               new == {recs[i] : i \in 1 .. n}
               batch == con[c].batch \o recs
               next == After(c, con[c].pos + n)
               flush == ShouldFlush(batch, con[c].waited) /\ batch # << >> IN
           con' = [con EXCEPT ![c] =
             IF new \cap Malformed # {} \/ (~flush /\ next.pc = "off") THEN Off
             ELSE [con[c] EXCEPT !.pc = IF flush THEN "flush" ELSE next.pc,
                                 !.at = IF flush THEN con[c].at ELSE next.at,
                                 !.pos = con[c].pos + n, !.batch = batch,
                                 !.got = con[c].got \cup new]]
  BY DEF ReadRecords
<1> DEFINE recs == [i \in 1 .. n |-> <<con[c].at, con[c].pos + i>>]
           new == {recs[i] : i \in 1 .. n}
           batch == con[c].batch \o recs
           next == After(c, con[c].pos + n)
           flush == ShouldFlush(batch, con[c].waited) /\ batch # << >>
           x == [con[c] EXCEPT !.pc = IF flush THEN "flush" ELSE next.pc,
                               !.at = IF flush THEN con[c].at ELSE next.at,
                               !.pos = con[c].pos + n, !.batch = batch,
                               !.got = con[c].got \cup new]
           ends == new \cap Malformed # {} \/ (~flush /\ next.pc = "off")
<1>3. con' = [con EXCEPT ![c] = Off]
      \/ (con' = [con EXCEPT ![c] = x] /\ (flush \/ next.pc # "off"))
  <2>1. con' = [con EXCEPT ![c] = IF ends THEN Off ELSE x]
    BY <1>2
  <2>2. ~ends => flush \/ next.pc # "off"
    OBVIOUS
  <2> HIDE DEF ends, x
  <2> QED
    BY <2>1, <2>2
<1>4. \A i \in 1 .. n : recs[i] \in Rec
  <2>1. SUFFICES ASSUME NEW i \in 1 .. n PROVE <<con[c].at, con[c].pos + i>> \in Rec
    OBVIOUS
  <2>2. con[c].at \in 1 .. Shards /\ arrived[con[c].at] <= Length[con[c].at]
        /\ arrived[con[c].at] \in Nat /\ Length[con[c].at] \in Nat
    BY <1>1, ConsumerAssumption DEF ConsumerAll, TypeOK, Consumer
  <2>3. con[c].pos + n <= arrived[con[c].at] /\ con[c].pos \in Nat /\ n \in Nat
    BY <1>1, <1>2, ConsumerAssumption
  <2>4. con[c].pos + i \in 1 .. Length[con[c].at]
    BY <2>2, <2>3
  <2> QED
    BY <2>2, <2>4, RecOf
<1>5. batch \in Seq(Rec) /\ In(batch) = In(con[c].batch) \cup new /\ new \subseteq Rec
  <2>1. n \in Nat /\ con[c].batch \in Seq(Rec)
    BY <1>1, ConsumerAssumption DEF Consumer
  <2>2. recs = [i \in 1 .. n |-> recs[i]]
    OBVIOUS
  <2> HIDE DEF recs
  <2> QED
    BY <1>4, <2>1, <2>2, BatchGrows
<1>6. /\ next.pc \in {"read", "shard", "off"} /\ next.at \in 1 .. Shards
      /\ next.pc = "read" => next.at = con[c].at
  BY AfterShard DEF ConsumerAll
<1>7. Bronze \in buckets /\ con[c].got \subseteq In(con[c].batch) \cup current \cup stored \cup replaced
  BY <1>1 DEF ConsumerAll, NothingDropped, Held, In
<1>8. starts' \in 0 .. MaxStarts /\ current \cup stored \cup replaced \subseteq Rec
  BY <1>1 DEF ConsumerAll, TypeOK
<1>9. n \in Nat
  BY ConsumerAssumption
<1> HIDE DEF recs, new, batch, next, flush, ends
<1>10. ASSUME flush \/ next.pc # "off"
       PROVE  /\ x \in Consumer /\ x.pos = con[c].pos + n
              /\ x.pc \in {"read", "flush"} => x.at = con[c].at
              /\ x.batch = batch /\ x.got = con[c].got \cup new
  <2> DEFINE pc == IF flush THEN "flush" ELSE next.pc
             at == IF flush THEN con[c].at ELSE next.at
  <2>1. /\ pc \in {"off", "shard", "read", "flush"} /\ at \in 1 .. Shards
        /\ pc \in {"read", "flush"} => at = con[c].at
    BY <1>1, <1>6 DEF Consumer
  <2>2. con[c].pos + n \in Nat /\ con[c].got \cup new \in SUBSET Rec
    BY <1>1, <1>5, <1>9 DEF Consumer
  <2>3. x = [con[c] EXCEPT !.pc = pc, !.at = at, !.pos = con[c].pos + n, !.batch = batch,
                           !.got = con[c].got \cup new]
    OBVIOUS
  <2> HIDE DEF pc, at, x
  <2> QED
    BY <1>1, <1>5, <2>1, <2>2, <2>3 DEF Consumer
<1>11. CASE con' = [con EXCEPT ![c] = Off]
  BY <1>1, <1>11, ConsumerEnds
<1>12. CASE con' = [con EXCEPT ![c] = x] /\ (flush \/ next.pc # "off")
  <2> HIDE DEF x
  <2> QED
    BY <1>1, <1>2, <1>5, <1>7, <1>8, <1>10, <1>12, ConsumerStep
<1> QED
  BY <1>3, <1>11, <1>12

LEMMA FlushAll ==
  ASSUME ConsumerAll, NEW c \in Consumers, FlushBatch(c)
  PROVE  ConsumerAll'
<1> DEFINE next == After(c, con[c].pos)
           x == [con[c] EXCEPT !.pc = next.pc, !.at = next.at, !.batch = << >>, !.waited = 0]
<1>1. /\ con[c].pc = "flush" /\ con[c] \in Consumer /\ Put(c)
      /\ UNCHANGED <<deployVars, arrived, closed, stored, starts>>
      /\ con' = [con EXCEPT ![c] = Off] \/ con' = [con EXCEPT ![c] = x]
  BY DEF FlushBatch, ConsumerAll, ConsumerInv
<1>2. CASE con' = [con EXCEPT ![c] = Off]
  BY <1>1, <1>2, ConsumerEnds
<1>3. CASE con' = [con EXCEPT ![c] = x]
  <2>1. /\ next.pc \in {"read", "shard", "off"} /\ next.at \in 1 .. Shards
        /\ next.pc = "read" => next.at = con[c].at
    BY AfterShard DEF ConsumerAll
  <2>2. con[c].pos <= arrived[con[c].at]
        /\ con[c].got \subseteq Held(c) \cup current \cup stored \cup replaced
    BY <1>1 DEF ConsumerAll, ConsumerInv, NothingDropped
  <2> HIDE DEF next
  <2>3. /\ x \in Consumer /\ x.pc = next.pc /\ x.at = next.at /\ x.pos = con[c].pos
        /\ x.got = con[c].got
    <3>1. 0 \in 0 .. Interval /\ << >> \in Seq(Rec)
      BY ConsumerAssumption
    <3> QED
      BY <1>1, <2>1, <3>1 DEF Consumer
  <2> HIDE DEF x
  <2>4. /\ Bronze \in buckets /\ current' = Held(c)
        /\ replaced' = replaced \cup (current \ Held(c)) /\ stored' = stored
    BY <1>1 DEF Put
  <2>5. Held(c) \subseteq Rec /\ starts' \in 0 .. MaxStarts
        /\ current \cup stored \cup replaced \subseteq Rec
    BY <1>1 DEF ConsumerAll, TypeOK, Consumer, Held
  <2>6. x.got \subseteq In(x.batch) \cup current' \cup stored' \cup replaced'
        /\ current \cup stored \cup replaced \subseteq current' \cup stored' \cup replaced'
        /\ current' \cup stored' \cup replaced' \subseteq Rec
    BY <2>2, <2>3, <2>4, <2>5
  <2> QED
    BY <1>1, <1>3, <2>1, <2>2, <2>3, <2>4, <2>5, <2>6, ConsumerStep
<1> QED
  BY <1>1, <1>2, <1>3

LEMMA ArriveAll ==
  ASSUME ConsumerAll, Arrive
  PROVE  ConsumerAll'
<1>1. /\ \E s \in (1 .. Shards) \ closed :
           arrived[s] < Length[s] /\ arrived' = [arrived EXCEPT ![s] = arrived[s] + 1]
      /\ UNCHANGED <<deployVars, closed, con, current, stored, replaced, starts>>
  BY DEF Arrive
<1>2. /\ arrived' \in [1 .. Shards -> Nat]
      /\ \A s \in 1 .. Shards : arrived[s] <= arrived'[s] /\ arrived'[s] <= Length[s]
  BY <1>1, ConsumerAssumption DEF ConsumerAll, TypeOK
<1>3. DeployAll'
  BY <1>1, DeployStutters DEF ConsumerAll
<1>4. ConsumerInv'
  <2>1. \A c \in Consumers : /\ con[c].at \in 1 .. Shards /\ con[c].pos \in Nat
                             /\ arrived[con[c].at] \in Nat
    BY DEF ConsumerAll, ConsumerInv, Consumer, TypeOK
  <2>2. ASSUME NEW c \in Consumers, con[c].pc \in {"read", "flush"}
        PROVE  con[c].pos <= arrived'[con[c].at]
    <3>1. con[c].pos <= arrived[con[c].at]
      BY <2>2 DEF ConsumerAll, ConsumerInv
    <3> QED
      BY <1>2, <2>1, <3>1
  <2> QED
    BY <1>1, <2>2 DEF ConsumerAll, ConsumerInv
<1>5. NothingDropped'
  BY <1>1 DEF ConsumerAll, NothingDropped, Held, Bronze, deployVars
<1>6. TypeOK'
  BY <1>1, <1>2, <1>3 DEF ConsumerAll, DeployAll, TypeOK, Rec
<1> QED
  BY <1>3, <1>4, <1>5, <1>6 DEF ConsumerAll

LEMMA TickAll ==
  ASSUME ConsumerAll, Tick
  PROVE  ConsumerAll'
<1>1. /\ stored' = stored \cup current /\ current' = {}
      /\ UNCHANGED <<deployVars, arrived, closed, replaced, starts>>
  BY DEF Tick
<1>2. /\ con' \in [Consumers -> Consumer]
      /\ \A c \in Consumers : /\ con'[c].pc = con[c].pc /\ con'[c].at = con[c].at
                              /\ con'[c].pos = con[c].pos /\ con'[c].batch = con[c].batch
                              /\ con'[c].got = con[c].got
  <2>1. ASSUME NEW c \in Consumers, con[c].pc # "off" /\ con[c].waited < Interval
        PROVE  [con[c] EXCEPT !.waited = con[c].waited + 1] \in Consumer
    <3>1. con[c] \in Consumer /\ con[c].waited + 1 \in 0 .. Interval
      BY <2>1, ConsumerAssumption DEF ConsumerAll, ConsumerInv, Consumer
    <3> QED
      BY <3>1 DEF Consumer
  <2>2. \A c \in Consumers : con[c] \in Consumer
    BY DEF ConsumerAll, ConsumerInv
  <2>3. con' = [c \in Consumers |->
          IF con[c].pc # "off" /\ con[c].waited < Interval
          THEN [con[c] EXCEPT !.waited = con[c].waited + 1] ELSE con[c]]
    BY DEF Tick
  <2>4. con' \in [Consumers -> Consumer]
    BY <2>1, <2>2, <2>3
  <2>5. ASSUME NEW c \in Consumers
        PROVE  /\ con'[c].pc = con[c].pc /\ con'[c].at = con[c].at
               /\ con'[c].pos = con[c].pos /\ con'[c].batch = con[c].batch
               /\ con'[c].got = con[c].got
    BY <2>2, <2>3 DEF Consumer
  <2> QED
    BY <2>4, <2>5
<1>3. DeployAll'
  BY <1>1, DeployStutters DEF ConsumerAll
<1>4. ConsumerInv'
  BY <1>1, <1>2 DEF ConsumerAll, ConsumerInv
<1>5. NothingDropped'
  BY <1>1, <1>2 DEF ConsumerAll, NothingDropped, Held, Bronze, deployVars
<1>6. TypeOK'
  BY <1>1, <1>2, <1>3 DEF ConsumerAll, DeployAll, TypeOK, Consumer, Rec
<1> QED
  BY <1>3, <1>4, <1>5, <1>6 DEF ConsumerAll

\* What leaves the consumers and the records alone.
LEMMA DeployStepsAll ==
  ASSUME ConsumerAll,
         ((DeployNext \/ UNCHANGED deployVars) /\ UNCHANGED conVars) \/ CloseShard
  PROVE  ConsumerAll'
<1>1. UNCHANGED <<arrived, con, current, stored, replaced, starts>> /\ closed' \subseteq 1 .. Shards
  BY DEF CloseShard, conVars, ConsumerAll, TypeOK
<1>2. DeployAll'
  BY DeployNextAll, DeployStutters DEF ConsumerAll, CloseShard
<1>3. buckets \subseteq buckets'
  BY DEF DeployNext, DeployInfrastructure, StartDeploy, CreateBucket, PutBucketEncryption,
         CreateKinesisStream, StreamActive, CreateRole, AttachKinesisPolicy, AttachS3Policy,
         CreateLambdaFunction, CreateMapping, DeployEnds, CloseShard, deployVars
<1>4. ConsumerInv'
  BY <1>1 DEF ConsumerAll, ConsumerInv
<1>5. NothingDropped'
  BY <1>1, <1>3 DEF ConsumerAll, NothingDropped, Held, Bronze
<1>6. TypeOK'
  BY <1>1, <1>2 DEF ConsumerAll, DeployAll, TypeOK, Rec
<1> QED
  BY <1>2, <1>4, <1>5, <1>6 DEF ConsumerAll

LEMMA ConsumerInit == Init => ConsumerAll
<1> SUFFICES ASSUME Init PROVE ConsumerAll
  OBVIOUS
<1>1. DeployAll
  BY DeployInitAll DEF Init
<1>2. con \in [Consumers -> Consumer] /\ \A c \in Consumers : con[c].pc = "off"
  BY OffConsumer DEF Init
<1>3. ConsumerInv /\ NothingDropped
  BY <1>2 DEF ConsumerInv, NothingDropped
<1>4. TypeOK
  BY <1>1, <1>2, ConsumerAssumption DEF Init, DeployAll, TypeOK, Consumer
<1> QED
  BY <1>1, <1>3, <1>4 DEF ConsumerAll

LEMMA ConsumerNext == ConsumerAll /\ [Next]_vars => ConsumerAll'
<1> SUFFICES ASSUME ConsumerAll, [Next]_vars PROVE ConsumerAll'
  OBVIOUS
<1>1. ASSUME NEW c \in Consumers, ListShards(c) \/ Consume(c) \/ ConsumerDies(c)
      PROVE  ConsumerAll'
  <2>1. CASE FlushFails(c)
    BY <2>1, ConsumerEnds DEF FlushFails
  <2>2. CASE ConsumerDies(c)
    BY <2>2, ConsumerEnds DEF ConsumerDies
  <2> QED
    BY <1>1, <2>1, <2>2, ListShardsAll, GetIteratorAll, ReadRecordsAll, FlushAll DEF Consume
<1>2. CASE Next
  BY <1>1, <1>2, ArriveAll, TickAll, DeployStepsAll DEF Next
<1>3. CASE UNCHANGED vars
  BY <1>3, DeployStepsAll DEF vars
<1> QED
  BY <1>2, <1>3

\* What the three theorems below are read off.
LEMMA ConsumerAlways == Spec => []ConsumerAll
BY ConsumerInit, ConsumerNext, PTL DEF Spec

\* Every variable of the deployment and of the consumer has its type; no
\* consumer reads a record that is not on the shard (kinesis_consumer.py:70-90).
THEOREM ConsumerTypes == Spec => []TypeOK
<1>1. ConsumerAll => TypeOK
  BY DEF ConsumerAll
<1> QED
  BY <1>1, ConsumerAlways, PTL

\* However many deployments there are, overlap and are cut short, what stands
\* half-built is what one was cut short at or is still at
\* (deploy_infrastructure.py:55-71, 88-109).
THEOREM HalfBuiltExplained == Spec => []HalfBuiltIfCutShort
<1>1. ConsumerAll => HalfBuiltIfCutShort
  <2> SUFFICES ASSUME HalfInv PROVE HalfBuiltIfCutShort
    BY DEF ConsumerAll, DeployAll
  <2>1. /\ \A d \in Deployers : \A b : Encrypting(d, b) => b \in Begun(d)
        /\ \A d \in Deployers : Attaching(d) => "role" \in Begun(d)
    BY DEF Encrypting, Attaching, Begun
  <2> QED
    BY <2>1 DEF HalfInv, HalfBuiltIfCutShort
<1> QED
  BY <1>1, ConsumerAlways, PTL

\* As long as it runs, a consumer has its bucket and holds or has written all
\* it has read, but for what an object of the same second replaced
\* (kinesis_consumer.py:65, 100-105).
THEOREM ConsumerDropsNothing == Spec => []NothingDropped
<1>1. ConsumerAll => NothingDropped
  BY DEF ConsumerAll
<1> QED
  BY <1>1, ConsumerAlways, PTL

=============================================================================
