--------------------------- MODULE StreamDeployment ---------------------------
(***************************************************************************)
(* deploy_infrastructure.py: buckets, stream, role, function and event     *)
(* source mapping, created one call after the other.  Each step takes a    *)
(* resource that is already there for finished.  A run may be killed, or a *)
(* call may raise, after any step, and another run may be under way.       *)
(***************************************************************************)
EXTENDS Naturals, Sequences, FiniteSets

CONSTANTS
  Deployers,  \* processes that run deploy_infrastructure()
  Buckets,    \* S3_BUCKETS, in order
  MaxCuts     \* bound: runs that end early

ASSUME DeploymentAssumption == Buckets \in Seq(STRING) /\ Len(Buckets) > 0 /\ MaxCuts \in Nat

VARIABLES
  buckets,    \* the buckets that exist
  encrypted,  \* those with a default encryption
  stream,     \* the Kinesis stream
  policies,   \* the role: NoRole, or the policies attached to it
  function,   \* whether the Lambda function exists
  mapping,    \* whether the event source mapping exists
  deploy,     \* per process, its run
  cuts,       \* runs that have ended early
  cutAt       \* history: what a run had begun and not finished when it ended

deployVars == <<buckets, encrypted, stream, policies, function, mapping, deploy, cuts, cutAt>>

Bucket == {Buckets[i] : i \in DOMAIN Buckets}
NoRole == {"no role"}
Kinesis == "AWSLambdaKinesisExecutionRole"
S3 == "AmazonS3FullAccess"

Steps == {"idle", "bucket", "encrypt", "stream", "role", "attach kinesis", "attach s3",
          "function", "mapping"}

NotDeploying == [pc |-> "idle", at |-> 1]

Goto(d, step) == deploy' = [deploy EXCEPT ![d].pc = step]

-----------------------------------------------------------------------------
\* The defect of a deployment that does not begin with the buckets.
StartAtStream(d) ==
  /\ deploy[d].pc = "idle"
  /\ Goto(d, "stream")
  /\ UNCHANGED <<buckets, encrypted, stream, policies, function, mapping, cuts, cutAt>>

StartDeploy(d) ==
  /\ deploy[d].pc = "idle"
  /\ Goto(d, "bucket")
  /\ UNCHANGED <<buckets, encrypted, stream, policies, function, mapping, cuts, cutAt>>

\* The defect of a loop that runs one too far.
NextBucketPast(d) ==
  deploy' = [deploy EXCEPT ![d] =
    IF deploy[d].at <= Len(Buckets) THEN [pc |-> "bucket", at |-> deploy[d].at + 1]
    ELSE [pc |-> "stream", at |-> 1]]

\* The loop over S3_BUCKETS goes on with the next bucket, if there is one.
NextBucket(d) ==
  deploy' = [deploy EXCEPT ![d] =
    IF deploy[d].at < Len(Buckets) THEN [pc |-> "bucket", at |-> deploy[d].at + 1]
    ELSE [pc |-> "stream", at |-> 1]]

\* Creating a bucket one owns raises BucketAlreadyOwnedByYou, and the loop skips
\* the encryption, or, in us-east-1, succeeds once more.
CreateBucket(d) ==
  LET b == Buckets[deploy[d].at] IN
  /\ deploy[d].pc = "bucket"
  /\ buckets' = buckets \cup {b}
  /\ \/ Goto(d, "encrypt")
     \/ b \in buckets /\ NextBucket(d)
  /\ UNCHANGED <<encrypted, stream, policies, function, mapping, cuts, cutAt>>

PutBucketEncryption(d) ==
  /\ deploy[d].pc = "encrypt"
  /\ encrypted' = encrypted \cup {Buckets[deploy[d].at]}
  /\ NextBucket(d)
  /\ UNCHANGED <<buckets, stream, policies, function, mapping, cuts, cutAt>>

\* The stream is being created when the call returns; ResourceInUse is caught.
CreateKinesisStream(d) ==
  /\ deploy[d].pc = "stream"
  /\ stream' = IF stream = "none" THEN "creating" ELSE stream
  /\ Goto(d, "role")
  /\ UNCHANGED <<buckets, encrypted, policies, function, mapping, cuts, cutAt>>

StreamActive ==
  /\ stream = "creating"
  /\ stream' = "active"
  /\ UNCHANGED <<buckets, encrypted, policies, function, mapping, deploy, cuts, cutAt>>

\* For a role that exists, EntityAlreadyExists skips both policies.
CreateRole(d) ==
  /\ deploy[d].pc = "role"
  /\ IF policies = NoRole
     THEN policies' = {} /\ Goto(d, "attach kinesis")
     ELSE policies' = policies /\ Goto(d, "function")
  /\ UNCHANGED <<buckets, encrypted, stream, function, mapping, cuts, cutAt>>

\* The defect of a role that gets the first policy only.
AttachKinesisOnly(d) ==
  /\ deploy[d].pc = "attach kinesis"
  /\ policies' = policies \cup {Kinesis}
  /\ Goto(d, "function")
  /\ UNCHANGED <<buckets, encrypted, stream, function, mapping, cuts, cutAt>>

AttachKinesisPolicy(d) ==
  /\ deploy[d].pc = "attach kinesis"
  /\ policies' = policies \cup {Kinesis}
  /\ Goto(d, "attach s3")
  /\ UNCHANGED <<buckets, encrypted, stream, function, mapping, cuts, cutAt>>

AttachS3Policy(d) ==
  /\ deploy[d].pc = "attach s3"
  /\ policies' = policies \cup {S3}
  /\ Goto(d, "function")
  /\ UNCHANGED <<buckets, encrypted, stream, function, mapping, cuts, cutAt>>

\* ResourceConflict, for a function that exists, is caught.
CreateLambdaFunction(d) ==
  /\ deploy[d].pc = "function"
  /\ function' = TRUE
  /\ Goto(d, "mapping")
  /\ UNCHANGED <<buckets, encrypted, stream, policies, mapping, cuts, cutAt>>

\* describe_stream, then the mapping, which Lambda refuses (the run ends, see
\* DeployEnds) while the function's role may not read the stream.
CreateMapping(d) ==
  /\ deploy[d].pc = "mapping"
  /\ Kinesis \in policies
  /\ mapping' = TRUE
  /\ deploy' = [deploy EXCEPT ![d] = NotDeploying]
  /\ UNCHANGED <<buckets, encrypted, stream, policies, function, cuts, cutAt>>

\* What the run has begun: a bucket without encryption, or a role without policies.
Begun(d) ==
  CASE deploy[d].pc = "encrypt" -> {Buckets[deploy[d].at]}
    [] deploy[d].pc \in {"attach kinesis", "attach s3"} -> {"role"}
    [] OTHER -> {}

\* The process is killed, or a call raises what the step does not catch: the
\* role cannot be assumed yet, the code is no zip file, the mapping is refused.
DeployEnds(d) ==
  /\ deploy[d].pc # "idle"
  /\ cuts < MaxCuts
  /\ cuts' = cuts + 1
  /\ cutAt' = cutAt \cup Begun(d)
  /\ deploy' = [deploy EXCEPT ![d] = NotDeploying]
  /\ UNCHANGED <<buckets, encrypted, stream, policies, function, mapping>>

DeployInfrastructure(d) ==
  \/ StartDeploy(d) \/ CreateBucket(d) \/ PutBucketEncryption(d) \/ CreateKinesisStream(d)
  \/ CreateRole(d) \/ AttachKinesisPolicy(d) \/ AttachS3Policy(d)
  \/ CreateLambdaFunction(d) \/ CreateMapping(d) \/ DeployEnds(d)

DeployInit ==
  /\ buckets = {} /\ encrypted = {} /\ stream = "none" /\ policies = NoRole
  /\ function = FALSE /\ mapping = FALSE
  /\ deploy = [d \in Deployers |-> NotDeploying]
  /\ cuts = 0 /\ cutAt = {}

DeployNext == StreamActive \/ \E d \in Deployers : DeployInfrastructure(d)

-----------------------------------------------------------------------------
DeployTypeOK ==
  /\ encrypted \subseteq buckets /\ buckets \subseteq Bucket
  /\ stream \in {"none", "creating", "active"}
  /\ policies \in {NoRole} \cup SUBSET {Kinesis, S3}
  /\ function \in BOOLEAN /\ mapping \in BOOLEAN
  /\ deploy \in [Deployers -> [pc : Steps, at : DOMAIN Buckets]]
  /\ cuts \in 0 .. MaxCuts
  /\ cutAt \subseteq Bucket \cup {"role"}

\* However many runs there were, and overlapped, a bucket without encryption
\* and a role without one of its policies are left by a run that was cut short
\* just there, or one is still at it (deploy_infrastructure.py:55-71, 88-109).
HalfBuiltIfCutShort ==
  /\ \A b \in buckets \ encrypted : b \in cutAt \/ \E d \in Deployers : b \in Begun(d)
  /\ policies # NoRole /\ policies # {Kinesis, S3} =>
       "role" \in cutAt \/ \E d \in Deployers : "role" \in Begun(d)

=============================================================================
