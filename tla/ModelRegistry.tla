---------------------------- MODULE ModelRegistry ----------------------------
(***************************************************************************)
(* The approval workflow of registry.py: processes register a version's    *)
(* metadata, approve it and list the versions by status, through plain     *)
(* files that open(..., 'w') empties and close() fills.  Of the metadata   *)
(* the model keeps the status.                                             *)
(***************************************************************************)
EXTENDS Naturals

CONSTANTS
  Versions,  \* the directories of the registry
  Clerks,    \* processes that register and approve
  MaxOps,    \* bound: registrations and approvals begun
  NoFile,    \* there is no metadata.json
  Empty,     \* it was opened for writing and nothing is in it yet
  Mixed      \* two writers' bytes: not JSON

VARIABLES
  meta,      \* per version, its metadata.json
  clerk,     \* per process, the call it is in
  ops        \* calls begun so far

regVars == <<meta, clerk, ops>>

Metadata == [status : {"pending_approval", "approved"}]

ASSUME RegistryAssumption ==
  /\ Versions # {} /\ MaxOps \in Nat
  /\ NoFile \notin Metadata /\ Empty \notin Metadata /\ Mixed \notin Metadata

Free == [pc |-> "free", version |-> CHOOSE v \in Versions : TRUE, held |-> Empty]

-----------------------------------------------------------------------------
\* register_model, up to open(): json.dump fills a buffer that close() writes.
RegisterOpen(c) ==
  /\ clerk[c].pc = "free"
  /\ ops < MaxOps
  /\ ops' = ops + 1
  /\ \E v \in Versions :
       /\ clerk' = [clerk EXCEPT ![c] =
            [pc |-> "writing", version |-> v,
             held |-> [status |-> "pending_approval"]]]
       /\ meta' = [meta EXCEPT ![v] = Empty]

\* approve_model takes a version's name and approves whatever its metadata says by
\* now.  No file or no JSON raises, and the call ends.
ApproveRead(c) ==
  /\ clerk[c].pc = "free"
  /\ ops < MaxOps
  /\ ops' = ops + 1
  /\ \E v \in Versions :
       /\ meta[v] \in Metadata
       /\ clerk' = [clerk EXCEPT ![c] = [pc |-> "read", version |-> v, held |-> meta[v]]]
  /\ UNCHANGED meta

\* The defect of a misspelt status.
ApprovedMisspelt(c) == [clerk[c].held EXCEPT !.status = "aproved"]

\* metadata['status'] = 'approved', in the copy that was read.
Approved(c) == [clerk[c].held EXCEPT !.status = "approved"]

ApproveOpen(c) ==
  /\ clerk[c].pc = "read"
  /\ clerk' = [clerk EXCEPT ![c].pc = "writing", ![c].held = Approved(c)]
  /\ meta' = [meta EXCEPT ![clerk[c].version] = Empty]
  /\ UNCHANGED ops

\* The bytes go to the start of the file: what a longer one written since the
\* open() has behind them stays.
CloseFile(c) ==
  /\ clerk[c].pc = "writing"
  /\ \E file \in {clerk[c].held, Mixed} :
       /\ file = Mixed => meta[clerk[c].version] # Empty
       /\ meta' = [meta EXCEPT ![clerk[c].version] = file]
  /\ clerk' = [clerk EXCEPT ![c] = Free]
  /\ UNCHANGED ops

ClerkDies(c) ==
  /\ clerk[c].pc # "free"
  /\ clerk' = [clerk EXCEPT ![c] = Free]
  /\ UNCHANGED <<meta, ops>>

\* list_models catches FileNotFoundError only: a file that is not JSON raises.
ListRaises == \E v \in Versions : meta[v] \in {Empty, Mixed}

ListModels(status) == {v \in Versions : meta[v] \in Metadata /\ meta[v].status = status}

-----------------------------------------------------------------------------
\* Some versions have been registered before.
RegistryInit ==
  /\ meta \in [Versions -> {NoFile, [status |-> "pending_approval"]}]
  /\ clerk = [c \in Clerks |-> Free]
  /\ ops = 0

RegistryNext ==
  \E c \in Clerks :
    RegisterOpen(c) \/ ApproveRead(c) \/ ApproveOpen(c) \/ CloseFile(c) \/ ClerkDies(c)

RegistryTypeOK ==
  /\ meta \in [Versions -> {NoFile, Empty, Mixed} \cup Metadata]
  /\ clerk \in [Clerks -> [pc : {"free", "read", "writing"}, version : Versions,
                           held : {Empty} \cup Metadata]]
  /\ ops \in 0 .. MaxOps

=============================================================================
