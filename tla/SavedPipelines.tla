---------------------------- MODULE SavedPipelines ----------------------------
(***************************************************************************)
(* One user's pipelines: the routes that create, edit, delete and run      *)
(* them, as requests that read, await and commit beside each other.        *)
(*                                                                         *)
(* A definition is one block: its id, whether a client chose another body, *)
(* and the secret stored with it.  A request's second step is its commit;  *)
(* what it uses there it read in its first.  The database's constraints    *)
(* (one name per user, one row per version, a run's foreign keys without   *)
(* ON DELETE) are what a commit may still be refused by.                   *)
(***************************************************************************)
EXTENDS Naturals, Sequences, FiniteSets, TLC

CONSTANTS
    Pipelines,   \* ids create may give (a bound)
    Names,       \* names of pipelines
    Secrets,     \* secrets a client may send
    Clients,     \* requests in flight at once
    Limit,       \* settings.max_pipelines_per_user
    MaxVersions, \* versions of a pipeline (a bound)
    MaxRequests  \* requests of a behaviour (a bound)

ASSUME BoundsAssumption == {Limit, MaxVersions, MaxRequests} \subseteq Nat \ {0}
ASSUME ClientsAssumption == IsFiniteSet(Clients) /\ Clients # {}

None == "none"
Gone == "gone"
(* What stands for no name and no secret is neither.                       *)
ASSUME NamesAssumption == Names \cap {None, Gone} = {}
ASSUME SecretsAssumption == Secrets \cap {"no", "clear"} = {}

Bodies == {"plain", "edited"}
BlockIds == 1..2
NoBlock == [id |-> 0, secret |-> None]
Definitions == [id : BlockIds, body : Bodies, secret : Secrets \cup {None}]

VARIABLES
    name,     \* pipelines.name; None before the row, Gone after it
    deleted,  \* pipelines whose deleted_at is set
    versions, \* pipeline_versions.definition, by version number
    origin,   \* history: for each version, what its writer sent of the secret
    runs,     \* pipeline_runs: the pipeline, the version, what the workflow was given
    request,  \* the requests in flight
    made      \* how many requests have been made

vars == <<name, deleted, versions, origin, runs, request, made>>

Idle == [kind |-> None]

Init ==
    /\ name = [p \in Pipelines |-> None] /\ deleted = {}
    /\ versions = [p \in Pipelines |-> <<>>] /\ origin = [p \in Pipelines |-> <<>>]
    /\ runs = {} /\ request = [c \in Clients |-> Idle] /\ made = 0

Exists(p) == name[p] \in Names
Owned(p) == Exists(p) /\ p \notin deleted
Latest(p) == Len(versions[p])
Held == {p \in Pipelines : Owned(p)}
HasRuns(p) == \E r \in runs : r.pipeline = p
Free(n, p) == \A q \in Pipelines \ {p} : name[q] # n

Begin(c, r) ==
    /\ request[c] = Idle /\ made < MaxRequests
    /\ request' = [request EXCEPT ![c] = r]
    /\ made' = made + 1

Answer(c) == request' = [request EXCEPT ![c] = Idle] /\ UNCHANGED made

(* A submitted block: its id, its body, and what it says of the secret field. *)
Submitted == [id : BlockIds, body : Bodies, given : {"no", "clear"} \cup Secrets]

(* A first version's block is block 1, plain, without loss of generality. *)
NewBlocks == {block \in Submitted : block.id = 1 /\ block.body = "plain"}

(* _store_secrets: what is sent is set or cleared, what is left out is kept *)
(* with the block it belonged to.                                          *)
Stored(block, previous) ==
    [id |-> block.id, body |-> block.body,
     secret |-> CASE block.given \in Secrets -> block.given
                  [] block.given = "clear" -> None
                  [] previous.id = block.id -> previous.secret
                  [] OTHER -> None]

-----------------------------------------------------------------------------
(* POST /pipelines *)

(* The count is read without a lock; at the limit the answer is 429. *)
BeginCreate(c) ==
    /\ Cardinality(Held) < Limit
    /\ \E n \in Names, block \in NewBlocks :
         Begin(c, [kind |-> "create", name |-> n, block |-> block])
    /\ UNCHANGED <<name, deleted, versions, origin, runs>>

Create(c) ==
    LET r == request[c] IN
    /\ r.kind = "create"
    /\ \/ \E p \in Pipelines :
            /\ name[p] = None /\ Free(r.name, p)
            /\ name' = [name EXCEPT ![p] = r.name]
            /\ versions' = [versions EXCEPT ![p] = <<Stored(r.block, NoBlock)>>]
            /\ origin' = [origin EXCEPT ![p] = <<r.block.given>>]
       \/ /\ \E q \in Pipelines : name[q] = r.name
          /\ UNCHANGED <<name, versions, origin>>
    /\ Answer(c)
    /\ UNCHANGED <<deleted, runs>>

-----------------------------------------------------------------------------
(* PATCH /pipelines/{id} *)

Edit(p, n, news, next, given) ==
    [kind |-> "update", pipeline |-> p, rename |-> n # name[p], name |-> n, saw |-> Latest(p),
     news |-> news, next |-> next, given |-> given]

(* The next definition is made from the version read.  A new ciphertext is *)
(* never equal to the stored one; an equal definition is not a version.    *)
BeginUpdate(c) ==
    /\ \E p \in Held, n \in Names :
         \/ n # name[p] /\ Begin(c, Edit(p, n, FALSE, NoBlock, "no"))
         \/ \E block \in Submitted :
              LET saw == versions[p][Latest(p)]
                  next == Stored(block, saw)
              IN /\ block.given \in Secrets \/ next # saw
                 /\ Begin(c, Edit(p, n, TRUE, next, block.given))
    /\ UNCHANGED <<name, deleted, versions, origin, runs>>

(* Mutant of NextVersion: the number is taken when the row is written. *)
NextVersionAtCommit(r) == Latest(r.pipeline) + 1

NextVersion(r) == r.saw + 1

(* What the commit is refused by: the row is gone, the name or the version's *)
(* number is taken.                                                          *)
Conflict(r) ==
    \/ ~Exists(r.pipeline)
    \/ r.rename /\ ~Free(r.name, r.pipeline)
    \/ r.news /\ NextVersion(r) <= Latest(r.pipeline)

Update(c) ==
    LET r == request[c]
        p == r.pipeline
    IN /\ r.kind = "update"
       /\ r.news => Latest(p) < MaxVersions
       /\ name' = IF r.rename /\ ~Conflict(r) THEN [name EXCEPT ![p] = r.name] ELSE name
       /\ IF r.news /\ ~Conflict(r)
          THEN /\ versions' = [versions EXCEPT ![p] = Append(@, r.next)]
               /\ origin' = [origin EXCEPT ![p] = Append(@, r.given)]
          ELSE UNCHANGED <<versions, origin>>
       /\ Answer(c)
       /\ UNCHANGED <<deleted, runs>>

-----------------------------------------------------------------------------
(* DELETE /pipelines/{id} *)

BeginDelete(c) ==
    /\ \E p \in Held : Begin(c, [kind |-> IF HasRuns(p) THEN "soft" ELSE "hard", pipeline |-> p])
    /\ UNCHANGED <<name, deleted, versions, origin, runs>>

(* Mutant of HardDelete: the foreign key of a run inserted since does not refuse it. *)
HardDeleteAnyway(c) ==
    LET p == request[c].pipeline IN
    /\ request[c].kind = "hard"
    /\ Exists(p) /\ Answer(c) /\ name' = [name EXCEPT ![p] = Gone]
    /\ versions' = [versions EXCEPT ![p] = <<>>]
    /\ origin' = [origin EXCEPT ![p] = <<>>]
    /\ deleted' = deleted \ {p}
    /\ UNCHANGED runs

(* Refused by a run inserted since the check: the row is read again, and    *)
(* either gone for the owner (404) or marked instead.                      *)
HardDelete(c) ==
    LET p == request[c].pipeline IN
    /\ request[c].kind = "hard"
    /\ IF HasRuns(p)
       THEN /\ IF Owned(p)
               THEN request' = [request EXCEPT ![c].kind = "soft"] /\ UNCHANGED made
               ELSE Answer(c)
            /\ UNCHANGED <<name, versions, origin, deleted>>
       ELSE /\ Answer(c)
            /\ name' = [name EXCEPT ![p] = Gone]
            /\ versions' = [versions EXCEPT ![p] = <<>>]
            /\ origin' = [origin EXCEPT ![p] = <<>>]
            /\ deleted' = deleted \ {p}
    /\ UNCHANGED runs

SoftDelete(c) ==
    /\ request[c].kind = "soft"
    /\ deleted' = deleted \cup {request[c].pipeline}
    /\ Answer(c)
    /\ UNCHANGED <<name, versions, origin, runs>>

-----------------------------------------------------------------------------
(* POST /pipelines/{id}/runs *)

(* The version asked for, or the latest, is read and parsed before any row. *)
BeginRun(c) ==
    /\ \E p \in Held : \E v \in 1..Latest(p) :
         Begin(c, [kind |-> "run", pipeline |-> p, version |-> v, with |-> versions[p][v]])
    /\ UNCHANGED <<name, deleted, versions, origin, runs>>

(* A pipeline hard-deleted since refuses the row by its foreign keys. *)
CommitRun(c) ==
    LET r == request[c] IN
    /\ r.kind = "run"
    /\ runs' = IF r.version <= Latest(r.pipeline)
               THEN runs \cup {[pipeline |-> r.pipeline, version |-> r.version, with |-> r.with]}
               ELSE runs
    /\ Answer(c)
    /\ UNCHANGED <<name, deleted, versions, origin>>

Next == \E c \in Clients :
    \/ BeginCreate(c) \/ Create(c)
    \/ BeginUpdate(c) \/ Update(c)
    \/ BeginDelete(c) \/ HardDelete(c) \/ SoftDelete(c)
    \/ BeginRun(c) \/ CommitRun(c)

Spec == Init /\ [][Next]_vars

-----------------------------------------------------------------------------
(* Properties *)

TypeOK ==
    /\ name \in [Pipelines -> Names \cup {None, Gone}] /\ deleted \subseteq Pipelines
    /\ \A p \in Pipelines : \A v \in 1..Latest(p) : versions[p][v] \in Definitions
    /\ made \in 0..MaxRequests

(* A run keeps the version it was pinned to, as it was given to its        *)
(* workflow, whatever is edited or deleted beside the request; a pipeline  *)
(* row has a version, and a version a row.                                 *)
RunsKeepTheirVersion ==
    /\ TypeOK
    /\ \A p \in Pipelines : Exists(p) <=> versions[p] # <<>>
    /\ \A r \in runs : r.version <= Latest(r.pipeline) /\ versions[r.pipeline][r.version] = r.with

(* A secret left out of an edit is the one of the version before it, even  *)
(* when another edit was saved in between: an edit made from an older      *)
(* version is refused rather than saved over it.                           *)
SecretsCarry ==
    \A p \in Pipelines : \A v \in 2..Latest(p) :
        LET old == versions[p][v - 1]
            new == versions[p][v]
        IN origin[p][v] = "no" => new.secret = IF new.id = old.id THEN old.secret ELSE None

Symmetric == Permutations(Clients) \cup Permutations(Pipelines) \cup Permutations(Names)
=============================================================================
