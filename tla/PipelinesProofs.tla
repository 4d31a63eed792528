---------------------------- MODULE PipelinesProofs ----------------------------
(***************************************************************************)
(* Theorems about pipeline definitions.                                    *)
(*                                                                         *)
(* SavedPipelines, for any pipelines, names, secrets, clients and bounds:  *)
(* a run keeps the version it was pinned to, and a secret left out of an   *)
(* edit is carried over.                                                   *)
(*                                                                         *)
(* PipelineDefinition, for any limits on a draft: what validate accepts    *)
(* runs as it was saved, each block on the newest object and within a      *)
(* budget nothing before it can cut.                                       *)
(***************************************************************************)
EXTENDS SavedPipelines, PipelineDefinition, TLAPS, SequenceTheorems, WellFoundedInduction,
        NaturalsInduction

-----------------------------------------------------------------------------
(* SavedPipelines: the inductive invariant *)

Given == {"no", "clear"} \cup Secrets

Requests ==
    {Idle}
    \cup [kind : {"create"}, name : Names, block : Submitted]
    \cup [kind : {"update"}, pipeline : Pipelines, rename : BOOLEAN, name : Names, saw : Nat,
          news : BOOLEAN, next : Definitions \cup {NoBlock}, given : Given]
    \cup [kind : {"hard", "soft"}, pipeline : Pipelines]
    \cup [kind : {"run"}, pipeline : Pipelines, version : Nat \ {0}, with : Definitions]

Types ==
    /\ name \in [Pipelines -> Names \cup {None, Gone}]
    /\ deleted \subseteq Pipelines
    /\ versions \in [Pipelines -> Seq(Definitions)]
    /\ origin \in [Pipelines -> Seq(Given)]
    /\ runs \subseteq [pipeline : Pipelines, version : Nat \ {0}, with : Definitions]
    /\ request \in [Clients -> Requests]
    /\ made \in 0..MaxRequests

(* What a definition may hold after another, given what its writer sent.   *)
Follows(new, old, given) ==
    given = "no" => new.secret = IF new.id = old.id THEN old.secret ELSE None

(* The rows of one pipeline.                                               *)
RowsAgree(p) ==
    /\ Exists(p) <=> versions[p] # <<>>
    /\ Len(origin[p]) = Latest(p)
    /\ \A v \in 2..Latest(p) : Follows(versions[p][v], versions[p][v - 1], origin[p][v])

(* A request in flight is on a pipeline that was made, and what it read is *)
(* still what the rows say, unless they are gone.                          *)
Pending(q) ==
    /\ q.kind \in {"update", "run"} => name[q.pipeline] # None
    /\ q.kind = "run" /\ Exists(q.pipeline) =>
          q.version <= Latest(q.pipeline) /\ versions[q.pipeline][q.version] = q.with
    /\ q.kind = "update" /\ Exists(q.pipeline) =>
          /\ q.saw \in 1..Latest(q.pipeline)
          /\ q.news => /\ q.next \in Definitions
                       /\ Follows(q.next, versions[q.pipeline][q.saw], q.given)

Pinned(r) == r.version <= Latest(r.pipeline) /\ versions[r.pipeline][r.version] = r.with

SavedInv ==
    /\ Types
    /\ \A p \in Pipelines : RowsAgree(p)
    /\ \A c \in Clients : Pending(request[c])
    /\ \A r \in runs : Pinned(r)

-----------------------------------------------------------------------------
(* What the helpers return *)

LEMMA RequestKinds ==
  ASSUME NEW q \in Requests
  PROVE  /\ q.kind = "create" => q.name \in Names /\ q.block \in Submitted
         /\ q.kind = "update" =>
               /\ q.pipeline \in Pipelines /\ q.rename \in BOOLEAN /\ q.name \in Names
               /\ q.saw \in Nat /\ q.news \in BOOLEAN /\ q.given \in Given
         /\ q.kind \in {"hard", "soft"} => q = [kind |-> q.kind, pipeline |-> q.pipeline]
                                           /\ q.pipeline \in Pipelines
         /\ q.kind = "run" =>
               q.pipeline \in Pipelines /\ q.version \in Nat \ {0} /\ q.with \in Definitions
<1> USE DEF Requests, Idle, None
<1>1. CASE q = Idle
  BY <1>1
<1>2. CASE q \in [kind : {"create"}, name : Names, block : Submitted]
  BY <1>2
<1>3. CASE q \in [kind : {"update"}, pipeline : Pipelines, rename : BOOLEAN, name : Names,
                  saw : Nat, news : BOOLEAN, next : Definitions \cup {NoBlock}, given : Given]
  BY <1>3
<1>4. CASE q \in [kind : {"hard", "soft"}, pipeline : Pipelines]
  BY <1>4
<1>5. CASE q \in [kind : {"run"}, pipeline : Pipelines, version : Nat \ {0}, with : Definitions]
  BY <1>5
<1> QED BY <1>1, <1>2, <1>3, <1>4, <1>5

(* A definition is stored with the secret that was sent, or the one before.*)
LEMMA StoredProperties ==
  ASSUME NEW block \in Submitted, NEW old \in Definitions \cup {NoBlock}
  PROVE  /\ Stored(block, old) \in Definitions
         /\ Follows(Stored(block, old), old, block.given)
         /\ block.given \in Given
<1>1. block.id \in BlockIds /\ block.body \in Bodies /\ block.given \in Given
  BY DEF Submitted, Given
<1>2. old.secret \in Secrets \cup {None}
  BY DEF Definitions, NoBlock
<1> DEFINE kept == CASE block.given \in Secrets -> block.given
                     [] block.given = "clear" -> None
                     [] old.id = block.id -> old.secret
                     [] OTHER -> None
<1>3. kept \in Secrets \cup {None}
  BY <1>2
<1>4. block.given = "no" => kept = IF block.id = old.id THEN old.secret ELSE None
  BY SecretsAssumption
<1>5. Stored(block, old) = [id |-> block.id, body |-> block.body, secret |-> kept]
  BY DEF Stored
<1> HIDE DEF kept
<1>6. Stored(block, old).id = block.id /\ Stored(block, old).secret = kept
  BY <1>5
<1>7. Stored(block, old) \in Definitions
  BY <1>1, <1>3, <1>5 DEF Definitions
<1> QED BY <1>1, <1>4, <1>6, <1>7 DEF Follows

LEMMA BeginEffect ==
  ASSUME Types, NEW c \in Clients, NEW q \in Requests, Begin(c, q)
  PROVE  /\ request' \in [Clients -> Requests] /\ made' \in 0..MaxRequests
         /\ request'[c] = q
         /\ \A d \in Clients : d # c => request'[d] = request[d]
<1>1. made' \in 0..MaxRequests
  BY BoundsAssumption DEF Begin, Types
<1> QED BY <1>1 DEF Begin, Types

LEMMA AnswerEffect ==
  ASSUME Types, NEW c \in Clients, Answer(c)
  PROVE  /\ request' \in [Clients -> Requests] /\ made' \in 0..MaxRequests
         /\ request'[c] = Idle
         /\ \A d \in Clients : d # c => request'[d] = request[d]
<1>1. Idle \in Requests
  BY DEF Requests
<1> QED BY <1>1 DEF Answer, Types

-----------------------------------------------------------------------------
(* What a step does to one pipeline's rows *)

Stays(p) ==
    /\ versions'[p] = versions[p] /\ origin'[p] = origin[p]
    /\ name'[p] \in Names <=> name[p] \in Names
    /\ name[p] # None => name'[p] # None

Appears(p, d, g) ==
    /\ name[p] = None /\ name'[p] \in Names
    /\ versions'[p] = <<d>> /\ origin'[p] = <<g>>

Grows(p, d, g) ==
    /\ name[p] \in Names /\ name'[p] \in Names
    /\ versions'[p] = Append(versions[p], d) /\ origin'[p] = Append(origin[p], g)
    /\ Follows(d, versions[p][Latest(p)], g)

Vanishes(p) ==
    /\ name'[p] = Gone /\ ~HasRuns(p)
    /\ versions'[p] = <<>> /\ origin'[p] = <<>>

Evolves(p) ==
    \/ Stays(p) \/ Vanishes(p)
    \/ \E d \in Definitions, g \in Given : Appears(p, d, g) \/ Grows(p, d, g)

LEMMA RowTypes ==
  ASSUME Types, NEW p \in Pipelines, RowsAgree(p)
  PROVE  /\ versions[p] \in Seq(Definitions) /\ origin[p] \in Seq(Given) /\ Latest(p) \in Nat
         /\ Exists(p) <=> Latest(p) > 0
         /\ Len(origin[p]) = Latest(p)
         /\ \A v \in 1..Latest(p) : versions[p][v] \in Definitions
         /\ name[p] = None => ~Exists(p)
<1>1. versions[p] \in Seq(Definitions) /\ origin[p] \in Seq(Given)
  BY DEF Types
<1>2. Latest(p) \in Nat /\ (versions[p] # <<>> <=> Latest(p) > 0)
  BY <1>1, EmptySeq, LenProperties DEF Latest
<1>3. \A v \in 1..Latest(p) : versions[p][v] \in Definitions
  BY <1>1, ElementOfSeq DEF Latest
<1>4. name[p] = None => ~Exists(p)
  BY NamesAssumption DEF Exists
<1> QED BY <1>1, <1>2, <1>3, <1>4 DEF RowsAgree

(* Rows that are there keep their versions, or vanish with them.           *)
LEMMA VersionsStay ==
  ASSUME Types, NEW p \in Pipelines, RowsAgree(p), Evolves(p), name[p] # None
  PROVE  /\ name'[p] # None
         /\ \/ ~(name'[p] \in Names) /\ Len(versions'[p]) = 0 /\ ~(name[p] \in Names /\ HasRuns(p))
            \/ /\ name'[p] \in Names <=> name[p] \in Names
               /\ Len(versions'[p]) \in Nat /\ Len(versions'[p]) >= Latest(p)
               /\ \A v \in 1..Latest(p) : versions'[p][v] = versions[p][v]
               /\ ~(name[p] \in Names) => Len(versions'[p]) = 0
<1>1. /\ versions[p] \in Seq(Definitions) /\ Latest(p) \in Nat
      /\ ~(name[p] \in Names) => Latest(p) = 0
  BY RowTypes DEF Exists
<1>2. None \notin Names /\ Gone \notin Names /\ Gone # None
  BY NamesAssumption DEF None, Gone
<1>3. CASE Stays(p)
  BY <1>1, <1>3 DEF Stays, Latest
<1>4. CASE Vanishes(p)
  BY <1>2, <1>4, EmptySeq DEF Vanishes
<1>5. ASSUME NEW d \in Definitions, NEW g \in Given, Grows(p, d, g)
      PROVE  /\ name'[p] # None
             /\ name'[p] \in Names /\ name[p] \in Names
             /\ Len(versions'[p]) \in Nat /\ Len(versions'[p]) >= Latest(p)
             /\ \A v \in 1..Latest(p) : versions'[p][v] = versions[p][v]
  BY <1>1, <1>2, <1>5, AppendProperties DEF Grows, Latest
<1> QED BY <1>3, <1>4, <1>5 DEF Evolves, Appears

LEMMA RowsKeep ==
  ASSUME Types, NEW p \in Pipelines, RowsAgree(p), Evolves(p)
  PROVE  RowsAgree(p)'
<1>1. /\ versions[p] \in Seq(Definitions) /\ origin[p] \in Seq(Given) /\ Latest(p) \in Nat
      /\ Exists(p) <=> Latest(p) > 0
      /\ Len(origin[p]) = Latest(p)
  BY RowTypes
<1>2. CASE Stays(p)
  BY <1>2 DEF Stays, RowsAgree, Latest, Exists
<1>3. CASE Vanishes(p)
  <2>1. Gone \notin Names
    BY NamesAssumption
  <2> QED BY <1>3, <2>1, EmptySeq DEF Vanishes, RowsAgree, Latest, Exists
<1>4. ASSUME NEW d \in Definitions, NEW g \in Given, Appears(p, d, g)
      PROVE  RowsAgree(p)'
  <2>1. versions'[p] # <<>> /\ Len(versions'[p]) = 1 /\ Len(origin'[p]) = 1
    BY <1>4 DEF Appears
  <2> QED BY <1>4, <2>1 DEF Appears, RowsAgree, Latest, Exists
<1>5. ASSUME NEW d \in Definitions, NEW g \in Given, Grows(p, d, g)
      PROVE  RowsAgree(p)'
  <2> DEFINE n == Latest(p)
  <2>1. /\ versions'[p] # <<>> /\ Len(versions'[p]) = n + 1
        /\ \A v \in 1..n : versions'[p][v] = versions[p][v]
        /\ versions'[p][n + 1] = d
    BY <1>1, <1>5, AppendProperties DEF Grows, Latest
  <2>2. /\ Len(origin'[p]) = n + 1
        /\ \A v \in 1..n : origin'[p][v] = origin[p][v]
        /\ origin'[p][n + 1] = g
    BY <1>1, <1>5, AppendProperties DEF Grows
  <2>3. n > 0 /\ Follows(d, versions[p][n], g)
    BY <1>1, <1>5 DEF Grows, Exists
  <2>4. ASSUME NEW v \in 2..(n + 1)
        PROVE  Follows(versions'[p][v], versions'[p][v - 1], origin'[p][v])
    <3>1. CASE v = n + 1
      <4>1. v - 1 = n /\ n \in 1..n
        BY <1>1, <2>3, <3>1
      <4> QED BY <2>1, <2>2, <2>3, <3>1, <4>1
    <3>2. CASE v # n + 1
      <4>1. v \in 2..n /\ v \in 1..n /\ v - 1 \in 1..n
        BY <1>1, <3>2
      <4> QED BY <2>1, <2>2, <4>1 DEF RowsAgree
    <3> QED BY <3>1, <3>2
  <2> HIDE DEF n
  <2>5. Latest(p)' = n + 1
    BY <2>1 DEF Latest
  <2>6. Exists(p)'
    BY <1>5 DEF Grows, Exists
  <2> QED BY <2>1, <2>2, <2>4, <2>5, <2>6 DEF RowsAgree
<1> QED BY <1>2, <1>3, <1>4, <1>5 DEF Evolves

LEMMA PendingKeeps ==
  ASSUME Types, \A p \in Pipelines : RowsAgree(p) /\ Evolves(p),
         NEW q \in Requests, Pending(q)
  PROVE  Pending(q)'
<1> SUFFICES ASSUME q.kind \in {"update", "run"}
             PROVE  Pending(q)'
  BY DEF Pending
<1>1. PICK p \in Pipelines : p = q.pipeline
  BY RequestKinds
<1>2. name[p] # None /\ RowsAgree(p) /\ Evolves(p)
  BY <1>1 DEF Pending
<1>3. name'[p] # None
  BY <1>2, VersionsStay
<1>4. CASE ~(name'[p] \in Names)
  BY <1>1, <1>3, <1>4 DEF Pending, Exists
<1>5. CASE name'[p] \in Names
  <2>1. /\ Exists(p)
        /\ Len(versions'[p]) \in Nat /\ Len(versions'[p]) >= Latest(p)
        /\ \A v \in 1..Latest(p) : versions'[p][v] = versions[p][v]
    BY <1>2, <1>5, VersionsStay DEF Exists
  <2>2. Latest(p) \in Nat
    BY <1>2, RowTypes
  <2>3. CASE q.kind = "run"
    <3>1. /\ q.version \in Nat \ {0} /\ q.version <= Latest(p)
          /\ versions[p][q.version] = q.with
      BY <1>1, <2>1, <2>3, RequestKinds DEF Pending
    <3>2. q.version <= Len(versions'[p]) /\ versions'[p][q.version] = q.with
      BY <2>1, <2>2, <3>1
    <3> QED BY <1>1, <1>3, <2>3, <3>2 DEF Pending, Latest
  <2>4. CASE q.kind = "update"
    <3>1. /\ q.saw \in 1..Latest(p)
          /\ q.news => /\ q.next \in Definitions
                       /\ Follows(q.next, versions[p][q.saw], q.given)
      BY <1>1, <2>1, <2>4 DEF Pending
    <3>2. q.saw \in 1..Len(versions'[p]) /\ versions'[p][q.saw] = versions[p][q.saw]
      BY <2>1, <2>2, <3>1
    <3> QED BY <1>1, <1>3, <2>4, <3>1, <3>2 DEF Pending, Latest, Follows
  <2> QED BY <2>3, <2>4
<1> QED BY <1>4, <1>5

LEMMA PinnedKeeps ==
  ASSUME Types, \A p \in Pipelines : RowsAgree(p) /\ Evolves(p), NEW r \in runs, Pinned(r)
  PROVE  Pinned(r)'
<1>1. PICK p \in Pipelines : p = r.pipeline
  BY DEF Types
<1>2. r.version \in Nat \ {0}
  BY DEF Types
<1>3. r.version <= Latest(p) /\ versions[p][r.version] = r.with
  BY <1>1 DEF Pinned
<1>4. Latest(p) \in Nat /\ Exists(p) /\ name[p] # None
  BY <1>2, <1>3, RowTypes
<1>5. HasRuns(p)
  BY <1>1 DEF HasRuns
<1>6. /\ Len(versions'[p]) >= Latest(p) /\ Len(versions'[p]) \in Nat
      /\ \A v \in 1..Latest(p) : versions'[p][v] = versions[p][v]
  BY <1>4, <1>5, VersionsStay DEF Exists
<1>7. r.version <= Len(versions'[p]) /\ versions'[p][r.version] = r.with
  BY <1>2, <1>3, <1>4, <1>6
<1> QED BY <1>1, <1>7 DEF Pinned, Latest

-----------------------------------------------------------------------------
(* The steps *)

Others(c) == \A d \in Clients : d # c => request'[d] = request[d]

(* A step that reads leaves a request behind whose reading is right now.   *)
LEMMA ReadKeeps ==
  ASSUME SavedInv, NEW c \in Clients, NEW q \in Requests, Begin(c, q), Pending(q),
         UNCHANGED <<name, deleted, versions, origin, runs>>
  PROVE  SavedInv'
<1>1. /\ request' \in [Clients -> Requests] /\ made' \in 0..MaxRequests
      /\ request'[c] = q
      /\ \A d \in Clients : d # c => request'[d] = request[d]
  BY BeginEffect DEF SavedInv
<1>2. Types'
  BY <1>1 DEF SavedInv, Types
<1>3. ASSUME NEW d \in Clients PROVE Pending(request[d])'
  <2>1. request'[d] = q \/ request'[d] = request[d]
    BY <1>1
  <2> QED BY <2>1 DEF SavedInv, Pending, Exists, Latest
<1>4. (\A p \in Pipelines : RowsAgree(p))' /\ (\A r \in runs : Pinned(r))'
  BY DEF SavedInv, RowsAgree, Exists, Latest, Pinned
<1> QED BY <1>2, <1>3, <1>4 DEF SavedInv

(* A step that writes answers its request, or asks again without a reading.*)
LEMMA WriteKeeps ==
  ASSUME SavedInv, Types', \A p \in Pipelines : Evolves(p), NEW c \in Clients, Others(c),
         request'[c].kind \notin {"update", "run"},
         \A r \in runs' : r \in runs \/ Pinned(r)'
  PROVE  SavedInv'
<1>1. (\A p \in Pipelines : RowsAgree(p))'
  BY RowsKeep DEF SavedInv
<1>2. ASSUME NEW d \in Clients PROVE Pending(request[d])'
  <2>1. CASE d = c
    BY <2>1 DEF Pending
  <2>2. CASE d # c
    <3>1. PICK q \in Requests : q = request[d]
      BY DEF SavedInv, Types
    <3>2. Pending(q)'
      BY <3>1, PendingKeeps DEF SavedInv
    <3>3. request'[d] = q
      BY <2>2, <3>1 DEF Others
    <3> QED BY <3>2, <3>3 DEF Pending, Exists, Latest
  <2> QED BY <2>1, <2>2
<1>3. ASSUME NEW r \in runs' PROVE Pinned(r)'
  BY PinnedKeeps DEF SavedInv
<1> QED BY <1>1, <1>2, <1>3 DEF SavedInv

LEMMA BeginCreateKeeps ==
  ASSUME SavedInv, NEW c \in Clients, BeginCreate(c)
  PROVE  SavedInv'
<1>1. PICK n \in Names, block \in NewBlocks :
         Begin(c, [kind |-> "create", name |-> n, block |-> block])
  BY DEF BeginCreate
<1> DEFINE q == [kind |-> "create", name |-> n, block |-> block]
<1>2. q \in Requests
  BY DEF Requests, NewBlocks
<1>3. Pending(q)
  BY DEF Pending
<1>4. UNCHANGED <<name, deleted, versions, origin, runs>>
  BY DEF BeginCreate
<1> HIDE DEF q
<1> QED BY <1>1, <1>2, <1>3, <1>4, ReadKeeps DEF q

LEMMA BeginUpdateKeeps ==
  ASSUME SavedInv, NEW c \in Clients, BeginUpdate(c)
  PROVE  SavedInv'
<1>1. UNCHANGED <<name, deleted, versions, origin, runs>>
  BY DEF BeginUpdate
<1>2. PICK p \in Held, n \in Names :
         \/ Begin(c, Edit(p, n, FALSE, NoBlock, "no"))
         \/ \E block \in Submitted :
              Begin(c, Edit(p, n, TRUE, Stored(block, versions[p][Latest(p)]), block.given))
  BY DEF BeginUpdate
<1>3. p \in Pipelines /\ Exists(p) /\ Latest(p) \in Nat /\ Latest(p) \in 1..Latest(p)
  BY RowTypes DEF SavedInv, Held, Owned
<1>4. versions[p][Latest(p)] \in Definitions /\ name[p] # None
  BY <1>3, RowTypes DEF SavedInv
<1>5. ASSUME NEW news \in BOOLEAN, NEW next \in Definitions \cup {NoBlock}, NEW given \in Given,
             news => next \in Definitions /\ Follows(next, versions[p][Latest(p)], given),
             Begin(c, Edit(p, n, news, next, given))
      PROVE  SavedInv'
  <2> DEFINE q == Edit(p, n, news, next, given)
  <2>1. q \in Requests
    BY <1>3 DEF Edit, Requests
  <2>2. /\ q.kind = "update" /\ q.pipeline = p /\ q.saw = Latest(p) /\ q.news = news
        /\ q.next = next /\ q.given = given
    BY DEF Edit
  <2> HIDE DEF q
  <2>3. Pending(q)
    BY <1>3, <1>4, <1>5, <2>2 DEF Pending
  <2> QED BY <1>1, <1>5, <2>1, <2>3, ReadKeeps DEF q
<1>6. CASE Begin(c, Edit(p, n, FALSE, NoBlock, "no"))
  BY <1>5, <1>6 DEF Given
<1>7. ASSUME NEW block \in Submitted,
             Begin(c, Edit(p, n, TRUE, Stored(block, versions[p][Latest(p)]), block.given))
      PROVE  SavedInv'
  BY <1>4, <1>5, <1>7, StoredProperties
<1> QED BY <1>2, <1>6, <1>7

LEMMA BeginDeleteKeeps ==
  ASSUME SavedInv, NEW c \in Clients, BeginDelete(c)
  PROVE  SavedInv'
<1>1. PICK p \in Held :
         Begin(c, [kind |-> IF HasRuns(p) THEN "soft" ELSE "hard", pipeline |-> p])
  BY DEF BeginDelete
<1>2. PICK k \in {"hard", "soft"} : k = IF HasRuns(p) THEN "soft" ELSE "hard"
  OBVIOUS
<1> DEFINE q == [kind |-> k, pipeline |-> p]
<1>3. q \in Requests
  BY DEF Requests, Held
<1>4. Pending(q)
  BY DEF Pending
<1>5. Begin(c, q)
  BY <1>1, <1>2
<1>6. UNCHANGED <<name, deleted, versions, origin, runs>>
  BY DEF BeginDelete
<1> HIDE DEF q
<1> QED BY <1>3, <1>4, <1>5, <1>6, ReadKeeps

LEMMA BeginRunKeeps ==
  ASSUME SavedInv, NEW c \in Clients, BeginRun(c)
  PROVE  SavedInv'
<1>0. PICK p \in Held : \E v \in 1..Latest(p) :
         Begin(c, [kind |-> "run", pipeline |-> p, version |-> v, with |-> versions[p][v]])
  BY DEF BeginRun
<1>1. PICK v \in 1..Latest(p) :
         Begin(c, [kind |-> "run", pipeline |-> p, version |-> v, with |-> versions[p][v]])
  BY <1>0
<1> DEFINE q == [kind |-> "run", pipeline |-> p, version |-> v, with |-> versions[p][v]]
<1>2. p \in Pipelines /\ Exists(p) /\ Latest(p) \in Nat
  BY RowTypes DEF SavedInv, Held, Owned
<1>3. versions[p][v] \in Definitions /\ name[p] # None
  BY <1>2, RowTypes DEF SavedInv
<1>4. v \in Nat \ {0} /\ v <= Latest(p)
  BY <1>2
<1>5. q \in Requests
  BY <1>2, <1>3, <1>4 DEF Requests
<1>6. Pending(q)
  BY <1>2, <1>3, <1>4 DEF Pending
<1>7. UNCHANGED <<name, deleted, versions, origin, runs>>
  BY DEF BeginRun
<1> HIDE DEF q
<1> QED BY <1>1, <1>5, <1>6, <1>7, ReadKeeps DEF q

(* The rows of the pipelines a step does not touch.                        *)
LEMMA UntouchedStays ==
  ASSUME NEW p \in Pipelines,
         name'[p] = name[p], versions'[p] = versions[p], origin'[p] = origin[p]
  PROVE  Evolves(p)
BY DEF Evolves, Stays

LEMMA AnswersKeep ==
  ASSUME SavedInv, NEW c \in Clients, Answer(c)
  PROVE  /\ request' \in [Clients -> Requests] /\ made' \in 0..MaxRequests
         /\ Others(c) /\ request'[c].kind \notin {"update", "run"}
BY AnswerEffect DEF SavedInv, Others, Idle, None

LEMMA CreateKeeps ==
  ASSUME SavedInv, NEW c \in Clients, Create(c)
  PROVE  SavedInv'
<1> USE DEF SavedInv, Types
<1>1. /\ request' \in [Clients -> Requests] /\ made' \in 0..MaxRequests
      /\ Others(c) /\ request'[c].kind \notin {"update", "run"}
  BY AnswersKeep DEF Create
<1>2. deleted' = deleted /\ runs' = runs
  BY DEF Create
<1>3. CASE UNCHANGED <<name, versions, origin>>
  <2>1. Types'
    BY <1>1, <1>2, <1>3
  <2>2. \A p \in Pipelines : Evolves(p)
    BY <1>3, UntouchedStays
  <2> HIDE DEF SavedInv, Types
  <2> QED BY <1>1, <1>2, <2>1, <2>2, WriteKeeps
<1>4. PICK q \in Requests : q = request[c]
  OBVIOUS
<1>5. q.name \in Names /\ q.block \in Submitted
  BY <1>4, RequestKinds DEF Create
<1>6. ASSUME NEW p \in Pipelines, name[p] = None,
             name' = [name EXCEPT ![p] = q.name],
             versions' = [versions EXCEPT ![p] = <<Stored(q.block, NoBlock)>>],
             origin' = [origin EXCEPT ![p] = <<q.block.given>>]
      PROVE  SavedInv'
  <2>1. PICK d \in Definitions, g \in Given : d = Stored(q.block, NoBlock) /\ g = q.block.given
    BY <1>5, StoredProperties
  <2>2. /\ name'[p] = q.name /\ versions'[p] = <<d>> /\ origin'[p] = <<g>>
        /\ \A o \in Pipelines : o # p =>
              name'[o] = name[o] /\ versions'[o] = versions[o] /\ origin'[o] = origin[o]
    BY <1>6, <2>1
  <2>3. <<d>> \in Seq(Definitions) /\ <<g>> \in Seq(Given)
    OBVIOUS
  <2>4. Types'
    BY <1>1, <1>2, <1>5, <1>6, <2>1, <2>3
  <2>5. ASSUME NEW o \in Pipelines PROVE Evolves(o)
    <3>1. CASE o = p
      BY <1>5, <1>6, <2>2, <3>1 DEF Evolves, Appears
    <3> QED BY <2>2, <3>1, UntouchedStays
  <2> HIDE DEF SavedInv, Types
  <2> QED BY <1>1, <1>2, <2>4, <2>5, WriteKeeps
<1> QED BY <1>3, <1>4, <1>6 DEF Create

LEMMA UpdateKeeps ==
  ASSUME SavedInv, NEW c \in Clients, Update(c)
  PROVE  SavedInv'
<1> USE DEF SavedInv, Types
<1>1. /\ request' \in [Clients -> Requests] /\ made' \in 0..MaxRequests
      /\ Others(c) /\ request'[c].kind \notin {"update", "run"}
  BY AnswersKeep DEF Update
<1>2. deleted' = deleted /\ runs' = runs
  BY DEF Update
<1>3. PICK q \in Requests : q = request[c]
  OBVIOUS
<1>4. q.kind = "update" /\ Pending(q)
  BY <1>3 DEF Update
<1>5. PICK p \in Pipelines : p = q.pipeline
  BY <1>4, RequestKinds
<1>6. q.name \in Names /\ q.given \in Given /\ q.saw \in Nat
  BY <1>4, RequestKinds
<1>7. /\ name' = IF q.rename /\ ~Conflict(q) THEN [name EXCEPT ![p] = q.name] ELSE name
      /\ IF q.news /\ ~Conflict(q)
         THEN /\ versions' = [versions EXCEPT ![p] = Append(@, q.next)]
              /\ origin' = [origin EXCEPT ![p] = Append(@, q.given)]
         ELSE UNCHANGED <<versions, origin>>
  BY <1>3, <1>5 DEF Update
<1>8. ~Conflict(q) => Exists(p)
  BY <1>5 DEF Conflict
<1>9. /\ \A o \in Pipelines : o # p => name'[o] = name[o]
      /\ name' \in [Pipelines -> Names \cup {None, Gone}]
      /\ name'[p] \in Names <=> name[p] \in Names
      /\ name[p] # None => name'[p] # None
  <2>1. CASE q.rename /\ ~Conflict(q)
    <3>1. name' = [name EXCEPT ![p] = q.name] /\ None \notin Names
      BY <1>7, <2>1, NamesAssumption
    <3> QED BY <1>6, <1>8, <2>1, <3>1 DEF Exists
  <2>2. CASE ~(q.rename /\ ~Conflict(q))
    BY <1>7, <2>2
  <2> QED BY <2>1, <2>2
<1>10. CASE ~(q.news /\ ~Conflict(q))
  <2>1. UNCHANGED <<versions, origin>>
    BY <1>7, <1>10
  <2>2. Types'
    BY <1>1, <1>2, <1>9, <2>1
  <2>3. \A o \in Pipelines : Evolves(o)
    BY <1>9, <2>1 DEF Evolves, Stays
  <2> HIDE DEF SavedInv, Types
  <2> QED BY <1>1, <1>2, <2>2, <2>3, WriteKeeps
<1>11. CASE q.news /\ ~Conflict(q)
  <2>1. /\ versions' = [versions EXCEPT ![p] = Append(@, q.next)]
        /\ origin' = [origin EXCEPT ![p] = Append(@, q.given)]
    BY <1>7, <1>11
  <2>2. /\ q.saw \in 1..Latest(p) /\ q.next \in Definitions
        /\ Follows(q.next, versions[p][q.saw], q.given)
    BY <1>4, <1>5, <1>8, <1>11 DEF Pending
  <2>3. Latest(p) \in Nat /\ versions[p] \in Seq(Definitions) /\ origin[p] \in Seq(Given)
    BY RowTypes
  <2>4. q.saw = Latest(p)
    BY <1>5, <1>11, <2>2, <2>3 DEF Conflict, NextVersion
  <2>5. /\ versions'[p] = Append(versions[p], q.next) /\ origin'[p] = Append(origin[p], q.given)
        /\ \A o \in Pipelines : o # p => versions'[o] = versions[o] /\ origin'[o] = origin[o]
    BY <2>1
  <2>6. Append(versions[p], q.next) \in Seq(Definitions) /\ Append(origin[p], q.given) \in Seq(Given)
    BY <1>6, <2>2, <2>3, AppendProperties
  <2>7. Types'
    BY <1>1, <1>2, <1>9, <2>1, <2>6
  <2>8. Grows(p, q.next, q.given)
    BY <1>8, <1>9, <1>11, <2>2, <2>4, <2>5 DEF Grows, Exists
  <2>9. ASSUME NEW o \in Pipelines PROVE Evolves(o)
    <3>1. CASE o = p
      BY <1>6, <2>2, <2>8, <3>1 DEF Evolves
    <3> QED BY <1>9, <2>5, <3>1, UntouchedStays
  <2> HIDE DEF SavedInv, Types
  <2> QED BY <1>1, <1>2, <2>7, <2>9, WriteKeeps
<1> QED BY <1>10, <1>11

LEMMA HardDeleteKeeps ==
  ASSUME SavedInv, NEW c \in Clients, HardDelete(c)
  PROVE  SavedInv'
<1> USE DEF SavedInv, Types
<1>1. PICK q \in Requests : q = request[c]
  OBVIOUS
<1>2. PICK p \in Pipelines : p = q.pipeline /\ q = [kind |-> "hard", pipeline |-> p]
  BY <1>1, RequestKinds DEF HardDelete
<1>3. runs' = runs
  BY DEF HardDelete
<1>4. CASE HasRuns(p)
  <2>1. UNCHANGED <<name, versions, origin, deleted>>
    BY <1>1, <1>2, <1>4 DEF HardDelete
  <2>2. /\ request' \in [Clients -> Requests] /\ made' \in 0..MaxRequests
        /\ Others(c) /\ request'[c].kind \notin {"update", "run"}
    <3>1. CASE Owned(p)
      <4>1. request' = [request EXCEPT ![c].kind = "soft"] /\ made' = made
        BY <1>1, <1>2, <1>4, <3>1 DEF HardDelete
      <4>2. [q EXCEPT !.kind = "soft"] = [kind |-> "soft", pipeline |-> p]
        BY <1>2
      <4>3. request' = [request EXCEPT ![c] = [kind |-> "soft", pipeline |-> p]]
        BY <1>1, <4>1, <4>2
      <4>4. [kind |-> "soft", pipeline |-> p] \in Requests
        BY DEF Requests
      <4> QED BY <4>1, <4>3, <4>4 DEF Others
    <3>2. CASE ~Owned(p)
      BY <1>1, <1>2, <1>4, <3>2, AnswersKeep DEF HardDelete
    <3> QED BY <3>1, <3>2
  <2>3. Types'
    BY <1>3, <2>1, <2>2
  <2>4. \A o \in Pipelines : Evolves(o)
    BY <2>1, UntouchedStays
  <2> HIDE DEF SavedInv, Types
  <2> QED BY <1>3, <2>2, <2>3, <2>4, WriteKeeps
<1>5. CASE ~HasRuns(p)
  <2>1. /\ Answer(c)
        /\ name' = [name EXCEPT ![p] = Gone]
        /\ versions' = [versions EXCEPT ![p] = <<>>]
        /\ origin' = [origin EXCEPT ![p] = <<>>]
        /\ deleted' = deleted \ {p}
    BY <1>1, <1>2, <1>5 DEF HardDelete
  <2>2. /\ request' \in [Clients -> Requests] /\ made' \in 0..MaxRequests
        /\ Others(c) /\ request'[c].kind \notin {"update", "run"}
    BY <2>1, AnswersKeep
  <2>3. /\ name'[p] = Gone /\ versions'[p] = <<>> /\ origin'[p] = <<>>
        /\ \A o \in Pipelines : o # p =>
              name'[o] = name[o] /\ versions'[o] = versions[o] /\ origin'[o] = origin[o]
    BY <2>1
  <2>4. <<>> \in Seq(Definitions) /\ <<>> \in Seq(Given)
    OBVIOUS
  <2>5. Types'
    BY <1>3, <2>1, <2>2, <2>4
  <2>6. ASSUME NEW o \in Pipelines PROVE Evolves(o)
    <3>1. CASE o = p
      BY <1>5, <2>3, <3>1 DEF Evolves, Vanishes
    <3> QED BY <2>3, <3>1, UntouchedStays
  <2> HIDE DEF SavedInv, Types
  <2> QED BY <1>3, <2>2, <2>5, <2>6, WriteKeeps
<1> QED BY <1>4, <1>5

LEMMA SoftDeleteKeeps ==
  ASSUME SavedInv, NEW c \in Clients, SoftDelete(c)
  PROVE  SavedInv'
<1>1. /\ request' \in [Clients -> Requests] /\ made' \in 0..MaxRequests
      /\ Others(c) /\ request'[c].kind \notin {"update", "run"}
  BY AnswersKeep DEF SoftDelete
<1>2. request[c].pipeline \in Pipelines
  BY RequestKinds DEF SoftDelete, SavedInv, Types
<1>3. UNCHANGED <<name, versions, origin, runs>> /\ deleted' \subseteq Pipelines
  BY <1>2 DEF SoftDelete, SavedInv, Types
<1>4. Types'
  BY <1>1, <1>3 DEF SavedInv, Types
<1>5. \A o \in Pipelines : Evolves(o)
  BY <1>3, UntouchedStays
<1> QED BY <1>1, <1>3, <1>4, <1>5, WriteKeeps

LEMMA CommitRunKeeps ==
  ASSUME SavedInv, NEW c \in Clients, CommitRun(c)
  PROVE  SavedInv'
<1> USE DEF SavedInv, Types
<1>1. /\ request' \in [Clients -> Requests] /\ made' \in 0..MaxRequests
      /\ Others(c) /\ request'[c].kind \notin {"update", "run"}
  BY AnswersKeep DEF CommitRun
<1>2. UNCHANGED <<name, deleted, versions, origin>>
  BY DEF CommitRun
<1>3. PICK q \in Requests : q = request[c]
  OBVIOUS
<1>4. q.kind = "run" /\ Pending(q)
  BY <1>3 DEF CommitRun
<1>5. q.pipeline \in Pipelines /\ q.version \in Nat \ {0} /\ q.with \in Definitions
  BY <1>4, RequestKinds
<1> DEFINE r == [pipeline |-> q.pipeline, version |-> q.version, with |-> q.with]
<1>6. runs' = IF q.version <= Latest(q.pipeline) THEN runs \cup {r} ELSE runs
  BY <1>3 DEF CommitRun
<1>7. r \in [pipeline : Pipelines, version : Nat \ {0}, with : Definitions]
  BY <1>5
<1>8. Types'
  BY <1>1, <1>2, <1>6, <1>7
<1>9. \A o \in Pipelines : Evolves(o)
  BY <1>2, UntouchedStays
<1>10. ASSUME q.version <= Latest(q.pipeline)
       PROVE  versions[q.pipeline][q.version] = q.with
  <2>1. Exists(q.pipeline)
    BY <1>5, <1>10, RowTypes
  <2> QED BY <1>4, <2>1 DEF Pending
<1>11. ASSUME NEW o \in runs' PROVE o \in runs \/ Pinned(o)'
  <2>1. CASE o = r /\ q.version <= Latest(q.pipeline)
    <3>1. o.pipeline = q.pipeline /\ o.version = q.version /\ o.with = q.with
      BY <2>1
    <3> HIDE DEF r
    <3> QED BY <1>2, <1>10, <2>1, <3>1 DEF Pinned, Latest
  <2> QED BY <1>6, <2>1
<1> HIDE DEF SavedInv, Types, r
<1> QED BY <1>1, <1>8, <1>9, <1>11, WriteKeeps

THEOREM SavedInvHolds == Spec => []SavedInv
<1>1. Init => SavedInv
  <2> SUFFICES ASSUME Init PROVE SavedInv
    OBVIOUS
  <2>1. Types
    <3>1. Idle \in Requests /\ 0 \in 0..MaxRequests
      BY BoundsAssumption DEF Requests
    <3> QED BY <3>1 DEF Init, Types
  <2>2. ASSUME NEW p \in Pipelines PROVE RowsAgree(p)
    BY NamesAssumption DEF Init, RowsAgree, Exists, Latest
  <2>3. ASSUME NEW c \in Clients PROVE Pending(request[c])
    BY DEF Init, Pending, Idle, None
  <2> QED BY <2>1, <2>2, <2>3 DEF Init, SavedInv
<1>2. SavedInv /\ [Next]_vars => SavedInv'
  <2> SUFFICES ASSUME SavedInv, [Next]_vars PROVE SavedInv'
    OBVIOUS
  <2>1. CASE UNCHANGED vars
    BY <2>1 DEF vars, SavedInv, Types, RowsAgree, Exists, Latest, Pending, Pinned
  <2>2. ASSUME NEW c \in Clients,
               BeginCreate(c) \/ BeginUpdate(c) \/ BeginDelete(c) \/ BeginRun(c)
        PROVE  SavedInv'
    BY <2>2, BeginCreateKeeps, BeginUpdateKeeps, BeginDeleteKeeps, BeginRunKeeps
  <2>3. ASSUME NEW c \in Clients,
               Create(c) \/ Update(c) \/ HardDelete(c) \/ SoftDelete(c) \/ CommitRun(c)
        PROVE  SavedInv'
    BY <2>3, CreateKeeps, UpdateKeeps, HardDeleteKeeps, SoftDeleteKeeps, CommitRunKeeps
  <2> QED BY <2>1, <2>2, <2>3 DEF Next
<1> QED BY <1>1, <1>2, PTL DEF Spec

(* A run's version outlives every edit and delete that was beside it, and  *)
(* is what its workflow was given.                                         *)
THEOREM RunsStayPinned == Spec => []RunsKeepTheirVersion
<1>1. SavedInv => RunsKeepTheirVersion
  <2> SUFFICES ASSUME SavedInv PROVE RunsKeepTheirVersion
    OBVIOUS
  <2>1. \A p \in Pipelines : \A v \in 1..Latest(p) : versions[p][v] \in Definitions
    BY RowTypes DEF SavedInv
  <2>2. TypeOK
    BY <2>1 DEF SavedInv, Types, TypeOK
  <2> QED BY <2>2 DEF RunsKeepTheirVersion, SavedInv, RowsAgree, Pinned
<1> QED BY <1>1, SavedInvHolds, PTL

(* A secret left out of an edit is that of the version saved before it.    *)
THEOREM SecretsAreCarried == Spec => []SecretsCarry
<1>1. SavedInv => SecretsCarry
  BY DEF SavedInv, RowsAgree, Follows, SecretsCarry
<1> QED BY <1>1, SavedInvHolds, PTL

-----------------------------------------------------------------------------
(* PipelineDefinition: what holds of a definition and its run *)

Drafted ==
    {b \in [id : Ids, type : CATALOG \cup {"unheard of"},
            config : {"html", "json", "render", "text", Unset},
            input : Ids \cup {NoRef}, binds : {Unset, "page"}] : <<b.type, b.config>> \in Steps}

DraftTypes == draft \in Seq(Drafted) /\ DefinitionTypeOK

(* Nothing has run. *)
NotRun ==
    /\ at = 1 /\ why = Unset /\ spent = 0
    /\ granted = [i \in Ids |-> 0]

(* The block j is the last content block of the first i. *)
Newest(j, i) ==
    /\ j \in 1..i /\ Content(draft[j])
    /\ \A k \in (j + 1)..i : ~ Content(draft[k])

(* What the object of a reference type is. *)
ObjectOf(ref) == IF ref = "extraction" THEN "json" ELSE ref

(* A block's reference is to the newest object, which is what validate took *)
(* it to be.                                                               *)
Handed(i) ==
    /\ Newest(refs[draft[i].id], i)
    /\ holds[refs[draft[i].id]] = ObjectOf(RefsAfter(draft)[i])

Fed(i) ==
    IF i = 1 THEN draft[i].type = "scrape" /\ read[i] = NoRef
    ELSE draft[i].type # "scrape" /\ Newest(read[i], i - 1)

Wiring == \A i \in 1..(at - 1) : Handed(i) /\ Fed(i)

(* The blocks behind took no more than the run was given for them. *)
OnTime ==
    /\ pc = "run" => spent <= Needs(draft)[at - 1]
    /\ \A i \in Blocks : granted[i] # 0 => granted[i] >= Budget(draft[i])

DefinitionInv ==
    /\ DraftTypes
    /\ pc \in {"edit", "refused", "saved"} => NotRun
    /\ pc \in {"saved", "run", "completed", "failed"} => Accepted
    /\ pc = "run" => at \in Blocks
    /\ at - 1 <= Len(draft)
    /\ why \in {Unset, "block"}
    /\ Wiring
    /\ OnTime

-----------------------------------------------------------------------------
(* Least, greatest and recursive functions *)

LEMMA SmallerIs ==
  ASSUME NEW a \in Int, NEW b \in Int
  PROVE  Min({a, b}) = IF a <= b THEN a ELSE b
BY DEF Min

LEMMA LeastNat ==
  ASSUME NEW T \in SUBSET Nat, T # {}
  PROVE  \E x \in T : \A y \in T : x <= y
<1> DEFINE R == OpToRel(<, Nat)
<1>1. IsWellFoundedOn(R, Nat)
  BY NatLessThanWellFounded
<1>2. \A x, y \in Nat : y < x => <<y, x>> \in R
  BY DEF OpToRel
<1> HIDE DEF R
<1>3. PICK x \in T : \A y \in T : ~ (<<y, x>> \in R)
  BY <1>1, WFMin
<1>4. \A y \in T : x \in Nat /\ y \in Nat /\ ~ (y < x)
  BY <1>2, <1>3
<1> QED BY <1>4

(* f is made, up to n, of a and of what each step makes of the one before. *)
MadeBy(f, n, V, a, step) ==
    f \in [0..n -> V] /\ f[0] = a /\ \A i \in 1..n : f[i] = step[i][f[i - 1]]

LEMMA RecursionIsFunction ==
  ASSUME NEW n \in Nat, NEW V, NEW a \in V, NEW step \in [1..n -> [V -> V]]
  PROVE  \E f : MadeBy(f, n, V, a, step)
<1> DEFINE P(m) == \E f \in [0..m -> V] : f[0] = a /\ \A i \in 1..m : f[i] = step[i][f[i - 1]]
           T == {m \in 0..n : ~ P(m)}
<1>1. P(0)
  <2> DEFINE f == [i \in 0..0 |-> a]
  <2>1. f \in [0..0 -> V] /\ f[0] = a
    OBVIOUS
  <2>2. \A i \in 1..0 : f[i] = step[i][f[i - 1]]
    OBVIOUS
  <2> HIDE DEF f
  <2> QED BY <2>1, <2>2
<1>2. ASSUME NEW m \in 1..n, P(m - 1) PROVE P(m)
  <2>1. PICK g \in [0..(m - 1) -> V] : g[0] = a /\ \A i \in 1..(m - 1) : g[i] = step[i][g[i - 1]]
    BY <1>2
  <2> DEFINE f == [i \in 0..m |-> IF i = m THEN step[m][g[m - 1]] ELSE g[i]]
  <2>2. g[m - 1] \in V /\ step[m] \in [V -> V]
    OBVIOUS
  <2>3. f \in [0..m -> V]
    <3>1. \A i \in 0..m : i # m => i \in 0..(m - 1)
      OBVIOUS
    <3> QED BY <2>2, <3>1
  <2>4. f[0] = a
    BY <2>1
  <2>5. \A i \in 1..m : f[i] = step[i][f[i - 1]]
    <3> SUFFICES ASSUME NEW i \in 1..m PROVE f[i] = step[i][f[i - 1]]
      OBVIOUS
    <3>1. f[i - 1] = g[i - 1]
      OBVIOUS
    <3>2. CASE i = m
      BY <3>1, <3>2
    <3>3. CASE i # m
      BY <2>1, <3>1, <3>3
    <3> QED BY <3>2, <3>3
  <2> HIDE DEF f
  <2> QED BY <2>3, <2>4, <2>5
<1> HIDE DEF P
<1>3. T = {}
  <2> SUFFICES ASSUME T # {} PROVE FALSE
    OBVIOUS
  <2>1. PICK m \in T : \A k \in T : m <= k
    <3>1. T \in SUBSET Nat
      OBVIOUS
    <3> HIDE DEF T
    <3> QED BY <3>1, LeastNat
  <2>2. m \in 1..n
    BY <1>1
  <2>3. m - 1 \notin T /\ m - 1 \in 0..n
    BY <2>1, <2>2
  <2> QED BY <1>2, <2>2, <2>3
<1>4. P(n)
  BY <1>3
<1> QED BY <1>4 DEF P, MadeBy

-----------------------------------------------------------------------------
(* What a block's timing comes to *)

Timings == [toClose : Nat \ {0}, toStart : Nat \ {0}, slot : Nat, attempts : Nat \ {0},
            initial : Nat, coefficient : Nat, longest : Nat]

LEMMA IntervalsAre ==
  ASSUME NEW t \in Timings
  PROVE  Intervals(t) \in [0..(t.attempts - 1) -> Nat]
<1> DEFINE n == t.attempts - 1
           step == [i \in 1..n |-> [v \in Nat |-> v * t.coefficient]]
<1>1. n \in Nat /\ t.initial \in Nat /\ t.coefficient \in Nat
  BY DEF Timings
<1>2. \A v, w \in Nat : v * w \in Nat
  OBVIOUS
<1>3. step \in [1..n -> [Nat -> Nat]]
  BY <1>1, <1>2
<1>4. \A i \in 1..n, v \in Nat : step[i][v] = v * t.coefficient
  OBVIOUS
<1> HIDE DEF step, n
<1>5. PICK f \in [0..n -> Nat] : f[0] = t.initial /\ \A i \in 1..n : f[i] = step[i][f[i - 1]]
  <2>1. \E f : MadeBy(f, n, Nat, t.initial, step)
    BY <1>1, <1>3, RecursionIsFunction
  <2> QED BY <2>1 DEF MadeBy
<1> DEFINE G(g) == [i \in 0..n |-> IF i = 0 THEN t.initial ELSE g[i - 1] * t.coefficient]
<1>6. f = G(f)
  <2>1. \A i \in 1..n : f[i - 1] \in Nat /\ f[i] = f[i - 1] * t.coefficient
    <3> SUFFICES ASSUME NEW i \in 1..n PROVE f[i - 1] \in Nat /\ f[i] = f[i - 1] * t.coefficient
      OBVIOUS
    <3>1. i - 1 \in 0..n /\ f[i - 1] \in Nat
      BY <1>1
    <3>2. f[i] = step[i][f[i - 1]]
      BY <1>5
    <3> QED BY <1>4, <3>1, <3>2
  <2>2. \A i \in 0..n : f[i] = G(f)[i]
    BY <1>1, <1>5, <2>1
  <2>3. DOMAIN G(f) = 0..n
    OBVIOUS
  <2> QED BY <2>2, <2>3
<1>7. Intervals(t) = G(Intervals(t))
  <2>1. Intervals(t) = CHOOSE g : g = G(g)
    BY DEF Intervals, n
  <2> HIDE DEF G
  <2> QED BY <1>6, <2>1
<1> DEFINE U == {i \in 0..n : Intervals(t)[i] \notin Nat}
<1>8. U = {}
  <2> SUFFICES ASSUME U # {} PROVE FALSE
    OBVIOUS
  <2>1. PICK m \in U : \A k \in U : m <= k
    <3>1. U \in SUBSET Nat
      BY <1>1
    <3> HIDE DEF U
    <3> QED BY <3>1, LeastNat
  <2>2. Intervals(t)[m] = IF m = 0 THEN t.initial ELSE Intervals(t)[m - 1] * t.coefficient
    BY <1>7
  <2>3. m # 0 => m - 1 \in 0..n /\ m - 1 \notin U
    BY <1>1, <2>1
  <2> QED BY <1>1, <1>2, <2>2, <2>3
<1> QED BY <1>7, <1>8 DEF n

LEMMA WaitsAre ==
  ASSUME NEW t \in Timings
  PROVE  Waits(t) \in [0..(t.attempts - 1) -> Nat]
<1> DEFINE n == t.attempts - 1
           Wait(i) == Min({Intervals(t)[i - 1], t.longest})
           step == [i \in 1..n |-> [v \in Nat |-> v + Wait(i)]]
<1>1. n \in Nat /\ t.longest \in Nat
  BY DEF Timings
<1>2. \A i \in 1..n : Wait(i) \in Nat
  <2> SUFFICES ASSUME NEW i \in 1..n PROVE Wait(i) \in Nat
    OBVIOUS
  <2>1. Intervals(t)[i - 1] \in Nat
    BY <1>1, IntervalsAre
  <2> QED BY <1>1, <2>1, SmallerIs
<1> HIDE DEF Wait
<1>3. step \in [1..n -> [Nat -> Nat]]
  BY <1>1, <1>2
<1>4. \A i \in 1..n, v \in Nat : step[i][v] = v + Wait(i)
  OBVIOUS
<1> HIDE DEF step, n
<1>5. PICK f \in [0..n -> Nat] : f[0] = 0 /\ \A i \in 1..n : f[i] = step[i][f[i - 1]]
  <2>1. \E f : MadeBy(f, n, Nat, 0, step)
    BY <1>1, <1>3, RecursionIsFunction
  <2> QED BY <2>1 DEF MadeBy
<1> DEFINE G(g) == [i \in 0..n |-> IF i = 0 THEN 0 ELSE g[i - 1] + Wait(i)]
<1>6. f = G(f)
  <2>1. \A i \in 1..n : f[i - 1] \in Nat /\ f[i] = f[i - 1] + Wait(i)
    <3> SUFFICES ASSUME NEW i \in 1..n PROVE f[i - 1] \in Nat /\ f[i] = f[i - 1] + Wait(i)
      OBVIOUS
    <3>1. i - 1 \in 0..n /\ f[i - 1] \in Nat
      BY <1>1
    <3>2. f[i] = step[i][f[i - 1]]
      BY <1>5
    <3> QED BY <1>4, <3>1, <3>2
  <2>2. \A i \in 0..n : f[i] = G(f)[i]
    BY <1>1, <1>5, <2>1
  <2>3. DOMAIN G(f) = 0..n
    OBVIOUS
  <2> QED BY <2>2, <2>3
<1>7. Waits(t) = G(Waits(t))
  <2>1. Waits(t) = CHOOSE g : g = G(g)
    BY DEF Waits, Wait, n
  <2> HIDE DEF G
  <2> QED BY <1>6, <2>1
<1> DEFINE U == {i \in 0..n : Waits(t)[i] \notin Nat}
<1>8. U = {}
  <2> SUFFICES ASSUME U # {} PROVE FALSE
    OBVIOUS
  <2>1. PICK m \in U : \A k \in U : m <= k
    <3>1. U \in SUBSET Nat
      BY <1>1
    <3> HIDE DEF U
    <3> QED BY <3>1, LeastNat
  <2>2. Waits(t)[m] = IF m = 0 THEN 0 ELSE Waits(t)[m - 1] + Wait(m)
    BY <1>7
  <2>3. m # 0 => m - 1 \in 0..n /\ m - 1 \notin U /\ Wait(m) \in Nat
    BY <1>1, <1>2, <2>1
  <2> QED BY <1>1, <2>2, <2>3
<1> QED BY <1>7, <1>8 DEF n

LEMMA TimingIs ==
  ASSUME NEW b \in Drafted
  PROVE  /\ Timing(b) \in Timings
         /\ Timing(b).slot = IF b.type = "scrape" THEN 660 ELSE 0
<1> USE DEF Timing, Timings
<1>1. CASE b.type = "scrape"
  BY <1>1
<1>2. CASE b.type = "llm_extract"
  BY <1>2
<1>3. CASE b.type = "webhook"
  BY <1>3
<1>4. CASE b.type \notin {"scrape", "llm_extract", "webhook"}
  BY <1>4
<1> QED BY <1>1, <1>2, <1>3, <1>4

LEMMA NeedIs ==
  ASSUME NEW b \in Drafted
  PROVE  /\ Budget(b) \in Nat \ {0} /\ Need(b) \in Nat
         /\ Need(b) = Budget(b) + 60 + IF b.type = "scrape" THEN 660 ELSE 0
<1> DEFINE t == Timing(b)
<1>1. /\ t \in Timings
      /\ t.slot = IF b.type = "scrape" THEN 660 ELSE 0
  BY TimingIs
<1>2. /\ t.attempts \in Nat \ {0} /\ t.toStart + t.toClose \in Nat \ {0}
      /\ Budget(b) = t.attempts * (t.toStart + t.toClose) + Waits(t)[t.attempts - 1]
      /\ Need(b) = Budget(b) + t.slot + 60
  BY <1>1 DEF Timings, Budget, Need, Overhead
<1>3. Waits(t)[t.attempts - 1] \in Nat
  BY <1>1, <1>2, WaitsAre
<1> HIDE DEF t
<1>4. \A m, n \in Nat \ {0} : m * n \in Nat \ {0}
  OBVIOUS
<1>5. t.attempts * (t.toStart + t.toClose) \in Nat \ {0}
  BY <1>2, <1>4
<1>6. Budget(b) \in Nat \ {0}
  BY <1>2, <1>3, <1>5
<1> QED BY <1>1, <1>2, <1>6

LEMMA NeedsAre ==
  ASSUME NEW blocks \in Seq(Drafted)
  PROVE  /\ Needs(blocks) \in [0..Len(blocks) -> Nat]
         /\ Needs(blocks)[0] = 0
         /\ \A i \in 1..Len(blocks) : Needs(blocks)[i] = Needs(blocks)[i - 1] + Need(blocks[i])
<1> DEFINE n == Len(blocks)
           step == [i \in 1..n |-> [v \in Nat |-> v + Need(blocks[i])]]
<1>1. n \in Nat /\ \A i \in 1..n : Need(blocks[i]) \in Nat
  BY NeedIs
<1>2. \A v, w \in Nat : v + w \in Nat
  OBVIOUS
<1>3. step \in [1..n -> [Nat -> Nat]]
  BY <1>1, <1>2
<1>4. \A i \in 1..n, v \in Nat : step[i][v] = v + Need(blocks[i])
  OBVIOUS
<1> HIDE DEF step, n
<1>5. PICK f \in [0..n -> Nat] : f[0] = 0 /\ \A i \in 1..n : f[i] = step[i][f[i - 1]]
  <2>1. \E f : MadeBy(f, n, Nat, 0, step)
    BY <1>1, <1>3, RecursionIsFunction
  <2> QED BY <2>1 DEF MadeBy
<1> DEFINE G(g) == [i \in 0..n |-> IF i = 0 THEN 0 ELSE g[i - 1] + Need(blocks[i])]
<1>6. f = G(f)
  <2>1. \A i \in 1..n : f[i - 1] \in Nat /\ f[i] = f[i - 1] + Need(blocks[i])
    <3> SUFFICES ASSUME NEW i \in 1..n PROVE f[i - 1] \in Nat /\ f[i] = f[i - 1] + Need(blocks[i])
      OBVIOUS
    <3>1. i - 1 \in 0..n /\ f[i - 1] \in Nat
      BY <1>1
    <3>2. f[i] = step[i][f[i - 1]]
      BY <1>5
    <3> QED BY <1>4, <3>1, <3>2
  <2>2. \A i \in 0..n : f[i] = G(f)[i]
    BY <1>1, <1>5, <2>1
  <2>3. DOMAIN G(f) = 0..n
    OBVIOUS
  <2> QED BY <2>2, <2>3
<1>7. Needs(blocks) = G(Needs(blocks))
  <2>1. Needs(blocks) = CHOOSE g : g = G(g)
    BY DEF Needs, n
  <2> HIDE DEF G
  <2> QED BY <1>6, <2>1
<1> DEFINE U == {i \in 0..n : Needs(blocks)[i] \notin Nat}
<1>8. U = {}
  <2> SUFFICES ASSUME U # {} PROVE FALSE
    OBVIOUS
  <2>1. PICK m \in U : \A k \in U : m <= k
    <3>1. U \in SUBSET Nat
      BY <1>1
    <3> HIDE DEF U
    <3> QED BY <3>1, LeastNat
  <2>2. Needs(blocks)[m] = IF m = 0 THEN 0 ELSE Needs(blocks)[m - 1] + Need(blocks[m])
    BY <1>7
  <2>3. m # 0 => m - 1 \in 0..n /\ m - 1 \notin U /\ Need(blocks[m]) \in Nat
    BY <1>1, <2>1
  <2> QED BY SMTT(30), <1>1, <2>2, <2>3
<1>9. \A i \in 0..n : Needs(blocks)[i] = IF i = 0 THEN 0 ELSE Needs(blocks)[i - 1] + Need(blocks[i])
  BY <1>7
<1>10. Needs(blocks) \in [0..n -> Nat]
  BY <1>7, <1>8
<1>11. \A i \in 1..n : i \in 0..n /\ i # 0
  BY <1>1
<1>12. 0 \in 0..n
  BY <1>1
<1> QED BY <1>9, <1>10, <1>11, <1>12 DEF n

(* What is needed up to a block is no more than what is needed in all. *)
LEMMA NeedsGrow ==
  ASSUME NEW blocks \in Seq(Drafted), NEW i \in 0..Len(blocks)
  PROVE  Needs(blocks)[i] <= Needs(blocks)[Len(blocks)]
<1> DEFINE n == Len(blocks)
           N == Needs(blocks)
           T == {d \in 0..n : N[n - d] > N[n]}
<1>1. n \in Nat /\ N \in [0..n -> Nat]
  BY NeedsAre
<1>2. \A k \in 1..n : N[k - 1] <= N[k]
  <2> SUFFICES ASSUME NEW k \in 1..n PROVE N[k - 1] <= N[k]
    OBVIOUS
  <2>1. N[k] = N[k - 1] + Need(blocks[k]) /\ Need(blocks[k]) \in Nat
    BY SMTT(30), NeedsAre, NeedIs
  <2>2. k - 1 \in 0..n /\ N[k - 1] \in Nat
    BY <1>1
  <2> QED BY <2>1, <2>2
<1> HIDE DEF n, N
<1>3. T = {}
  <2> SUFFICES ASSUME T # {} PROVE FALSE
    OBVIOUS
  <2>1. PICK d \in T : \A e \in T : d <= e
    <3>1. T \in SUBSET Nat
      BY <1>1
    <3> HIDE DEF T
    <3> QED BY <3>1, LeastNat
  <2>2. d # 0 /\ d \in 0..n
    BY <1>1
  <2>3. d - 1 \in 0..n /\ d - 1 \notin T
    <3>1. d \in Int /\ ~ (d <= d - 1) /\ d - 1 \in 0..n
      BY <1>1, <2>2
    <3> HIDE DEF T
    <3> QED BY <2>1, <3>1
  <2>4. n - d + 1 \in 1..n /\ n - d \in 0..n /\ n - d + 1 \in 0..n
    BY <1>1, <2>2
  <2>5. N[n - d] <= N[n - d + 1]
    <3>1. N[(n - d + 1) - 1] <= N[n - d + 1]
      BY <1>2, <2>4
    <3> QED BY <1>1, <2>2, <3>1
  <2>6. N[n - d + 1] <= N[n]
    <3>1. N[n - (d - 1)] \in Nat /\ N[n] \in Nat /\ n - (d - 1) = n - d + 1
      BY <1>1, <2>2, <2>4
    <3>2. ~ (N[n - (d - 1)] > N[n])
      BY <2>3
    <3> QED BY <3>1, <3>2
  <2>7. N[n - d] \in Nat /\ N[n - d + 1] \in Nat /\ N[n] \in Nat /\ N[n - d] > N[n]
    BY <1>1, <2>1, <2>4
  <2> QED BY <2>5, <2>6, <2>7
<1>4. n - i \in 0..n /\ n - (n - i) = i
  BY <1>1 DEF n
<1>5. N[i] \in Nat /\ N[n] \in Nat
  BY <1>1 DEF n
<1>6. ~ (N[i] > N[n])
  BY <1>3, <1>4
<1> QED BY <1>5, <1>6 DEF n, N

-----------------------------------------------------------------------------
(* What a reference is *)

References == Pages \cup {"extraction", "text", Unset}

LEMMA RefsAre ==
  ASSUME NEW blocks \in Seq(Drafted)
  PROVE  \A i \in 1..Len(blocks) :
           RefsAfter(blocks)[i] = Produces(blocks[i], RefsAfter(blocks)[i - 1])
<1> DEFINE n == Len(blocks)
           step == [i \in 1..n |-> [v \in References |-> Produces(blocks[i], v)]]
<1>1. n \in Nat /\ Unset \in References
  BY DEF References
<1>2. \A i \in 1..n, v \in References : Produces(blocks[i], v) \in References
  <2> SUFFICES ASSUME NEW b \in Drafted, NEW v \in References PROVE Produces(b, v) \in References
    OBVIOUS
  <2>1. b.config \in {"html", "json", "render", "text", Unset}
    BY DEF Drafted
  <2> QED BY <2>1 DEF Produces, References, Pages
<1>3. step \in [1..n -> [References -> References]]
  BY <1>1, <1>2
<1>4. \A i \in 1..n, v \in References : step[i][v] = Produces(blocks[i], v)
  OBVIOUS
<1> HIDE DEF step, n
<1>5. PICK f \in [0..n -> References] : f[0] = Unset /\ \A i \in 1..n : f[i] = step[i][f[i - 1]]
  <2>1. \E f : MadeBy(f, n, References, Unset, step)
    BY <1>1, <1>3, RecursionIsFunction
  <2> QED BY <2>1 DEF MadeBy
<1> DEFINE G(g) == [i \in 0..n |-> IF i = 0 THEN Unset ELSE Produces(blocks[i], g[i - 1])]
<1>6. f = G(f)
  <2>1. \A i \in 1..n : f[i] = Produces(blocks[i], f[i - 1])
    <3> SUFFICES ASSUME NEW i \in 1..n PROVE f[i] = Produces(blocks[i], f[i - 1])
      OBVIOUS
    <3>1. i - 1 \in 0..n /\ f[i - 1] \in References
      BY <1>1
    <3>2. f[i] = step[i][f[i - 1]]
      BY <1>5
    <3> QED BY <1>4, <3>1, <3>2
  <2>2. \A i \in 0..n : f[i] = G(f)[i]
    BY <1>1, <1>5, <2>1
  <2>3. DOMAIN G(f) = 0..n
    OBVIOUS
  <2> QED BY <2>2, <2>3
<1>7. RefsAfter(blocks) = G(RefsAfter(blocks))
  <2>1. RefsAfter(blocks) = CHOOSE g : g = G(g)
    BY DEF RefsAfter, n
  <2> HIDE DEF G
  <2> QED BY <1>6, <2>1
<1>8. \A i \in 0..n : RefsAfter(blocks)[i] =
          IF i = 0 THEN Unset ELSE Produces(blocks[i], RefsAfter(blocks)[i - 1])
  BY <1>7
<1>9. \A i \in 1..n : i \in 0..n /\ i # 0
  BY <1>1
<1> QED BY <1>8, <1>9 DEF n

-----------------------------------------------------------------------------
(* What validate accepts *)

LEMMA DraftIs ==
  ASSUME DraftTypes
  PROVE  /\ Len(draft) \in Nat /\ Blocks = 1..Len(draft)
         /\ MaxBlocks \in Nat \ {0} /\ Blocks \subseteq Ids
         /\ \A i \in Blocks : draft[i] \in Drafted /\ draft[i].id \in Ids
         /\ RunNeed \in Nat
<1>1. Len(draft) \in Nat /\ Blocks = 1..Len(draft) /\ Len(draft) <= MaxBlocks + 1
  <2>1. draft \in Seq(Drafted) /\ Len(draft) <= MaxBlocks + 1
    BY DEF DraftTypes, DefinitionTypeOK
  <2> QED BY <2>1 DEF Blocks
<1>2. MaxBlocks \in Nat \ {0}
  BY LimitsAssumption
<1>3. \A i \in Blocks : draft[i] \in Drafted /\ draft[i].id \in Ids
  <2>1. draft \in Seq(Drafted)
    BY DEF DraftTypes
  <2>2. \A i \in Blocks : draft[i] \in Drafted
    BY <1>1, <2>1
  <2>3. \A b \in Drafted : b.id \in Ids
    BY DEF Drafted
  <2> QED BY <2>2, <2>3
<1>4. RunNeed \in Nat
  BY <1>1, NeedsAre DEF DraftTypes, RunNeed
<1> QED BY <1>1, <1>2, <1>3, <1>4 DEF Ids

LEMMA StaysAccepted ==
  ASSUME Accepted, UNCHANGED <<draft, declared, ceiling>>
  PROVE  Accepted'
BY DEF Accepted, Blocks, UniqueIds, KnownTypes, BindingsFit, InputsUsed, OneWebhook, OneSource,
   Chained, TypesFit, RunNeed, RunBudget

LEMMA AcceptedIs ==
  ASSUME DraftTypes, Accepted
  PROVE  /\ Len(draft) \in 1..MaxBlocks
         /\ 1 \in Blocks /\ draft[1].type = "scrape" /\ draft[1].input = NoRef
         /\ \A i \in Blocks \ {1} : /\ i - 1 \in Blocks /\ draft[i].type # "scrape"
                                    /\ draft[i].input = draft[i - 1].id
                                    /\ draft[i].input # NoRef
         /\ \A i \in Blocks : draft[i].type \in CATALOG
         /\ RunNeed <= RunBudget /\ RunBudget \in Int
<1>1. Len(draft) \in Nat /\ Blocks = 1..Len(draft) /\ Blocks # {} /\ Len(draft) <= MaxBlocks
      /\ MaxBlocks \in Nat
  BY DraftIs DEF Accepted
<1>2. Len(draft) \in 1..MaxBlocks /\ 1 \in Blocks /\ \A i \in Blocks \ {1} : i - 1 \in Blocks
  BY <1>1
<1>3. /\ draft[1].type = "scrape" /\ draft[1].input = NoRef
      /\ \A i \in Blocks \ {1} : draft[i].type # "scrape" /\ draft[i].input # NoRef
  BY DEF Accepted, OneSource
<1>4. \A i \in Blocks \ {1} : draft[i].input = draft[i - 1].id
  BY <1>3 DEF Accepted, Chained
<1>5. RunNeed <= RunBudget /\ RunBudget \in Int
  <2>1. RunNeed \in Nat /\ ceiling \in Int
    BY DraftIs DEF DraftTypes, DefinitionTypeOK
  <2>2. RunBudget \in Int
    BY <2>1 DEF RunBudget
  <2>3. RunNeed <= RunBudget
    BY DEF Accepted
  <2> QED BY <2>2, <2>3
<1>6. \A i \in Blocks : draft[i].type \in CATALOG
  BY DEF Accepted, KnownTypes
<1> QED BY <1>2, <1>3, <1>4, <1>5, <1>6

-----------------------------------------------------------------------------
(* Editing, saving, triggering *)

LEMMA DefinitionInitInv == DefinitionInit => DefinitionInv
<1> SUFFICES ASSUME DefinitionInit PROVE DefinitionInv
  OBVIOUS
<1>1. MaxBlocks \in Nat \ {0} /\ 1 \in Ids
  BY LimitsAssumption DEF Ids
<1>2. draft = <<>> /\ Len(draft) = 0 /\ draft \in Seq(Drafted) /\ Blocks = {}
  BY DEF DefinitionInit, Blocks
<1>3. DefinitionTypeOK
  BY <1>1, <1>2 DEF DefinitionInit, DefinitionTypeOK, NoRef
<1> QED BY <1>2, <1>3 DEF DefinitionInit, DefinitionInv, DraftTypes, NotRun, Wiring, OnTime

(* A block is added or the definition is answered for, and nothing runs. *)
LEMMA StillNotRun ==
  ASSUME DefinitionInv, NotRun, DraftTypes', pc' # "run",
         pc' \in {"saved", "completed", "failed"} => Accepted',
         UNCHANGED <<why, at, refs, holds, read, spent, granted>>
  PROVE  DefinitionInv'
<1>1. NotRun'
  BY DEF NotRun
<1>2. Len(draft') \in Nat /\ Blocks' \subseteq Ids
  <2>1. Len(draft') \in Nat /\ Blocks' = 1..Len(draft') /\ Len(draft') <= MaxBlocks + 1
    <3>1. draft' \in Seq(Drafted) /\ Len(draft') <= MaxBlocks + 1
      BY DEF DraftTypes, DefinitionTypeOK
    <3> QED BY <3>1 DEF Blocks
  <2> QED BY <2>1, LimitsAssumption DEF Ids
<1>3. (at - 1 <= Len(draft))' /\ 1..(at' - 1) = {}
  BY <1>1, <1>2 DEF NotRun
<1>4. Wiring'
  BY <1>3 DEF Wiring
<1>5. OnTime'
  BY <1>1, <1>2 DEF OnTime, NotRun
<1>6. why' \in {Unset, "block"}
  BY <1>1 DEF NotRun
<1> QED BY <1>1, <1>3, <1>4, <1>5, <1>6 DEF DefinitionInv

LEMMA AddBlockInv ==
  ASSUME DefinitionInv, AddBlock
  PROVE  DefinitionInv'
<1>1. NotRun /\ DraftTypes /\ pc = "edit" /\ pc' = "edit"
  BY DEF DefinitionInv, AddBlock
<1>2. PICK step \in Steps, id \in Ids \cup {NoRef}, input \in Ids \cup {NoRef},
           binds \in {Unset, "page"} :
        /\ id \in {1, Len(draft) + 1}
        /\ draft' = Append(draft, [id |-> id, type |-> step[1], config |-> step[2],
                                   input |-> input, binds |-> binds])
  BY DEF AddBlock
<1> DEFINE b == [id |-> id, type |-> step[1], config |-> step[2], input |-> input,
                 binds |-> binds]
<1>3. b \in Drafted
  <2>1. id \in Ids
    BY <1>1, <1>2, DraftIs DEF NoRef
  <2>2. /\ step[1] \in CATALOG \cup {"unheard of"}
        /\ step[2] \in {"html", "json", "render", "text", Unset}
        /\ <<step[1], step[2]>> \in Steps
    <3>1. PICK t \in CATALOG \cup {"unheard of"},
               c \in {"html", "json", "render", "text", Unset} : step = <<t, c>>
      BY DEF Steps, CATALOG
    <3>2. step[1] = t /\ step[2] = c
      BY <3>1
    <3> QED BY <3>1, <3>2
  <2> QED BY <2>1, <2>2 DEF Drafted
<1>4. draft \in Seq(Drafted) /\ Len(draft) <= MaxBlocks /\ draft' = Append(draft, b)
  BY <1>1, <1>2 DEF DraftTypes, AddBlock
<1> HIDE DEF b
<1>5. draft' \in Seq(Drafted) /\ Len(draft') <= MaxBlocks + 1
  BY <1>3, <1>4, LimitsAssumption
<1>6. DraftTypes'
  BY <1>1, <1>5 DEF DraftTypes, DefinitionTypeOK, AddBlock
<1> QED BY <1>1, <1>6, StillNotRun DEF AddBlock

LEMMA SubmitInv ==
  ASSUME DefinitionInv, Submit
  PROVE  DefinitionInv'
<1>1. NotRun /\ DraftTypes /\ pc = "edit"
  BY DEF DefinitionInv, Submit
<1>2. ceiling' \in Int
  BY <1>1, DraftIs, LimitsAssumption DEF Submit
<1>3. pc' \in {"saved", "refused"} /\ (pc' = "saved" => Accepted')
  BY DEF Submit
<1>4. DraftTypes'
  BY <1>1, <1>2, <1>3 DEF DraftTypes, DefinitionTypeOK, Submit
<1> QED BY <1>1, <1>3, <1>4, StillNotRun DEF Submit

LEMMA TriggerInv ==
  ASSUME DefinitionInv, Trigger
  PROVE  DefinitionInv'
<1>1. /\ NotRun /\ DraftTypes /\ Accepted /\ Wiring /\ OnTime /\ pc = "saved"
      /\ UNCHANGED <<draft, declared, ceiling, at, refs, holds, read, spent, granted>>
  BY DEF DefinitionInv, Trigger
<1>2. Readable
  BY <1>1 DEF Accepted, KnownTypes, Readable
<1>3. pc' = "run" /\ why' = why
  BY <1>2 DEF Trigger
<1>4. DraftTypes'
  BY <1>1, <1>3 DEF DraftTypes, DefinitionTypeOK
<1>5. Accepted' /\ Blocks' = Blocks
  BY <1>1, StaysAccepted DEF Blocks
<1>6. at' = 1 /\ 1 \in Blocks /\ Len(draft) \in 1..MaxBlocks /\ at' - 1 = 0
  BY <1>1, AcceptedIs DEF NotRun
<1>7. Wiring'
  BY <1>6 DEF Wiring
<1>8. OnTime'
  <2>1. spent' = 0 /\ Needs(draft')[at' - 1] = 0
    BY <1>1, <1>6, NeedsAre DEF NotRun, DraftTypes
  <2> QED BY <1>1, <1>5, <2>1 DEF OnTime
<1>9. why' \in {Unset, "block"}
  BY <1>1, <1>3 DEF NotRun
<1> QED BY <1>1, <1>3, <1>4, <1>5, <1>6, <1>7, <1>8, <1>9 DEF DefinitionInv

LEMMA BlockFailsInv ==
  ASSUME DefinitionInv, pc = "run", BlockFails
  PROVE  DefinitionInv'
<1>1. /\ DraftTypes /\ Accepted /\ Wiring /\ OnTime /\ at - 1 <= Len(draft)
      /\ pc' = "failed" /\ why' = "block"
      /\ UNCHANGED <<draft, declared, ceiling, at, refs, holds, read, spent, granted>>
  BY DEF DefinitionInv, BlockFails, Failed
<1>2. DraftTypes'
  BY <1>1 DEF DraftTypes, DefinitionTypeOK
<1>3. Accepted'
  BY <1>1, StaysAccepted
<1>4. Wiring'
  BY <1>1 DEF Wiring, Handed, Fed, Newest
<1>5. OnTime'
  BY <1>1 DEF OnTime, Blocks
<1> QED BY <1>1, <1>2, <1>3, <1>4, <1>5 DEF DefinitionInv

-----------------------------------------------------------------------------
(* A block runs *)

(* What a block is given is the newest object, and what validate took it to be. *)
LEMMA InputIs ==
  ASSUME DefinitionInv, pc = "run"
  PROVE  /\ at = 1 => draft[at].type = "scrape" /\ InputOf(draft[at]) = NoRef
         /\ at # 1 => /\ draft[at].type # "scrape"
                      /\ Newest(InputOf(draft[at]), at - 1)
                      /\ InputOf(draft[at]) # NoRef
                      /\ holds[InputOf(draft[at])] = ObjectOf(RefsAfter(draft)[at - 1])
<1>1. DraftTypes /\ Accepted /\ Wiring /\ at \in Blocks /\ at \in Int
  BY DraftIs DEF DefinitionInv, Ids
<1>2. CASE at = 1
  BY <1>1, <1>2, AcceptedIs DEF InputOf
<1>3. CASE at # 1
  <2>1. /\ at - 1 \in Blocks /\ draft[at].type # "scrape" /\ draft[at].input # NoRef
        /\ draft[at].input = draft[at - 1].id
    BY <1>1, <1>3, AcceptedIs
  <2>2. at - 1 \in 1..(at - 1)
    BY <1>1, <2>1, DraftIs
  <2>3. Handed(at - 1)
    BY <1>1, <2>2 DEF Wiring
  <2>4. InputOf(draft[at]) = refs[draft[at - 1].id]
    BY <2>1 DEF InputOf
  <2>5. \A j : Newest(j, at - 1) => j \in Nat /\ j > 0
    BY <1>1 DEF Newest
  <2> QED BY <1>3, <2>1, <2>3, <2>4, <2>5 DEF Handed, NoRef
<1> QED BY <1>2, <1>3

(* A Validate block with a JSON rule is given a document. *)
LEMMA DocumentIs ==
  ASSUME DefinitionInv, pc = "run", at # 1
  PROVE  Parses(draft[at], holds[InputOf(draft[at])])
<1>1. DraftTypes /\ Accepted /\ at \in Blocks \ {1}
  BY DEF DefinitionInv
<1>2. /\ draft[at].type # "scrape"
      /\ holds[InputOf(draft[at])] = ObjectOf(RefsAfter(draft)[at - 1])
  BY InputIs
<1>3. RulesFit(draft[at], RefsAfter(draft)[at - 1])
  BY <1>1, <1>2 DEF Accepted, TypesFit
<1> QED BY <1>2, <1>3 DEF RulesFit, Parses, ObjectOf

(* The time a block of a run can take is what the run was given for it. *)
LEMMA TimeLeft ==
  ASSUME DefinitionInv, pc = "run", NEW slow \in BOOLEAN, NEW before, NEW toClose, NEW after,
         before = (IF slow THEN DbSeconds + (IF draft[at].type = "scrape" THEN WaitCap + SlotSeconds
                                             ELSE 0)
                   ELSE 0),
         toClose = Min({Budget(draft[at]), RunBudget - spent - before}),
         after = (IF slow THEN toClose + 2 * DbSeconds
                               + (IF draft[at].type = "scrape" THEN SlotSeconds ELSE 0)
                  ELSE 0)
  PROVE  /\ RunBudget - spent - before > 0
         /\ toClose = Budget(draft[at])
         /\ spent + before + after \in Nat
         /\ spent + before + after <= Needs(draft)[at]
<1>1. DraftTypes /\ Accepted /\ OnTime /\ at \in Blocks /\ spent \in Nat
  BY DEF DefinitionInv, DraftTypes, DefinitionTypeOK
<1>2. at \in 1..Len(draft) /\ Len(draft) \in Nat /\ draft \in Seq(Drafted) /\ draft[at] \in Drafted
  BY <1>1, DraftIs DEF DraftTypes
<1> DEFINE budget == Budget(draft[at])
           extra == IF draft[at].type = "scrape" THEN 660 ELSE 0
           N == Needs(draft)
<1>3. budget \in Nat \ {0} /\ Need(draft[at]) = budget + 60 + extra
  BY <1>2, NeedIs
<1>4. /\ N[at] = N[at - 1] + Need(draft[at]) /\ N[at - 1] \in Nat
      /\ N[at] <= N[Len(draft)] /\ N[at] \in Nat /\ N[Len(draft)] \in Nat
  <2>1. at \in 0..Len(draft) /\ at - 1 \in 0..Len(draft) /\ Len(draft) \in 0..Len(draft)
    BY <1>2
  <2> QED BY <1>2, <2>1, NeedsAre, NeedsGrow
<1>5. spent <= N[at - 1]
  BY <1>1 DEF OnTime
<1>6. N[Len(draft)] <= RunBudget /\ RunBudget \in Int
  BY <1>1, AcceptedIs DEF RunNeed
<1>7. /\ before \in Nat /\ extra \in Nat /\ before <= 60 + extra
      /\ draft[at].type = "scrape" => before <= 635 /\ extra = 660
      /\ draft[at].type # "scrape" => before <= 20
  BY DEF DbSeconds, WaitCap, SlotSeconds
<1> HIDE DEF budget, N, extra
<1>8a. PICK s \in Nat : s = spent
  BY <1>1
<1>8b. PICK n \in Nat : n = N[at - 1]
  BY <1>4
<1>8c. PICK m \in Nat : m = N[at]
  BY <1>4
<1>8d. PICK l \in Nat : l = N[Len(draft)]
  BY <1>4
<1>8e. PICK r \in Int : r = RunBudget
  BY <1>6
<1>8f. PICK g \in Nat \ {0} : g = budget
  BY <1>3
<1>8g. PICK e \in Nat : e = extra
  BY <1>7
<1>8h. PICK q \in Nat : q = before
  BY <1>7
<1>8. /\ s = spent /\ n = N[at - 1] /\ m = N[at] /\ l = N[Len(draft)] /\ r = RunBudget
      /\ g = budget /\ e = extra /\ q = before
  BY <1>8a, <1>8b, <1>8c, <1>8d, <1>8e, <1>8f, <1>8g, <1>8h
<1>9. s <= n /\ m = n + (g + 60 + e) /\ m <= l /\ l <= r /\ q <= 60 + e
  BY <1>3, <1>4, <1>5, <1>6, <1>7, <1>8
<1>10. r - s - q >= g /\ r - s - q > 0 /\ r - s - q \in Int
  BY <1>9
<1>11. toClose = g
  <2>1. toClose = Min({g, r - s - q})
    BY <1>8 DEF budget
  <2> QED BY <1>10, <2>1, SmallerIs
<1>12. after \in Nat /\ q + after <= g + 60 + e
  <2>1. after = IF slow THEN g + 40 + (IF draft[at].type = "scrape" THEN 15 ELSE 0) ELSE 0
    <3> DEFINE x == IF draft[at].type = "scrape" THEN SlotSeconds ELSE 0
    <3>1. after = IF slow THEN toClose + 2 * DbSeconds + x ELSE 0
      OBVIOUS
    <3>2. after = IF slow THEN g + 2 * DbSeconds + x ELSE 0
      <4> HIDE DEF x
      <4> QED BY ONLY <1>11, <3>1
    <3>3. x = IF draft[at].type = "scrape" THEN 15 ELSE 0
      BY DEF SlotSeconds
    <3> HIDE DEF x
    <3>4. g + 2 * DbSeconds = g + 40
      BY DEF DbSeconds
    <3> QED BY ONLY <3>2, <3>3, <3>4
  <2>2. CASE draft[at].type = "scrape"
    <3>1. after \in Nat /\ after <= g + 55
      BY <2>1, <2>2
    <3>2. q <= 635 /\ e = 660
      BY <1>7, <1>8, <2>2
    <3> QED BY <3>1, <3>2
  <2>3. CASE draft[at].type # "scrape"
    <3>1. after \in Nat /\ after <= g + 40
      BY <2>1, <2>3
    <3>2. q <= 20
      BY <1>7, <1>8, <2>3
    <3> QED BY <3>1, <3>2
  <2> QED BY <2>2, <2>3
<1>13. s + q + after \in Nat /\ s + q + after <= m
  <2>1. PICK f \in Nat : f = after
    BY <1>12
  <2>2. q + f <= g + 60 + e
    BY <1>12, <2>1
  <2>3. s + q + f \in Nat /\ s + q + f <= m
    BY <1>9, <2>2
  <2> QED BY <2>1, <2>3
<1> QED BY <1>8, <1>10, <1>11, <1>13 DEF budget, N

(* So nothing about the definition fails the block. *)
LEMMA RunsOn ==
  ASSUME DefinitionInv, RunBlock
  PROVE  /\ BlockDone(draft[at], InputOf(draft[at]))
         /\ spent' \in Nat /\ spent' <= Needs(draft)[at]
         /\ granted' = [granted EXCEPT ![at] = Budget(draft[at])]
         /\ read' = [read EXCEPT ![at] = InputOf(draft[at])]
         /\ UNCHANGED <<draft, declared, ceiling>>
<1> DEFINE b == draft[at]
           input == InputOf(b)
           scrape == b.type = "scrape"
           Before(slow) == IF slow THEN DbSeconds + (IF scrape THEN WaitCap + SlotSeconds ELSE 0)
                           ELSE 0
           Left(slow) == RunBudget - spent - Before(slow)
           ToClose(slow) == Min({Budget(b), Left(slow)})
           After(slow) == IF slow THEN ToClose(slow) + 2 * DbSeconds
                                       + (IF scrape THEN SlotSeconds ELSE 0)
                          ELSE 0
<1>1. pc = "run" /\ UNCHANGED <<draft, declared, ceiling>>
  BY DEF RunBlock
<1>2. PICK slow \in BOOLEAN :
        /\ spent' = spent + Before(slow) + After(slow)
        /\ granted' = [granted EXCEPT ![at] = ToClose(slow)]
        /\ read' = [read EXCEPT ![at] = input]
        /\ CASE Left(slow) <= 0 -> Failed("budget spent")
             [] scrape /\ b.binds # Unset /\ b.binds \notin declared -> Failed("no run input")
             [] ~scrape /\ input = NoRef -> Failed("no input")
             [] ~scrape /\ ~Parses(b, holds[input]) -> Failed("not JSON")
             [] OTHER -> BlockDone(b, input)
  BY DEF RunBlock
<1>3. /\ Left(slow) > 0 /\ ToClose(slow) = Budget(b)
      /\ spent + Before(slow) + After(slow) \in Nat
      /\ spent + Before(slow) + After(slow) <= Needs(draft)[at]
  <2> DEFINE before == Before(slow)
             toClose == ToClose(slow)
             after == After(slow)
  <2>1. before = IF slow THEN DbSeconds + (IF draft[at].type = "scrape" THEN WaitCap + SlotSeconds
                                            ELSE 0)
                 ELSE 0
    OBVIOUS
  <2>2. toClose = Min({Budget(draft[at]), RunBudget - spent - before})
    OBVIOUS
  <2>3. after = IF slow THEN toClose + 2 * DbSeconds
                             + (IF draft[at].type = "scrape" THEN SlotSeconds ELSE 0)
                ELSE 0
    OBVIOUS
  <2> HIDE DEF before, toClose, after
  <2>4. /\ RunBudget - spent - before > 0
        /\ toClose = Budget(draft[at])
        /\ spent + before + after \in Nat
        /\ spent + before + after <= Needs(draft)[at]
    BY <1>1, <2>1, <2>2, <2>3, TimeLeft
  <2> QED BY <2>4 DEF before, toClose, after
<1>4. Left(slow) \in Int
  <2>1. RunBudget \in Int /\ spent \in Nat
    BY <1>1, AcceptedIs DEF DefinitionInv, DraftTypes, DefinitionTypeOK
  <2>2. Before(slow) \in Nat
    BY DEF DbSeconds, WaitCap, SlotSeconds
  <2> HIDE DEF Before
  <2> QED BY <2>1, <2>2
<1>5. ~ (b.binds # Unset /\ b.binds \notin declared)
  BY <1>1 DEF DefinitionInv, Accepted, BindingsFit
<1>6. ~scrape => input # NoRef /\ Parses(b, holds[input])
  BY <1>1, InputIs, DocumentIs
<1> HIDE DEF Left, ToClose, After, Before, b, input, scrape
<1>7. ~ (Left(slow) <= 0)
  BY <1>3, <1>4
<1>8. BlockDone(b, input)
  BY <1>2, <1>5, <1>6, <1>7
<1>9. spent' \in Nat /\ spent' <= Needs(draft)[at] /\ granted' = [granted EXCEPT ![at] = Budget(b)]
  BY <1>2, <1>3
<1> QED BY <1>1, <1>2, <1>8, <1>9 DEF b, input

(* What a content block writes is what the catalogue says of it; the others *)
(* hand on what they were given.                                           *)
LEMMA WritesIs ==
  ASSUME NEW b \in Drafted, b.type \in CATALOG, NEW ref
  PROVE  /\ Content(b) => Writes(b) \in Pages /\ Writes(b) = ObjectOf(Produces(b, ref))
         /\ ~ Content(b) => Produces(b, ref) = ref
<1>1. CASE b.type = "scrape"
  <2>1. <<b.type, b.config>> \in Steps
    BY DEF Drafted
  <2>2. b.config \in {"html", "json", "render"}
    BY <1>1, <2>1 DEF Steps
  <2> QED BY <1>1, <2>2 DEF Content, Writes, Format, Pages, ObjectOf, Produces
<1>2. CASE b.type = "clean"
  BY <1>2 DEF Content, Writes, CleanPage, Pages, ObjectOf, Produces
<1>3. CASE b.type = "llm_extract"
  BY <1>3 DEF Content, Writes, Extraction, Pages, ObjectOf, Produces
<1>4. CASE b.type \in {"validate", "webhook"}
  BY <1>4 DEF Content, Produces
<1> QED BY <1>1, <1>2, <1>3, <1>4 DEF CATALOG

LEMMA RunBlockInv ==
  ASSUME DefinitionInv, RunBlock
  PROVE  DefinitionInv'
<1> DEFINE b == draft[at]
           input == InputOf(b)
<1>1. /\ DraftTypes /\ Accepted /\ Wiring /\ OnTime /\ pc = "run" /\ at \in Blocks
      /\ why \in {Unset, "block"}
  BY DEF DefinitionInv, RunBlock
<1>2. /\ Len(draft) \in 1..MaxBlocks /\ Blocks = 1..Len(draft) /\ at \in 1..Len(draft)
      /\ b \in Drafted /\ b.id \in Ids /\ b.type \in CATALOG /\ at \in Ids
      /\ \A i \in Blocks : draft[i].id \in Ids /\ i \in Ids
  BY <1>1, DraftIs, AcceptedIs
<1>3. /\ BlockDone(b, input)
      /\ spent' \in Nat /\ spent' <= Needs(draft)[at]
      /\ granted' = [granted EXCEPT ![at] = Budget(b)]
      /\ read' = [read EXCEPT ![at] = input]
      /\ UNCHANGED <<draft, declared, ceiling>>
  BY RunsOn
<1>4. /\ at = 1 => b.type = "scrape" /\ input = NoRef
      /\ at # 1 => /\ b.type # "scrape" /\ Newest(input, at - 1) /\ input # NoRef
                   /\ holds[input] = ObjectOf(RefsAfter(draft)[at - 1])
  BY <1>1, InputIs
<1>5. /\ at' = at + 1 /\ why' = why /\ pc' = (IF at = Len(draft) THEN "completed" ELSE "run")
      /\ refs' = [refs EXCEPT ![b.id] = IF Content(b) THEN at ELSE input]
      /\ holds' = IF Content(b) THEN [holds EXCEPT ![at] = Writes(b)] ELSE holds
  BY <1>3 DEF BlockDone
<1>6. /\ refs \in [Ids -> Ids \cup {NoRef}] /\ read \in [Ids -> Ids \cup {NoRef}]
      /\ holds \in [Ids -> Pages \cup {Unset}] /\ granted \in [Ids -> Int]
  BY <1>1 DEF DraftTypes, DefinitionTypeOK
<1>7. RefsAfter(draft)[at] = Produces(b, RefsAfter(draft)[at - 1])
  BY <1>1, <1>2, RefsAre DEF DraftTypes
<1>8. input \in Ids \cup {NoRef}
  <2>1. at # 1 => input \in 1..(at - 1)
    BY <1>4 DEF Newest
  <2>2. \A j \in 1..(at - 1) : j \in Blocks
    BY <1>2
  <2> QED BY <1>2, <1>4, <2>1, <2>2
<1>9. Content(b) => Writes(b) \in Pages /\ Writes(b) = ObjectOf(RefsAfter(draft)[at])
  BY <1>2, <1>7, WritesIs
<1>10. ~ Content(b) => RefsAfter(draft)[at] = RefsAfter(draft)[at - 1] /\ at # 1
  <2>1. Content(b) \/ b.type # "scrape"
    BY DEF Content
  <2> QED BY <1>2, <1>4, <1>7, <2>1, WritesIs
<1>11. Budget(b) \in Nat \ {0}
  BY <1>2, NeedIs
<1> HIDE DEF b, input
<1>12. /\ refs' \in [Ids -> Ids \cup {NoRef}] /\ read' \in [Ids -> Ids \cup {NoRef}]
       /\ holds' \in [Ids -> Pages \cup {Unset}] /\ granted' \in [Ids -> Int]
  <2>1. refs' \in [Ids -> Ids \cup {NoRef}]
    BY <1>2, <1>5, <1>6, <1>8
  <2>2. read' \in [Ids -> Ids \cup {NoRef}]
    BY <1>2, <1>3, <1>6, <1>8
  <2>3. holds' \in [Ids -> Pages \cup {Unset}]
    BY <1>2, <1>5, <1>6, <1>9
  <2>4. granted' \in [Ids -> Int]
    BY <1>2, <1>3, <1>6, <1>11
  <2> QED BY <2>1, <2>2, <2>3, <2>4
<1>13. at' \in Ids /\ at' - 1 = at
  BY <1>2, <1>5, LimitsAssumption DEF Ids
<1>14. DraftTypes'
  <2>1. /\ draft' = draft /\ declared' = declared /\ ceiling' = ceiling /\ why' = why
        /\ pc' \in {"completed", "run"}
    BY <1>3, <1>5
  <2> QED BY <1>1, <1>3, <1>12, <1>13, <2>1 DEF DraftTypes, DefinitionTypeOK
<1>15. Accepted' /\ Blocks' = Blocks
  BY <1>1, <1>3, StaysAccepted DEF Blocks
<1>16. ASSUME NEW i \in 1..at PROVE Handed(i)'
  <2>0. draft' = draft /\ i \in Blocks /\ i \in Ids /\ draft[i].id \in Ids
    BY <1>2, <1>3
  <2>1. CASE i # at
    <3>1. i \in 1..(at - 1) /\ Handed(i)
      BY <1>1, <1>2, <2>1 DEF Wiring
    <3>2. draft[i].id # b.id
      BY <1>1, <2>0, <2>1 DEF Accepted, UniqueIds, b
    <3>3. refs'[draft[i].id] = refs[draft[i].id]
      BY <1>2, <1>5, <1>6, <2>0, <3>2
    <3>4. refs[draft[i].id] \in 1..i
      BY <3>1 DEF Handed, Newest
    <3>5. refs[draft[i].id] # at /\ refs[draft[i].id] \in Ids
      BY <1>2, <3>1, <3>4 DEF Ids
    <3>6. holds'[refs[draft[i].id]] = holds[refs[draft[i].id]]
      BY <1>2, <1>5, <1>6, <3>5
    <3> QED BY <2>0, <3>1, <3>3, <3>6 DEF Handed, Newest
  <2>2. CASE i = at
    <3>1. refs'[draft[i].id] = IF Content(b) THEN at ELSE input
      BY <1>2, <1>5, <1>6, <2>0, <2>2 DEF b
    <3>2. CASE Content(b)
      <4>1. Newest(at, at)
        BY <1>2, <3>2 DEF Newest, b
      <4>2. holds'[at] = ObjectOf(RefsAfter(draft)[at])
        BY <1>2, <1>5, <1>6, <1>9, <3>2
      <4> QED BY <2>0, <2>2, <3>1, <3>2, <4>1, <4>2 DEF Handed, Newest
    <3>3. CASE ~ Content(b)
      <4>1. Newest(input, at - 1) /\ holds'[input] = ObjectOf(RefsAfter(draft)[at])
        BY <1>4, <1>5, <1>10, <3>3
      <4>2. Newest(input, at)
        <5>1. input \in 1..at /\ Content(draft[input])
          BY <1>2, <4>1 DEF Newest
        <5>2. \A k \in (input + 1)..at : k = at \/ k \in (input + 1)..(at - 1)
          BY <1>2, <5>1
        <5> QED BY <3>3, <4>1, <5>1, <5>2 DEF Newest, b
      <4> QED BY <2>0, <2>2, <3>1, <3>3, <4>1, <4>2 DEF Handed, Newest
    <3> QED BY <3>2, <3>3
  <2> QED BY <2>1, <2>2
<1>17. ASSUME NEW i \in 1..at PROVE Fed(i)'
  <2>0. draft' = draft /\ i \in Ids
    BY <1>2, <1>3
  <2>1. CASE i # at
    <3>1. i \in 1..(at - 1) /\ Fed(i)
      BY <1>1, <1>2, <2>1 DEF Wiring
    <3>2. read'[i] = read[i]
      BY <1>2, <1>3, <1>6, <2>0, <2>1
    <3> QED BY <2>0, <3>1, <3>2 DEF Fed, Newest
  <2>2. CASE i = at
    <3>1. read'[i] = input
      BY <1>2, <1>3, <1>6, <2>0, <2>2
    <3> QED BY <1>4, <2>0, <2>2, <3>1 DEF Fed, Newest, b
  <2> QED BY <2>1, <2>2
<1>18. Wiring'
  BY <1>13, <1>16, <1>17 DEF Wiring
<1>19. OnTime'
  <2>1. spent' <= Needs(draft')[at' - 1]
    BY <1>3, <1>13
  <2>2. ASSUME NEW i \in Blocks, granted'[i] # 0
        PROVE  granted'[i] >= Budget(draft[i])
    <3>1. CASE i = at
      <4>1. granted'[i] = Budget(b)
        BY <1>2, <1>3, <1>6, <3>1
      <4> QED BY <1>11, <3>1, <4>1 DEF b
    <3>2. CASE i # at
      BY <1>1, <1>2, <1>3, <1>6, <2>2, <3>2 DEF OnTime
    <3> QED BY <3>1, <3>2
  <2> QED BY <1>3, <1>15, <2>1, <2>2 DEF OnTime
<1>20. /\ pc' \notin {"edit", "refused", "saved"}
       /\ pc' = "run" => at' \in Blocks'
       /\ at' - 1 <= Len(draft')
  BY <1>2, <1>3, <1>5, <1>13, <1>15
<1> QED BY <1>1, <1>5, <1>14, <1>15, <1>18, <1>19, <1>20 DEF DefinitionInv

-----------------------------------------------------------------------------
(* Theorems about PipelineDefinition *)

LEMMA DefinitionStep ==
  ASSUME DefinitionInv, [DefinitionNext]_definitionVars
  PROVE  DefinitionInv'
<1>1. CASE AddBlock
  BY <1>1, AddBlockInv
<1>2. CASE Submit
  BY <1>2, SubmitInv
<1>3. CASE Trigger
  BY <1>3, TriggerInv
<1>4. CASE RunBlock
  BY <1>4, RunBlockInv
<1>5. CASE pc = "run" /\ BlockFails
  BY <1>5, BlockFailsInv
<1>6. CASE UNCHANGED definitionVars
  <2>1. UNCHANGED <<draft, declared, ceiling, pc, why, at, refs, holds, read, spent, granted>>
    BY <1>6 DEF definitionVars
  <2>2. Accepted => Accepted'
    BY <2>1, StaysAccepted
  <2>3. DraftTypes' /\ Wiring' /\ OnTime' /\ Blocks' = Blocks /\ (NotRun => NotRun')
    BY <2>1 DEF DefinitionInv, DraftTypes, DefinitionTypeOK, Wiring, Handed, Fed, Newest, OnTime,
       Blocks, NotRun
  <2> QED BY <2>1, <2>2, <2>3 DEF DefinitionInv
<1> QED BY <1>1, <1>2, <1>3, <1>4, <1>5, <1>6 DEF DefinitionNext, Done

(* What holds of a definition and its run in every state: a run's blocks   *)
(* have handed on the newest object, of the type validate took it to be,   *)
(* and have taken no more time than the run was given for them.            *)
THEOREM DefinitionInvHolds == DefinitionSpec => []DefinitionInv
<1>1. DefinitionInv /\ [DefinitionNext]_definitionVars => DefinitionInv'
  BY DefinitionStep
<1> QED BY <1>1, DefinitionInitInv, PTL DEF DefinitionSpec

(* A definition runs as it was saved: validate lets in nothing the workers *)
(* or the interpreter cannot run, and each block reads the newest object.  *)
THEOREM SavedRuns == DefinitionSpec => []RunsAsSaved
<1>1. DefinitionInv => RunsAsSaved
  <2> SUFFICES ASSUME DefinitionInv PROVE RunsAsSaved
    OBVIOUS
  <2>1. AcceptedRuns
    BY DEF DefinitionInv, DraftTypes, AcceptedRuns
  <2>2. ASSUME NEW i \in 1..(at - 1)
        PROVE  IF i = 1 THEN draft[i].type = "scrape" /\ read[i] = NoRef
               ELSE /\ draft[i].type # "scrape"
                    /\ read[i] = Max({j \in 1..(i - 1) : Content(draft[j])})
    <3>1. Fed(i)
      BY DEF DefinitionInv, Wiring
    <3>2. CASE i = 1
      BY <3>1, <3>2 DEF Fed
    <3>3. CASE i # 1
      <4> DEFINE S == {j \in 1..(i - 1) : Content(draft[j])}
      <4>1. draft[i].type # "scrape" /\ Newest(read[i], i - 1)
        BY <3>1, <3>3 DEF Fed
      <4>2. read[i] \in S /\ S \subseteq Int
        BY <4>1 DEF Newest
      <4>3. \A j \in S : read[i] >= j
        <5> SUFFICES ASSUME NEW j \in S, ~ (read[i] >= j) PROVE FALSE
          OBVIOUS
        <5>1. j \in (read[i] + 1)..(i - 1)
          BY <4>2
        <5> QED BY <4>1, <5>1 DEF Newest
      <4> HIDE DEF S
      <4>4. \A m \in S : (\A j \in S : m >= j) => m = read[i]
        <5> SUFFICES ASSUME NEW m \in S, \A j \in S : m >= j PROVE m = read[i]
          OBVIOUS
        <5>1. m \in Int /\ read[i] \in Int /\ m >= read[i] /\ read[i] >= m
          BY <4>2, <4>3
        <5> QED BY <5>1
      <4>5. Max(S) = read[i]
        BY <4>2, <4>3, <4>4 DEF Max
      <4> QED BY <3>3, <4>1, <4>5 DEF S
    <3> QED BY <3>2, <3>3
  <2> QED BY <2>1, <2>2 DEF RunsAsSaved, ReadsNewest
<1> QED BY <1>1, DefinitionInvHolds, PTL

(* Budgets compose: no block of a run is cut short of what its retry       *)
(* policy may need, however long the blocks before it took.                *)
THEOREM BudgetsHold == DefinitionSpec => []BudgetsCompose
<1>1. DefinitionInv => BudgetsCompose
  BY DEF DefinitionInv, OnTime, BudgetsCompose, Unset
<1> QED BY <1>1, DefinitionInvHolds, PTL
=============================================================================
