-------------------------- MODULE PipelineDefinition --------------------------
(***************************************************************************)
(* A pipeline definition from the owner's draft to a run's last block:     *)
(* what validator.validate accepts, and how PipelineWorkflow and the       *)
(* workers read what it accepted.                                          *)
(*                                                                         *)
(* A draft departs from a well-formed chain in at most MaxFlaws places, so *)
(* that what is refused is explored as well as what runs.  A block's type  *)
(* and its config are abstracted to what the rules and the workers tell    *)
(* apart: the page format, the engine, the kind of a Validate rule.  Time  *)
(* is in seconds and each block takes none or the most it can.             *)
(***************************************************************************)
EXTENDS Integers, Sequences, FiniteSets, FiniteSetsExt

CONSTANTS
    MaxBlocks,     \* settings.max_blocks_per_pipeline
    MaxRunSeconds, \* settings.pipeline_max_run_seconds
    MaxFlaws       \* how often a draft departs from a chain (a bound)

ASSUME LimitsAssumption == {MaxBlocks, MaxRunSeconds} \subseteq Nat \ {0} /\ MaxFlaws \in Nat

Unset == "none"

(* "render" is a scrape by the browser to Markdown, the others use HTTP. *)
Steps == {<<"scrape", "html">>, <<"scrape", "json">>, <<"scrape", "render">>,
          <<"clean", Unset>>, <<"llm_extract", Unset>>, <<"validate", "json">>,
          <<"validate", "text">>, <<"webhook", Unset>>, <<"unheard of", Unset>>}

CATALOG == {"scrape", "clean", "llm_extract", "validate", "webhook"}

Ids == 1..(MaxBlocks + 1)
NoRef == 0

VARIABLES
    draft,    \* the blocks, in order: id, type, config, input (an id), binds (a run input)
    declared, \* the run inputs the definition declares
    ceiling,  \* time_budget_seconds (-1: not given)
    pc,       \* "edit", "refused", "saved", "run", "completed", "failed"
    why,      \* what failed the run
    at,       \* the block PipelineWorkflow is at
    refs,     \* its refs: for each block id, the block whose object it hands on
    holds,    \* what the object of each content block is
    read,     \* history: the object each block was given
    spent,    \* seconds since the run started
    granted   \* history: the schedule_to_close each block's activity got

definitionVars == <<draft, declared, ceiling, pc, why, at, refs, holds, read, spent, granted>>

DefinitionInit ==
    /\ draft = <<>> /\ declared = {} /\ ceiling = -1
    /\ pc = "edit" /\ why = Unset /\ at = 1
    /\ refs = [i \in Ids |-> NoRef] /\ holds = [i \in Ids |-> Unset]
    /\ read = [i \in Ids |-> NoRef]
    /\ spent = 0 /\ granted = [i \in Ids |-> 0]

Blocks == DOMAIN draft
Content(b) == b.type \in {"scrape", "clean", "llm_extract"}

-----------------------------------------------------------------------------
(* Timing *)

(* Before each retry the interval, the coefficient times the last one, or  *)
(* the longest there is.                                                   *)
Intervals(t) ==
    LET interval[n \in 0..(t.attempts - 1)] ==
            IF n = 0 THEN t.initial ELSE interval[n - 1] * t.coefficient
    IN interval

Waits(t) ==
    LET waited[n \in 0..(t.attempts - 1)] ==
            IF n = 0 THEN 0 ELSE waited[n - 1] + Min({Intervals(t)[n - 1], t.longest})
    IN waited

Timing(b) ==
    LET WorkerRetry(startToClose, toStart, slot) ==
            [toClose |-> startToClose, toStart |-> toStart, slot |-> slot, attempts |-> 3,
             initial |-> 5, coefficient |-> 2, longest |-> 60]
    IN CASE b.type = "scrape" -> WorkerRetry(IF b.config = "render" THEN 180 ELSE 90, 300, 660)
         [] b.type = "llm_extract" -> WorkerRetry(400, 60, 0)
         [] b.type = "webhook" -> [toClose |-> 20, toStart |-> 60, slot |-> 0, attempts |-> 5,
                                   initial |-> 30, coefficient |-> 10, longest |-> 7200]
         [] OTHER -> WorkerRetry(60, 60, 0)

Budget(b) == LET t == Timing(b) IN t.attempts * (t.toStart + t.toClose) + Waits(t)[t.attempts - 1]

DbSeconds == 20   \* DB_ACTIVITY_SECONDS
WaitCap == 600    \* HOST_WAIT_CAP
SlotSeconds == 15 \* HOST_SLOT_ACTIVITY_TIMEOUT
Overhead == 60    \* BLOCK_OVERHEAD_SECONDS

(* Mutant of Need: the wait for a host's slot is left out. *)
NeedWithoutSlot(b) == Budget(b) + Overhead

Need(b) == Budget(b) + Timing(b).slot + Overhead

(* What the run needs for its blocks up to each. *)
Needs(blocks) ==
    LET need[i \in 0..Len(blocks)] == IF i = 0 THEN 0 ELSE need[i - 1] + Need(blocks[i])
    IN need

RunNeed == Needs(draft)[Len(draft)]

RunBudget == IF ceiling # -1 THEN ceiling ELSE RunNeed

-----------------------------------------------------------------------------
(* Reference types *)

Pages == {"html", "markdown", "json"}

Consumes(b) ==
    CASE b.type = "scrape" -> {}
      [] b.type = "clean" -> {"html"}
      [] b.type = "llm_extract" -> Pages
      [] OTHER -> Pages \cup {"extraction"}

Produces(b, ref) ==
    CASE b.type = "scrape" -> IF b.config = "render" THEN "markdown" ELSE b.config
      [] b.type = "clean" -> "markdown"
      [] b.type = "llm_extract" -> "extraction"
      [] OTHER -> ref

(* The reference type after each block. *)
RefsAfter(blocks) ==
    LET ref[i \in 0..Len(blocks)] == IF i = 0 THEN Unset ELSE Produces(blocks[i], ref[i - 1])
    IN ref

(* A JSON rule needs a document, a text rule a page. *)
RulesFit(b, ref) ==
    b.type = "validate" => ref \in (IF b.config = "json" THEN {"json", "extraction"} ELSE Pages)

-----------------------------------------------------------------------------
(* The rules of validate *)

UniqueIds == \A i, j \in Blocks : draft[i].id = draft[j].id => i = j

KnownTypes == \A i \in Blocks : draft[i].type \in CATALOG

(* Only a scrape's url takes a run input, and a declared one. *)
BindingsFit == \A i \in Blocks :
    draft[i].binds # Unset => draft[i].type = "scrape" /\ draft[i].binds \in declared

InputsUsed == \A input \in declared : \E i \in Blocks : draft[i].binds = input

(* Mutant of OneSource: a later scrape that names its predecessor is let in. *)
OneSourceByInput ==
    /\ draft[1].type = "scrape" /\ draft[1].input = NoRef
    /\ \A i \in Blocks \ {1} : draft[i].input # NoRef

OneSource ==
    /\ draft[1].type = "scrape" /\ draft[1].input = NoRef
    /\ \A i \in Blocks \ {1} : draft[i].type # "scrape" /\ draft[i].input # NoRef

Chained == \A i \in Blocks \ {1} :
    draft[i].input # NoRef /\ draft[i].type # "scrape" => draft[i].input = draft[i - 1].id

TypesFit == \A i \in Blocks \ {1} : draft[i].type # "scrape" =>
    /\ RefsAfter(draft)[i - 1] \in Consumes(draft[i])
    /\ RulesFit(draft[i], RefsAfter(draft)[i - 1])

OneWebhook == Cardinality({i \in Blocks : draft[i].type = "webhook"}) <= 1

(* Types and budgets are looked at only in what is a chain. *)
Accepted ==
    /\ Blocks # {} /\ Len(draft) <= MaxBlocks
    /\ UniqueIds /\ KnownTypes /\ BindingsFit /\ InputsUsed /\ OneWebhook
    /\ OneSource /\ Chained
    /\ TypesFit
    /\ RunNeed <= RunBudget /\ RunBudget <= MaxRunSeconds

-----------------------------------------------------------------------------
(* The owner edits, the route saves *)

Flaws(blocks) ==
    LET At(i) == Cardinality({f \in {"type", "id", "input", "binds"} :
            CASE f = "type" -> \/ (blocks[i].type = "scrape") # (i = 1)
                             \/ blocks[i].type \notin CATALOG
              [] f = "id" -> blocks[i].id # i
              [] f = "input" -> blocks[i].input # i - 1
              [] f = "binds" -> blocks[i].binds # Unset /\ blocks[i].type # "scrape"})
    IN MapThenSumSet(At, DOMAIN blocks) + IF Len(blocks) > MaxBlocks THEN 2 ELSE 0

AddBlock ==
    /\ pc = "edit"
    /\ Len(draft) <= MaxBlocks
    /\ \E step \in Steps, id, input \in Ids \cup {NoRef}, binds \in {Unset, "page"} :
         LET b == [id |-> id, type |-> step[1], config |-> step[2], input |-> input,
                   binds |-> binds]
         IN /\ id \in {1, Len(draft) + 1}
            /\ Flaws(Append(draft, b)) <= MaxFlaws
            /\ draft' = Append(draft, b)
    /\ UNCHANGED <<declared, ceiling, pc, why, at, refs, holds, read, spent, granted>>

(* A draft is submitted with a ceiling, or none, and validated. *)
Submit ==
    /\ pc = "edit"
    /\ Blocks # {}
    /\ UNCHANGED <<draft, why, at, refs, holds, read, spent, granted>>
    /\ declared' \in SUBSET {"page"}
    /\ ceiling' \in {-1, RunNeed - 1, RunNeed, MaxRunSeconds, MaxRunSeconds + 1} \ {0}
    /\ pc' = IF Accepted' THEN "saved" ELSE "refused"

(* parse_definition: each stored block has a type and a config that runs. *)
Readable == \A i \in Blocks : draft[i].type \in CATALOG

(* POST .../runs: a definition that cannot be read strands its pipeline; *)
(* inputs other than the declared ones are refused, and may be sent again. *)
Trigger ==
    /\ pc = "saved"
    /\ IF Readable THEN pc' = "run" /\ UNCHANGED why
                   ELSE pc' = "failed" /\ why' = "unreadable"
    /\ UNCHANGED <<draft, declared, ceiling, at, refs, holds, read, spent, granted>>

-----------------------------------------------------------------------------
(* The interpreter *)

Failed(reason) ==
    /\ pc' = "failed"
    /\ why' = reason
    /\ UNCHANGED <<at, refs, holds>>

(* What the workers' objects are, whatever the catalogue says of them. *)
Format(config) == IF config = "render" THEN "markdown" ELSE config
CleanPage == "markdown"
Extraction == "json"

Writes(b) ==
    CASE b.type = "scrape" -> Format(b.config)
      [] b.type = "clean" -> CleanPage
      [] OTHER -> Extraction

(* The Validate worker parses its input as soon as one rule is about JSON. *)
Parses(b, doc) == b.type = "validate" /\ b.config = "json" => doc = "json"

(* The "completed" mirror's effects: the block's reference, and the next block. *)
BlockDone(b, input) ==
    /\ refs' = [refs EXCEPT ![b.id] = IF Content(b) THEN at ELSE input]
    /\ holds' = IF Content(b) THEN [holds EXCEPT ![at] = Writes(b)] ELSE holds
    /\ at' = at + 1
    /\ pc' = IF at = Len(draft) THEN "completed" ELSE "run"
    /\ UNCHANGED why

(* Scrape, clean and extract fail, and a webhook is refused, for reasons of *)
(* the world; a rule may fail whatever it is given.                        *)
BlockFails ==
    /\ Failed("block")
    /\ UNCHANGED <<draft, declared, ceiling, read, spent, granted>>

InputOf(b) == IF b.input = NoRef THEN NoRef ELSE refs[b.input]

(* The time before a block's activity: its "running" mirror, and the wait   *)
(* for the host (the cap and one more acquire); then the activity, the     *)
(* slot's release, the charge and the "completed" mirror.                  *)
RunBlock ==
    /\ pc = "run"
    /\ LET b == draft[at]
           input == InputOf(b)
           scrape == b.type = "scrape"
       IN \E slow \in BOOLEAN :
            LET before == IF slow THEN DbSeconds + (IF scrape THEN WaitCap + SlotSeconds ELSE 0) ELSE 0
                left == RunBudget - spent - before
                toClose == Min({Budget(b), left})
                after == IF slow THEN toClose + 2 * DbSeconds + (IF scrape THEN SlotSeconds ELSE 0)
                         ELSE 0
            IN /\ spent' = spent + before + after
               /\ granted' = [granted EXCEPT ![at] = toClose]
               /\ read' = [read EXCEPT ![at] = input]
               /\ CASE left <= 0 -> Failed("budget spent")
                    [] scrape /\ b.binds # Unset /\ b.binds \notin declared -> Failed("no run input")
                    [] ~scrape /\ input = NoRef -> Failed("no input")
                    [] ~scrape /\ ~Parses(b, holds[input]) -> Failed("not JSON")
                    [] OTHER -> BlockDone(b, input)
    /\ UNCHANGED <<draft, declared, ceiling>>

Done == pc \in {"refused", "completed", "failed"} /\ UNCHANGED definitionVars

DefinitionNext ==
    \/ AddBlock \/ Submit \/ Trigger \/ RunBlock
    \/ pc = "run" /\ BlockFails
    \/ Done

DefinitionSpec == DefinitionInit /\ [][DefinitionNext]_definitionVars

-----------------------------------------------------------------------------
(* Properties *)

DefinitionTypeOK ==
    /\ Len(draft) <= MaxBlocks + 1
    /\ declared \subseteq {"page"} /\ ceiling \in Int
    /\ pc \in {"edit", "refused", "saved", "run", "completed", "failed"}
    /\ why \in {Unset, "block", "budget spent", "no run input", "no input", "not JSON",
               "unreadable"}
    /\ at \in Ids /\ spent \in Nat
    /\ refs \in [Ids -> Ids \cup {NoRef}] /\ read \in [Ids -> Ids \cup {NoRef}]
    /\ holds \in [Ids -> Pages \cup {Unset}] /\ granted \in [Ids -> Int]

(* What is saved runs: a run of an accepted definition fails for what a    *)
(* block does, never for what the definition is -- a type the code cannot  *)
(* read, a run input nobody gives, no input, a document that is not JSON.  *)
AcceptedRuns == DefinitionTypeOK /\ why \in {Unset, "block", "budget spent"}

(* Budgets compose: however slow the blocks before it were, a block's      *)
(* activity gets all the time its retry policy may need (catalog.py:       *)
(* "a shorter schedule_to_close would cut the retry policy off early").    *)
BudgetsCompose ==
    /\ why # "budget spent"
    /\ \A i \in Blocks : granted[i] # 0 => granted[i] >= Budget(draft[i])

(* A run fetches once, first, and each later block reads the object of the  *)
(* nearest content block before it -- which is what a webhook delivers.     *)
ReadsNewest == \A i \in 1..(at - 1) :
    IF i = 1 THEN draft[i].type = "scrape" /\ read[i] = NoRef
    ELSE /\ draft[i].type # "scrape"
         /\ read[i] = Max({j \in 1..(i - 1) : Content(draft[j])})

(* A definition runs as it was saved: it is never refused by the run, and   *)
(* its blocks are wired as its author read them.                            *)
RunsAsSaved == AcceptedRuns /\ ReadsNewest
=============================================================================
