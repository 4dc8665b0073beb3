---------------------------- MODULE MentionStore ----------------------------
(***************************************************************************)
(* How a piece of content becomes a classified mention, once per brand,    *)
(* while several runs look for it at the same time: bp-collector drops     *)
(* what is stored, the orchestrator saves what is left, bp-enricher        *)
(* classifies it through a cache of its own, the orchestrator saves the    *)
(* verdicts and reads the window back.                                     *)
(*                                                                         *)
(* Sources: agents/bp-collector/collector.go, agents/bp-enricher, and      *)
(* steps 4 to 5b of agents/bp-orchestrator/pipeline.go with their          *)
(* statements in store.go.  One brand; a content stands for a content      *)
(* hash, which is per source, so one collector call per run finds it.  A   *)
(* run gives everything it finds a fresh mention id: here the id is the    *)
(* run's, together with the content.                                       *)
(***************************************************************************)
EXTENDS Naturals, FiniteSets

CONSTANTS
    Runs,
    Contents,      \* content hashes
    BatchSize,     \* bp-enricher defaultBatchSize
    MaxAttempts,   \* bp-enricher maxAttempts
    MaxFaults,     \* bound: failed calls and statements, restarts
    NoRun

ASSUME MentionAssumption ==
    /\ IsFiniteSet(Contents)
    /\ BatchSize \in Nat \ {0}
    /\ MaxAttempts \in Nat \ {0}
    /\ MaxFaults \in Nat
    /\ NoRun \notin Runs

VARIABLES
    pc,          \* pc[r]: the next step of run r
    found,       \* found[r]: what the sources returned
    kept,        \* kept[r]: MentionBatch.Mentions, over all the collectors
    log,         \* log[r]: runLog is not empty
    job,         \* job[r]: bp-enricher's side of the call
    reply,       \* reply[r]: the enrichments the orchestrator got
    analysed,    \* analysed[r]: the verdicts the later steps are given
    mentions,    \* mentions[c]: the run whose id the row has, or NoRun
    enrichment,  \* enrichment[c]: the verdict stored for that row
    cached,      \* bp-enricher's cache
    faults

vars == <<pc, found, kept, log, job, reply, analysed, mentions, enrichment,
          cached, faults>>

(* "answer" is what the model said, "neutral" what stands in for it.        *)
Verdicts == {"none", "answer", "neutral"}
Unknown == [c \in Contents |-> "none"]

Job == [at: {"off", "lookup", "batch", "over"}, todo: SUBSET Contents,
        batch: SUBSET Contents, given: SUBSET Contents, attempt: 0..MaxAttempts,
        out: [Contents -> Verdicts], errors: BOOLEAN]
NoJob == [at |-> "off", todo |-> {}, batch |-> {}, given |-> {}, attempt |-> 0,
          out |-> Unknown, errors |-> FALSE]

Active == {"collect", "save", "ask", "wait", "persist", "window"}

TypeOK ==
    /\ pc \in [Runs -> {"idle", "done", "dead"} \cup Active]
    /\ found \in [Runs -> SUBSET Contents]
    /\ kept \in [Runs -> SUBSET Contents]
    /\ log \in [Runs -> BOOLEAN]
    /\ job \in [Runs -> Job]
    /\ reply \in [Runs -> [Contents -> Verdicts]]
    /\ analysed \in [Runs -> [Contents -> Verdicts]]
    /\ mentions \in [Contents -> Runs \cup {NoRun}]
    /\ enrichment \in [Contents -> Verdicts]
    /\ cached \in [Contents -> Verdicts]
    /\ faults \in 0..MaxFaults

Init ==
    /\ pc = [r \in Runs |-> "idle"]
    /\ found = [r \in Runs |-> {}]
    /\ kept = [r \in Runs |-> {}]
    /\ log = [r \in Runs |-> FALSE]
    /\ job = [r \in Runs |-> NoJob]
    /\ reply = [r \in Runs |-> Unknown]
    /\ analysed = [r \in Runs |-> Unknown]
    /\ mentions = [c \in Contents |-> NoRun]
    /\ enrichment = Unknown
    /\ cached = Unknown
    /\ faults = 0

Goto(r, from, to) ==
    /\ pc[r] = from
    /\ pc' = [pc EXCEPT ![r] = to]

Fault == faults < MaxFaults /\ faults' = faults + 1

(* A failure that the run notes and survives.                               *)
Failure(r) ==
    /\ log' = [log EXCEPT ![r] = TRUE]
    /\ Fault

Smooth == UNCHANGED <<log, faults>>

tables == <<mentions, enrichment>>

-----------------------------------------------------------------------------
(* Step 4: the collectors.                                                  *)

StartRun(r) ==
    /\ Goto(r, "idle", "collect")
    /\ UNCHANGED <<found, kept, job, reply, analysed, tables, cached>> /\ Smooth

(* A collector has c in its batch: withoutStored looks it up, now; another  *)
(* collector's lookup is at another time.  A lookup that fails keeps it; a  *)
(* collector whose answer never comes loses it.                             *)
Find(r, c) ==
    /\ pc[r] = "collect"
    /\ c \notin found[r]
    /\ found' = [found EXCEPT ![r] = @ \cup {c}]
    /\ \/ /\ kept' = [kept EXCEPT ![r] = @ \cup {d \in {c} : mentions[d] = NoRun}]
          /\ Smooth
       \/ /\ kept' \in {kept, [kept EXCEPT ![r] = @ \cup {c}]}
          /\ Failure(r)
    /\ UNCHANGED <<pc, job, reply, analysed, tables, cached>>

(* Every collector has answered.  With nothing kept there is nothing to     *)
(* save or to classify.                                                     *)
CollectDone(r) ==
    /\ Goto(r, "collect", IF kept[r] = {} THEN "window" ELSE "save")
    /\ UNCHANGED <<found, kept, job, reply, analysed, tables, cached>> /\ Smooth

(* SaveMentions: one transaction, ON CONFLICT (content_hash) DO NOTHING.    *)
(* A failure may leave it committed, its answer lost.                       *)
Saved(r) ==
    [c \in Contents |->
        IF c \in kept[r] /\ mentions[c] = NoRun THEN r ELSE mentions[c]]
SaveMentions(r) ==
    /\ Goto(r, "save", "ask")
    /\ \/ /\ mentions' = Saved(r)
          /\ Smooth
       \/ /\ mentions' \in {mentions, Saved(r)}
          /\ Failure(r)
    /\ UNCHANGED <<found, kept, job, reply, analysed, enrichment, cached>>

-----------------------------------------------------------------------------
(* Step 5: bp-enricher, a process of its own, shared by every run.          *)

CallEnricher(r) ==
    /\ Goto(r, "ask", "wait")
    /\ job' = [job EXCEPT ![r] = [NoJob EXCEPT !.at = "lookup", !.todo = kept[r]]]
    /\ UNCHANGED <<found, kept, reply, analysed, tables, cached>> /\ Smooth

(* Handle: the mentions whose content is cached are answered from there.    *)
LookUp(r) ==
    /\ job[r].at = "lookup"
    /\ LET hits == {c \in job[r].todo : cached[c] # "none"}
       IN  job' = [job EXCEPT
                     ![r].at = "batch",
                     ![r].todo = @ \ hits,
                     ![r].out = [c \in Contents |->
                                   IF c \in hits THEN cached[c] ELSE "none"]]
    /\ UNCHANGED <<pc, found, kept, reply, analysed, tables, cached>> /\ Smooth

(* slices.Chunk: the next at most BatchSize mentions.                       *)
NextBatch(r) ==
    /\ job[r].at = "batch"
    /\ job[r].batch \cup job[r].given = {}
    /\ \E b \in SUBSET job[r].todo :
          /\ b # {}
          /\ Cardinality(b) <= BatchSize
          /\ b # job[r].todo => Cardinality(b) = BatchSize
          /\ job' = [job EXCEPT ![r].batch = b, ![r].todo = @ \ b, ![r].attempt = 0]
    /\ UNCHANGED <<pc, found, kept, reply, analysed, tables, cached>> /\ Smooth

(* Mutant: one attempt too many.                                            *)
AttemptOnceMore(r) ==
    /\ job[r].at = "batch"
    /\ job[r].batch # {}
    /\ job[r].attempt <= MaxAttempts
    /\ \E got \in SUBSET job[r].batch :
          /\ job' = [job EXCEPT ![r].batch = @ \ got, ![r].given = @ \cup got,
                                ![r].attempt = @ + 1]
          /\ IF got = job[r].batch THEN UNCHANGED faults ELSE Fault
    /\ UNCHANGED <<pc, found, kept, log, reply, analysed, tables, cached>>

(* classify: one LLM call about what is still unanswered.  The reply covers *)
(* all of it or, the call failing or the reply being short, less.           *)
Attempt(r) ==
    /\ job[r].at = "batch"
    /\ job[r].batch # {}
    /\ job[r].attempt < MaxAttempts
    /\ \E got \in SUBSET job[r].batch :
          /\ job' = [job EXCEPT ![r].batch = @ \ got, ![r].given = @ \cup got,
                                ![r].attempt = @ + 1]
          /\ IF got = job[r].batch THEN UNCHANGED faults ELSE Fault
    /\ UNCHANGED <<pc, found, kept, log, reply, analysed, tables, cached>>

(* Handle, after classify: what was answered is cached; what was not is     *)
(* neutral, named in Errors, and not cached.                                *)
Degraded(r) == job[r].batch
(* Mutant: the neutrals are cached with the rest.                           *)
CacheWholeBatch(r) ==
    /\ job[r].at = "batch"
    /\ job[r].batch \cup job[r].given # {}
    /\ job[r].batch = {} \/ job[r].attempt = MaxAttempts
    /\ LET Given(c, old) == IF c \in job[r].given THEN "answer"
                            ELSE IF c \in job[r].batch THEN "neutral" ELSE old
       IN  /\ cached' = [c \in Contents |-> Given(c, cached[c])]
           /\ job' = [job EXCEPT
                        ![r].batch = {}, ![r].given = {},
                        ![r].errors = @ \/ job[r].batch # {},
                        ![r].out = [c \in Contents |-> Given(c, @[c])]]
    /\ UNCHANGED <<pc, found, kept, reply, analysed, tables>> /\ Smooth

CacheBatch(r) ==
    /\ job[r].at = "batch"
    /\ job[r].batch \cup job[r].given # {}
    /\ job[r].batch = {} \/ job[r].attempt = MaxAttempts
    /\ cached' = [c \in Contents |-> IF c \in job[r].given THEN "answer" ELSE cached[c]]
    /\ job' = [job EXCEPT
                 ![r].batch = {}, ![r].given = {},
                 ![r].errors = @ \/ Degraded(r) # {},
                 ![r].out = [c \in Contents |->
                               IF c \in job[r].given THEN "answer"
                               ELSE IF c \in Degraded(r) THEN "neutral" ELSE @[c]]]
    /\ UNCHANGED <<pc, found, kept, reply, analysed, tables>> /\ Smooth

EnricherDone(r) ==
    /\ job[r].at = "batch"
    /\ job[r].todo \cup job[r].batch \cup job[r].given = {}
    /\ job' = [job EXCEPT ![r].at = "over"]
    /\ UNCHANGED <<pc, found, kept, reply, analysed, tables, cached>> /\ Smooth

(* Mutant: the errors in the batch are not read.                            *)
TakeReplyQuietly(r) ==
    /\ Goto(r, "wait", "persist")
    /\ job[r].at = "over"
    /\ reply' = [reply EXCEPT ![r] = job[r].out]
    /\ job' = [job EXCEPT ![r] = NoJob]
    /\ UNCHANGED <<found, kept, log, analysed, tables, cached, faults>>

(* The orchestrator gets the batch, and logs the errors in it.              *)
TakeReply(r) ==
    /\ Goto(r, "wait", "persist")
    /\ job[r].at = "over"
    /\ reply' = [reply EXCEPT ![r] = job[r].out]
    /\ log' = [log EXCEPT ![r] = @ \/ job[r].errors]
    /\ job' = [job EXCEPT ![r] = NoJob]
    /\ UNCHANGED <<found, kept, analysed, tables, cached, faults>>

(* Mutant: the failed call is not logged.                                   *)
CallFailsQuietly(r) ==
    /\ Goto(r, "wait", "window")
    /\ Fault
    /\ UNCHANGED <<found, kept, log, job, reply, analysed, tables, cached>>

(* The call fails or times out.  bp-enricher may go on with it.             *)
CallFails(r) ==
    /\ Goto(r, "wait", "window")
    /\ Failure(r)
    /\ UNCHANGED <<found, kept, job, reply, analysed, tables, cached>>

(* SaveEnrichments: one transaction; WHERE EXISTS a mention with this very  *)
(* id, ON CONFLICT (mention_id) DO NOTHING.                                 *)
Enriched(r) ==
    [c \in Contents |->
        IF reply[r][c] # "none" /\ mentions[c] = r /\ enrichment[c] = "none"
        THEN reply[r][c] ELSE enrichment[c]]

(* Mutant: the failed transaction is not logged.                            *)
SaveEnrichmentsQuietly(r) ==
    /\ Goto(r, "persist", "window")
    /\ \/ /\ enrichment' = Enriched(r)
          /\ Smooth
       \/ /\ Fault
          /\ UNCHANGED <<log, enrichment>>
    /\ UNCHANGED <<found, kept, job, reply, analysed, mentions, cached>>

SaveEnrichments(r) ==
    /\ Goto(r, "persist", "window")
    /\ \/ /\ enrichment' = Enriched(r)
          /\ Smooth
       \/ /\ enrichment' \in {enrichment, Enriched(r)}
          /\ Failure(r)
    /\ UNCHANGED <<found, kept, job, reply, analysed, mentions, cached>>

-----------------------------------------------------------------------------
(* Step 5b, EnrichedInWindow: the classified mentions of the window, whoever*)
(* collected them; if the read fails, the run's own.                        *)
ReadWindow(r) ==
    /\ Goto(r, "window", "done")
    /\ \/ /\ analysed' = [analysed EXCEPT ![r] = enrichment]
          /\ Smooth
       \/ /\ analysed' = [analysed EXCEPT ![r] = reply[r]]
          /\ Failure(r)
    /\ UNCHANGED <<found, kept, job, reply, tables, cached>>

(* The orchestrator dies with every run in flight.                          *)
Crash ==
    /\ Fault
    /\ pc' = [r \in Runs |-> IF pc[r] \in Active THEN "dead" ELSE pc[r]]
    /\ UNCHANGED <<found, kept, log, job, reply, analysed, tables, cached>>

(* bp-enricher restarts: the cache and the calls it was serving are gone.   *)
EnricherRestarts ==
    /\ Fault
    /\ cached' = Unknown
    /\ job' = [r \in Runs |-> NoJob]
    /\ UNCHANGED <<pc, found, kept, log, reply, analysed, tables>>

Orchestrate(r) ==
    \/ StartRun(r) \/ CollectDone(r) \/ SaveMentions(r) \/ CallEnricher(r)
    \/ TakeReply(r) \/ CallFails(r) \/ SaveEnrichments(r) \/ ReadWindow(r)
    \/ \E c \in Contents : Find(r, c)

Enricher(r) ==
    \/ LookUp(r) \/ NextBatch(r) \/ Attempt(r) \/ CacheBatch(r) \/ EnricherDone(r)

Next ==
    \/ \E r \in Runs : Orchestrate(r) \/ Enricher(r)
    \/ Crash
    \/ EnricherRestarts

Spec == Init /\ [][Next]_vars

-----------------------------------------------------------------------------
(* Properties.                                                              *)

(* bp-enricher's cache never holds a stand-in for an answer, and never for  *)
(* a content that nobody has kept.                                          *)
CacheHoldsAnswers ==
    \A c \in Contents : cached[c] # "none" =>
        cached[c] = "answer" /\ \E r \in Runs : c \in kept[r]

(* A stored mention that has no verdict, or a neutral in place of one, is   *)
(* accounted for: the run whose row it is has not finished, or it says in   *)
(* its errors that something failed, or it died.                            *)
GapIsReported ==
    \A c \in Contents : mentions[c] # NoRun /\ enrichment[c] # "answer" =>
        pc[mentions[c]] # "done" \/ log[mentions[c]]

(* A run that found a content, has no error, and is about to analyse a      *)
(* window without it, owes that to another run: the content is that run's   *)
(* row, and that run is still at work on it, or has failed it.              *)
Missed(r) == {c \in found[r] : analysed'[r][c] = "none"}
SilentMissNeedsAnotherRun ==
    [][\A r \in Runs : ReadWindow(r) /\ ~ log'[r] =>
          \A c \in Missed(r) :
              LET owner == mentions[c]
              IN  owner \in Runs \ {r} /\ (pc[owner] # "done" \/ log[owner])]_vars

(* A verdict that analysis was given for a mention the run itself stored is *)
(* the one in the table, or the run logs that it could not store or read.   *)
OwnVerdictIsStored ==
    \A r \in Runs, c \in Contents :
        pc[r] = "done" /\ ~ log[r] /\ mentions[c] = r =>
            analysed[r][c] = "answer" /\ enrichment[c] = "answer"

(* agents/bp-enricher/handler.go: a degraded neutral is a placeholder, and  *)
(* later runs ask for the mention again.  Here: what a later run, free of   *)
(* errors, analyses of what it found is what the model answered.            *)
LaterRunsAskAgain ==
    \A r \in Runs : pc[r] = "done" /\ ~ log[r] =>
        \A c \in found[r] : analysed[r][c] # "neutral"

=============================================================================
