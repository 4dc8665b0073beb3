---------------------------- MODULE Orchestrator ----------------------------
(***************************************************************************)
(* bp-orchestrator (src/agents/bp-orchestrator/pipeline.go, store.go):     *)
(* the life of one run of the pipeline for one brand, from the trigger to  *)
(* the runs row, with any number of triggers handled at the same time over *)
(* one Postgres.                                                           *)
(*                                                                         *)
(* One action per statement on the runs table and one per later step of    *)
(* the pipeline.  What the steps pass along (mentions, alerts) is reduced  *)
(* to "is there any", which is what the control flow branches on;          *)
(* MentionStore.tla and AlertBook.tla model that data, statement by        *)
(* statement.                                                              *)
(***************************************************************************)
EXTENDS Naturals, FiniteSets

CONSTANTS
    Invocations,   \* A2A requests to Handle; request i mints the run id i
    Kinds,         \* models.RunKind
    DailyKinds,    \* the kinds whose bucket is the day
    HoursPerDay,
    MaxHour,       \* bound: the clock stops at this hour
    Sources,       \* distinct sources of the brand's confirmed profile
    FanOutCap,     \* sources.go fanOutCap
    MaxFaults,     \* bound: failed statements, failed calls and crashes
    NoRun          \* not a run id

ASSUME OrchestratorAssumption ==
    /\ DailyKinds \subseteq Kinds
    /\ HoursPerDay \in Nat \ {0}
    /\ MaxHour \in Nat
    /\ FanOutCap \in Nat
    /\ MaxFaults \in Nat
    /\ IsFiniteSet(Sources)
    /\ NoRun \notin Invocations

VARIABLES
    clock,     \* h.Now(), in hours
    rows,      \* the runs table, by its unique key
    pc,        \* pc[i]: the next statement of the handling of request i
    req,       \* req[i]: RunInput.Trigger and RunInput.Force
    slot,      \* slot[i]: (kind, bucket), computed once from the clock
    runId,     \* runId[i]: the id i executes under, NoRun while it owns nothing
    chosen,    \* chosen[i]: run.SourcesAttempted
    result,    \* result[i][s]: what the collector call for source s came to
    log,       \* log[i]: runLog is not empty
    held,      \* held[i]: what the steps have in hand for the later ones
    answer,    \* answer[i]: the RunRecord that Handle returns
    faults     \* how many things have gone wrong so far

vars == <<clock, rows, pc, req, slot, runId, chosen, result, log, held,
          answer, faults>>

-----------------------------------------------------------------------------
(* Types.                                                                   *)

Final == {"ok", "partial", "failed"}
Status == {"running"} \cup Final

(* The columns of a runs row that a property looks at: errors and degraded  *)
(* say that the column is not empty.                                        *)
Record == [id: Invocations, status: Status, errors: BOOLEAN, degraded: BOOLEAN]
NoRecord == [id |-> NoRun, status |-> "none", errors |-> FALSE, degraded |-> FALSE]

(* DayBucket for a scheduled or an onboarding run, HourBucket otherwise.    *)
BucketFor(kind, hour) ==
    IF kind \in DailyKinds THEN hour \div HoursPerDay ELSE hour

Slots == {<<k, BucketFor(k, h)>> : k \in Kinds, h \in 0..MaxHour}
NoSlot == <<>>

(* What a finished collector call can be, as collect() reads it.            *)
(*   down: transport or task error     broken: errors and no mentions       *)
(*   partial: errors, with mentions    quiet: nothing found, no error       *)
(*   ok: mentions, no error                                                 *)
(* bp-collector never sets Truncated without an error beside it, so the     *)
(* line collect() adds for it makes no further case.                        *)
Outcomes == {"down", "broken", "partial", "quiet", "ok"}

Settled == {"refused", "returned", "dead"}
Executing == {"plan", "collect", "enrich", "window", "analyse", "respond",
              "brief", "yield", "finish"}
Labels == {"idle", "claim", "find"} \cup Executing \cup Settled

TypeOK ==
    /\ clock \in 0..MaxHour
    /\ rows \in [Slots -> Record \cup {NoRecord}]
    /\ pc \in [Invocations -> Labels]
    /\ req \in [Invocations -> [kind: Kinds, force: BOOLEAN]]
    /\ slot \in [Invocations -> Slots \cup {NoSlot}]
    /\ runId \in [Invocations -> Invocations \cup {NoRun}]
    /\ chosen \in [Invocations -> SUBSET Sources]
    /\ result \in [Invocations -> [Sources -> Outcomes \cup {"none"}]]
    /\ log \in [Invocations -> BOOLEAN]
    /\ held \in [Invocations -> SUBSET {"enriched", "alerts"}]
    /\ answer \in [Invocations -> Record \cup {NoRecord}]
    /\ faults \in 0..MaxFaults

-----------------------------------------------------------------------------
(* State functions of one execution.                                        *)

(* Mutant: a source with mentions and errors counts as failed.              *)
FailedIfAnyError(i) == {s \in chosen[i] : result[i][s] \in {"down", "broken", "partial"}}

Failed(i) == {s \in chosen[i] : result[i][s] \in {"down", "broken"}}
Reported(i) == {s \in chosen[i] : result[i][s] \notin {"none", "down"}}
GotMentions(i) == \E s \in chosen[i] : result[i][s] \in {"partial", "ok"}
Skipped(i) == Sources \ chosen[i]

(* finalStatus(run, attempted, failed), with run.Errors given as a flag.    *)
FinalStatus(i, errors) ==
    IF chosen[i] # {} /\ Failed(i) = chosen[i] THEN "failed"
    ELSE IF errors \/ Skipped(i) # {} THEN "partial"
    ELSE "ok"

(* The row of the run that i executes: FinishRun is WHERE id = run.ID.      *)
RowOf(id) == {s \in Slots : rows[s].id = id}

-----------------------------------------------------------------------------
Init ==
    /\ clock = 0
    /\ rows = [s \in Slots |-> NoRecord]
    /\ pc = [i \in Invocations |-> "idle"]
    /\ req \in [Invocations -> [kind: Kinds, force: BOOLEAN]]
    /\ slot = [i \in Invocations |-> NoSlot]
    /\ runId = [i \in Invocations |-> NoRun]
    /\ chosen = [i \in Invocations |-> {}]
    /\ result = [i \in Invocations |-> [s \in Sources |-> "none"]]
    /\ log = [i \in Invocations |-> FALSE]
    /\ held = [i \in Invocations |-> {}]
    /\ answer = [i \in Invocations |-> NoRecord]
    /\ faults = 0

Goto(i, from, to) ==
    /\ pc[i] = from
    /\ pc' = [pc EXCEPT ![i] = to]

Fault(n) ==
    /\ faults + n <= MaxFaults
    /\ faults' = faults + n

(* runLog.addf, when the step at hand met a failure.                        *)
Logged(i, faulty) ==
    /\ log' = [log EXCEPT ![i] = @ \/ faulty]
    /\ Fault(IF faulty THEN 1 ELSE 0)

request == <<req, slot, runId>>

-----------------------------------------------------------------------------
(* Steps 1 and 2: Handle, claim, ClaimRun, findRun.                         *)

(* Mutant: the bucket is rounded up.                                        *)
HandleRoundingUp(i) ==
    /\ Goto(i, "idle", "claim")
    /\ slot' = [slot EXCEPT ![i] = <<req[i].kind, BucketFor(req[i].kind, clock + 1)>>]
    /\ UNCHANGED <<clock, rows, req, runId, chosen, result, log, held, answer, faults>>

(* Handle reads the clock once; the bucket is fixed from here on, however   *)
(* late the insert is.                                                      *)
Handle(i) ==
    /\ Goto(i, "idle", "claim")
    /\ slot' = [slot EXCEPT ![i] = <<req[i].kind, BucketFor(req[i].kind, clock)>>]
    /\ UNCHANGED <<clock, rows, req, runId, chosen, result, log, held, answer, faults>>

(* Malformed input, no confirmed profile, or a failed statement of the      *)
(* claim: Handle returns the error and no record.                           *)
Refuse(i) ==
    /\ pc[i] \in {"idle", "claim", "find"}
    /\ pc' = [pc EXCEPT ![i] = "refused"]
    /\ UNCHANGED <<clock, rows, request, chosen, result, log, held, answer, faults>>

(* The row an insert by request i puts in the table.                        *)
FreshRow(i) == [id |-> i, status |-> "running", errors |-> FALSE, degraded |-> FALSE]

(* Mutant: ON CONFLICT DO UPDATE, so that every insert returns its id.      *)
ClaimUpsert(i) ==
    /\ Goto(i, "claim", "plan")
    /\ rows' = [rows EXCEPT ![slot[i]] = FreshRow(i)]
    /\ runId' = [runId EXCEPT ![i] = i]
    /\ UNCHANGED <<clock, req, slot, chosen, result, log, held, answer, faults>>

(* INSERT ... ON CONFLICT DO NOTHING RETURNING id: the row is new.          *)
ClaimInsert(i) ==
    /\ Goto(i, "claim", "plan")
    /\ rows[slot[i]] = NoRecord
    /\ rows' = [rows EXCEPT ![slot[i]] = FreshRow(i)]
    /\ runId' = [runId EXCEPT ![i] = i]
    /\ UNCHANGED <<clock, req, slot, chosen, result, log, held, answer, faults>>

(* The same INSERT committed, and its answer lost with the connection:      *)
(* Handle returns the error, and the row is nobody's.                       *)
ClaimLost(i) ==
    /\ Goto(i, "claim", "refused")
    /\ Fault(1)
    /\ rows[slot[i]] = NoRecord
    /\ rows' = [rows EXCEPT ![slot[i]] = FreshRow(i)]
    /\ UNCHANGED <<clock, request, chosen, result, log, held, answer>>

(* The same INSERT losing to the unique constraint.                         *)
ClaimConflict(i) ==
    /\ Goto(i, "claim", "find")
    /\ rows[slot[i]] # NoRecord
    /\ UNCHANGED <<clock, rows, request, chosen, result, log, held, answer, faults>>

(* Mutant: the row comes back under the id this request minted.             *)
ReturnUnderOwnId(i) ==
    /\ ~ req[i].force
    /\ Goto(i, "find", "returned")
    /\ answer' = [answer EXCEPT ![i] = [rows[slot[i]] EXCEPT !.id = i]]
    /\ UNCHANGED <<clock, rows, request, chosen, result, log, held, faults>>

(* findRun, not forced: the row is returned as it is read now.              *)
ReturnExisting(i) ==
    /\ ~ req[i].force
    /\ Goto(i, "find", "returned")
    /\ answer' = [answer EXCEPT ![i] = rows[slot[i]]]
    /\ UNCHANGED <<clock, rows, request, chosen, result, log, held, faults>>

(* Mutant: the forced run keeps the id it minted.                           *)
AdoptUnderOwnId(i) ==
    /\ req[i].force
    /\ Goto(i, "find", "plan")
    /\ runId' = [runId EXCEPT ![i] = i]
    /\ UNCHANGED <<clock, rows, req, slot, chosen, result, log, held, answer, faults>>

(* findRun, forced: the row's id is adopted and the run starts again.  The  *)
(* row itself is not touched, and nobody asks whether it is still running.  *)
AdoptForced(i) ==
    /\ req[i].force
    /\ Goto(i, "find", "plan")
    /\ runId' = [runId EXCEPT ![i] = rows[slot[i]].id]
    /\ UNCHANGED <<clock, rows, req, slot, chosen, result, log, held, answer, faults>>

-----------------------------------------------------------------------------
(* Step 3: SourceYield, chooseSources, CreditBudget, splitCredits.  Which   *)
(* sources rank first is yesterday's yield, which this module does not      *)
(* hold: any FanOutCap of them.  A read that fails, and a split that leaves *)
(* 0 credits each, is logged.                                               *)
ChooseSources(i) ==
    /\ Goto(i, "plan", "collect")
    /\ \E cs \in SUBSET Sources, faulty \in BOOLEAN :
          /\ Cardinality(cs) = IF Cardinality(Sources) <= FanOutCap
                               THEN Cardinality(Sources) ELSE FanOutCap
          /\ chosen' = [chosen EXCEPT ![i] = cs]
          /\ Logged(i, faulty)
    /\ UNCHANGED <<clock, rows, request, result, held, answer>>

(* Step 4: one bp-collector call per source, all in flight together.  An    *)
(* answer is taken under the mutex, in whatever order the calls end.        *)
CollectorAnswers(i, s) ==
    /\ pc[i] = "collect"
    /\ s \in chosen[i]
    /\ result[i][s] = "none"
    /\ \E outcome \in Outcomes :
          /\ result' = [result EXCEPT ![i][s] = outcome]
          /\ Logged(i, outcome \in {"down", "broken", "partial"})
    /\ UNCHANGED <<clock, rows, pc, request, chosen, held, answer>>

(* Mutant: an unreachable collector is waited for.                          *)
CollectDoneWhenReached(i) ==
    /\ Goto(i, "collect", "enrich")
    /\ chosen[i] \subseteq Reported(i)
    /\ UNCHANGED <<clock, rows, request, chosen, result, log, held, answer, faults>>

(* g.Wait(): every call has ended, well or badly.                           *)
CollectDone(i) ==
    /\ Goto(i, "collect", "enrich")
    /\ \A s \in chosen[i] : result[i][s] # "none"
    /\ UNCHANGED <<clock, rows, request, chosen, result, log, held, answer, faults>>

(* Mutant: a run without mentions gets no further.                          *)
EnrichSomething(i) ==
    /\ GotMentions(i)
    /\ Goto(i, "enrich", "window")
    /\ held' = [held EXCEPT ![i] = {"enriched"}]
    /\ UNCHANGED <<clock, rows, request, chosen, result, log, answer, faults>>

(* Step 5: SaveMentions, the bp-enricher call, SaveEnrichments, all skipped *)
(* without mentions.  An error of any of them, an error inside the batch    *)
(* and a mention nobody classified are logged, and the run goes on with     *)
(* what was classified.                                                     *)
Enrich(i) ==
    /\ Goto(i, "enrich", "window")
    /\ \E some, faulty \in BOOLEAN :
          /\ IF GotMentions(i) THEN some \/ faulty ELSE ~ some /\ ~ faulty
          /\ held' = [held EXCEPT ![i] = IF some THEN {"enriched"} ELSE {}]
          /\ Logged(i, faulty)
    /\ UNCHANGED <<clock, rows, request, chosen, result, answer>>

(* Step 5b: the window replaces what the run holds, which may be more       *)
(* (other runs' mentions) or nothing; if the read fails it keeps its own.   *)
ReadWindow(i) ==
    /\ Goto(i, "window", "analyse")
    /\ \/ /\ \E h \in {{}, {"enriched"}} : held' = [held EXCEPT ![i] = h]
          /\ Logged(i, FALSE)
       \/ /\ Logged(i, TRUE)
          /\ UNCHANGED held
    /\ UNCHANGED <<clock, rows, request, chosen, result, answer>>

(* Step 6: clusterer, share of voice and detector in parallel, SaveTopics   *)
(* and SaveAlerts, nothing at all on an empty window.  The three share only *)
(* the log, so what they come to is one step.                               *)
Analyse(i) ==
    /\ Goto(i, "analyse", "respond")
    /\ \E found \in {{}, {"alerts"}}, faulty \in BOOLEAN :
          /\ found # {} \/ faulty => "enriched" \in held[i]
          /\ held' = [held EXCEPT ![i] = found]
          /\ Logged(i, faulty)
    /\ UNCHANGED <<clock, rows, request, chosen, result, answer>>

(* Step 7: a bp-responder call per urgent, on-brand alert, if there is one, *)
(* and SaveDrafts.                                                          *)
Respond(i) ==
    /\ Goto(i, "respond", "brief")
    /\ \E faulty \in BOOLEAN :
          /\ faulty => "alerts" \in held[i]
          /\ Logged(i, faulty)
    /\ held' = [held EXCEPT ![i] = {}]
    /\ UNCHANGED <<clock, rows, request, chosen, result, answer>>

(* Step 8: the prior count, the briefer call and SaveBrief may each fail.   *)
WriteBrief(i) ==
    /\ Goto(i, "brief", "yield")
    /\ \E faulty \in BOOLEAN : Logged(i, faulty)
    /\ UNCHANGED <<clock, rows, request, chosen, result, held, answer>>

-----------------------------------------------------------------------------
(* Step 9.  Errors and Status are computed first.  RecordSourceYield comes  *)
(* after; its failure is appended to Errors and the status stays.           *)
RecordSourceYield(i) ==
    /\ Goto(i, "yield", "finish")
    /\ \E fails \in BOOLEAN :
          /\ fails => Reported(i) # {}
          /\ Fault(IF fails THEN 1 ELSE 0)
          /\ answer' = [answer EXCEPT ![i] =
                [id |-> runId[i], status |-> FinalStatus(i, log[i]),
                 errors |-> log[i] \/ fails, degraded |-> Skipped(i) # {}]]
    /\ UNCHANGED <<clock, rows, request, chosen, result, log, held>>

(* What the goroutine of an execution held is gone with it.                 *)
Forget(S) ==
    /\ chosen' = [i \in Invocations |-> IF i \in S THEN {} ELSE chosen[i]]
    /\ result' = [i \in Invocations |->
                    IF i \in S THEN [s \in Sources |-> "none"] ELSE result[i]]
    /\ log' = [i \in Invocations |-> i \notin S /\ log[i]]
    /\ held' = [i \in Invocations |-> IF i \in S THEN {} ELSE held[i]]

(* UPDATE runs ... WHERE id = run.ID.                                       *)
Updated(i) == [s \in Slots |-> IF s \in RowOf(runId[i]) THEN answer[i] ELSE rows[s]]

(* Mutant: the UPDATE leaves out the status column.                         *)
FinishRunButStatus(i) ==
    /\ Goto(i, "finish", "returned")
    /\ rows' = [s \in Slots |-> IF s \in RowOf(runId[i])
                                THEN [answer[i] EXCEPT !.status = rows[s].status]
                                ELSE rows[s]]
    /\ Forget({i})
    /\ UNCHANGED <<clock, request, answer, faults>>

FinishRun(i) ==
    /\ Goto(i, "finish", "returned")
    /\ rows' = Updated(i)
    /\ Forget({i})
    /\ UNCHANGED <<clock, request, answer, faults>>

(* The UPDATE fails, or is committed and its answer lost: only the returned *)
(* record learns of it.                                                     *)
FinishRunFails(i) ==
    /\ Goto(i, "finish", "returned")
    /\ Fault(1)
    /\ rows' \in {rows, Updated(i)}
    /\ answer' = [answer EXCEPT ![i].errors = TRUE]
    /\ Forget({i})
    /\ UNCHANGED <<clock, request>>

-----------------------------------------------------------------------------
(* The environment: time, and a crash of the process with every request     *)
(* in flight.                                                               *)
Tick ==
    /\ clock < MaxHour
    /\ clock' = clock + 1
    /\ UNCHANGED <<rows, pc, request, chosen, result, log, held, answer, faults>>

Crash ==
    /\ Fault(1)
    /\ LET lost == {i \in Invocations : pc[i] \notin {"idle"} \cup Settled}
       IN  /\ pc' = [i \in Invocations |-> IF i \in lost THEN "dead" ELSE pc[i]]
           /\ Forget(lost)
    /\ UNCHANGED <<clock, rows, request, answer>>

Claim(i) == ClaimInsert(i) \/ ClaimConflict(i) \/ ReturnExisting(i) \/ AdoptForced(i)

Execute(i) ==
    \/ ChooseSources(i)
    \/ \E s \in Sources : CollectorAnswers(i, s)
    \/ CollectDone(i)
    \/ Enrich(i) \/ ReadWindow(i) \/ Analyse(i) \/ Respond(i) \/ WriteBrief(i)
    \/ RecordSourceYield(i) \/ FinishRun(i) \/ FinishRunFails(i)

Next ==
    \/ \E i \in Invocations :
          Handle(i) \/ Refuse(i) \/ ClaimLost(i) \/ Claim(i) \/ Execute(i)
    \/ Tick
    \/ Crash

(* Go schedules every request's goroutine, and every peer call ends: a2a    *)
(* callers give up after their own timeout.  Nothing makes a trigger come,  *)
(* the clock move or the process crash.                                     *)
Fairness == \A i \in Invocations : WF_vars(Claim(i) \/ Execute(i))

Spec == Init /\ [][Next]_vars
FairSpec == Spec /\ Fairness

-----------------------------------------------------------------------------
(* Properties.                                                              *)

Owns(i, s) == slot[i] = s /\ runId[i] # NoRun

(* Two triggers arriving in the same millisecond cannot both believe they   *)
(* won: of the requests for one bucket that did not ask for Force, at most  *)
(* one ever executes, and it is the one whose id is in the row.             *)
OneUnforcedRunPerBucket ==
    \A s \in Slots : \A i, j \in Invocations :
        Owns(i, s) /\ Owns(j, s) /\ ~ req[i].force /\ ~ req[j].force => i = j

(* Whoever executes a bucket, forced or not, does it under the id that is   *)
(* in the bucket's row, so its FinishRun hits that row and no other.        *)
OwnersShareTheRowId ==
    \A i \in Invocations :
        runId[i] # NoRun => RowOf(runId[i]) = {slot[i]}

(* The record about to be written: "ok" stands for an execution in which    *)
(* every source of the profile was called and answered without an error;    *)
(* "failed" for one that got no mention from anywhere, which a quiet source *)
(* alone never causes.                                                      *)
HonestStatus(i) ==
    /\ answer[i].status = "ok" =>
          \A s \in Sources : s \in chosen[i] /\ result[i][s] \in {"ok", "quiet"}
    /\ answer[i].status = "failed" =>
          ~ GotMentions(i) /\ \E s \in Sources : result[i][s] \in {"down", "broken"}
StatusMatchesSources ==
    \A i \in Invocations : pc[i] = "finish" => HonestStatus(i)

(* A row is left running only while some execution of it is in flight, or   *)
(* because an execution died, could not write it, or never learnt that it   *)
(* had claimed it.                                                          *)
Abandoned(s) ==
    \E i \in Invocations :
        \/ Owns(i, s) /\ (pc[i] = "dead" \/ (pc[i] = "returned" /\ answer[i].errors))
        \/ rows[s].id = i /\ pc[i] = "refused"
RunningRowHasOwner ==
    \A s \in Slots : rows[s].status = "running" =>
        \/ Abandoned(s)
        \/ \E i \in Invocations : Owns(i, s) /\ pc[i] \in Executing

(* Every trigger that gets past Handle's first lines is answered, unless    *)
(* the process dies under it.                                               *)
EveryTriggerSettles ==
    \A i \in Invocations : pc[i] = "claim" ~> pc[i] \in Settled

(* A claimed bucket is closed, unless a process died or the answer to an    *)
(* INSERT or an UPDATE was not had.                                         *)
ClaimedRunCloses ==
    \A s \in Slots :
        rows[s].status = "running" ~> (rows[s].status \in Final \/ Abandoned(s))

-----------------------------------------------------------------------------
(* Why OneUnforcedRunPerBucket and OwnersShareTheRowId hold: an inductive   *)
(* invariant, in parts.  OrchestratorProofs.tla proves it.                  *)

(* Past Handle's first lines the slot is set; what is to be looked up is in *)
(* the table.                                                               *)
SlotIsSet ==
    \A i \in Invocations :
        /\ pc[i] \in {"claim", "find"} \cup Executing => slot[i] \in Slots
        /\ pc[i] = "find" => rows[slot[i]] # NoRecord
        /\ runId[i] # NoRun => slot[i] \in Slots

(* Before the claim a request owns nothing, after it it executes something. *)
OwnsWhileExecuting ==
    \A i \in Invocations :
        /\ pc[i] \in {"idle", "claim", "find"} => runId[i] = NoRun
        /\ pc[i] \in Executing => runId[i] # NoRun

(* A row's id was minted by the request that inserted it, which executes    *)
(* under it or has been refused, and has not changed since; who executes a  *)
(* bucket does so under its row's id.                                       *)
Minted(id, s) ==
    slot[id] = s /\ (runId[id] = id \/ pc[id] = "refused")
IdsAgree ==
    /\ \A s \in Slots : rows[s] # NoRecord => Minted(rows[s].id, s)
    /\ \A i \in Invocations : runId[i] # NoRun =>
          /\ rows[slot[i]].id = runId[i]
          /\ ~ req[i].force => runId[i] = i
    /\ \A i \in Invocations : pc[i] = "finish" =>
          answer[i] \in Record /\ answer[i].id = runId[i] /\ answer[i].status \in Final

IInv == TypeOK /\ SlotIsSet /\ OwnsWhileExecuting /\ IdsAgree

(* Why StatusMatchesSources holds: no source has a result before it is      *)
(* called, none is without one after the fan-out, and while the log is      *)
(* empty none has failed.                                                   *)
Tally(i) ==
    /\ pc[i] \in {"idle", "claim", "find", "plan"} =>
          \A s \in Sources : result[i][s] = "none"
    /\ pc[i] \in Executing \ {"plan", "collect"} =>
          \A s \in chosen[i] : result[i][s] # "none"
    /\ pc[i] \in Executing \ {"plan"} /\ ~ log[i] =>
          \A s \in chosen[i] : result[i][s] \notin {"down", "broken", "partial"}
    /\ pc[i] = "finish" => HonestStatus(i)
TInv == IInv /\ \A i \in Invocations : Tally(i)

-----------------------------------------------------------------------------
(* The promise to the caller, RunBook, under this mapping.                  *)

AnswerGiven(i) == IF pc[i] = "returned" THEN answer[i].id ELSE NoRun
ForcedSlots ==
    {s \in Slots : \E i \in Invocations :
        Owns(i, s) /\ req[i].force /\ runId[i] # i}

Book == INSTANCE RunBook WITH
    page   <- [s \in Slots |-> rows[s].status],
    owner  <- [s \in Slots |-> rows[s].id],
    forced <- ForcedSlots,
    told   <- [i \in Invocations |-> AnswerGiven(i)]

ImplementsRunBook == Book!BookSpec

=============================================================================
