# BrandPulse in TLA+

BrandPulse watches what is said about a brand. A trigger (a scheduler, a person,
an onboarding) makes `bp-orchestrator` run a pipeline of small Go agents that
speak A2A to each other and share one Postgres; a TypeScript BFF and a Next.js
dashboard read what the pipeline stored. This directory holds TLA+ models of the
parts of it where order, overlap and failure matter, the TLC runs that check
them on small instances and the TLAPS proofs that their invariants hold on all.
Paths below are relative to the repository (`src/` in `PROJECT.json`).

    tlc -workers 2 -config MCOrchestrator.cfg MCOrchestrator     # one run
    tlapm OrchestratorProofs.tla                                 # the proofs

## 1. Inventory

| part | state it keeps | operations | interacts with |
|---|---|---|---|
| `agents/bp-orchestrator` | `runs` rows; per execution a `runLog`, tallies under mutexes | `Handle`, `claim`, `execute` (9 steps), every statement of `store.go` | every agent by A2A, Postgres |
| `agents/bp-collector` | none of its own; one Anakin client per call | `Handle`: fetch, build, dedupe, `withoutStored` | Anakin client, `mentions` |
| `internal/anakin` | per client: `Budget` (cap, persisted, in process), memo map, counters; shared: `fetch_cache` | `fetch`, `Spend`, cache read and write, `do` with its attempts, `pollJob` with its polls | Anakin, `runs.credits_used`, `brands.daily_credit_budget` |
| `internal/anakin/sources` | none; a walk's drafts and problems while it lasts | six `Fetch` functions, `Filter`, `Stamp`, `Finalize` | one client, bp-collector |
| `agents/bp-enricher` | an in-memory cache by content hash | `Handle`: cache, batch, `classify` with retry, neutral | LLM |
| `agents/bp-detector`, `internal/stats` | none | five rules over a window, `newAlert`; baseline of hourly counts, `ZScore` | mentions of 14 days in Postgres |
| `store.go` `SaveAlerts`, `SaveDrafts` | `alerts`, `reply_drafts` | insert under a dedupe key, read the ids back, insert drafts | step 6 and 7 |
| `bff` alerts route, `AlertFeed.tsx` | in the browser: alerts shown, receipts, `sinceRef` | `recentAlerts`, first paint, poll | `alerts` |
| `agents/bp-onboarder` | none | map, `selectPages`, scrapes, one model call, `clean` | its own client, LLM, BFF |
| BFF brand creation: `routes/brands.ts`, `onboarder.ts`, `a2a.ts`, `registry.ts`; `NewBrandForm.tsx` | a pool of connections; in the browser: what the form shows; `brands`, `brand_profiles` | `save`, `createBrand`, `draftProfile`, `profileToStore`, the transaction | onboarder, Postgres |
| `agents/bp-clusterer`, `bp-sov`, `bp-responder`, `bp-briefer` | none | one pure or LLM-backed call each | orchestrator |
| `internal/a2a`, `internal/llm` | none between calls | peer call with a timeout, retrying LLM client | all agents |
| BFF runs, pulse | none | trigger a run, read a dashboard | orchestrator, Postgres |

What is hard in it:

* **Concurrency.** Each A2A request is a goroutine. Two triggers of one bucket,
  a forced re-run of a run in flight, and runs of different kinds for one brand
  overlap on the same tables; inside a run the collectors overlap, and each has a
  credit budget of its own.
* **Failure half-way.** Nearly every step's error is recorded and survived. What
  a later step then believes about what an earlier one stored is the question.
* **Identity.** Runs, mentions and alerts are given fresh ids by whoever makes
  them, and a unique key in the database decides which id lives. Everything
  downstream has to use that one.
* **Answers that come late.** A POST is repeated although the first may have
  been taken, a job is polled a bounded number of times, and three timeouts stand
  one above the other when a brand is created. Who gives up first, and what the
  others then still do, is spread over four programs.
* **Totals that lag.** `credits_used` is written at the end of a run; a feed
  cursor is a time the row got before it was inserted.

Correctness per part: *run life cycle*: one owner per bucket, one id per row, a
status that says what happened, every claimed row closed. *Credits*: no client
over its ceiling, no run over the day's budget, no day over it. *Mentions*: what
is stored is classified or its run says why not; a placeholder never replaces an
answer. *Alerts*: the ids in brief and drafts are the rows'; urgent alerts have
drafts; the page misses none. *Detection*: a volume alert has history behind it
and a row has posts behind it, in whatever order executions read and save.
*Collection*: what was paid for is handed over, and silence means that nothing
was left out. *Brand creation*: the form says what the tables say, whoever gave
up. `PROJECT.json` lists each hazard at its line with
the property that is after it.

## 2. Modules

| module | models | abstracts |
|---|---|---|
| `RunBook` | abstract: what a trigger is promised | everything inside a run |
| `Orchestrator` | `pipeline.go`, `store.go` claim and finish, `sources.go` control | mentions and alerts to "is there any", ranking to any choice of `FanOutCap` sources |
| `CreditLedger` | `budget.go`, `http.go` `fetch`, `cache.go`, `splitCredits`, `FinishRun`'s `credits_used` | payloads to keys, time to one UTC day, the HTTP call to one step that answers or fails and says for how many copies of the request Anakin has worked |
| `FetchClient` | one client: `fetch`, `do`, `pollJob`, `Budget`, and the upstream that bills | a query, its cache key and its price to one key; what is left of the day's budget to `Ceiling` |
| `Adapters` | the six `Fetch` functions, `mentions.go`, bp-collector's `Handle` up to the batch | a record to its date, whether its snippet is short and which of its texts has a negative keyword; an answer names a post once |
| `Detection` | `rules.go`, `baseline.go`, `stats.go`, `SaveAlerts` by dedupe key | posts to bursts of a kind on a source in an hour |
| `Onboarder` | bp-onboarder: `readSite`, `selectPages`, `askForKeywords`, `profileFrom` | the four lists of terms to one, the prompt |
| `Onboarding` | the form, the dashboard's route, the BFF's handler and its timeouts, the pool, the transaction; EXTENDS `Onboarder` | fields other than the keywords |
| `BrandRegistry` | abstract: what whoever adds a brand is promised | the form, the agent, the pool, the transaction |
| `MentionStore` | collector, enricher, steps 4 to 5b and their tables | a mention to its content hash, a verdict to answer or neutral |
| `AlertBook` | detector's output, steps 6 and 7, `alerts`, `reply_drafts`, the feed | which rule fires to any subset of the keys |
| `SumTheorems` | lemmas: what a sum over a finite set is | |
| `OrchestratorProofs`, `CreditLedgerProofs`, `AdaptersProofs`, `DetectionProofs`, `MentionStoreProofs`, `AlertBookProofs`, `OnboardingProofs` | the theorems about the module of that name and the one it EXTENDS | |

`MC*.tla` give the symmetry sets and the function-valued constants. `Adapters`
EXTENDS `FetchClient` and `Onboarding` EXTENDS `Onboarder`, and each pair is run
as one system. The others meet at the seams the code has: what `Orchestrator`
holds as "enriched" is what `MentionStore` says step by step, and its "alerts"
is `AlertBook`'s part. They are checked apart, because together no instance with
two overlapping runs is small enough. `FetchClient` goes through the attempts
and polls of what is one step of `CreditLedger`, `CallAnswers` or `CallFails`;
both let Anakin bill repeated requests and failed calls. Which alerts
`Detection` lets be raised is what `AlertBook` takes as any subset of its keys.

### Orchestrator

`pc[i]` is the next statement of the handling of request `i`; a label per step
of `Handle`, `claim` and `execute`. `ClaimInsert`/`ClaimConflict` are the two
outcomes of `INSERT .. ON CONFLICT DO NOTHING RETURNING id`, `ReturnExisting`
and `AdoptForced` those of `findRun`. `FinishRun` is an `UPDATE .. WHERE id`, so
it hits whatever row has that id (`RowOf`). A run that dies leaves its row as it
is: nothing in the code ever closes it. `RecordSourceYield` comes after the
status is computed, as in the code.

A statement that fails may have been committed all the same, its answer lost
with the connection. `ClaimLost` is the claim that ends so: the trigger is
refused, and the bucket has a running row that nobody executes. `FinishRunFails`
leaves the row as it was or updated. The other modules do the same
(`Unfinished` and `WriteCacheFails`, `SaveMentions` and `SaveEnrichments`, the
inserts of steps 6 and 7).

### CreditLedger

`client[r][s]` is the Anakin client of one collector call with the fields of
`Budget`. `Spend` is the mutex-guarded method, with its one re-read before it
refuses; the HTTP call and the cache write that follow are steps of their own,
because other clients act in between. A call that answers is billed once for
each copy `do` had to send, up to `MaxAttempts` of them; one that fails is billed
for none, some or all, a job left behind after its last poll among them. When
Anakin really charges shows nowhere in the client; the model bills when the call
ends, so a job that is billed days later is billed early. `used` is
`runs.credits_used`. `excuse` is a history variable: it records what the code's
ceilings cannot see (executions that overlap, a forced one, a split that leaves
0, credits lost between the count and the table, work of Anakin whose answer was
not taken), and the property of the quiet day is about the rest.

A split that leaves 0 gives a live client the brand's whole daily budget
(`Cap`), and `Allowance` says so: `ClientWithinItsCeiling` holds of the code as
it is, not of the comment that says otherwise (section 4).

### MentionStore

A run's mention id is the run together with the content hash. `Find` is one
collector's `withoutStored`; the lookup, `SaveMentions`, the enricher call and
`SaveEnrichments` are separate steps with anything in between. `job[r]` is
bp-enricher's side of the call: it goes on when the orchestrator has given up.

### AlertBook

`table[k]` says which execution's row has the dedupe key `k`. `ids[r]` is what
the execution uses for its alerts from now on: the fresh ids, and after
`SaveAlerts` has read them back those of the rows. `created_at` is the end of
the execution's window, hence `started[r]`; `whole[r]` says whether it is on a
whole millisecond, which is what the cut in `rows.ts` depends on.

### Detection

A burst is some posts of one kind on one source in one hour; they appear at any
time, for hours that are past as well, because collectors run late. `Begin`
fixes an execution's window, `Detect` is what it reads, evaluates and saves. Two
executions of one hour may have read different parts of the window: what another
run has collected but not yet enriched is missing. So `Detect` takes any subset
of `Window` as what was read, while the baseline is computed from all posts, as
the SQL of `ComputeBaseline` does. z-scores are compared exactly, in integers:
`N*v - S` against the threshold times `sqrt(N*Q - S*S)`. The 336 hours of the
baseline are real; quiet hours are zeros in the sums, as `padWithQuietHours` has
them. `SaveAlerts` keeps the first row of a key. The read of the baseline, the
evaluation and the save are one step, an abstraction: the window is read before
it, and what arrives in between is in the baseline and not in what was read; but
posts or other executions' alerts that are stored between this execution's
baseline and its save are taken as stored before or after both. The properties
are about what a row says and not about whose row it is, and posts that come
later take nothing from it.

### FetchClient and Adapters

`call` is the request in progress with its attempt and poll numbers; `orphans`
are jobs upstream that nobody polls any more, started by a POST whose answer was
lost or left behind after the last poll, and `billed` and `lost` are the other
side's books. Upstream bills what completes. The client holds
the price before the request and keeps holding it when the call fails (`Fail`),
because it cannot know; what it counts are the payloads it has. So the bill lies
above what is counted and below what is held, except for POSTs whose answer was
lost, and the properties say exactly that.

`todo` is the rest of an adapter's walk. Every result is taken by `TakeFailure`
(one problem, go on), `TakeRefusal` (the ceiling: stop, keep what there is) or
the action of the source: results, posts, comments, reviews, feed, videos and
then their comments, and for `web` the pages behind short snippets. `Finish` is
the closing filter and bp-collector's batch. `found` has a draft per keyword
that brought a post, as `searchapi.Collect` appends them, and `enrich` walks the
short ones in the order of their keywords, scrapes each until `PageLimit` and
replaces the text of that draft alone: a second draft of the same page is
scraped on its own (from the memo, at no price, if the first scrape answered) or
keeps its snippet. `Mentions` is the batch's `dedupe`: drafts of one text are
one. What a keyword's answer is ordered by is upstream's affair, so any order is
taken; that an answer names a post once is assumed, and so is that a memoized
answer that could be read once can be read again. A record that fails to become
a draft, by its date or by its validation, is one that is "undatable" here.

### Onboarder and Onboarding

`agent[r]` is the agent's handling of one request. `SelectPages` is the
round-robin over the three kinds of pages, `Clean` the cleaning of terms, both
as in the code. A failed scrape is a page less; a failed map or model call ends
the request.

`bff[s]` is the handler: drafting, connecting (the pool may be full), `BEGIN`,
two inserts, `COMMIT`, `ROLLBACK`. `tx[s]` is the transaction as Postgres has
it. Every statement may be executed and its answer lost, `COMMIT` and `ROLLBACK`
too; a BFF that stops takes its handlers along and leaves Postgres to abort.
`WebLosesBff` is a connection or an answer lost between form, route and BFF, at
any step: before the BFF has the request, while it works, or on the answer's way
back. The form shows an error and the handler goes on, or starts. What is
abstracted is that a `COMMIT` is executed or not by the time its answer fails or
the BFF dies: the code cannot tell either way, and a `COMMIT` still on the wire
at that moment would be one more way to `unacked`. A tick is five seconds. The
clock waits for the three timers the code sets (the dashboard's 50 s, the agent
call's 45 s, the connection's 5 s) and for nothing else: `statement_timeout` is
Postgres' timer, and its cancellation has to travel.

## 3. Runs

| run | instance | shows |
|---|---|---|
| `orchestrator` | 2 triggers, a daily and an hourly kind, 2-hour days, 2 hours, 2 sources, cap 2, 2 faults; 1.28 M states | at most one unforced owner per bucket; all owners share the row's id; `ok` and `failed` mean what they say; a running row has an owner, or was abandoned by a death, a failed `FinishRun` or a lost answer; `RunBook` is implemented |
| `orchestrator_live` | 1 kind, 1 source, 2 faults, fair; 53 k states | every trigger is answered, every claimed bucket closed |
| `ledger` | 2 executions, 2 sources sharing a query, budget 2, 2 attempts, live and replay, 1 fault; 1.59 M states | a client holds at most what it was given (0 is the whole budget, live); what is counted was billed, and at most `MaxAttempts` times what is held is; per-run ceiling, the quiet day |
| `ledger_hard` | live, no fault | **violated**: overlapping executions exceed the day's budget |
| `mentions` | 2 runs, 2 contents, batch 1, 2 attempts, 3 faults; 193 k states | gaps are reported; the cache holds answers; a silent miss is another run's |
| `mentions_again` | 2 faults | **violated**: a neutral hides its mention from later runs |
| `alerts` | 2 executions, 2 keys, page of 1, 1 fault; 1.34 M states | brief and drafts use the rows' ids; each urgent alert is drafted; the quiet feed misses none; a first paint's alert gets a receipt only if its time lost digits |
| `alerts_miss` | page of 2, no fault | **violated**: a late insert is behind the cursor |
| `detection` | 7 kinds of posts on 2 sources, bursts of 1 or 5, 3 bursts, 2 hours, baseline of 336; 107 k states | a crisis or competitor move has its spike; no volume alert in a source's first hour while it is live; every row has the posts it speaks of |
| `adapters` | 6 sources, 10 keys, ceiling 8, 2 attempts, 2 polls, 4 posts, 2 videos, 3 scrapes, fair; 522 k states | the bill is held or explained, and bracketed; what was paid for is handed over; the page of a post with one draft decides before the snippet; a batch without errors is complete; every walk ends |
| `onboarding` | 2 submissions, pool of 1, ticks 2/1/1, 1 stop of the BFF, 3 pages for 4 credits, fair; 358 k states | the kinds of pages take turns; the owner's words come first; the form tells the truth about the tables; every submission is answered; `BrandRegistry` is implemented |
| `onboarding_ceiling` | 1 submission, ticks 10/9/1 as configured, prompt BFF, fair; 1.6 k states | **violated**: the dashboard's ceiling is reached by a BFF that works |

Why the bounds are enough to be interesting: every interference in this code is
between two executions, so two of them, with everything that can fail failing at
least once, reach every pair of steps in either order. Two sources are the
fewest for which failed, partial and ok differ and for which two budgets can
exceed one; two hours and a two-hour day separate hourly from daily buckets. A
daily budget of 2 split in two is 1 each: a client that asks for both of its
queries (cost 1 each) is refused the second. Page of 1 makes LIMIT bite, page
of 2 leaves the overlap alone to blame. In `detection` a burst of 5 is what the
count floors of the rules ask for and 1 is what they refuse; 3 bursts are a
history, a volume and its share. In `adapters` the prices are the client's own
(2, 3 and 1), and 8 is enough for some walks and not for others: two searches
and a page each for two posts are, one scrape or comment page more is not; 3
scrapes are one more than there are pages and one less than there may be short
drafts, so that a draft is left with its snippet although its page was fetched;
2 attempts and 2 polls give a first, a last and a one-too-many. In `onboarding`
the second submission follows an answered or given up first one, so that what
the first leaves behind is in its way; the ticks keep the order of the three
timeouts with the smallest numbers, and `onboarding_ceiling` has the real ones.
The bounds in guards are `MaxHour`, `MaxBursts`, `MaxStops` and `MaxFaults`;
`MaxAttempts`, `MaxPolls`, `PageLimit`, `VideoLimit` and `PoolSize` are the
code's own limits, smaller; `Runs`, `Invocations`, `Keys` and `Contents` are
finite sets and stand for as many as one gives. Deadlock is not checked: the
runs of a finite set of executions end.

**Fairness** (`Orchestrator!Fairness`) is weak fairness of each request's own
steps: Go schedules every goroutine, each peer call ends by its timeout
(`internal/a2a/call.go`), each statement ends with an answer or an error. That a
trigger comes, the clock moves, a process dies or a statement fails is never
assumed. `Refuse` is not fair either: a claim that keeps failing is one that
returned its error.

`Adapters` is fair to the walk and to the client: each attempt has
`defaultHTTPTimeout`, each poll loop its maximum, so each request ends. Upstream
is not: a job may never complete, and the walk ends all the same. `Onboarding`
is fair to the clock and to the three timers only. That the agent, Postgres or
the BFF ever answers is not assumed: `EverySubmitIsAnswered` rests on the
dashboard's own ceiling. `PromptSpec`, for the ceiling as its comment describes
it, has a BFF that takes a request at once and a Postgres that cancels in time.

## 4. Disagreements found

Each of the first four is a run that TLC ends with a counterexample, and is
quoted in `PROJECT.json` under `findings`.

1. `001_init.sql:28-29`: a hard ceiling per UTC day. It is one per execution,
   plus the executions that finished.
2. `bp-enricher/handler.go:81-83`: a neutral is re-asked for on later runs. It is
   stored, and `withoutStored` then drops the mention.
3. `routes/alerts.ts:7-8`: the feed may never silently miss a crisis.
   `created_at` is older than the insert, and the cursor may have passed it.
4. `web/lib/pulse.ts:91-92`: the 50 s ceiling is reached only if the BFF has
   stopped. 45 s for the agent and two slow database steps reach it too; the form
   says that the brand was not created, and then it is.

Noticed on the way, by reading, and kept by no run:

* `pipeline.go:189-191`: every later failure finishes the run partial. The
  failure of `RecordSourceYield` (`:356`) is appended after the status is set.
* `http.go:126-127`: a replayed run's pretend spend goes nowhere near the shared
  database. Counted at `:397`, it reaches `runs.credits_used` with `FinishRun`.
* `pipeline.go:304-307`: with a ceiling of 0 no client can be built and the run
  collects nothing. `http.go:109` refuses it in replay only; a live client takes
  0 for the brand's daily budget (`budget.go:44-45`), so a run whose split left
  nothing, or that could not read the budget, lets each of its collectors spend
  up to all of it. `ClientWithinItsCeiling` states this meaning (`Allowance`).
* `web.go:49-51`: a page whose snippet hid a negative keyword is still caught.
  Two keywords that bring one page make two drafts (`searchapi.go:94`), and
  `enrich` replaces one at a time: the second, past `maxEnrichments`,
  keeps its snippet although the page was fetched. `PageDecides` is about posts
  with one draft for this reason.
* `NewBrandForm.tsx:126`: "brand not created". It is also what the form prints
  when a connection or an answer was lost under a handler that goes on and
  stores the brand; `ScreenTellsTheTruth` excuses exactly such answers.
* `rules.go:374-376`, `stats.go:22-26`: a source without history does not spike.
  True in the hour itself (`NoHistoryNoLiveSpike`); evaluated an hour later the
  source's one posting hour is in its own baseline, the deviation is not zero,
  and it may.
* `AlertFeed.tsx:12-13`: an alert of the first paint carries no number. The
  cursor is in milliseconds and the column is not; `FirstPaintReceiptsComeFromTheCut`
  says that this is the only way it gets one.
* `mentions.go:27-31`: dropped counts are for the adapters to report. None does.
* `onboarder.go:313`: a list of blank keywords passes the check for an empty one
  and is cleaned to nothing afterwards. `:337`: a first page over the limit drops
  the text of all pages.
* `onboarder.go:385-388`: a ceiling per brand and day. No `runs` row is written,
  so nothing the next onboarding of the day could read.

## 5. Proofs

Every invariant of every passing run is a theorem, for all values of the
constants that the module's named ASSUME admits, and so are the refinements of
`RunBook` and of `BrandRegistry`, and `SilentMissNeedsAnotherRun`, a property of
steps. `PROJECT.json` lists them. None of them assumes fairness, and none is
conditional.

| proofs about | theorems | invariant |
|---|---|---|
| `Orchestrator` | `TypeCorrect`, `OneUnforcedRun`, `OwnersShareRow`, `StatusIsHonest`, `RunningRowIsAttended`, `Refinement` | `IInv`, `TInv` |
| `CreditLedger` | `TypeCorrect`, `CeilingHolds`, `ReportIsPaidFor`, `SplitHolds`, `QuietDayHolds` | `LInv`, `QInv` |
| `FetchClient`, `Adapters` | `TypeCorrect`, `HeldCoversTheBill`, `AttemptsBoundTheBill`, `PaidPostsArrive`, `PagesDecide`, `SilenceIsComplete` | `AInv` |
| `Detection` | `TypeCorrect`, `CrisesComeWithSpikes`, `SpikesHaveHistory`, `AlertsAreBacked` | `DInv` |
| `MentionStore` | `TypeCorrect`, `CacheIsOfAnswers`, `GapsAreReported`, `OwnVerdictsAreStored`, `SilentMissesAreOthers` | `MInv` |
| `AlertBook` | `TypeCorrect`, `BriefsCiteRows`, `UrgentAlertsAreDrafted`, `QuietFeedsMissNothing`, `ReceiptsComeFromTheCut` | `BInv` |
| `Onboarder`, `Onboarding` | `TypeCorrect`, `SelectionIsSpread`, `OwnersWordsLead`, `ScreenIsTrue`, `Refinement` | `OInv`, `RInv` |

The modules are laid out alike: the invariant as a conjunction of named parts,
lemmas about the operators, lemmas that say which parts a kind of step leaves
alone, one lemma per action, `Invariance`, and the theorems.

**The run's life cycle.** `OneUnforcedRunPerBucket` is not inductive: it says
nothing of the row. `IInv` adds that a request past `Handle` has its slot and,
in `find`, a row to find (`SlotIsSet`); that exactly the executing own something
(`OwnsWhileExecuting`); and that a row's id is that of the request that inserted
it, which is past the claim or was refused after it, and that all owners of a
bucket carry it (`IdsAgree`). Each of the three is needed: `AdoptForced` copies
the row's id, which is only an id if the row exists; `ClaimInsert` makes a new
owner, which is only harmless if there was no row and hence no owner. For the
refinement each action is shown to be a `RunBook` step or a stutter; `FinishRun`
is the delicate one: it may overwrite a closed page, and the proof has to show
that then somebody forced it. `StatusMatchesSources` speaks of one moment, the
record about to be written, so it needs what the steps before have kept: `Tally`
says that no source has a result before it is called, that every chosen one has
one once collecting is over, and that as long as the run's log is empty none has
failed. `TInv` adds it to `IInv`. `RunningRowHasOwner` needs only `IInv`.

**Credits.** `LInv` is about one client: between holding and counting, the price
of the call in progress is held but not billed, or billed but not counted, and
`Sound` says at which step which; since a request may be sent again, the bill of
a call is one to `MaxAttempts` times its price once it answers and anything up
to that when it fails, which is why what is held times `MaxAttempts` bounds it
and what is held alone does not. `RunsTable` is the same one level up: what an
execution adds up its collectors have counted, and a row holds what some
execution had added up when it closed the row. With the split's share as the
largest term of a sum (`SumBounded`) the run's ceiling follows. `QInv` is about
the day. Without excuses Anakin has worked once for each answer, so what is
billed was counted or is about to be. The bill fits the budget for a reason that
involves every execution: those that are over had all they were billed for
reported in `credits_used` (`Closed`), no two are at work (`OneAtATime`), and
the total a client starts from, which its `Spend` compares, contains all of the
former. So as soon as a client holds anything, everything billed before and its
siblings' shares fit as well (`BillFollows`); and when none holds anything,
nothing is billed.

**The client and the walk.** `BillIsHeldOrLost` speaks of the past; what upstream
may *still* bill has to be held too. `ClientInv` adds what the orphans owe
(`Owed`, a sum over the keys) and what the call in progress may cost (`Due`, and
with all its attempts `Left`). `WalkInv` relates the rest of the walk to what was
asked: what is owed is asked, missed or still to do (`NothingIsForgotten`), web
pages come after the searches, and the client works on the head of `todo`. For
the pages it says what became of each draft that was tried: it is replaced, its
page is missed, or it is the last one and its page is being fetched
(`PagesAreRead`). So a draft alone with its page, once that was answered, is the
one that was replaced.

**Detection.** An execution reads any part of its window, so a crisis in that
part must imply the spike in it: a part of a group has no more volume
(`VolumeGrows`), and a larger volume against the same baseline no smaller score
(`ScoreGrows`). `ScoreHasHistory`: without posts in the baseline the spread is 0.
All of it is integer arithmetic over sums, for any baseline longer than the clock.

**Mentions and alerts.** The properties are about the end of a run. `MInv` says
on the way there what a job owes (`JobForgetsNothing`), that a row belongs to a
run that kept the content and is past saving it, and that its verdict is settled
before the run ends. `BInv` does the same for alerts and their ids, and for
the feed it places the cursor between what is painted and what is stored.

**Creating a brand.** `AgentInv` says that the pages tried and to try are the
selection cut at one place, so what holds of `SelectPages` holds of a request at
any time. `FlowInv` says what Postgres can have of a transaction for each step of
its handler (`TxOf`), whom the route waits for, and that nothing happened to a
request not yet submitted. `RowsInv` says that the rows are those of committed
transactions and that a profile is a merge of the typed words with *some* draft:
the handler's draft is forgotten when it ends, so the property cannot name it.
Two parts were missing at first and the proof would not go through: that an agent
is asked only once (`AskedOnce`), and that it has tried nothing while it maps.
The refinement of `BrandRegistry` needs `RInv`: that whoever has an answer has it
from a handler that is over, and that nothing works on what was not sent. Then a
refusal is final: its transaction is in no state from which a row could come
(`TxOf`), and `COMMIT`, in the registry the one step that stores, is a step of a
handler still at work. A `COMMIT` whose answer is lost leaves the request open,
and so does any answer lost on the way to the form, which is why the registry has
that outcome: such a request may be stored later, and is never taken for refused.

**Folds.** `SumFunction` and `FoldLeft` are recursions, and what they compute
needs an induction. The library's induction theorems take an operator as
parameter and are of no use here, but a smallest counterexample is not: subsets
of a finite set are well founded. `SumTheorems` and the first part of
`OnboardingProofs` show that the table behind such a recursion exists and is
unique, and derive from it one unfolding (`SumRemoves`, `KeptSteps`) and then
monotonicity, bounds, and what `FirstOfEach` keeps: every wanted entry, each once,
in order (`KeptIs`). That the turns of `SelectPages` are spread (`TurnsAreSpread`)
is then a matter of counting slots modulo three.

**Assumptions.** Finite sets where a sum or a count is taken, naturals where the
code has unsigned or positive settings, and those that say something of the code:
a page's address is none of the search queries (`AdaptersAssumption`), only the
review sources rate and the clock stays within the first baseline
(`DetectionAssumption`), submissions are numbered in the order they are made
(`OnboardingAssumption`). TLC evaluates all of them in the runs.

**Only model-checked.** Liveness (`EveryTriggerSettles`, `ClaimedRunCloses`,
`FetchReturns`, `EverySubmitIsAnswered`), which needs ENABLED and is out of the
prover's reach; and the four violations, which are counterexamples.

## 6. Not modelled, and why

* Upstream JSON beyond what decides a draft's fate, rendering, prompts, titles,
  evidence, samples: no state that anything else depends on.
* The A2A task state machine belongs to a library; its outcomes are in every
  peer call. The LLM client's retries are bp-enricher's attempts and
  bp-onboarder's one call from the outside.
* Clusterer, share of voice, responder (with its guardrail loop), briefer: pure
  or stateless, each one call of the orchestrator that answers or fails; see the
  plan for the algorithms worth a reference definition.
* Source ranking (`chooseSources` over yesterday's yields): `Orchestrator` takes
  any choice of `FanOutCap` sources, which contains the code's.
* The BFF's runs and pulse routes only pass on and read. The migrations runner,
  the demo and replay tools run by hand, alone.
* In `Detection`, `WindowHours` bounds what may be read and nothing tests its
  other end; in `Adapters`, two collectors' clients do not share a cache (that is
  `CreditLedger`).

## 7. Plan

In order of weight:

1. `FetchClient` shown to implement `CreditLedger`'s `CallAnswers` and
   `CallFails`, attempts and polls mapped to stutters.
2. `SourceRanking`: `chooseSources`, `RecordSourceYield` and `SourceYield` over
   days: can a source that was dropped come back? (`sources.go`, `store.go`)
3. Severity of a stored alert: what escalation within the hour does to the feed,
   and the drafts each execution adds to one row.
4. Pure algorithms against reference definitions: agglomerative clustering, share
   of voice, the guardrail loop.
