---------------------------- MODULE CreditLedger ----------------------------
(***************************************************************************)
(* What a day of runs of one brand may spend at Anakin, and what the runs  *)
(* table says it spent.                                                    *)
(*                                                                         *)
(* The ceiling has no one place: the orchestrator splits the brand's daily *)
(* budget over its sources (agents/bp-orchestrator/sources.go), every      *)
(* collector call builds its own client with its own Budget                *)
(* (internal/anakin/budget.go), and what ties the budgets of a day         *)
(* together is a sum over runs.credits_used, which a run writes once, at   *)
(* its end, from what its collectors told it.  The client's path of a      *)
(* call, cache, budget, bytes, cache, count, is internal/anakin/http.go.   *)
(***************************************************************************)
EXTENDS Naturals, FiniteSets, Functions

CONSTANTS
    Runs,          \* executions; execution r opens the row r, unless forced
    Sources,       \* the sources each execution calls
    Queries,       \* fetch_cache keys, within the day
    Plan,          \* Plan[s]: what the adapter of s asks for
    Cost,          \* Cost[q]: credits of one call
    DailyBudget,   \* brands.daily_credit_budget
    Modes,         \* BP_FIXTURE_MODE: "live" stands for live and record
    MaxAttempts,   \* the client's maxAttempts: how often do sends one request
    MaxFaults,     \* bound: failed statements, failed calls and crashes
    NoRow,
    NoQuery

ASSUME LedgerAssumption ==
    /\ IsFiniteSet(Runs)
    /\ IsFiniteSet(Sources) /\ Sources # {}
    /\ Plan \in [Sources -> SUBSET Queries]
    /\ Cost \in [Queries -> Nat \ {0}]
    /\ DailyBudget \in Nat \ {0}
    /\ Modes \subseteq {"live", "replay"}
    /\ MaxAttempts \in Nat \ {0}
    /\ MaxFaults \in Nat
    /\ NoRow \notin Runs /\ NoQuery \notin Queries

VARIABLES
    pc,        \* pc[r]: how far execution r is
    mode,      \* mode[r]: BP_FIXTURE_MODE of the collectors it calls
    row,       \* row[r]: the runs row it closes
    ceiling,   \* ceiling[r]: CollectInput.MaxCredits
    total,     \* total[r]: spend.credits
    client,    \* client[r][s]: the collector call for s, with its Budget
    used,      \* used[x]: credits_used of row x
    cache,     \* the keys in fetch_cache
    excuse,    \* history: what happened that the budgets do not see
    faults

vars == <<pc, mode, row, ceiling, total, client, used, cache, excuse, faults>>

-----------------------------------------------------------------------------
(* One collector call: the stage its client is at, the adapter's queries    *)
(* still to come, the Budget (loaded, cap, persisted, inProcess), and the   *)
(* Stats (counted).  billed is Anakin's side of it.  told: the orchestrator *)
(* has taken the answer, or given up on it.                                 *)
Stages == {"off", "next", "spend", "call", "write", "over"}
Client == [at: Stages, query: Queries \cup {NoQuery}, todo: SUBSET Queries,
           loaded: BOOLEAN, cap: Nat, persisted: Nat, inProcess: Nat,
           billed: Nat, counted: Nat, told: BOOLEAN]

Off == [at |-> "off", query |-> NoQuery, todo |-> {}, loaded |-> FALSE, cap |-> 0,
        persisted |-> 0, inProcess |-> 0, billed |-> 0, counted |-> 0, told |-> FALSE]

(* lost: credits that were counted, or were to be, reach no row.  repeated:  *)
(* Anakin has done, and bills, work whose answer the client did not take.   *)
Excuses == {"overlap", "force", "split", "lost", "repeated"}

TypeOK ==
    /\ pc \in [Runs -> {"idle", "collect", "done", "dead"}]
    /\ mode \in [Runs -> Modes]
    /\ row \in [Runs -> Runs \cup {NoRow}]
    /\ ceiling \in [Runs -> Nat]
    /\ total \in [Runs -> Nat]
    /\ client \in [Runs -> [Sources -> Client]]
    /\ used \in [Runs -> Nat]
    /\ cache \in SUBSET Queries
    /\ excuse \in SUBSET Excuses
    /\ faults \in 0..MaxFaults

(* readPersisted: SUM(credits_used) over the rows of the brand-day.         *)
DayTotal == SumFunction(used)

(* Mutant: every source gets the whole budget.                              *)
SplitNothing(budget) == budget

(* splitCredits(budget, sources).                                           *)
SplitCredits(budget) == budget \div Cardinality(Sources)

(* anakinClient and NewHTTPClient: replay refuses a ceiling of 0, which the *)
(* collector reports as an error; live takes it for the brand's own budget. *)
NewClient(s, m, maxCredits) ==
    IF m = "replay" /\ maxCredits = 0
    THEN [Off EXCEPT !.at = "over"]
    ELSE [Off EXCEPT !.at = "next", !.todo = Plan[s], !.cap = maxCredits]

-----------------------------------------------------------------------------
Init ==
    /\ pc = [r \in Runs |-> "idle"]
    /\ mode \in [Runs -> Modes]
    /\ row = [r \in Runs |-> NoRow]
    /\ ceiling = [r \in Runs |-> 0]
    /\ total = [r \in Runs |-> 0]
    /\ client = [r \in Runs |-> [s \in Sources |-> Off]]
    /\ used = [r \in Runs |-> 0]
    /\ cache = {}
    /\ excuse = {}
    /\ faults = 0

Fault == faults < MaxFaults /\ faults' = faults + 1

Excuse(why) == excuse' = excuse \cup why

run == <<pc, mode, row, ceiling, total, used>>

-----------------------------------------------------------------------------
(* The orchestrator.                                                        *)

(* claim, CreditBudget, splitCredits, and the fan-out of the collector      *)
(* calls.  A forced execution adopts a row that is there.  CreditBudget     *)
(* failing leaves a budget of 0.  The row, started now, counts into the day *)
(* with the credits_used it has.                                            *)
Begin(r) ==
    /\ pc[r] = "idle"
    /\ pc' = [pc EXCEPT ![r] = "collect"]
    /\ \E x \in Runs, budget \in {0, DailyBudget} :
          /\ x = r \/ row[x] = x
          /\ IF budget = 0 THEN Fault ELSE UNCHANGED faults
          /\ row' = [row EXCEPT ![r] = x]
          /\ ceiling' = [ceiling EXCEPT ![r] = SplitCredits(budget)]
          /\ client' = [client EXCEPT ![r] =
                [s \in Sources |-> NewClient(s, mode[r], SplitCredits(budget))]]
          /\ Excuse({why \in Excuses :
                \/ why = "force" /\ x # r
                \/ why = "overlap" /\ \E o \in Runs : pc[o] = "collect"
                \/ why = "split" /\ SplitCredits(budget) = 0})
    /\ UNCHANGED <<mode, total, used, cache>>

(* A collector's answer is added up under the orchestrator's mutex.         *)
TakeAnswer(r, s) ==
    /\ pc[r] = "collect"
    /\ client[r][s].at = "over"
    /\ ~ client[r][s].told
    /\ client' = [client EXCEPT ![r][s].told = TRUE]
    /\ total' = [total EXCEPT ![r] = @ + client[r][s].counted]
    /\ UNCHANGED <<pc, mode, row, ceiling, used, cache, excuse, faults>>

(* The call fails or times out; what the collector spent, and still spends, *)
(* is not known to the run.                                                 *)
GiveUp(r, s) ==
    /\ pc[r] = "collect"
    /\ ~ client[r][s].told
    /\ client' = [client EXCEPT ![r][s].told = TRUE]
    /\ Fault
    /\ Excuse({"lost"})
    /\ UNCHANGED <<run, cache>>

(* Mutants: what is left is written for what was used; nothing is written.  *)
FinishWithRemainder(r) ==
    /\ pc[r] = "collect"
    /\ \A s \in Sources : client[r][s].told
    /\ pc' = [pc EXCEPT ![r] = "done"]
    /\ used' = [used EXCEPT ![row[r]] = ceiling[r] - total[r]]
    /\ UNCHANGED <<mode, row, ceiling, total, client, cache, excuse, faults>>

FinishWithoutCredits(r) ==
    /\ pc[r] = "collect"
    /\ \A s \in Sources : client[r][s].told
    /\ pc' = [pc EXCEPT ![r] = "done"]
    /\ UNCHANGED <<mode, row, ceiling, total, client, used, cache, excuse, faults>>

(* FinishRun replaces credits_used with what this execution added up.       *)
FinishRun(r) ==
    /\ pc[r] = "collect"
    /\ \A s \in Sources : client[r][s].told
    /\ pc' = [pc EXCEPT ![r] = "done"]
    /\ used' = [used EXCEPT ![row[r]] = total[r]]
    /\ UNCHANGED <<mode, row, ceiling, total, client, cache, excuse, faults>>

(* The UPDATE fails, committed or not, or the orchestrator dies before it.  *)
Unfinished(r) ==
    /\ pc[r] = "collect"
    /\ pc' = [pc EXCEPT ![r] = "dead"]
    /\ Fault
    /\ Excuse({"lost"})
    /\ \/ UNCHANGED used
       \/ /\ \A s \in Sources : client[r][s].told
          /\ used' = [used EXCEPT ![row[r]] = total[r]]
    /\ UNCHANGED <<mode, row, ceiling, total, client, cache>>

-----------------------------------------------------------------------------
(* One collector: the adapter walks its queries, each one through fetch.    *)

At(r, s, stage) == client[r][s].at = stage
Becomes(r, s, c) == client' = [client EXCEPT ![r][s] = c]
Live(r) == mode[r] = "live"

(* The lookup.  A key in fetch_cache is free; replay does not look.  The    *)
(* memo map makes asking twice in one client free: Plan is a set.           *)
Lookup(r, s) ==
    /\ At(r, s, "next")
    /\ \E q \in client[r][s].todo :
          LET c == [client[r][s] EXCEPT !.todo = @ \ {q}]
          IN  Becomes(r, s, IF Live(r) /\ q \in cache THEN c
                            ELSE [c EXCEPT !.at = "spend", !.query = q])
    /\ UNCHANGED <<run, cache, excuse, faults>>

(* The lookup fails: the adapter notes a problem and asks for the next one. *)
LookupFails(r, s) ==
    /\ At(r, s, "next")
    /\ Live(r)
    /\ \E q \in client[r][s].todo :
          Becomes(r, s, [client[r][s] EXCEPT !.todo = @ \ {q}])
    /\ Fault
    /\ UNCHANGED <<run, cache, excuse>>

(* Budget.Spend: load once, hold the credits, or read the day's total again *)
(* before refusing.  A refusal is ErrBudgetExceeded, which ends the adapter.*)
Cap(c) == IF c.cap = 0 THEN DailyBudget ELSE c.cap
(* Mutant: what this client holds already is forgotten.                     *)
BreachByPersisted(c, persisted) == persisted + Cost[c.query] > Cap(c)

Breach(c, persisted) == persisted + c.inProcess + Cost[c.query] > Cap(c)

Spend(r, s) ==
    /\ At(r, s, "spend")
    /\ LET c == client[r][s]
           fresh == IF Live(r) THEN DayTotal ELSE 0
           first == IF c.loaded THEN c.persisted ELSE fresh
           persisted == IF Breach(c, first) THEN fresh ELSE first
           loaded == [c EXCEPT !.loaded = TRUE, !.cap = Cap(c), !.persisted = persisted]
       IN  \/ /\ ~ Breach(c, persisted)
              /\ Becomes(r, s, [loaded EXCEPT !.at = "call", !.inProcess = @ + Cost[c.query]])
           \/ /\ Breach(c, persisted)
              /\ Becomes(r, s, [loaded EXCEPT !.at = "over", !.query = NoQuery,
                                              !.todo = {}])
    /\ UNCHANGED <<run, cache, excuse, faults>>

(* A read of load or readPersisted fails: not a refusal, the next query is  *)
(* tried.                                                                   *)
SpendFails(r, s) ==
    /\ At(r, s, "spend")
    /\ Live(r)
    /\ client[r][s].loaded => Breach(client[r][s], client[r][s].persisted)
    /\ Becomes(r, s, [client[r][s] EXCEPT !.at = "next", !.query = NoQuery])
    /\ Fault
    /\ UNCHANGED <<run, cache, excuse>>

(* The bytes.  do sends a request again after an error or a 5xx, and Anakin *)
(* may have started work for each copy; it bills what it starts, here when  *)
(* the call ends, since when it really charges shows nowhere in the client. *)
(* FetchClient.tla goes through the attempts and the polls one by one.      *)
Worked(c, n) == [c EXCEPT !.billed = @ + n * Cost[c.query]]

(* The answer is the last copy's.  A fixture costs nothing and is counted at*)
(* once.                                                                    *)
CallAnswers(r, s) ==
    /\ At(r, s, "call")
    /\ \/ /\ ~ Live(r)
          /\ LET c == client[r][s]
             IN  Becomes(r, s, [c EXCEPT !.at = "next", !.query = NoQuery,
                                         !.counted = @ + Cost[c.query]])
          /\ UNCHANGED <<excuse, faults>>
       \/ /\ Live(r)
          /\ \E n \in 1..MaxAttempts :
                /\ Becomes(r, s, [Worked(client[r][s], n) EXCEPT !.at = "write"])
                /\ IF n = 1 THEN UNCHANGED <<excuse, faults>>
                            ELSE Excuse({"repeated"}) /\ Fault
    /\ UNCHANGED <<run, cache>>

(* Mutant: a call that failed is counted.                                   *)
CallFailsCounted(r, s) ==
    /\ At(r, s, "call")
    /\ LET c == client[r][s]
       IN  Becomes(r, s, [c EXCEPT !.at = "next", !.query = NoQuery,
                                   !.counted = @ + Cost[c.query]])
    /\ Fault
    /\ UNCHANGED <<run, cache, excuse>>

(* The call fails for good: every attempt is refused, the job is given up   *)
(* after the last poll, the answer is lost, or record mode cannot write its *)
(* fixture.  The credits stay held and are not counted, whatever Anakin     *)
(* bills for the copies it has worked on.                                   *)
CallFails(r, s) ==
    /\ At(r, s, "call")
    /\ \E n \in 0..(IF Live(r) THEN MaxAttempts ELSE 0) :
          /\ Becomes(r, s, [Worked(client[r][s], n) EXCEPT !.at = "next",
                                                           !.query = NoQuery])
          /\ Excuse(IF n = 0 THEN {} ELSE {"repeated"})
    /\ Fault
    /\ UNCHANGED <<run, cache>>

(* writeFetchCache (ON CONFLICT DO NOTHING), then countCredits.             *)
WriteCache(r, s) ==
    /\ At(r, s, "write")
    /\ LET c == client[r][s]
       IN  /\ Becomes(r, s, [c EXCEPT !.at = "next", !.query = NoQuery,
                                      !.counted = @ + Cost[c.query]])
           /\ cache' = cache \cup {c.query}
    /\ UNCHANGED <<run, excuse, faults>>

(* The write fails, committed or not: fetch returns the error, before       *)
(* countCredits.                                                            *)
WriteCacheFails(r, s) ==
    /\ At(r, s, "write")
    /\ Becomes(r, s, [client[r][s] EXCEPT !.at = "next", !.query = NoQuery])
    /\ cache' \in {cache, cache \cup {client[r][s].query}}
    /\ Fault
    /\ Excuse({"lost"})
    /\ UNCHANGED run

(* No query is left: the collector answers with Stats.                      *)
CollectorEnds(r, s) ==
    /\ At(r, s, "next")
    /\ client[r][s].todo = {}
    /\ Becomes(r, s, [client[r][s] EXCEPT !.at = "over", !.query = NoQuery])
    /\ UNCHANGED <<run, cache, excuse, faults>>

-----------------------------------------------------------------------------
Orchestrate(r) ==
    \/ Begin(r) \/ FinishRun(r) \/ Unfinished(r)
    \/ \E s \in Sources : TakeAnswer(r, s) \/ GiveUp(r, s)

Collect(r, s) ==
    \/ Lookup(r, s) \/ LookupFails(r, s) \/ Spend(r, s) \/ SpendFails(r, s)
    \/ CallAnswers(r, s) \/ CallFails(r, s)
    \/ WriteCache(r, s) \/ WriteCacheFails(r, s) \/ CollectorEnds(r, s)

Next ==
    \E r \in Runs : Orchestrate(r) \/ \E s \in Sources : Collect(r, s)

Spec == Init /\ [][Next]_vars

-----------------------------------------------------------------------------
(* Properties.                                                              *)

HeldBy(r) == SumFunction([s \in Sources |-> client[r][s].inProcess])
BilledBy(r) == SumFunction([s \in Sources |-> client[r][s].billed])

(* Budget.Spend never holds more than the ceiling the call was given.  For  *)
(* a ceiling of 0 agents/bp-orchestrator/pipeline.go:304-307 says that no   *)
(* client can be built and the run collects nothing.  That holds of replay  *)
(* only: a live client takes 0 for "not stated", reads the brand's daily    *)
(* budget and spends up to all of it, and the property says so.             *)
Allowance(r) ==
    CASE ceiling[r] # 0             -> ceiling[r]
      [] ceiling[r] = 0 /\ Live(r)  -> DailyBudget
      [] ceiling[r] = 0 /\ ~Live(r) -> 0
ClientWithinItsCeiling ==
    \A r \in Runs, s \in Sources : client[r][s].inProcess <= Allowance(r)

(* fetch holds credits before the call and counts them after it.  However   *)
(* calls, cache and database fail, what a live collector reports was paid   *)
(* for, and what Anakin bills it is at most MaxAttempts times what it held. *)
(* And the runs table claims no credit that was not paid: a row has the     *)
(* total of an execution that was billed at least that, or that replayed.   *)
CountedWasPaid ==
    /\ \A r \in Runs, s \in Sources : Live(r) =>
          /\ client[r][s].counted <= client[r][s].billed
          /\ client[r][s].billed <= MaxAttempts * client[r][s].inProcess
    /\ \A x \in Runs : used[x] # 0 =>
          \E r \in Runs : row[r] = x /\ (Live(r) => used[x] <= BilledBy(r))

(* splitCredits: however the collectors of one execution interleave, they   *)
(* hold no more than the daily budget together, unless the split left 0.    *)
RunWithinDailyBudget ==
    \A r \in Runs : ceiling[r] # 0 => HeldBy(r) <= DailyBudget

(* The day's bill stays within the budget as long as executions did not     *)
(* overlap, none was forced, every split left something, nothing that was   *)
(* counted was lost on its way to the runs table, and Anakin worked once    *)
(* for each answer and for no call that failed.                             *)
DayBill == SumFunction([r \in Runs |-> BilledBy(r)])
QuietDayWithinBudget == excuse = {} => DayBill <= DailyBudget

(* db/migrations/001_init.sql, daily_credit_budget: hard ceiling on Anakin  *)
(* credits this brand may burn in one UTC day.                              *)
HardCeiling == DayBill <= DailyBudget

=============================================================================
