----------------------------- MODULE FetchClient -----------------------------
(***************************************************************************)
(* One call of the Anakin client at a time, from the budget to the answer: *)
(* fetch, do and pollJob of internal/anakin/http.go, and the upstream they *)
(* talk to.  CreditLedger has several clients and the database behind the  *)
(* budget; here Ceiling is what is left of it for this client.             *)
(*                                                                         *)
(* A key stands for a query, its cache key and its price.  Wire, Map and   *)
(* Crawl start a job and poll it; Search and Scrape are answered by the    *)
(* POST.  Upstream bills what completes, not what fails, whether or not    *)
(* anyone is still waiting for it.                                         *)
(***************************************************************************)
EXTENDS Integers, FiniteSets

CONSTANTS
    Keys,
    Cost,         \* wireCost, scrapeCost, costSearch, costMap, MaxPages
    Async,        \* the keys of Wire, Map and Crawl
    Ceiling,
    MaxAttempts,  \* maxAttempts
    MaxPolls      \* maxPollAttempts

ASSUME FetchAssumption ==
    /\ IsFiniteSet(Keys)
    /\ Cost \in [Keys -> Nat \ {0}]
    /\ Async \subseteq Keys
    /\ Ceiling \in Nat
    /\ MaxAttempts \in Nat \ {0} /\ MaxPolls \in Nat \ {0}

VARIABLES
    call,     \* the call in progress, or its result that nobody has taken yet
    spent,    \* Budget: held before the request and not given back
    counted,  \* Stats.CreditsUsed
    memo,     \* the keys in fetch_cache and in memo
    orphans,  \* orphans[k]: jobs upstream that nobody polls
    billed,   \* what upstream charged
    lost      \* history: the price of the POSTs whose answer did not arrive

clientVars == <<call, spent, counted, memo, orphans, billed, lost>>

Results == {"answered", "failed", "refused"}

ClientTypeOK ==
    /\ call \in [state : {"idle", "post", "poll"} \cup Results,
                 key : Keys,
                 attempt : 1..MaxAttempts,    \* do
                 polls : 0..(MaxPolls - 1),   \* pollJob
                 job : {"none", "running", "completed", "failed"}]
    /\ spent \in 0..Ceiling
    /\ counted \in 0..spent
    /\ memo \subseteq Keys
    /\ orphans \in [Keys -> Nat]
    /\ billed \in Nat
    /\ lost \in Nat

ClientInit ==
    /\ call = [state |-> "idle", key |-> CHOOSE k \in Keys : TRUE,
               attempt |-> 1, polls |-> 0, job |-> "none"]
    /\ spent = 0 /\ counted = 0
    /\ memo = {}
    /\ orphans = [k \in Keys |-> 0]
    /\ billed = 0
    /\ lost = 0

Now(state) == call' = [call EXCEPT !.state = state, !.attempt = 1, !.polls = 0, !.job = "none"]

(* The call is over, and a job it started but does not wait for goes on.    *)
Ends(state) ==
    /\ Now(state)
    /\ orphans' = [orphans EXCEPT ![call.key] = @ + (IF call.job = "running" THEN 1 ELSE 0)]

-----------------------------------------------------------------------------
(* fetch.                                                                   *)

(* Mutant: the ceiling is compared with what was spent before this call.    *)
SpendLate(k) == spent <= Ceiling

(* Spend, as far as this client's own ceiling decides.                      *)
Affordable(k) == spent + Cost[k] <= Ceiling

(* A cached key is answered from memory or from the table; the lookup may   *)
(* fail.  Then the budget is asked, then upstream.                          *)
Start(k) ==
    /\ call.state = "idle"
    /\ LET Become(state) == call' = [call EXCEPT !.state = state, !.key = k]
       IN  \/ /\ k \in memo
              /\ Become("answered")
              /\ UNCHANGED spent
           \/ /\ k \notin memo
              /\ Become("failed")
              /\ UNCHANGED spent
           \/ /\ k \notin memo /\ Affordable(k)
              /\ Become("post")
              /\ spent' = spent + Cost[k]
           \/ /\ k \notin memo /\ ~ Affordable(k)
              /\ Become("refused")
              /\ UNCHANGED spent
    /\ UNCHANGED <<counted, memo, orphans, billed, lost>>

(* Mutant: a failed call gives its credits back.                            *)
FailAndRefund ==
    /\ Ends("failed")
    /\ spent' = spent - Cost[call.key]
    /\ UNCHANGED <<counted, memo>>

Fail ==
    /\ Ends("failed")
    /\ UNCHANGED <<spent, counted, memo>>

(* The payload has arrived.  If it cannot be written to the cache it is     *)
(* dropped with the credits uncounted.                                      *)
Arrive ==
    \/ Fail
    \/ /\ Ends("answered")
       /\ memo' = memo \cup {call.key}
       /\ counted' = counted + Cost[call.key]
       /\ UNCHANGED spent

-----------------------------------------------------------------------------
(* do: a request that may be repeated.                                      *)

(* Mutant: one attempt too many.                                            *)
RepeatOnceMore ==
    /\ call.attempt <= MaxAttempts
    /\ call' = [call EXCEPT !.attempt = @ + 1]

Repeat ==
    /\ call.attempt < MaxAttempts
    /\ call' = [call EXCEPT !.attempt = @ + 1]

(* After a transport error, a 429 or a 5xx.                                 *)
TryAgain ==
    \/ Repeat /\ UNCHANGED <<spent, counted, memo, orphans>>
    \/ call.attempt >= MaxAttempts /\ Fail

(* Search and Scrape have their payload in the answer to the POST.          *)
InlineAnswered ==
    /\ call.state = "post"
    /\ call.key \notin Async
    /\ billed' = billed + Cost[call.key]
    /\ Arrive
    /\ UNCHANGED lost

(* The POST started a job, and its answer has the job's id.                 *)
JobAccepted ==
    /\ call.state = "post"
    /\ call.key \in Async
    /\ call' = [call EXCEPT !.state = "poll", !.attempt = 1, !.job = "running"]
    /\ UNCHANGED <<spent, counted, memo, orphans, billed, lost>>

(* It started a job and parseJobID finds no id: nobody will poll it.        *)
JobWithoutId ==
    /\ call.state = "post"
    /\ call.key \in Async
    /\ Now("failed")
    /\ orphans' = [orphans EXCEPT ![call.key] = @ + 1]
    /\ UNCHANGED <<spent, counted, memo, billed, lost>>

(* Upstream took the POST and did or began the work; the answer is lost.    *)
PostLost ==
    /\ call.state = "post"
    /\ lost' = lost + Cost[call.key]
    /\ \/ /\ call.key \in Async
          /\ orphans' = [orphans EXCEPT ![call.key] = @ + 1]
          /\ UNCHANGED billed
       \/ /\ call.key \notin Async
          /\ billed' = billed + Cost[call.key]
          /\ UNCHANGED orphans
    /\ Repeat \/ (call.attempt >= MaxAttempts /\ Now("failed"))
    /\ UNCHANGED <<spent, counted, memo>>

(* The POST does not get through, or is turned down for now; or, 4xx, for   *)
(* good.  A caller that has gone ends the call while it waits.              *)
PostFails ==
    /\ call.state = "post"
    /\ TryAgain \/ Fail
    /\ UNCHANGED <<billed, lost>>

-----------------------------------------------------------------------------
(* pollJob.                                                                 *)

(* Mutant: only a poll that can be read is counted.                         *)
PollForEver ==
    /\ call' = [call EXCEPT !.attempt = 1]
    /\ UNCHANGED <<spent, counted, memo, orphans>>

(* Still running, or a body that cannot be read: wait and poll again.       *)
PollAgain ==
    \/ /\ call.polls < MaxPolls - 1
       /\ call' = [call EXCEPT !.polls = @ + 1, !.attempt = 1]
       /\ UNCHANGED <<spent, counted, memo, orphans>>
    \/ /\ call.polls = MaxPolls - 1
       /\ Fail

Poll ==
    /\ call.state = "poll"
    /\ \/ call.job = "completed" /\ Arrive
       \/ call.job = "failed" /\ Fail
       \/ PollAgain
    /\ UNCHANGED <<billed, lost>>

PollFails ==
    /\ call.state = "poll"
    /\ TryAgain \/ Fail
    /\ UNCHANGED <<billed, lost>>

-----------------------------------------------------------------------------
(* Upstream, in its own time.                                               *)

JobEnds ==
    /\ call.job = "running"
    /\ \/ /\ call' = [call EXCEPT !.job = "completed"]
          /\ billed' = billed + Cost[call.key]
       \/ /\ call' = [call EXCEPT !.job = "failed"]
          /\ UNCHANGED billed
    /\ UNCHANGED <<spent, counted, memo, orphans, lost>>

OrphanEnds(k) ==
    /\ orphans[k] > 0
    /\ orphans' = [orphans EXCEPT ![k] = @ - 1]
    /\ billed' \in {billed, billed + Cost[k]}
    /\ UNCHANGED <<call, spent, counted, memo, lost>>

ClientStep == InlineAnswered \/ JobAccepted \/ JobWithoutId \/ PostLost \/ PostFails
              \/ Poll \/ PollFails
Upstream == JobEnds \/ \E k \in Keys : OrphanEnds(k)

-----------------------------------------------------------------------------
(* Properties of the client, whoever uses it.                               *)

(* http.go, fetch: the credits are held before the request and not given    *)
(* back.  So whatever is retried, times out or completes after nobody waits *)
(* for it, upstream never bills more than was held, except for POSTs that   *)
(* were sent again after their answer was lost.                             *)
BillIsHeldOrLost == billed <= spent + lost

(* However often an answer is lost, a call is billed at most once for each  *)
(* attempt, so the ceiling bounds the bill after all; and what Stats counts *)
(* as used was billed, so no answer is of a job that failed or still runs.  *)
BillIsBracketed == counted <= billed /\ billed <= MaxAttempts * spent

=============================================================================
