----------------------------- MODULE Onboarding -----------------------------
(***************************************************************************)
(* Adding a brand: the form (web/components/NewBrandForm.tsx), the         *)
(* dashboard's route (web/app/api/brands/route.ts, web/lib/pulse.ts), the  *)
(* BFF's POST /api/brands (bff/src/routes/brands.ts), its call to          *)
(* bp-onboarder (bff/src/a2a.ts; the agent is module Onboarder) and the    *)
(* transaction that stores the brand (bff/src/registry.ts).                *)
(*                                                                         *)
(* Every submission mints a fresh brand id, so a submission names its      *)
(* brand.  A tick of the clock is five seconds; only a timer of the code's *)
(* own makes the clock wait, so a statement in flight may take as long as  *)
(* the network and Postgres let it.                                        *)
(***************************************************************************)
EXTENDS Onboarder

CONSTANTS
    TypedLists,   \* the keyword fields the owner may type, split at commas
    PoolSize,     \* the registry pool's max
    WebTicks,     \* CREATE_BRAND_TIMEOUT_MS
    AgentTicks,   \* ONBOARDER_TIMEOUT_MS
    DatabaseTicks,\* DATABASE_TIMEOUT_MS
    MaxStops      \* bound: times the BFF dies

ASSUME OnboardingAssumption ==
    /\ PoolSize \in Nat \ {0}
    /\ {WebTicks, AgentTicks, DatabaseTicks} \subseteq Nat \ {0}
    /\ MaxStops \in Nat
    /\ IsFiniteSet(Requests) /\ Requests = 1..Cardinality(Requests)
    /\ TypedLists \subseteq Seq(Term)

VARIABLES
    typed,   \* [Requests -> the keywords sent]
    screen,  \* what the form shows, and of which submission
    web,     \* [Requests -> the dashboard's call and its age in ticks]
    bff,     \* [Requests -> the step its handler is at, for how long, and
             \* what draftProfile returned]
    tx,      \* [Requests -> the transaction as Postgres has it]
    brands,  \* the brands table
    profiles,\* the brand_profiles table
    stops    \* times the BFF died

bffVars == <<typed, bff, tx>>
tables == <<brands, profiles>>
vars == <<agent, typed, screen, web, bff, tx, brands, profiles, stops>>

NoDraft == [keywords |-> <<>>, error |-> TRUE]

\* The steps of the handler that hold one of the pool's connections.
Transaction == {"begin", "brand", "profile", "commit", "rollback"}
Ends == {"none", "created", "refused", "failed", "stopped"}
Handler(step) == [step |-> step, age |-> 0, draft |-> NoDraft]
Steps == Transaction \cup Ends \cup {"ask", "connect"}

Init ==
    /\ OnboarderInit
    /\ typed = [s \in Requests |-> <<>>]
    /\ screen = [shows |-> "form", of |-> 0]
    /\ web = [s \in Requests |-> [call |-> "none", age |-> 0]]
    /\ bff = [s \in Requests |-> Handler("none")]
    /\ tx = [s \in Requests |-> "none"]
    /\ brands = {}
    /\ profiles = {}
    /\ stops = 0

\* The form's terms, and again termList: blanks go, the rest is kept as typed.
TermList(words) == FirstOfEach(words, NonBlank(words), {})

\* Mutant: the agent's words lead.
MergeFoundFirst(ours, theirs) == Distinct(theirs \o ours)

\* The union with the typed terms first, every word once.
MergeTerms(ours, theirs) == Distinct(ours \o theirs)

ProfileToStore(s) ==
    [brand |-> s,
     keywords |-> MergeTerms(typed[s], bff[s].draft.keywords),
     drafted |-> ~bff[s].draft.error]

At(s, step) == bff[s].step = step
GoTo(s, step) == bff' = [bff EXCEPT ![s].step = step, ![s].age = 0]
EndsAs(s, end) == bff' = [bff EXCEPT ![s] = Handler(end)]

(***************************************************************************)
(* The form and the dashboard's route.                                     *)
(***************************************************************************)

\* The button works while nothing is being saved.  The route forwards the
\* fields and waits for the BFF.
Submit(s) ==
    /\ screen.shows \in {"form", "error", "partial"}
    /\ s = screen.of + 1
    /\ screen' = [shows |-> "saving", of |-> s]
    /\ \E words \in TypedLists : typed' = [typed EXCEPT ![s] = TermList(words)]
    /\ web' = [web EXCEPT ![s] = [call |-> "waiting", age |-> 0]]
    /\ UNCHANGED <<agent, bff, tx, brands, profiles, stops>>

\* An answer reaches the form if the route still waits for it.
Shown(s, what, how) ==
    IF web[s].call = "waiting"
    THEN /\ web' = [web EXCEPT ![s] = [call |-> how, age |-> 0]]
         /\ screen' = [screen EXCEPT !.shows = what]
    ELSE UNCHANGED <<web, screen>>

\* Mutant: the route's error leaves the form saving.
WebGivesUpUnseen(s) ==
    /\ web[s].call = "waiting"
    /\ web[s].age = WebTicks
    /\ web' = [web EXCEPT ![s] = [call |-> "gave_up", age |-> 0]]
    /\ UNCHANGED <<agent, screen, bffVars, tables, stops>>

\* AbortSignal.timeout ends the route's call.  The BFF is not told.
WebGivesUp(s) ==
    /\ web[s].call = "waiting"
    /\ web[s].age = WebTicks
    /\ Shown(s, "error", "gave_up")
    /\ UNCHANGED <<agent, bffVars, tables, stops>>

\* The BFF cannot be reached, or a connection or an answer between the form,
\* the route and the BFF is lost.  The BFF is not told: a handler that is at
\* work goes on, and a request that is only late still gets one.
WebLosesBff(s) ==
    /\ web[s].call = "waiting"
    /\ Shown(s, "error", "lost")
    /\ UNCHANGED <<agent, bffVars, tables, stops>>

(***************************************************************************)
(* The BFF's handler.                                                      *)
(***************************************************************************)

\* Mutant: the 400 is sent and the handler goes on.
RefuseAndGoOn(s) ==
    /\ At(s, "none")
    /\ web[s].call # "none"
    /\ GoTo(s, "ask")
    /\ Asked(s)
    /\ Shown(s, "error", "answered")
    /\ UNCHANGED <<typed, tx, tables, stops>>

\* newBrandFrom accepts the fields, or refuses them with a 400: a website that
\* is not an http URL passes the form and the route.
Accept(s) ==
    /\ At(s, "none")
    /\ web[s].call # "none"
    /\ GoTo(s, "ask")
    /\ Asked(s)
    /\ UNCHANGED <<typed, screen, web, tx, tables, stops>>

Refuse(s) ==
    /\ At(s, "none")
    /\ web[s].call # "none"
    /\ EndsAs(s, "refused")
    /\ Shown(s, "error", "answered")
    /\ UNCHANGED <<agent, typed, tx, tables, stops>>

\* draftProfile returns what callAgent returns or throws, and never throws.
DraftProfile(s, drafted) ==
    /\ At(s, "ask")
    /\ bff' = [bff EXCEPT ![s] = [Handler("connect") EXCEPT !.draft = drafted]]
    /\ UNCHANGED <<agent, typed, screen, web, tx, tables, stops>>

Drafted(s) ==
    /\ agent[s].at = "completed"
    /\ DraftProfile(s, [keywords |-> agent[s].keywords, error |-> FALSE])

\* The task failed, or the agent could not be reached or answered nonsense.
AgentLost(s) == agent[s].at # "completed" /\ DraftProfile(s, NoDraft)

AgentTimesOut(s) == bff[s].age = AgentTicks /\ DraftProfile(s, NoDraft)

\* Every failure of createBrand is a 500, and a 502 from the dashboard's route.
Fails(s) == EndsAs(s, "failed") /\ Shown(s, "error", "answered")

\* Mutant: a connection for everyone.
ConnectPastPool(s) ==
    /\ At(s, "connect")
    /\ GoTo(s, "begin")
    /\ UNCHANGED <<agent, typed, screen, web, tx, tables, stops>>

\* One of the pool's connections, once one is free.
Connect(s) ==
    /\ At(s, "connect")
    /\ Cardinality({t \in Requests : bff[t].step \in Transaction}) < PoolSize
    /\ GoTo(s, "begin")
    /\ UNCHANGED <<agent, typed, screen, web, tx, tables, stops>>

\* pool.connect is outside the try: nothing was begun and nothing is undone.
ConnectFails(s) ==
    /\ At(s, "connect")
    /\ Fails(s)
    /\ UNCHANGED <<agent, typed, tx, tables, stops>>

ConnectTimesOut(s) == bff[s].age = DatabaseTicks /\ ConnectFails(s)

Begin(s) ==
    /\ At(s, "begin")
    /\ tx' = [tx EXCEPT ![s] = "open"]
    /\ GoTo(s, "brand")
    /\ UNCHANGED <<agent, typed, screen, web, tables, stops>>

InsertBrand(s) ==
    /\ At(s, "brand")
    /\ GoTo(s, "profile")
    /\ UNCHANGED <<agent, typed, screen, web, tx, tables, stops>>

InsertProfile(s) ==
    /\ At(s, "profile")
    /\ GoTo(s, "commit")
    /\ UNCHANGED <<agent, typed, screen, web, tx, tables, stops>>

\* Postgres makes both rows of the transaction visible at once.
Commit(s) ==
    /\ At(s, "commit")
    /\ tx[s] = "open"
    /\ tx' = [tx EXCEPT ![s] = "committed"]
    /\ brands' = brands \cup {s}
    /\ profiles' = profiles \cup {ProfileToStore(s)}
    /\ UNCHANGED <<agent, typed, screen, web, bff, stops>>

\* 201, with onboarder_error when the draft failed.
Created(s) ==
    /\ At(s, "commit")
    /\ tx[s] = "committed"
    /\ EndsAs(s, "created")
    /\ Shown(s, IF bff[s].draft.error THEN "partial" ELSE "dashboard", "answered")
    /\ UNCHANGED <<agent, typed, tx, tables, stops>>

\* A statement fails, or its answer is lost: the catch goes on to ROLLBACK.
StatementFails(s) ==
    /\ bff[s].step \in Transaction \ {"rollback"}
    /\ tx' = [tx EXCEPT ![s] = IF @ = "committed" THEN "unacked" ELSE "aborted"]
    /\ GoTo(s, "rollback")
    /\ UNCHANGED <<agent, typed, screen, web, tables, stops>>

\* Mutant: the catch does not throw on.
RollbackAndCarryOn(s) ==
    /\ At(s, "rollback")
    /\ EndsAs(s, "created")
    /\ Shown(s, IF bff[s].draft.error THEN "partial" ELSE "dashboard", "answered")
    /\ UNCHANGED <<agent, typed, tx, tables, stops>>

\* ROLLBACK ends what is left of the transaction, and the error is thrown on.
Rollback(s) ==
    /\ At(s, "rollback")
    /\ Fails(s)
    /\ UNCHANGED <<agent, typed, tx, tables, stops>>

\* The BFF dies: the routes that wait on it get a connection error, and
\* Postgres rolls back the transactions it left open.
Stop ==
    LET hit == {s \in Requests : bff[s].step \notin Ends}
    IN  /\ stops < MaxStops
        /\ hit # {}
        /\ stops' = stops + 1
        /\ bff' = [s \in Requests |-> IF s \in hit THEN Handler("stopped") ELSE bff[s]]
        /\ tx' = [s \in Requests |->
                    IF s \notin hit THEN tx[s]
                    ELSE CASE tx[s] = "committed" -> "unacked"
                           [] tx[s] = "open" -> "aborted"
                           [] OTHER -> tx[s]]
        /\ web' = [s \in Requests |->
                     IF s \in hit /\ web[s].call = "waiting"
                     THEN [call |-> "answered", age |-> 0] ELSE web[s]]
        /\ screen' = IF \E s \in hit : web[s].call = "waiting"
                     THEN [screen EXCEPT !.shows = "error"] ELSE screen
        /\ UNCHANGED <<agent, typed, tables>>

(***************************************************************************)
(* The clock.                                                              *)
(***************************************************************************)

\* [age, ticks] of the timers that run.
Timers ==
    {<<web[s].age, WebTicks>> : s \in {r \in Requests : web[r].call = "waiting"}} \cup
    {<<bff[s].age, AgentTicks>> : s \in {r \in Requests : At(r, "ask")}} \cup
    {<<bff[s].age, DatabaseTicks>> : s \in {r \in Requests : At(r, "connect")}}

\* Five seconds pass.  A timer that has run out fires first.
Tick ==
    /\ Timers # {}
    /\ \A timer \in Timers : timer[1] < timer[2]
    /\ web' = [s \in Requests |->
                 [web[s] EXCEPT !.age = IF web[s].call = "waiting" THEN @ + 1 ELSE @]]
    /\ bff' = [s \in Requests |->
                 [bff[s] EXCEPT !.age =
                     CASE bff[s].step \in {"ask", "connect"} -> @ + 1
                       [] bff[s].step \in Transaction -> Min({@ + 1, DatabaseTicks})
                       [] OTHER -> @]]
    /\ UNCHANGED <<agent, typed, screen, tx, tables, stops>>

Agent(s) == AgentStep(s) /\ UNCHANGED <<bffVars, screen, web, tables, stops>>

TimesOut(s) == WebGivesUp(s) \/ AgentTimesOut(s) \/ ConnectTimesOut(s)

Step ==
    \/ \E s \in Requests :
          \/ Submit(s) \/ WebLosesBff(s) \/ Accept(s) \/ Refuse(s)
          \/ Drafted(s) \/ AgentLost(s)
          \/ Connect(s) \/ ConnectFails(s)
          \/ Begin(s) \/ InsertBrand(s) \/ InsertProfile(s)
          \/ Commit(s) \/ Created(s) \/ StatementFails(s) \/ Rollback(s)
          \/ TimesOut(s)
          \/ Agent(s)
    \/ Stop

Next == Step \/ Tick

\* Node fires a timer that ran out, and time passes.  Nothing else is assumed
\* of the agent, of Postgres or of the BFF.
Fairness ==
    /\ WF_vars(Tick)
    /\ \A s \in Requests : WF_vars(TimesOut(s))

Spec == Init /\ [][Next]_vars /\ Fairness

\* The BFF takes a request at once, and Postgres cancels in time each statement
\* that passes statement_timeout: everything but the agent is well.
InTime ==
    \A s \in Requests :
        /\ At(s, "none") => web[s].call # "waiting"
        /\ bff[s].step \in Transaction => bff[s].age < DatabaseTicks

PromptSpec ==
    /\ Init /\ [][Step \/ (Tick /\ InTime)]_vars
    /\ WF_vars(Tick /\ InTime)
    /\ \A s \in Requests : WF_vars(TimesOut(s))

(***************************************************************************)
(* Properties.                                                             *)
(***************************************************************************)

TypeOK ==
    /\ AgentTypeOK
    /\ \A s \in Requests :
          /\ web[s].call \in {"none", "waiting", "answered", "gave_up", "lost"}
          /\ web[s].age \in 0..WebTicks
          /\ bff[s].step \in Steps
          /\ bff[s].age \in 0..Max({AgentTicks, DatabaseTicks})
          /\ tx[s] \in {"none", "open", "committed", "unacked", "aborted"}
          /\ bff[s].step = "connect" => tx[s] = "none"
    /\ screen.shows \in {"form", "saving", "error", "partial", "dashboard"}
    /\ screen.of \in {0} \cup Requests
    /\ Cardinality({s \in Requests : bff[s].step \in Transaction}) <= PoolSize
    /\ brands \subseteq Requests
    /\ stops \in 0..MaxStops

\* Whatever the agent made of the website and however late it answered, a
\* stored brand has exactly one profile, which begins with the words its owner
\* typed, in their order and spelling, and repeats no word; and the agent's
\* words are in it only when its answer arrived in time (profileToStore,
\* mergeTerms, createBrand).
OwnersWordsComeFirst ==
    /\ brands = {p.brand : p \in profiles}
    /\ \A p, q \in profiles : p.brand = q.brand => p = q
    /\ \A p \in profiles :
          LET own == Distinct(typed[p.brand])
          IN  /\ IsPrefix(own, p.keywords)
              /\ IsInjective([i \in DOMAIN p.keywords |-> p.keywords[i].word])
              /\ ~p.drafted => p.keywords = own

\* The form tells the truth about the brand it just sent: a dashboard link or
\* a redirect means the rows are there, "created from the keywords you typed"
\* means exactly those are, and "brand not created" means there is no brand,
\* unless the route stopped waiting, an answer was lost on the way to the form
\* or the answer to COMMIT was (NewBrandForm.save, the POST route, createBrand).
ScreenTellsTheTruth ==
    LET s == screen.of
    IN  /\ screen.shows \in {"dashboard", "partial"} => s \in brands
        /\ screen.shows = "partial" => \A p \in profiles : p.brand = s => ~p.drafted
        /\ screen.shows = "error" /\ s \in brands =>
              web[s].call \in {"gave_up", "lost"} \/ tx[s] = "unacked"

\* What the answer to a submission is worth.  One that never came, one that was
\* lost and a failure of a COMMIT that was executed leave it open.
Told(s) ==
    CASE web[s].call = "none" -> "unasked"
      [] web[s].call = "waiting" -> "waiting"
      [] web[s].call \in {"gave_up", "lost"} -> "open"
      [] web[s].call = "answered" ->
            IF bff[s].step = "created" THEN "created"
            ELSE IF tx[s] = "unacked" THEN "open" ELSE "refused"

Registry == INSTANCE BrandRegistry WITH
    Brands    <- Requests,
    WordLists <- {TermList(words) : words \in TypedLists},
    Once      <- Distinct,
    asked     <- typed,
    told      <- [s \in Requests |-> Told(s)],
    entries   <- profiles

\* Whoever gives up, dies or loses an answer, and whatever else is submitted
\* meanwhile, the tables are the registry that the form stands for: a brand is
\* stored once and for good with its owner's words first, one that the BFF
\* refused or failed with nothing committed is never stored afterwards, and one
\* that was confirmed was stored before (the POST routes, createBrand).
ImplementsRegistry == Registry!RegistrySpec

\* Whoever presses the button gets an answer: the route's own timer ends every
\* wait, also when the agent, Postgres or the BFF never answers
\* (CREATE_BRAND_TIMEOUT_MS).
EverySubmitIsAnswered == screen.shows = "saving" ~> screen.shows # "saving"

\* web/lib/pulse.ts:91-92 "The BFF falls back to the typed keywords on its own
\* timeout, so this ceiling is reached only if the BFF itself has stopped":
\* a route that gave up was waiting on a BFF that no longer works on its brand.
CeilingMeansStopped ==
    [][\A s \in Requests : web[s].call = "waiting" /\ web'[s].call = "gave_up"
          => bff[s].step \in Ends]_vars

=============================================================================
