------------------------- MODULE CreditLedgerProofs -------------------------
(***************************************************************************)
(* Theorems about CreditLedger.tla, for any set of executions, sources and *)
(* queries, any costs and any budget.  LInv says what one collector's      *)
(* client is bound by whatever happens around it; QInv what ties the       *)
(* clients of a day together as long as nothing is excused.                *)
(***************************************************************************)
EXTENDS CreditLedger, SumTheorems

-----------------------------------------------------------------------------
(* The split of the budget.                                                 *)

LEMMA SourcesAreSome == Cardinality(Sources) \in Nat \ {0}
<1>1. Cardinality(Sources) \in Nat
  BY LedgerAssumption, FS_CardinalityType
<1>2. Cardinality(Sources) # 0
  BY LedgerAssumption, FS_EmptySet
<1>. QED BY <1>1, <1>2

LEMMA Division ==
    ASSUME NEW d \in Nat, NEW n \in Nat \ {0}
    PROVE  d \div n \in Nat /\ n * (d \div n) <= d
OBVIOUS

LEMMA SplitWithin ==
    ASSUME NEW budget \in Nat
    PROVE  /\ SplitCredits(budget) \in Nat
           /\ SplitCredits(budget) <= budget
           /\ Cardinality(Sources) * SplitCredits(budget) <= budget
<1>1. /\ SplitCredits(budget) \in Nat
      /\ Cardinality(Sources) * SplitCredits(budget) <= budget
  BY SourcesAreSome, Division DEF SplitCredits
<1>. DEFINE n == Cardinality(Sources)
            c == SplitCredits(budget)
<1>2. n \in Nat \ {0} /\ c \in Nat /\ n * c <= budget
  BY <1>1, SourcesAreSome
<1>. HIDE DEF n, c
<1>3. c <= n * c
  BY <1>2
<1>4. n * c \in Nat
  BY <1>2
<1>5. c <= budget
  BY <1>2, <1>3, <1>4
<1>. QED BY <1>1, <1>5 DEF c

LEMMA DayTotalType == TypeOK => DayTotal \in Nat
<1>. SUFFICES ASSUME TypeOK PROVE SumFunctionOnSet(used, Runs) \in Nat
  BY DEF TypeOK, DayTotal, SumFunction
<1>2. \A r \in Runs : used[r] \in Nat
  BY DEF TypeOK
<1>. QED BY <1>2, SumInNat, LedgerAssumption

-----------------------------------------------------------------------------
(* One client.  most is what its ceiling stands for; live is whether its    *)
(* calls are billed.  While a call is under way its credits are held but    *)
(* not billed; while its row is written they are billed but not counted.    *)

Sound(c, most, live) ==
    /\ c.at \in {"spend", "call", "write"} => c.query \in Queries
    /\ c.at \notin {"off", "over"} => Cap(c) = most
    /\ c.inProcess <= most
    /\ live =>
         /\ c.at # "write" => c.counted <= c.billed
         /\ c.at = "write" => c.counted + Cost[c.query] <= c.billed
         /\ c.at # "call" => c.billed <= MaxAttempts * c.inProcess
         /\ c.at = "call" =>
              c.billed + MaxAttempts * Cost[c.query] <= MaxAttempts * c.inProcess

ClientsAreSound ==
    \A r \in Runs, s \in Sources : Sound(client[r][s], Allowance(r), Live(r))

CeilingIsAShare == \A r \in Runs : ceiling[r] \in {0, SplitCredits(DailyBudget)}

LInv == TypeOK /\ CeilingIsAShare /\ ClientsAreSound

LEMMA OffIsAClient == Off \in Client
BY DEF Off, Client, Stages

First(k, m) == IF k # 0 THEN k ELSE IF m = "live" THEN DailyBudget ELSE 0

LEMMA NewClientIsSound ==
    ASSUME NEW s \in Sources, NEW m \in Modes, NEW k \in Nat
    PROVE  /\ NewClient(s, m, k) \in Client
           /\ Sound(NewClient(s, m, k), First(k, m), m = "live")
<1>1. NewClient(s, m, k) \in Client
  BY LedgerAssumption DEF NewClient, Client, Off, Stages
<1>2. Sound(NewClient(s, m, k), First(k, m), m = "live")
  BY LedgerAssumption DEF NewClient, Sound, Off, Cap, First
<1>. QED BY <1>1, <1>2

LEMMA InitLInv == Init => LInv
<1>. SUFFICES ASSUME Init PROVE LInv
  OBVIOUS
<1>1. TypeOK
  <2>1. client \in [Runs -> [Sources -> Client]]
    BY OffIsAClient DEF Init
  <2>. QED BY <2>1, LedgerAssumption DEF Init, TypeOK
<1>2. CeilingIsAShare
  BY DEF Init, CeilingIsAShare
<1>3. ClientsAreSound
  BY LedgerAssumption DEF Init, ClientsAreSound, Sound, Off, Cap, Allowance
<1>. QED BY <1>1, <1>2, <1>3 DEF LInv

LEMMA Replaced ==
    ASSUME TypeOK, NEW r \in Runs, NEW s \in Sources, NEW c \in Client, Becomes(r, s, c)
    PROVE  /\ client' \in [Runs -> [Sources -> Client]]
           /\ client'[r][s] = c
           /\ \A q \in Runs, t \in Sources :
                 ~ (q = r /\ t = s) => client'[q][t] = client[q][t]
BY DEF TypeOK, Becomes

(* A step of one collector: its client becomes c, the runs stay.            *)
LEMMA OneClientMoves ==
    ASSUME LInv, NEW r \in Runs, NEW s \in Sources, NEW c \in Client,
           Sound(c, Allowance(r), Live(r)), Becomes(r, s, c),
           UNCHANGED run, cache' \in SUBSET Queries,
           excuse' \in SUBSET Excuses, faults' \in 0..MaxFaults
    PROVE  LInv'
<1>1. TypeOK'
  BY DEF LInv, TypeOK, Becomes, run
<1>2. CeilingIsAShare'
  BY DEF LInv, CeilingIsAShare, run, SplitCredits
<1>3. ClientsAreSound'
  <2>. SUFFICES ASSUME NEW q \in Runs, NEW t \in Sources
                PROVE  Sound(client'[q][t], Allowance(q)', Live(q)')
    BY DEF ClientsAreSound
  <2>1. Allowance(q)' = Allowance(q) /\ Live(q)' = Live(q)
    BY DEF run, Allowance, Live
  <2>2. CASE q = r /\ t = s
    BY <2>1, <2>2, Replaced DEF LInv
  <2>3. CASE ~ (q = r /\ t = s)
    <3>1. client'[q][t] = client[q][t]
      BY <2>3, Replaced DEF LInv
    <3>. QED BY <2>1, <3>1 DEF LInv, ClientsAreSound
  <2>. QED BY <2>2, <2>3
<1>. QED BY <1>1, <1>2, <1>3 DEF LInv

-----------------------------------------------------------------------------
(* The steps of a collector.                                                *)

LEMMA ClientFacts ==
    ASSUME LInv, NEW r \in Runs, NEW s \in Sources
    PROVE  /\ client[r][s] \in Client
           /\ Sound(client[r][s], Allowance(r), Live(r))
           /\ Allowance(r) \in Nat
           /\ client[r][s].query \in Queries => Cost[client[r][s].query] \in Nat \ {0}
<1>1. client[r][s] \in Client
  BY DEF LInv, TypeOK
<1>2. Sound(client[r][s], Allowance(r), Live(r))
  BY DEF LInv, ClientsAreSound
<1>3. Allowance(r) \in Nat
  BY LedgerAssumption DEF LInv, TypeOK, Allowance
<1>. QED BY <1>1, <1>2, <1>3, LedgerAssumption

LEMMA FaultType ==
    ASSUME TypeOK, Fault PROVE faults' \in 0..MaxFaults
BY LedgerAssumption DEF TypeOK, Fault

LEMMA ExcuseType ==
    ASSUME TypeOK, NEW why \in SUBSET Excuses, Excuse(why)
    PROVE  excuse' \in SUBSET Excuses
BY DEF TypeOK, Excuse

LEMMA LookupKeepsLInv ==
    ASSUME LInv, NEW r \in Runs, NEW s \in Sources, Lookup(r, s)
    PROVE  LInv'
<1>. DEFINE c == client[r][s]
<1>1. PICK q \in c.todo :
         Becomes(r, s, IF Live(r) /\ q \in cache THEN [c EXCEPT !.todo = @ \ {q}]
                       ELSE [[c EXCEPT !.todo = @ \ {q}] EXCEPT !.at = "spend", !.query = q])
  BY DEF Lookup
<1>. DEFINE d == IF Live(r) /\ q \in cache THEN [c EXCEPT !.todo = @ \ {q}]
                 ELSE [[c EXCEPT !.todo = @ \ {q}] EXCEPT !.at = "spend", !.query = q]
<1>2. c \in Client /\ Sound(c, Allowance(r), Live(r)) /\ c.at = "next"
  BY ClientFacts DEF Lookup, At
<1>. HIDE DEF c
<1>3. d \in Client
  BY <1>1, <1>2 DEF Client, Stages
<1>4. Sound(d, Allowance(r), Live(r))
  BY <1>1, <1>2 DEF Client, Sound, Cap
<1>5. /\ UNCHANGED run /\ cache' \in SUBSET Queries
      /\ excuse' \in SUBSET Excuses /\ faults' \in 0..MaxFaults
  BY DEF Lookup, LInv, TypeOK
<1>. HIDE DEF d
<1>6. Becomes(r, s, d)
  BY <1>1 DEF c, d
<1>. QED BY <1>3, <1>4, <1>5, <1>6, OneClientMoves

LEMMA LookupFailsKeepsLInv ==
    ASSUME LInv, NEW r \in Runs, NEW s \in Sources, LookupFails(r, s)
    PROVE  LInv'
<1>. DEFINE c == client[r][s]
<1>1. PICK q \in c.todo : Becomes(r, s, [c EXCEPT !.todo = @ \ {q}])
  BY DEF LookupFails
<1>. DEFINE d == [c EXCEPT !.todo = @ \ {q}]
<1>2. c \in Client /\ Sound(c, Allowance(r), Live(r))
  BY ClientFacts
<1>. HIDE DEF c
<1>3. d \in Client /\ Sound(d, Allowance(r), Live(r))
  BY <1>2 DEF Client, Sound, Cap
<1>4. /\ UNCHANGED run /\ cache' \in SUBSET Queries
      /\ excuse' \in SUBSET Excuses /\ faults' \in 0..MaxFaults
  BY FaultType DEF LookupFails, LInv, TypeOK
<1>. HIDE DEF d
<1>5. Becomes(r, s, d)
  BY <1>1 DEF c, d
<1>. QED BY <1>3, <1>4, <1>5, OneClientMoves

LEMMA SpendKeepsLInv ==
    ASSUME LInv, NEW r \in Runs, NEW s \in Sources, Spend(r, s)
    PROVE  LInv'
<1>. DEFINE c == client[r][s]
            fresh == IF Live(r) THEN DayTotal ELSE 0
            first == IF c.loaded THEN c.persisted ELSE fresh
            persisted == IF Breach(c, first) THEN fresh ELSE first
            loaded == [c EXCEPT !.loaded = TRUE, !.cap = Cap(c), !.persisted = persisted]
            held == [loaded EXCEPT !.at = "call", !.inProcess = @ + Cost[c.query]]
            refused == [loaded EXCEPT !.at = "over", !.query = NoQuery, !.todo = {}]
<1>1. \/ ~ Breach(c, persisted) /\ Becomes(r, s, held)
      \/ Breach(c, persisted) /\ Becomes(r, s, refused)
  BY DEF Spend
<1>2. /\ c \in Client /\ Sound(c, Allowance(r), Live(r)) /\ Allowance(r) \in Nat
      /\ c.at = "spend" /\ c.query \in Queries /\ Cost[c.query] \in Nat \ {0}
  BY ClientFacts DEF Spend, At, Sound
<1>3. /\ UNCHANGED run /\ cache' \in SUBSET Queries
      /\ excuse' \in SUBSET Excuses /\ faults' \in 0..MaxFaults
  BY DEF Spend, LInv, TypeOK
<1>4. fresh \in Nat
  BY DayTotalType DEF LInv
<1>. HIDE DEF c, fresh
<1>5. persisted \in Nat
  BY <1>2, <1>4 DEF Client
<1>. HIDE DEF persisted
<1>6. loaded \in Client
  BY <1>2, <1>5, LedgerAssumption DEF Client, Cap
<1>7. CASE ~ Breach(c, persisted) /\ Becomes(r, s, held)
  <2>1. held \in Client
    <3>1. loaded.inProcess + Cost[c.query] \in Nat
      BY <1>2, <1>6 DEF Client
    <3>. HIDE DEF loaded
    <3>. QED BY <1>6, <3>1 DEF Client, Stages
  <2>2. c.inProcess + Cost[c.query] <= Allowance(r)
    BY <1>2, <1>5, <1>7 DEF Breach, Client, Sound
  <2>3. Sound(held, Allowance(r), Live(r))
    <3>. DEFINE k == Cost[c.query]
    <3>1. c.inProcess \in Nat /\ k \in Nat /\ MaxAttempts \in Nat
      BY <1>2, LedgerAssumption DEF Client
    <3>2. MaxAttempts * (c.inProcess + k) = MaxAttempts * c.inProcess + MaxAttempts * k
      BY <3>1
    <3>3. MaxAttempts * c.inProcess \in Nat /\ MaxAttempts * k \in Nat
      BY <3>1
    <3>4. /\ held.at = "call" /\ held.query = c.query /\ held.cap = Cap(c)
          /\ held.inProcess = c.inProcess + k /\ held.counted = c.counted
          /\ held.billed = c.billed
      BY <1>2 DEF Client
    <3>5. Cap(held) = Allowance(r)
      BY <1>2, <3>4, LedgerAssumption DEF Sound, Cap
    <3>6. c.billed \in Nat /\ c.counted \in Nat
      BY <1>2 DEF Client
    <3>7. Live(r) => c.counted <= c.billed /\ c.billed <= MaxAttempts * c.inProcess
      BY <1>2 DEF Sound
    <3>8. Live(r) => c.billed + MaxAttempts * k <= MaxAttempts * (c.inProcess + k)
      BY <3>2, <3>3, <3>6, <3>7
    <3>. HIDE DEF held
    <3>. QED BY <1>2, <2>2, <3>4, <3>5, <3>7, <3>8 DEF Sound
  <2>. HIDE DEF held
  <2>. QED BY <1>3, <1>7, <2>1, <2>3, OneClientMoves
<1>8. CASE Breach(c, persisted) /\ Becomes(r, s, refused)
  <2>1. refused \in Client
    BY <1>2, <1>6 DEF Client, Stages
  <2>2. Sound(refused, Allowance(r), Live(r))
    BY <1>2, <1>6, LedgerAssumption DEF Client, Sound, Cap
  <2>. HIDE DEF refused
  <2>. QED BY <1>3, <1>8, <2>1, <2>2, OneClientMoves
<1>. QED BY <1>1, <1>7, <1>8

(* The steps that move a client to another stage and touch no total.        *)
LEMMA TurnedBack ==
    ASSUME NEW c \in Client, NEW most \in Nat, NEW live \in BOOLEAN,
           Sound(c, most, live), NEW stage \in {"next", "over"},
           c.at \notin {"off", "over", "call"},
           c.query \in Queries => Cost[c.query] \in Nat
    PROVE  LET d == [c EXCEPT !.at = stage, !.query = NoQuery]
           IN  d \in Client /\ Sound(d, most, live)
<1>. DEFINE d == [c EXCEPT !.at = stage, !.query = NoQuery]
<1>1. d \in Client
  BY DEF Client, Stages
<1>2. Sound(d, most, live)
  BY DEF Client, Sound, Cap
<1>. QED BY <1>1, <1>2

LEMMA TurnBackKeepsLInv ==
    ASSUME LInv, NEW r \in Runs, NEW s \in Sources, NEW stage \in {"next", "over"},
           Becomes(r, s, [client[r][s] EXCEPT !.at = stage, !.query = NoQuery]),
           client[r][s].at \notin {"off", "over", "call"},
           UNCHANGED run, cache' \in SUBSET Queries,
           excuse' \in SUBSET Excuses, faults' \in 0..MaxFaults
    PROVE  LInv'
<1>. DEFINE c == client[r][s]
            d == [c EXCEPT !.at = stage, !.query = NoQuery]
<1>1. /\ c \in Client /\ Sound(c, Allowance(r), Live(r)) /\ Allowance(r) \in Nat
      /\ c.query \in Queries => Cost[c.query] \in Nat
      /\ c.at \notin {"off", "over", "call"}
  BY ClientFacts
<1>2. Live(r) \in BOOLEAN
  BY DEF Live
<1>. HIDE DEF c
<1>3. d \in Client /\ Sound(d, Allowance(r), Live(r))
  BY <1>1, <1>2, TurnedBack
<1>4. Becomes(r, s, d)
  BY DEF c
<1>. HIDE DEF d
<1>. QED BY <1>3, <1>4, OneClientMoves

(* What n copies of a call add to the bill, of the MaxAttempts that holding *)
(* its credits allows for.                                                  *)
LEMMA WorkedWithin ==
    ASSUME NEW b \in Nat, NEW k \in Nat, NEW p \in Nat,
           b + MaxAttempts * k <= MaxAttempts * p, NEW n \in 0..MaxAttempts
    PROVE  /\ n * k \in Nat
           /\ n >= 1 => n * k >= k
           /\ b + n * k \in Nat /\ b + n * k <= MaxAttempts * p
<1>. DEFINE m == MaxAttempts - n
<1>1. MaxAttempts \in Nat /\ n \in Nat /\ m \in Nat /\ MaxAttempts = n + m
  BY LedgerAssumption
<1>2. n * k \in Nat /\ m * k \in Nat /\ MaxAttempts * p \in Nat
  BY <1>1
<1>3. MaxAttempts * k = n * k + m * k
  BY <1>1
<1>4. n >= 1 => n * k >= k
  BY <1>1
<1>. HIDE DEF m
<1>. QED BY <1>2, <1>3, <1>4

LEMMA CallKeepsSound ==
    ASSUME NEW c \in Client, NEW most \in Nat, Sound(c, most, TRUE),
           c.at = "call", c.query \in Queries, Cost[c.query] \in Nat \ {0},
           NEW n \in 0..MaxAttempts, NEW stage \in {"next", "write"},
           stage = "write" => n >= 1
    PROVE  LET d == [Worked(c, n) EXCEPT !.at = stage]
           IN  d \in Client /\ Sound(d, most, TRUE)
<1>. DEFINE d == [Worked(c, n) EXCEPT !.at = stage]
            k == Cost[c.query]
            bill == c.billed + n * k
<1>1. c.billed \in Nat /\ c.inProcess \in Nat /\ c.counted \in Nat /\ k \in Nat
  BY DEF Client
<1>2. c.billed + MaxAttempts * k <= MaxAttempts * c.inProcess
  BY DEF Sound
<1>. HIDE DEF k
<1>3. /\ n * k \in Nat /\ (n >= 1 => n * k >= k)
      /\ bill \in Nat /\ bill <= MaxAttempts * c.inProcess
  BY <1>1, <1>2, WorkedWithin
<1>4. c.counted <= c.billed
  BY DEF Sound
<1>5. c.counted <= bill /\ (stage = "write" => c.counted + k <= bill)
  BY <1>1, <1>3, <1>4
<1>. HIDE DEF bill
<1>6. d = [c EXCEPT !.billed = bill, !.at = stage]
  BY DEF Client, Worked, bill, k
<1>7. d \in Client
  BY <1>3, <1>6 DEF Client, Stages
<1>8. /\ d.at = stage /\ d.query = c.query /\ d.cap = c.cap /\ d.billed = bill
      /\ d.inProcess = c.inProcess /\ d.counted = c.counted
  BY <1>6 DEF Client
<1>9. Cap(d) = Cap(c)
  BY <1>8 DEF Cap
<1>. HIDE DEF d
<1>10. Sound(d, most, TRUE)
  BY <1>3, <1>5, <1>8, <1>9 DEF Sound, k
<1>. QED BY <1>7, <1>10 DEF d

LEMMA CallKeepsSoundAtEnd ==
    ASSUME NEW c \in Client, NEW most \in Nat, Sound(c, most, TRUE),
           c.at = "call", c.query \in Queries, Cost[c.query] \in Nat \ {0},
           NEW n \in 0..MaxAttempts
    PROVE  LET d == [Worked(c, n) EXCEPT !.at = "next", !.query = NoQuery]
           IN  d \in Client /\ Sound(d, most, TRUE)
<1>. DEFINE e == [Worked(c, n) EXCEPT !.at = "next"]
            d == [Worked(c, n) EXCEPT !.at = "next", !.query = NoQuery]
<1>1. e \in Client /\ Sound(e, most, TRUE) /\ e.at = "next"
  <2>1. e.at = "next"
    BY DEF Client, Worked
  <2>. QED BY <2>1, CallKeepsSound
<1>2. d = [e EXCEPT !.query = NoQuery]
  BY DEF Client, Worked
<1>. HIDE DEF d, e
<1>3. d \in Client
  BY <1>1, <1>2 DEF Client
<1>4. Sound(d, most, TRUE)
  BY <1>1, <1>2 DEF Client, Sound, Cap
<1>. QED BY <1>3, <1>4 DEF d

LEMMA CallAnswersKeepsLInv ==
    ASSUME LInv, NEW r \in Runs, NEW s \in Sources, CallAnswers(r, s)
    PROVE  LInv'
<1>. DEFINE c == client[r][s]
            fixture == [c EXCEPT !.at = "next", !.query = NoQuery,
                                 !.counted = @ + Cost[c.query]]
<1>1. /\ c \in Client /\ Sound(c, Allowance(r), Live(r)) /\ Allowance(r) \in Nat
      /\ c.at = "call" /\ c.query \in Queries /\ Cost[c.query] \in Nat \ {0}
  BY ClientFacts DEF CallAnswers, At, Sound
<1>2. /\ UNCHANGED run /\ cache' \in SUBSET Queries
      /\ excuse' \in SUBSET Excuses /\ faults' \in 0..MaxFaults
  <2>1. UNCHANGED run /\ cache' \in SUBSET Queries
    BY DEF CallAnswers, LInv, TypeOK
  <2>2. CASE UNCHANGED <<excuse, faults>>
    BY <2>1, <2>2 DEF LInv, TypeOK
  <2>3. CASE Excuse({"repeated"}) /\ Fault
    BY <2>1, <2>3, ExcuseType, FaultType DEF LInv, Excuses
  <2>. QED BY <2>2, <2>3, <2>1 DEF CallAnswers
<1>3. CASE ~ Live(r)
  <2>1. Becomes(r, s, fixture)
    BY <1>3 DEF CallAnswers
  <2>. HIDE DEF c
  <2>2. fixture \in Client
    <3>1. c.counted + Cost[c.query] \in Nat
      BY <1>1 DEF Client
    <3>. QED BY <1>1, <3>1 DEF Client, Stages
  <2>3. Sound(fixture, Allowance(r), Live(r))
    BY <1>1, <1>3 DEF Client, Sound, Cap
  <2>. HIDE DEF fixture
  <2>. QED BY <1>2, <2>1, <2>2, <2>3, OneClientMoves
<1>4. CASE Live(r)
  <2>1. PICK n \in 1..MaxAttempts : Becomes(r, s, [Worked(c, n) EXCEPT !.at = "write"])
    BY <1>4 DEF CallAnswers
  <2>2. n \in 0..MaxAttempts /\ n >= 1 /\ Live(r) = TRUE
    BY <1>4, LedgerAssumption DEF Live
  <2>. DEFINE d == [Worked(c, n) EXCEPT !.at = "write"]
  <2>. HIDE DEF c
  <2>3. d \in Client /\ Sound(d, Allowance(r), Live(r))
    BY <1>1, <2>2, CallKeepsSound
  <2>4. Becomes(r, s, d)
    BY <2>1
  <2>. HIDE DEF d
  <2>. QED BY <1>2, <2>3, <2>4, OneClientMoves
<1>. QED BY <1>3, <1>4

LEMMA CallFailsKeepsLInv ==
    ASSUME LInv, NEW r \in Runs, NEW s \in Sources, CallFails(r, s)
    PROVE  LInv'
<1>. DEFINE c == client[r][s]
<1>1. /\ c \in Client /\ Sound(c, Allowance(r), Live(r)) /\ Allowance(r) \in Nat
      /\ c.at = "call" /\ c.query \in Queries /\ Cost[c.query] \in Nat \ {0}
  BY ClientFacts DEF CallFails, At, Sound
<1>2. PICK n \in 0..(IF Live(r) THEN MaxAttempts ELSE 0) :
          /\ Becomes(r, s, [Worked(c, n) EXCEPT !.at = "next", !.query = NoQuery])
          /\ Excuse(IF n = 0 THEN {} ELSE {"repeated"})
  BY DEF CallFails
<1>3. /\ UNCHANGED run /\ cache' \in SUBSET Queries
      /\ excuse' \in SUBSET Excuses /\ faults' \in 0..MaxFaults
  <2>1. UNCHANGED run /\ cache' \in SUBSET Queries /\ faults' \in 0..MaxFaults
    BY FaultType DEF CallFails, LInv, TypeOK
  <2>2. excuse' \in SUBSET Excuses
    BY <1>2, ExcuseType DEF LInv, Excuses
  <2>. QED BY <2>1, <2>2
<1>. DEFINE d == [Worked(c, n) EXCEPT !.at = "next", !.query = NoQuery]
<1>4. Becomes(r, s, d)
  BY <1>2
<1>. HIDE DEF c
<1>5. CASE Live(r)
  <2>1. n \in 0..MaxAttempts /\ Live(r) = TRUE
    BY <1>2, <1>5 DEF Live
  <2>2. d \in Client /\ Sound(d, Allowance(r), Live(r))
    BY <1>1, <2>1, CallKeepsSoundAtEnd
  <2>. HIDE DEF d
  <2>. QED BY <1>3, <1>4, <2>2, OneClientMoves
<1>6. CASE ~ Live(r)
  <2>1. d = [c EXCEPT !.at = "next", !.query = NoQuery]
    <3>1. n = 0 /\ c.billed \in Nat
      BY <1>1, <1>2, <1>6 DEF Client
    <3>2. c.billed + n * Cost[c.query] = c.billed
      BY <1>1, <3>1
    <3>. QED BY <1>1, <3>2 DEF Worked, Client
  <2>2. d \in Client
    BY <1>1, <2>1 DEF Client, Stages
  <2>3. Sound(d, Allowance(r), Live(r))
    BY <1>1, <1>6, <2>1 DEF Client, Sound, Cap
  <2>. HIDE DEF d
  <2>. QED BY <1>3, <1>4, <2>2, <2>3, OneClientMoves
<1>. QED BY <1>5, <1>6

LEMMA WriteCacheKeepsLInv ==
    ASSUME LInv, NEW r \in Runs, NEW s \in Sources, WriteCache(r, s)
    PROVE  LInv'
<1>. DEFINE c == client[r][s]
            d == [c EXCEPT !.at = "next", !.query = NoQuery,
                           !.counted = @ + Cost[c.query]]
<1>1. /\ c \in Client /\ Sound(c, Allowance(r), Live(r))
      /\ c.at = "write" /\ c.query \in Queries /\ Cost[c.query] \in Nat \ {0}
  BY ClientFacts DEF WriteCache, At, Sound
<1>2. Becomes(r, s, d)
  BY DEF WriteCache
<1>3. /\ UNCHANGED run /\ cache' \in SUBSET Queries
      /\ excuse' \in SUBSET Excuses /\ faults' \in 0..MaxFaults
  BY <1>1 DEF WriteCache, LInv, TypeOK
<1>. HIDE DEF c
<1>4. d \in Client
  <2>1. c.counted + Cost[c.query] \in Nat
    BY <1>1 DEF Client
  <2>. QED BY <1>1, <2>1 DEF Client, Stages
<1>5. Sound(d, Allowance(r), Live(r))
  BY <1>1 DEF Client, Sound, Cap
<1>. HIDE DEF d
<1>. QED BY <1>2, <1>3, <1>4, <1>5, OneClientMoves

LEMMA CollectKeepsLInv ==
    ASSUME LInv, NEW r \in Runs, NEW s \in Sources, Collect(r, s)
    PROVE  LInv'
<1>1. CASE Lookup(r, s)
  BY <1>1, LookupKeepsLInv
<1>2. CASE LookupFails(r, s)
  BY <1>2, LookupFailsKeepsLInv
<1>3. CASE Spend(r, s)
  BY <1>3, SpendKeepsLInv
<1>4. CASE SpendFails(r, s)
  <2>1. /\ UNCHANGED run /\ cache' \in SUBSET Queries
        /\ excuse' \in SUBSET Excuses /\ faults' \in 0..MaxFaults
    BY <1>4, FaultType DEF SpendFails, LInv, TypeOK
  <2>2. /\ Becomes(r, s, [client[r][s] EXCEPT !.at = "next", !.query = NoQuery])
        /\ client[r][s].at \notin {"off", "over", "call"}
    BY <1>4 DEF SpendFails, At
  <2>. QED BY <2>1, <2>2, TurnBackKeepsLInv
<1>5. CASE CallAnswers(r, s)
  BY <1>5, CallAnswersKeepsLInv
<1>6. CASE CallFails(r, s)
  BY <1>6, CallFailsKeepsLInv
<1>7. CASE WriteCache(r, s)
  BY <1>7, WriteCacheKeepsLInv
<1>8. CASE WriteCacheFails(r, s)
  <2>1. client[r][s].query \in Queries
    BY <1>8, ClientFacts DEF WriteCacheFails, At, Sound
  <2>2. cache' \in SUBSET Queries /\ UNCHANGED run
    BY <1>8, <2>1 DEF WriteCacheFails, LInv, TypeOK
  <2>3. excuse' \in SUBSET Excuses
    BY <1>8, ExcuseType DEF WriteCacheFails, LInv, Excuses
  <2>4. faults' \in 0..MaxFaults
    BY <1>8, FaultType DEF WriteCacheFails, LInv
  <2>5. /\ Becomes(r, s, [client[r][s] EXCEPT !.at = "next", !.query = NoQuery])
        /\ client[r][s].at \notin {"off", "over", "call"}
    BY <1>8 DEF WriteCacheFails, At
  <2>. QED BY <2>2, <2>3, <2>4, <2>5, TurnBackKeepsLInv
<1>9. CASE CollectorEnds(r, s)
  <2>1. /\ UNCHANGED run /\ cache' \in SUBSET Queries
        /\ excuse' \in SUBSET Excuses /\ faults' \in 0..MaxFaults
    BY <1>9 DEF CollectorEnds, LInv, TypeOK
  <2>2. /\ Becomes(r, s, [client[r][s] EXCEPT !.at = "over", !.query = NoQuery])
        /\ client[r][s].at \notin {"off", "over", "call"}
    BY <1>9 DEF CollectorEnds, At
  <2>. QED BY <2>1, <2>2, TurnBackKeepsLInv
<1>. QED BY <1>1, <1>2, <1>3, <1>4, <1>5, <1>6, <1>7, <1>8, <1>9 DEF Collect

-----------------------------------------------------------------------------
(* The steps of the orchestrator.                                           *)

(* Beyond the clients, a step of the orchestrator touches the books only.   *)
LEMMA BeginKeepsLInv ==
    ASSUME LInv, NEW r \in Runs, Begin(r)
    PROVE  LInv'
<1>1. PICK x \in Runs, budget \in {0, DailyBudget} :
          /\ IF budget = 0 THEN Fault ELSE UNCHANGED faults
          /\ row' = [row EXCEPT ![r] = x]
          /\ ceiling' = [ceiling EXCEPT ![r] = SplitCredits(budget)]
          /\ client' = [client EXCEPT ![r] =
                [s \in Sources |-> NewClient(s, mode[r], SplitCredits(budget))]]
          /\ Excuse({why \in Excuses :
                \/ why = "force" /\ x # r
                \/ why = "overlap" /\ \E o \in Runs : pc[o] = "collect"
                \/ why = "split" /\ SplitCredits(budget) = 0})
  BY DEF Begin
<1>. DEFINE k == SplitCredits(budget)
<1>2. k \in Nat /\ k \in {0, SplitCredits(DailyBudget)}
  <2>1. k \in Nat /\ k <= budget
    BY SplitWithin, LedgerAssumption
  <2>. QED BY <2>1
<1>3. \A s \in Sources :
         /\ NewClient(s, mode[r], k) \in Client
         /\ Sound(NewClient(s, mode[r], k), First(k, mode[r]), Live(r))
  BY <1>2, NewClientIsSound DEF LInv, TypeOK, Live
<1>4. UNCHANGED <<mode, total, used, cache>> /\ pc' = [pc EXCEPT ![r] = "collect"]
  BY DEF Begin
<1>5. excuse' \in SUBSET Excuses
  BY <1>1, ExcuseType DEF LInv
<1>6. faults' \in 0..MaxFaults
  BY <1>1, FaultType DEF LInv, TypeOK
<1>7. /\ ceiling' = [ceiling EXCEPT ![r] = k]
      /\ client' = [client EXCEPT ![r] = [s \in Sources |-> NewClient(s, mode[r], k)]]
  BY <1>1
<1>. HIDE DEF k
<1>8. client' \in [Runs -> [Sources -> Client]]
  BY <1>3, <1>7 DEF LInv, TypeOK
<1>9. TypeOK'
  BY <1>1, <1>2, <1>4, <1>5, <1>6, <1>7, <1>8 DEF LInv, TypeOK
<1>10. CeilingIsAShare'
  BY <1>2, <1>7 DEF LInv, TypeOK, CeilingIsAShare, SplitCredits
<1>11. ClientsAreSound'
  <2>. SUFFICES ASSUME NEW q \in Runs, NEW t \in Sources
                PROVE  Sound(client'[q][t], Allowance(q)', Live(q)')
    BY DEF ClientsAreSound
  <2>1. Live(q)' = Live(q)
    BY <1>4 DEF Live
  <2>2. CASE q = r
    <3>1. client'[q][t] = NewClient(t, mode[r], k)
      BY <1>7, <2>2 DEF LInv, TypeOK
    <3>2. Allowance(q)' = First(k, mode[r])
      BY <1>4, <1>7, <2>2 DEF LInv, TypeOK, Allowance, First, Live
    <3>. QED BY <1>3, <2>1, <2>2, <3>1, <3>2
  <2>3. CASE q # r
    <3>1. client'[q][t] = client[q][t] /\ Allowance(q)' = Allowance(q)
      BY <1>4, <1>7, <2>3 DEF LInv, TypeOK, Allowance, Live
    <3>. QED BY <2>1, <3>1 DEF LInv, ClientsAreSound
  <2>. QED BY <2>2, <2>3
<1>. QED BY <1>9, <1>10, <1>11 DEF LInv

(* That the orchestrator takes an answer, or gives up, is not known to the  *)
(* client.                                                                  *)
LEMMA ToldKeepsSound ==
    ASSUME LInv, NEW r \in Runs, NEW s \in Sources,
           client' = [client EXCEPT ![r][s].told = TRUE],
           UNCHANGED <<ceiling, mode>>
    PROVE  /\ client' \in [Runs -> [Sources -> Client]]
           /\ CeilingIsAShare' /\ ClientsAreSound'
<1>. DEFINE c == client[r][s]
            d == [c EXCEPT !.told = TRUE]
<1>1. c \in Client /\ Sound(c, Allowance(r), Live(r))
  BY ClientFacts
<1>2. Becomes(r, s, d)
  BY DEF LInv, TypeOK, Becomes
<1>. HIDE DEF c
<1>3. d \in Client /\ Sound(d, Allowance(r), Live(r))
  BY <1>1 DEF Client, Sound, Cap
<1>. HIDE DEF d
<1>4. client' \in [Runs -> [Sources -> Client]]
  BY <1>2, <1>3, Replaced DEF LInv
<1>5. CeilingIsAShare'
  BY DEF LInv, CeilingIsAShare, SplitCredits
<1>6. ClientsAreSound'
  <2>. SUFFICES ASSUME NEW q \in Runs, NEW t \in Sources
                PROVE  Sound(client'[q][t], Allowance(q), Live(q))
    BY DEF ClientsAreSound, Allowance, Live
  <2>1. CASE q = r /\ t = s
    BY <1>2, <1>3, <2>1, Replaced DEF LInv
  <2>2. CASE ~ (q = r /\ t = s)
    <3>1. client'[q][t] = client[q][t]
      BY <1>2, <1>3, <2>2, Replaced DEF LInv
    <3>. QED BY <3>1 DEF LInv, ClientsAreSound
  <2>. QED BY <2>1, <2>2
<1>. QED BY <1>4, <1>5, <1>6

LEMMA BooksKeepSound ==
    ASSUME LInv, UNCHANGED <<client, ceiling, mode>>
    PROVE  CeilingIsAShare' /\ ClientsAreSound'
BY DEF LInv, CeilingIsAShare, ClientsAreSound, Allowance, Live, SplitCredits

LEMMA OrchestrateKeepsLInv ==
    ASSUME LInv, NEW r \in Runs, Orchestrate(r)
    PROVE  LInv'
<1>1. CASE Begin(r)
  BY <1>1, BeginKeepsLInv
<1>2. ASSUME NEW s \in Sources, TakeAnswer(r, s) PROVE LInv'
  <2>1. client[r][s].counted \in Nat
    BY ClientFacts DEF Client
  <2>2. /\ client' \in [Runs -> [Sources -> Client]]
        /\ CeilingIsAShare' /\ ClientsAreSound'
    BY <1>2, ToldKeepsSound DEF TakeAnswer
  <2>3. TypeOK'
    BY <1>2, <2>1, <2>2 DEF TakeAnswer, LInv, TypeOK
  <2>. QED BY <2>2, <2>3 DEF LInv
<1>3. ASSUME NEW s \in Sources, GiveUp(r, s) PROVE LInv'
  <2>1. /\ client' \in [Runs -> [Sources -> Client]]
        /\ CeilingIsAShare' /\ ClientsAreSound'
    BY <1>3, ToldKeepsSound DEF GiveUp, run
  <2>2. excuse' \in SUBSET Excuses /\ faults' \in 0..MaxFaults
    BY <1>3, ExcuseType, FaultType DEF GiveUp, LInv, Excuses
  <2>3. TypeOK'
    BY <1>3, <2>1, <2>2 DEF GiveUp, LInv, TypeOK, run
  <2>. QED BY <2>1, <2>3 DEF LInv
<1>4. CASE FinishRun(r)
  <2>1. TypeOK'
    BY <1>4 DEF FinishRun, LInv, TypeOK
  <2>. QED BY <1>4, <2>1, BooksKeepSound DEF FinishRun, LInv
<1>5. CASE Unfinished(r)
  <2>1. excuse' \in SUBSET Excuses /\ faults' \in 0..MaxFaults
    BY <1>5, ExcuseType, FaultType DEF Unfinished, LInv, Excuses
  <2>2. used' \in [Runs -> Nat]
    BY <1>5 DEF Unfinished, LInv, TypeOK
  <2>3. TypeOK'
    BY <1>5, <2>1, <2>2 DEF Unfinished, LInv, TypeOK
  <2>. QED BY <1>5, <2>3, BooksKeepSound DEF Unfinished, LInv
<1>. QED BY <1>1, <1>2, <1>3, <1>4, <1>5 DEF Orchestrate

LEMMA NextLInv == LInv /\ [Next]_vars => LInv'
<1>. SUFFICES ASSUME LInv, [Next]_vars PROVE LInv'
  OBVIOUS
<1>1. ASSUME NEW r \in Runs, Orchestrate(r) PROVE LInv'
  BY <1>1, OrchestrateKeepsLInv
<1>2. ASSUME NEW r \in Runs, NEW s \in Sources, Collect(r, s) PROVE LInv'
  BY <1>2, CollectKeepsLInv
<1>3. CASE UNCHANGED vars
  <2>1. TypeOK'
    BY <1>3 DEF LInv, TypeOK, vars
  <2>. QED BY <1>3, <2>1, BooksKeepSound DEF LInv, vars
<1>. QED BY <1>1, <1>2, <1>3 DEF Next

-----------------------------------------------------------------------------
(* What follows for one execution.                                          *)

(* Every reachable state is well-typed.                                     *)
THEOREM TypeCorrect == Spec => []TypeOK
<1>1. LInv => TypeOK
  BY DEF LInv
<1>. QED BY <1>1, InitLInv, NextLInv, PTL DEF Spec

(* Budget.Spend (internal/anakin/budget.go): whatever the other clients of  *)
(* the day do and whatever fails, a client never holds more than its        *)
(* ceiling.                                                                 *)
THEOREM CeilingHolds == Spec => []ClientWithinItsCeiling
<1>1. LInv => ClientWithinItsCeiling
  BY DEF LInv, ClientsAreSound, ClientWithinItsCeiling, Sound
<1>. QED BY <1>1, InitLInv, NextLInv, PTL DEF Spec

(* splitCredits (agents/bp-orchestrator/sources.go): the shares of the      *)
(* sources add up to no more than the daily budget, and no collector takes  *)
(* more than its share.                                                     *)
THEOREM SplitHolds == Spec => []RunWithinDailyBudget
<1>1. LInv => RunWithinDailyBudget
  <2>. SUFFICES ASSUME LInv, NEW r \in Runs, ceiling[r] # 0
                PROVE  HeldBy(r) <= DailyBudget
    BY DEF RunWithinDailyBudget
  <2>. DEFINE share == SplitCredits(DailyBudget)
              held == [s \in Sources |-> client[r][s].inProcess]
  <2>1. share \in Nat /\ Cardinality(Sources) * share <= DailyBudget
    BY SplitWithin, LedgerAssumption
  <2>2. ceiling[r] = share
    BY DEF LInv, CeilingIsAShare
  <2>. HIDE DEF share
  <2>3. \A s \in Sources : held[s] \in Nat /\ held[s] <= share
    BY <2>2 DEF LInv, TypeOK, Client, ClientsAreSound, Sound, Allowance
  <2>. HIDE DEF held
  <2>4. SumFunctionOnSet(held, Sources) <= Cardinality(Sources) * share
    BY <2>1, <2>3, SumBounded, LedgerAssumption
  <2>5. SumFunctionOnSet(held, Sources) \in Nat
    BY <2>3, SumInNat, LedgerAssumption
  <2>6. Cardinality(Sources) * share \in Nat
    BY <2>1, SourcesAreSome
  <2>7. HeldBy(r) = SumFunctionOnSet(held, Sources)
    BY DEF HeldBy, SumFunction, held
  <2>. QED BY <2>1, <2>4, <2>5, <2>6, <2>7, LedgerAssumption
<1>. QED BY <1>1, InitLInv, NextLInv, PTL DEF Spec

-----------------------------------------------------------------------------
(* The runs table.  What an execution has added up its collectors have      *)
(* counted; counts, bills and answers taken only grow; and a row holds what *)
(* some execution had added up when it closed the row.                      *)

Reports(r) == [s \in Sources |-> IF client[r][s].told THEN client[r][s].counted ELSE 0]

Covered(x) == \E r \in Runs : row[r] = x /\ (Live(r) => used[x] <= BilledBy(r))

RunsTable ==
    /\ \A r \in Runs : pc[r] = "idle" => total[r] = 0 /\ row[r] = NoRow
    /\ \A r \in Runs : total[r] <= SumFunction(Reports(r))
    /\ \A x \in Runs : used[x] # 0 => Covered(x)

(* Of two clients, the second has told, counted and cost at least as much.  *)
Grown(c, d) == (c.told => d.told) /\ c.counted <= d.counted /\ c.billed <= d.billed

SumsTyped(r) ==
    /\ SumFunction(Reports(r)) \in Nat /\ BilledBy(r) \in Nat
    /\ SumFunction(Reports(r)) = SumFunctionOnSet(Reports(r), Sources)
    /\ \A s \in Sources : Reports(r)[s] \in Nat

LEMMA SumsByType == TypeOK => \A r \in Runs : SumsTyped(r)
<1>. SUFFICES ASSUME TypeOK, NEW r \in Runs PROVE SumsTyped(r)
  OBVIOUS
<1>. DEFINE f == [s \in Sources |-> client[r][s].billed]
            g == Reports(r)
<1>1. \A s \in Sources : f[s] \in Nat /\ g[s] \in Nat
  BY DEF TypeOK, Client, Reports
<1>2. DOMAIN f = Sources /\ DOMAIN g = Sources
  BY DEF Reports
<1>3. BilledBy(r) = SumFunction(f)
  BY DEF BilledBy
<1>. HIDE DEF f, g
<1>4. SumFunctionOnSet(f, Sources) \in Nat /\ SumFunctionOnSet(g, Sources) \in Nat
  BY <1>1, SumInNat, LedgerAssumption
<1>5. SumFunction(f) = SumFunctionOnSet(f, Sources) /\ SumFunction(g) = SumFunctionOnSet(g, Sources)
  BY <1>2, SumOverDomain
<1>. QED BY <1>1, <1>3, <1>4, <1>5 DEF g, SumsTyped

LEMMA SumsByTypeNext == TypeOK' => \A r \in Runs : SumsTyped(r)'
<1>1. (TypeOK => \A r \in Runs : SumsTyped(r))'
  BY SumsByType, PTL
<1>. QED BY <1>1

LEMMA SumsGrow ==
    ASSUME TypeOK, TypeOK', NEW r \in Runs,
           \A s \in Sources : Grown(client[r][s], client'[r][s])
    PROVE  /\ SumFunction(Reports(r)) <= SumFunction(Reports(r)')
           /\ BilledBy(r) <= BilledBy(r)'
<1>. DEFINE f == [s \in Sources |-> client[r][s].billed]
            h == [s \in Sources |-> client'[r][s].billed]
            g == Reports(r)
            k == Reports(r)'
<1>1. /\ \A s \in Sources : f[s] \in Nat /\ h[s] \in Nat /\ f[s] <= h[s]
      /\ \A s \in Sources : g[s] \in Nat /\ k[s] \in Nat /\ g[s] <= k[s]
  <2>. SUFFICES ASSUME NEW s \in Sources
                PROVE  /\ f[s] \in Nat /\ h[s] \in Nat /\ f[s] <= h[s]
                       /\ g[s] \in Nat /\ k[s] \in Nat /\ g[s] <= k[s]
    OBVIOUS
  <2>1. client[r][s] \in Client /\ client'[r][s] \in Client
    BY DEF TypeOK
  <2>2. Grown(client[r][s], client'[r][s])
    OBVIOUS
  <2>. QED BY <2>1, <2>2 DEF Client, Grown, Reports
<1>2. DOMAIN f = Sources /\ DOMAIN g = Sources /\ DOMAIN h = Sources /\ DOMAIN k = Sources
  BY DEF Reports
<1>3. BilledBy(r) = SumFunction(f) /\ BilledBy(r)' = SumFunction(h)
  BY DEF BilledBy
<1>. HIDE DEF f, g, h, k
<1>4. /\ SumFunctionOnSet(f, Sources) <= SumFunctionOnSet(h, Sources)
      /\ SumFunctionOnSet(g, Sources) <= SumFunctionOnSet(k, Sources)
  BY <1>1, SumMonotone, LedgerAssumption
<1>5. /\ SumFunction(f) = SumFunctionOnSet(f, Sources)
      /\ SumFunction(h) = SumFunctionOnSet(h, Sources)
      /\ SumFunction(g) = SumFunctionOnSet(g, Sources)
      /\ SumFunction(k) = SumFunctionOnSet(k, Sources)
  BY <1>2, SumOverDomain
<1>. QED BY <1>3, <1>4, <1>5 DEF g, k

(* The reports of a live execution were paid for.                           *)
LEMMA ReportsWerePaid ==
    ASSUME LInv, NEW r \in Runs, Live(r)
    PROVE  SumFunction(Reports(r)) <= BilledBy(r)
<1>. DEFINE f == [s \in Sources |-> client[r][s].billed]
            g == Reports(r)
<1>1. \A s \in Sources : f[s] \in Nat /\ g[s] \in Nat /\ g[s] <= f[s]
  <2>. SUFFICES ASSUME NEW s \in Sources
                PROVE  f[s] \in Nat /\ g[s] \in Nat /\ g[s] <= f[s]
    OBVIOUS
  <2>. DEFINE c == client[r][s]
  <2>1. /\ c \in Client /\ Sound(c, Allowance(r), Live(r))
        /\ c.query \in Queries => Cost[c.query] \in Nat \ {0}
    BY ClientFacts
  <2>2. f[s] = c.billed /\ g[s] = IF c.told THEN c.counted ELSE 0
    BY DEF Reports
  <2>. HIDE DEF c, f, g
  <2>3. c.counted \in Nat /\ c.billed \in Nat /\ c.counted <= c.billed
    BY <2>1 DEF Client, Sound
  <2>. QED BY <2>2, <2>3
<1>2. DOMAIN f = Sources /\ DOMAIN g = Sources
  BY DEF Reports
<1>3. BilledBy(r) = SumFunction(f)
  BY DEF BilledBy
<1>. HIDE DEF f, g
<1>4. SumFunctionOnSet(g, Sources) <= SumFunctionOnSet(f, Sources)
  BY <1>1, SumMonotone, LedgerAssumption
<1>. QED BY <1>2, <1>3, <1>4, SumOverDomain DEF g

LEMMA CoveredStays ==
    ASSUME LInv, LInv', NEW x \in Runs, Covered(x), used'[x] = used[x], UNCHANGED mode,
           \A r \in Runs : row[r] = x =>
               row'[r] = x /\ \A s \in Sources : Grown(client[r][s], client'[r][s])
    PROVE  Covered(x)'
<1>1. PICK r \in Runs : row[r] = x /\ (Live(r) => used[x] <= BilledBy(r))
  BY DEF Covered
<1>2. BilledBy(r) <= BilledBy(r)' /\ BilledBy(r) \in Nat /\ BilledBy(r)' \in Nat
  <2>1. BilledBy(r)' \in Nat
    BY SumsByTypeNext DEF LInv, SumsTyped
  <2>. QED BY <1>1, <2>1, SumsGrow, SumsByType DEF LInv, SumsTyped
<1>3. Live(r)' = Live(r) /\ used[x] \in Nat /\ used'[x] \in Nat
  BY DEF Live, LInv, TypeOK
<1>4. row'[r] = x /\ (Live(r)' => used'[x] <= BilledBy(r)')
  BY <1>1, <1>2, <1>3
<1>. QED BY <1>4 DEF Covered

(* Steps that only let the clients grow.                                    *)
LEMMA GrowthKeepsRunsTable ==
    ASSUME LInv, LInv', RunsTable, UNCHANGED <<pc, mode, row, total, used>>,
           \A r \in Runs, s \in Sources : Grown(client[r][s], client'[r][s])
    PROVE  RunsTable'
<1>1. ASSUME NEW r \in Runs PROVE total'[r] <= SumFunction(Reports(r)')
  <2>1. SumFunction(Reports(r)) <= SumFunction(Reports(r)')
    BY SumsGrow DEF LInv
  <2>2. SumFunction(Reports(r)) \in Nat /\ SumFunction(Reports(r)') \in Nat
    BY SumsByType, SumsByTypeNext DEF LInv, SumsTyped
  <2>3. total[r] <= SumFunction(Reports(r)) /\ total[r] \in Nat
    BY DEF RunsTable, LInv, TypeOK
  <2>. QED BY <2>1, <2>2, <2>3
<1>2. ASSUME NEW x \in Runs, used'[x] # 0 PROVE Covered(x)'
  BY <1>2, CoveredStays DEF RunsTable
<1>. QED BY <1>1, <1>2 DEF RunsTable

LEMMA CollectorGrows ==
    ASSUME LInv, NEW r \in Runs, NEW s \in Sources, Collect(r, s)
    PROVE  \E d : Becomes(r, s, d) /\ Grown(client[r][s], d)
<1>. DEFINE c == client[r][s]
<1>1. /\ c \in Client /\ Sound(c, Allowance(r), Live(r))
      /\ c.query \in Queries => Cost[c.query] \in Nat
  BY ClientFacts
<1>2. CASE Lookup(r, s) \/ LookupFails(r, s)
  <2>1. PICK q \in c.todo :
           \/ Becomes(r, s, [c EXCEPT !.todo = @ \ {q}])
           \/ Becomes(r, s, [[c EXCEPT !.todo = @ \ {q}] EXCEPT !.at = "spend", !.query = q])
    BY <1>2 DEF Lookup, LookupFails
  <2>. HIDE DEF c
  <2>2. /\ Grown(c, [c EXCEPT !.todo = @ \ {q}])
        /\ Grown(c, [[c EXCEPT !.todo = @ \ {q}] EXCEPT !.at = "spend", !.query = q])
    BY <1>1 DEF Grown, Client
  <2>. QED BY <2>1, <2>2 DEF c
<1>3. CASE Spend(r, s)
  <2>1. PICK p :
           LET loaded == [c EXCEPT !.loaded = TRUE, !.cap = Cap(c), !.persisted = p]
           IN  \/ Becomes(r, s, [loaded EXCEPT !.at = "call", !.inProcess = @ + Cost[c.query]])
               \/ Becomes(r, s, [loaded EXCEPT !.at = "over", !.query = NoQuery,
                                               !.todo = {}])
    BY <1>3 DEF Spend
  <2>. DEFINE loaded == [c EXCEPT !.loaded = TRUE, !.cap = Cap(c), !.persisted = p]
  <2>. HIDE DEF c
  <2>2. /\ Grown(c, [loaded EXCEPT !.at = "call", !.inProcess = @ + Cost[c.query]])
        /\ Grown(c, [loaded EXCEPT !.at = "over", !.query = NoQuery, !.todo = {}])
    BY <1>1 DEF Grown, Client
  <2>. QED BY <2>1, <2>2 DEF c
<1>4. CASE SpendFails(r, s) \/ WriteCacheFails(r, s) \/ CollectorEnds(r, s)
  <2>1. PICK stage \in {"next", "over"} :
           Becomes(r, s, [c EXCEPT !.at = stage, !.query = NoQuery])
    BY <1>4 DEF SpendFails, WriteCacheFails, CollectorEnds
  <2>. HIDE DEF c
  <2>2. Grown(c, [c EXCEPT !.at = stage, !.query = NoQuery])
    BY <1>1 DEF Grown, Client
  <2>. QED BY <2>1, <2>2 DEF c
<1>5. CASE CallAnswers(r, s) \/ CallFails(r, s)
  <2>1. c.at = "call" /\ c.query \in Queries
    BY <1>1, <1>5 DEF CallAnswers, CallFails, At, Sound
  <2>. DEFINE Moves(n) ==
           \/ Becomes(r, s, [Worked(c, n) EXCEPT !.at = "write"])
           \/ Becomes(r, s, [Worked(c, n) EXCEPT !.at = "next", !.query = NoQuery])
           \/ Becomes(r, s, [c EXCEPT !.at = "next", !.query = NoQuery,
                                       !.counted = @ + Cost[c.query]])
  <2>2. PICK n \in Nat : Moves(n)
    <3>1. CASE CallAnswers(r, s) /\ Live(r)
      <4>1. PICK n \in 1..MaxAttempts : Becomes(r, s, [Worked(c, n) EXCEPT !.at = "write"])
        BY <3>1 DEF CallAnswers
      <4>2. n \in Nat /\ Moves(n)
        BY <4>1, LedgerAssumption
      <4>. QED BY <4>2
    <3>2. CASE CallAnswers(r, s) /\ ~ Live(r)
      <4>1. Moves(0)
        BY <3>2 DEF CallAnswers
      <4>. QED BY <4>1
    <3>3. CASE CallFails(r, s)
      <4>1. PICK n \in 0..(IF Live(r) THEN MaxAttempts ELSE 0) :
               Becomes(r, s, [Worked(c, n) EXCEPT !.at = "next", !.query = NoQuery])
        BY <3>3 DEF CallFails
      <4>2. n \in Nat /\ Moves(n)
        BY <4>1, LedgerAssumption
      <4>. QED BY <4>2
    <3>. QED BY <1>5, <3>1, <3>2, <3>3
  <2>. DEFINE k == n * Cost[c.query]
  <2>3. k \in Nat
    BY <1>1, <2>1
  <2>. HIDE DEF c, k
  <2>4. /\ Grown(c, [Worked(c, n) EXCEPT !.at = "write"])
        /\ Grown(c, [Worked(c, n) EXCEPT !.at = "next", !.query = NoQuery])
    BY <1>1, <2>3 DEF Grown, Client, Worked, k
  <2>5. Grown(c, [c EXCEPT !.at = "next", !.query = NoQuery,
                           !.counted = @ + Cost[c.query]])
    BY <1>1, <2>1 DEF Grown, Client
  <2>. QED BY <2>2, <2>4, <2>5 DEF c
<1>6. CASE WriteCache(r, s)
  <2>1. c.query \in Queries /\ Becomes(r, s, [c EXCEPT !.at = "next", !.query = NoQuery,
                                                       !.counted = @ + Cost[c.query]])
    BY <1>1, <1>6 DEF WriteCache, At, Sound
  <2>. HIDE DEF c
  <2>2. Grown(c, [c EXCEPT !.at = "next", !.query = NoQuery,
                           !.counted = @ + Cost[c.query]])
    BY <1>1, <2>1 DEF Grown, Client
  <2>. QED BY <2>1, <2>2 DEF c
<1>. QED BY <1>2, <1>3, <1>4, <1>5, <1>6 DEF Collect

LEMMA TakeAnswerKeepsRunsTable ==
    ASSUME LInv, LInv', RunsTable, NEW r \in Runs, NEW s \in Sources, TakeAnswer(r, s)
    PROVE  RunsTable'
<1>. DEFINE f == Reports(r)
            g == Reports(r)'
<1>1. /\ ~ client[r][s].told
      /\ client' = [client EXCEPT ![r][s].told = TRUE]
      /\ total' = [total EXCEPT ![r] = @ + client[r][s].counted]
      /\ UNCHANGED <<pc, mode, row, used>>
  BY DEF TakeAnswer
<1>2. \A q \in Runs, t \in Sources :
         /\ client'[q][t].counted = client[q][t].counted
         /\ client'[q][t].billed = client[q][t].billed
         /\ client[q][t].told => client'[q][t].told
         /\ client[q][t] \in Client
  BY <1>1 DEF LInv, TypeOK, Client
<1>3. \A q \in Runs, t \in Sources : Grown(client[q][t], client'[q][t])
  BY <1>2 DEF Grown, Client
<1>4. f[s] = 0 /\ g[s] = client[r][s].counted /\ \A t \in Sources \ {s} : g[t] = f[t]
  BY <1>1 DEF Reports, LInv, TypeOK, Client
<1>5. /\ SumFunction(f) = SumFunctionOnSet(f, Sources) /\ SumFunction(f) \in Nat
      /\ SumFunction(g) = SumFunctionOnSet(g, Sources) /\ SumFunction(g) \in Nat
      /\ \A t \in Sources : f[t] \in Nat /\ g[t] \in Nat
  <2>1. TypeOK /\ TypeOK'
    BY DEF LInv
  <2>2. /\ SumFunction(f) = SumFunctionOnSet(f, Sources) /\ SumFunction(f) \in Nat
        /\ \A t \in Sources : f[t] \in Nat
    BY <2>1, SumsByType DEF SumsTyped
  <2>3. /\ SumFunction(g) = SumFunctionOnSet(g, Sources) /\ SumFunction(g) \in Nat
        /\ \A t \in Sources : g[t] \in Nat
    BY <2>1, SumsByTypeNext DEF SumsTyped
  <2>. QED BY <2>2, <2>3
<1>6. SumFunctionOnSet(g, Sources) = SumFunctionOnSet(f, Sources) - f[s] + g[s]
  <2>. HIDE DEF f, g
  <2>. QED BY <1>4, <1>5, SumUpdates, LedgerAssumption
<1>7. total[r] \in Nat /\ total[r] <= SumFunction(f) /\ total'[r] = total[r] + client[r][s].counted
  BY <1>1 DEF LInv, TypeOK, RunsTable
<1>8. client[r][s].counted \in Nat
  BY <1>2 DEF Client
<1>. HIDE DEF f, g
<1>9. total'[r] <= SumFunction(g)
  BY <1>4, <1>5, <1>6, <1>7, <1>8
<1>10. ASSUME NEW q \in Runs PROVE total'[q] <= SumFunction(Reports(q)')
  <2>1. CASE q = r
    BY <1>9, <2>1 DEF g
  <2>2. CASE q # r
    <3>1. Reports(q)' = Reports(q) /\ total'[q] = total[q]
      BY <1>1, <2>2 DEF Reports, LInv, TypeOK
    <3>. QED BY <3>1 DEF RunsTable
  <2>. QED BY <2>1, <2>2
<1>11. ASSUME NEW q \in Runs, pc'[q] = "idle" PROVE total'[q] = 0 /\ row'[q] = NoRow
  BY <1>1, <1>11 DEF RunsTable, LInv, TypeOK, TakeAnswer
<1>12. ASSUME NEW x \in Runs, used'[x] # 0 PROVE Covered(x)'
  BY <1>1, <1>3, <1>12, CoveredStays DEF RunsTable
<1>. QED BY <1>10, <1>11, <1>12 DEF RunsTable

LEMMA BeginKeepsRunsTable ==
    ASSUME LInv, LInv', RunsTable, NEW r \in Runs, Begin(r)
    PROVE  RunsTable'
<1>1. /\ pc[r] = "idle" /\ pc' = [pc EXCEPT ![r] = "collect"]
      /\ UNCHANGED <<mode, total, used>>
      /\ \A q \in Runs \ {r} : client'[q] = client[q] /\ row'[q] = row[q]
  BY DEF Begin, LInv, TypeOK
<1>2. ASSUME NEW q \in Runs PROVE total'[q] <= SumFunction(Reports(q)')
  <2>1. CASE q = r
    <3>1. total'[r] = 0
      BY <1>1 DEF RunsTable
    <3>2. SumFunction(Reports(r)') \in Nat
      BY SumsByTypeNext DEF LInv, SumsTyped
    <3>. QED BY <2>1, <3>1, <3>2
  <2>2. CASE q # r
    <3>1. Reports(q)' = Reports(q)
      BY <1>1, <2>2 DEF Reports
    <3>. QED BY <1>1, <3>1 DEF RunsTable
  <2>. QED BY <2>1, <2>2
<1>3. ASSUME NEW q \in Runs, pc'[q] = "idle" PROVE total'[q] = 0 /\ row'[q] = NoRow
  BY <1>1, <1>3 DEF RunsTable, LInv, TypeOK
<1>4. ASSUME NEW x \in Runs, used'[x] # 0 PROVE Covered(x)'
  <2>1. row[r] # x
    BY <1>1, LedgerAssumption DEF RunsTable
  <2>2. \A q \in Runs, s \in Sources : q # r => Grown(client[q][s], client'[q][s])
    BY <1>1 DEF Grown, LInv, TypeOK, Client
  <2>3. Covered(x)
    BY <1>1, <1>4 DEF RunsTable
  <2>. QED BY <1>1, <2>1, <2>2, <2>3, CoveredStays
<1>. QED BY <1>2, <1>3, <1>4 DEF RunsTable

LEMMA CloseKeepsRunsTable ==
    ASSUME LInv, LInv', RunsTable, NEW r \in Runs, FinishRun(r) \/ Unfinished(r)
    PROVE  RunsTable'
<1>1. /\ UNCHANGED <<mode, row, total, client>>
      /\ pc[r] = "collect" /\ pc' \in {[pc EXCEPT ![r] = "done"], [pc EXCEPT ![r] = "dead"]}
      /\ used' \in {used, [used EXCEPT ![row[r]] = total[r]]}
  BY DEF FinishRun, Unfinished
<1>2. \A q \in Runs : Reports(q)' = Reports(q)
  BY <1>1 DEF Reports
<1>3. ASSUME NEW q \in Runs, pc'[q] = "idle" PROVE total'[q] = 0 /\ row'[q] = NoRow
  BY <1>1, <1>3 DEF RunsTable, LInv, TypeOK
<1>4. ASSUME NEW x \in Runs, used'[x] # 0 PROVE Covered(x)'
  <2>1. CASE used'[x] = used[x]
    <3>1. \A q \in Runs, s \in Sources : Grown(client[q][s], client'[q][s])
      BY <1>1 DEF Grown, LInv, TypeOK, Client
    <3>. QED BY <1>1, <1>4, <2>1, <3>1, CoveredStays DEF RunsTable
  <2>2. CASE used'[x] # used[x]
    <3>1. row[r] = x /\ used'[x] = total[r]
      BY <1>1, <2>2 DEF LInv, TypeOK
    <3>2. ASSUME Live(r) PROVE total[r] <= BilledBy(r)
      <4>1. SumFunction(Reports(r)) <= BilledBy(r) /\ total[r] <= SumFunction(Reports(r))
        BY <3>2, ReportsWerePaid DEF RunsTable
      <4>2. SumFunction(Reports(r)) \in Nat /\ BilledBy(r) \in Nat /\ total[r] \in Nat
        BY SumsByType DEF LInv, TypeOK, SumsTyped
      <4>. QED BY <4>1, <4>2
    <3>3. Live(r)' = Live(r) /\ BilledBy(r)' = BilledBy(r) /\ row'[r] = row[r]
      BY <1>1 DEF Live, BilledBy
    <3>. QED BY <3>1, <3>2, <3>3 DEF Covered
  <2>. QED BY <2>1, <2>2
<1>. QED BY <1>1, <1>2, <1>3, <1>4 DEF RunsTable

LEMMA InitRunsTable == Init => RunsTable
<1>. SUFFICES ASSUME Init PROVE RunsTable
  OBVIOUS
<1>1. TypeOK
  BY InitLInv DEF LInv
<1>2. \A r \in Runs : SumFunction(Reports(r)) \in Nat
  BY <1>1, SumsByType DEF SumsTyped
<1>. QED BY <1>2 DEF Init, RunsTable

LEMMA NextRunsTable == LInv /\ RunsTable /\ [Next]_vars => RunsTable'
<1>. SUFFICES ASSUME LInv, RunsTable, [Next]_vars PROVE RunsTable'
  OBVIOUS
<1>1. LInv'
  BY NextLInv
<1>2. ASSUME NEW r \in Runs, NEW s \in Sources, Collect(r, s) PROVE RunsTable'
  <2>1. PICK d : Becomes(r, s, d) /\ Grown(client[r][s], d)
    BY <1>2, CollectorGrows
  <2>2. \A q \in Runs, t \in Sources : Grown(client[q][t], client'[q][t])
    BY <2>1 DEF Becomes, Grown, LInv, TypeOK, Client
  <2>3. UNCHANGED run
    BY <1>2 DEF Collect, Lookup, LookupFails, Spend, SpendFails, CallAnswers, CallFails,
                WriteCache, WriteCacheFails, CollectorEnds
  <2>. QED BY <1>1, <2>2, <2>3, GrowthKeepsRunsTable DEF run
<1>3. ASSUME NEW r \in Runs, NEW s \in Sources, GiveUp(r, s) PROVE RunsTable'
  <2>1. \A q \in Runs, t \in Sources : Grown(client[q][t], client'[q][t])
    BY <1>3 DEF GiveUp, Grown, LInv, TypeOK, Client
  <2>. QED BY <1>1, <1>3, <2>1, GrowthKeepsRunsTable DEF GiveUp, run
<1>4. ASSUME NEW r \in Runs, Orchestrate(r) PROVE RunsTable'
  BY <1>1, <1>3, <1>4, BeginKeepsRunsTable, CloseKeepsRunsTable, TakeAnswerKeepsRunsTable
     DEF Orchestrate
<1>5. CASE UNCHANGED vars
  <2>1. \A q \in Runs, t \in Sources : Grown(client[q][t], client'[q][t])
    BY <1>5 DEF vars, Grown, LInv, TypeOK, Client
  <2>. QED BY <1>1, <1>5, <2>1, GrowthKeepsRunsTable DEF vars
<1>. QED BY <1>2, <1>4, <1>5 DEF Next

(* fetch (internal/anakin/http.go) and FinishRun: what a live collector     *)
(* reports was paid for, Anakin bills it at most MaxAttempts times what it  *)
(* held, and no row of the runs table claims a credit that was not paid.    *)
THEOREM ReportIsPaidFor == Spec => []CountedWasPaid
<1>1. LInv /\ RunsTable => CountedWasPaid
  <2>. SUFFICES ASSUME LInv, RunsTable PROVE CountedWasPaid
    OBVIOUS
  <2>1. ASSUME NEW r \in Runs, NEW s \in Sources, Live(r)
        PROVE  /\ client[r][s].counted <= client[r][s].billed
               /\ client[r][s].billed <= MaxAttempts * client[r][s].inProcess
    <3>. DEFINE c == client[r][s]
    <3>1. /\ c \in Client /\ Sound(c, Allowance(r), TRUE)
          /\ c.query \in Queries => Cost[c.query] \in Nat
      BY <2>1, ClientFacts DEF Sound
    <3>. HIDE DEF c
    <3>2. c.counted \in Nat /\ c.billed \in Nat /\ MaxAttempts * c.inProcess \in Nat
      BY <3>1, LedgerAssumption DEF Client
    <3>3. c.counted <= c.billed
      BY <3>1, <3>2 DEF Sound
    <3>4. c.at = "call" => MaxAttempts * Cost[c.query] \in Nat
      BY <3>1, LedgerAssumption DEF Sound
    <3>5. c.billed <= MaxAttempts * c.inProcess
      BY <3>1, <3>2, <3>4 DEF Sound
    <3>. QED BY <3>3, <3>5 DEF c
  <2>2. ASSUME NEW x \in Runs, used[x] # 0
        PROVE  \E r \in Runs : row[r] = x /\ (Live(r) => used[x] <= BilledBy(r))
    BY <2>2 DEF RunsTable, Covered
  <2>. QED BY <2>1, <2>2 DEF CountedWasPaid
<1>. QED BY <1>1, InitLInv, NextLInv, InitRunsTable, NextRunsTable, PTL DEF Spec

-----------------------------------------------------------------------------
(* A quiet day: nothing is excused.  Then executions come one at a time,    *)
(* each under its own row; the one that collects has nothing in its row     *)
(* yet, so all of its clients read the same total of the day, and the rows  *)
(* of those that are done cover what Anakin billed them.                    *)

(* Every bill was held first, once, and is reported, if not yet then by the *)
(* row that is being written; a fixture is not billed; an answer is final.  *)
Settled(c, live) ==
    /\ live /\ c.at # "call" => c.billed <= c.inProcess
    /\ live /\ c.at = "call" => c.billed + Cost[c.query] <= c.inProcess
    /\ live /\ c.at # "write" => c.billed <= c.counted
    /\ live /\ c.at = "write" => c.billed <= c.counted + Cost[c.query]
    /\ ~ live => c.billed = 0
    /\ c.told => c.at = "over"

(* What a client holds fits its share on top of the total it has read.      *)
Fits(c, share, day) ==
    /\ c.loaded => c.persisted = day
    /\ ~ c.loaded => c.inProcess = 0
    /\ c.inProcess # 0 => c.inProcess + day <= share

OneAtATime ==
    /\ \A r \in Runs : pc[r] # "dead"
    /\ \A r, o \in Runs : pc[r] = "collect" /\ pc[o] = "collect" => r = o

Untouched(r) ==
    used[r] = 0 /\ total[r] = 0 /\ \A s \in Sources : client[r][s] = Off

Collecting(r) ==
    /\ row[r] = r /\ used[r] = 0
    /\ ceiling[r] = SplitCredits(DailyBudget) /\ ceiling[r] # 0
    /\ total[r] = SumFunction(Reports(r))
    /\ Live(r) => \A s \in Sources : Fits(client[r][s], ceiling[r], DayTotal)

Closed(r) ==
    BilledBy(r) <= used[r] /\ \A s \in Sources : client[r][s].at = "over"

Books ==
    /\ OneAtATime
    /\ \A r \in Runs, s \in Sources : Settled(client[r][s], Live(r))
    /\ \A r \in Runs :
         /\ pc[r] = "idle" => Untouched(r)
         /\ pc[r] = "collect" => Collecting(r)
         /\ pc[r] = "done" => Closed(r)

QInv == LInv /\ (excuse = {} => Books /\ DayBill <= DailyBudget)

-----------------------------------------------------------------------------
(* The bill of a quiet day.                                                 *)

LEMMA BilledByType ==
    ASSUME TypeOK, NEW r \in Runs
    PROVE  BilledBy(r) \in Nat
<1>. DEFINE f == [s \in Sources |-> client[r][s].billed]
<1>1. \A s \in Sources : f[s] \in Nat
  BY DEF TypeOK, Client
<1>. HIDE DEF f
<1>2. SumFunctionOnSet(f, Sources) \in Nat
  BY <1>1, SumInNat, LedgerAssumption
<1>3. DOMAIN f = Sources
  BY DEF f
<1>. QED BY <1>2, <1>3, SumOverDomain DEF BilledBy, f

LEMMA OffBillsNothing ==
    ASSUME NEW r \in Runs, \A s \in Sources : client[r][s].billed = 0
    PROVE  BilledBy(r) = 0
<1>. DEFINE f == [s \in Sources |-> client[r][s].billed]
<1>1. (\A s \in Sources : f[s] = 0) /\ DOMAIN f = Sources
  OBVIOUS
<1>. HIDE DEF f
<1>2. SumFunctionOnSet(f, Sources) = 0
  BY <1>1, SumOfZeros, LedgerAssumption
<1>. QED BY <1>1, <1>2, SumOverDomain DEF BilledBy, f

LEMMA ShareArithmetic ==
    ASSUME NEW n \in Nat \ {0}, NEW c \in Nat, NEW t \in Nat, t <= c
    PROVE  n * (c - t) \in Nat /\ t + n * (c - t) <= n * c
<1>1. n * (c - t) = n * c - n * t
  OBVIOUS
<1>2. n * c \in Nat /\ n * t \in Nat
  OBVIOUS
<1>3. n * t >= t
  OBVIOUS
<1>4. n * (c - t) \in Nat
  <2>1. c - t \in Nat
    OBVIOUS
  <2>. QED BY <2>1
<1>. QED BY <1>1, <1>2, <1>3, <1>4

SomeoneHolds ==
    \E r \in Runs, s \in Sources :
        pc[r] = "collect" /\ Live(r) /\ client[r][s].inProcess # 0

(* As soon as a client holds anything, the whole day fits the budget: each  *)
(* share is taken on top of the same total.                                 *)
LEMMA BillFollows == LInv /\ Books /\ SomeoneHolds => DayBill <= DailyBudget
<1>. SUFFICES ASSUME LInv, Books,
                     NEW r \in Runs, NEW z \in Sources,
                     pc[r] = "collect", Live(r), client[r][z].inProcess # 0
              PROVE  DayBill <= DailyBudget
  BY DEF SomeoneHolds
<1>. DEFINE n == Cardinality(Sources)
            c == SplitCredits(DailyBudget)
            f == [s \in Sources |-> client[r][s].billed]
            bill == [q \in Runs |-> BilledBy(q)]
            top == [used EXCEPT ![r] = n * (c - DayTotal)]
<1>1. n \in Nat \ {0} /\ c \in Nat /\ n * c <= DailyBudget
  BY SourcesAreSome, SplitWithin, LedgerAssumption
<1>2. DayTotal \in Nat
  BY DayTotalType DEF LInv
<1>3. Collecting(r) /\ ceiling[r] = c
  BY DEF Books, Collecting
<1>4. \A s \in Sources : Fits(client[r][s], c, DayTotal)
  BY <1>3 DEF Collecting
<1>5. \A s \in Sources : client[r][s] \in Client
  BY DEF LInv, TypeOK
<1>6. DayTotal <= c
  <2>1. client[r][z].inProcess \in Nat
    BY <1>5 DEF Client
  <2>. QED BY <1>1, <1>2, <1>4, <2>1 DEF Fits
<1>7. \A s \in Sources : f[s] \in Nat /\ f[s] <= c - DayTotal
  <2>. SUFFICES ASSUME NEW s \in Sources
                PROVE  client[r][s].billed \in Nat /\ client[r][s].billed <= c - DayTotal
    OBVIOUS
  <2>. DEFINE k == client[r][s]
  <2>1. /\ k \in Client /\ Sound(k, Allowance(r), Live(r))
        /\ k.query \in Queries => Cost[k.query] \in Nat \ {0}
    BY ClientFacts
  <2>2. Fits(k, c, DayTotal)
    BY <1>4
  <2>. HIDE DEF k
  <2>3. k.billed \in Nat /\ k.inProcess \in Nat /\ k.billed <= k.inProcess
    <3>1. Settled(k, Live(r)) /\ Live(r)
      BY DEF Books, k
    <3>2. k.at = "call" => Cost[k.query] \in Nat
      BY <2>1 DEF Sound
    <3>. QED BY <2>1, <3>1, <3>2 DEF Client, Settled
  <2>4. k.billed <= c - DayTotal
    BY <1>1, <1>2, <1>6, <2>2, <2>3 DEF Fits
  <2>. QED BY <2>3, <2>4 DEF k
<1>8. bill[r] \in Nat /\ bill[r] <= n * (c - DayTotal)
  <2>1. c - DayTotal \in Nat
    BY <1>1, <1>2, <1>6
  <2>2. DOMAIN f = Sources
    OBVIOUS
  <2>3. bill[r] = SumFunction(f)
    BY DEF BilledBy
  <2>. HIDE DEF f, bill, c
  <2>4. bill[r] = SumFunctionOnSet(f, Sources)
    BY <2>2, <2>3, SumOverDomain
  <2>5. SumFunctionOnSet(f, Sources) <= Cardinality(Sources) * (c - DayTotal)
    BY <1>7, <2>1, SumBounded, LedgerAssumption
  <2>6. SumFunctionOnSet(f, Sources) \in Nat
    BY <1>7, SumInNat, LedgerAssumption
  <2>. QED BY <2>4, <2>5, <2>6
<1>9. n * (c - DayTotal) \in Nat /\ DayTotal + n * (c - DayTotal) <= n * c
  BY <1>1, <1>2, <1>6, ShareArithmetic
<1>10. ASSUME NEW q \in Runs, q # r
       PROVE  bill[q] \in Nat /\ bill[q] <= used[q]
  <2>1. bill[q] \in Nat
    BY BilledByType DEF LInv
  <2>2. CASE pc[q] = "idle"
    <3>1. \A s \in Sources : client[q][s].billed = 0
      BY <2>2 DEF Books, Untouched, Off
    <3>2. bill[q] = 0
      BY <3>1, OffBillsNothing
    <3>3. used[q] = 0
      BY <2>2 DEF Books, Untouched
    <3>. QED BY <3>2, <3>3
  <2>3. CASE pc[q] = "done"
    BY <2>1, <2>3 DEF Books, Closed
  <2>4. pc[q] \in {"idle", "done"}
    BY <1>10 DEF Books, OneAtATime, LInv, TypeOK
  <2>. QED BY <2>1, <2>2, <2>3, <2>4
<1>. HIDE DEF c, n, f
<1>11. used \in [Runs -> Nat] /\ used[r] = 0
  BY <1>3 DEF LInv, TypeOK, Collecting
<1>12. \A q \in Runs : bill[q] \in Nat /\ top[q] \in Nat /\ bill[q] <= top[q]
  <2>. HIDE DEF bill
  <2>. QED BY <1>8, <1>9, <1>10, <1>11
<1>13. \A q \in Runs \ {r} : top[q] = used[q]
  BY <1>11
<1>14. top[r] = n * (c - DayTotal)
  BY <1>11
<1>15. DayBill = SumFunctionOnSet(bill, Runs)
  BY SumOverDomain, DOMAIN bill = Runs DEF DayBill
<1>16. DayTotal = SumFunctionOnSet(used, Runs)
  BY <1>11, SumOverDomain, DOMAIN used = Runs DEF DayTotal
<1>. HIDE DEF bill, top
<1>17. SumFunctionOnSet(bill, Runs) <= SumFunctionOnSet(top, Runs)
  BY <1>12, SumMonotone, LedgerAssumption
<1>18. SumFunctionOnSet(top, Runs) = SumFunctionOnSet(used, Runs) - used[r] + top[r]
  <2>1. \A q \in Runs : used[q] \in Nat /\ top[q] \in Nat
    BY <1>11, <1>12
  <2>. QED BY <1>13, <2>1, SumUpdates, LedgerAssumption
<1>19. SumFunctionOnSet(bill, Runs) \in Nat
  BY <1>12, SumInNat, LedgerAssumption
<1>20. DayBill <= DayTotal + n * (c - DayTotal)
  BY <1>2, <1>9, <1>11, <1>14, <1>15, <1>16, <1>17, <1>18, <1>19
<1>21. n * c \in Nat
  BY <1>1
<1>. QED BY <1>1, <1>2, <1>9, <1>15, <1>19, <1>20, <1>21, LedgerAssumption

-----------------------------------------------------------------------------
(* A quiet day: the steps of a collector.                                   *)

LEMMA Elsewhere ==
    ASSUME TypeOK, NEW r \in Runs, NEW s \in Sources, NEW c, Becomes(r, s, c)
    PROVE  /\ client'[r][s] = c
           /\ \A q \in Runs, t \in Sources :
                 ~ (q = r /\ t = s) => client'[q][t] = client[q][t]
BY DEF TypeOK, Becomes

LEMMA BillStays ==
    ASSUME \A r \in Runs, s \in Sources : client'[r][s].billed = client[r][s].billed
    PROVE  DayBill' = DayBill /\ \A r \in Runs : BilledBy(r)' = BilledBy(r)
<1>1. ASSUME NEW r \in Runs PROVE BilledBy(r)' = BilledBy(r)
  <2>1. [s \in Sources |-> client'[r][s].billed] = [s \in Sources |-> client[r][s].billed]
    OBVIOUS
  <2>. QED BY <2>1 DEF BilledBy
<1>2. [r \in Runs |-> BilledBy(r)'] = [r \in Runs |-> BilledBy(r)]
  BY <1>1
<1>. QED BY <1>1, <1>2 DEF DayBill

(* A client that moves belongs to the execution that collects, and its      *)
(* answer is still to be taken.                                             *)
LEMMA WhoMoves ==
    ASSUME LInv, Books, NEW r \in Runs, NEW s \in Sources,
           client[r][s].at \notin {"off", "over"}
    PROVE  pc[r] = "collect" /\ Collecting(r) /\ client[r][s].told = FALSE
<1>1. pc[r] # "idle" /\ pc[r] # "done"
  BY DEF Books, Untouched, Closed, Off
<1>2. pc[r] = "collect"
  BY <1>1 DEF Books, OneAtATime, LInv, TypeOK
<1>3. client[r][s].told = FALSE
  BY DEF Books, Settled, LInv, TypeOK, Client
<1>. QED BY <1>2, <1>3 DEF Books

LEMMA CollectorKeepsBooks ==
    ASSUME LInv, Books, NEW r \in Runs, NEW s \in Sources, NEW c, Becomes(r, s, c),
           client[r][s].at \notin {"off", "over"},
           UNCHANGED run, c.told = client[r][s].told,
           Settled(c, Live(r)),
           Live(r) => Fits(c, ceiling[r], DayTotal)
    PROVE  Books'
<1>1. pc[r] = "collect" /\ Collecting(r) /\ client[r][s].told = FALSE
  BY WhoMoves
<1>2. /\ client'[r][s] = c
      /\ \A q \in Runs, t \in Sources :
            ~ (q = r /\ t = s) => client'[q][t] = client[q][t]
  BY Elsewhere DEF LInv
<1>3. /\ UNCHANGED <<pc, mode, row, ceiling, total, used>>
      /\ \A q \in Runs : Live(q)' = Live(q)
      /\ DayTotal' = DayTotal
  BY DEF run, Live, DayTotal
<1>4. ASSUME NEW q \in Runs PROVE Reports(q)' = Reports(q)
  BY <1>1, <1>2 DEF Reports
<1>5. OneAtATime'
  BY <1>3 DEF Books, OneAtATime
<1>6. ASSUME NEW q \in Runs, NEW t \in Sources
      PROVE  Settled(client'[q][t], Live(q)')
  <2>1. CASE q = r /\ t = s
    BY <1>2, <1>3, <2>1
  <2>2. CASE ~ (q = r /\ t = s)
    BY <1>2, <1>3, <2>2 DEF Books
  <2>. QED BY <2>1, <2>2
<1>7. ASSUME NEW q \in Runs, pc'[q] = "idle" PROVE Untouched(q)'
  <2>1. pc[q] = "idle" /\ q # r
    BY <1>1, <1>3, <1>7
  <2>. QED BY <1>2, <1>3, <2>1 DEF Books, Untouched
<1>8. ASSUME NEW q \in Runs, pc'[q] = "collect" PROVE Collecting(q)'
  <2>1. pc[q] = "collect" /\ q = r
    BY <1>1, <1>3, <1>8 DEF Books, OneAtATime
  <2>2. total'[q] = SumFunction(Reports(q)')
    BY <1>1, <1>3, <1>4, <2>1 DEF Collecting
  <2>3. ASSUME Live(q)', NEW t \in Sources
        PROVE  Fits(client'[q][t], ceiling'[q], DayTotal')
    <3>1. CASE t = s
      BY <1>2, <1>3, <2>1, <2>3, <3>1
    <3>2. CASE t # s
      BY <1>1, <1>2, <1>3, <2>1, <2>3, <3>2 DEF Collecting
    <3>. QED BY <3>1, <3>2
  <2>4. /\ row'[q] = q /\ used'[q] = 0
        /\ ceiling'[q] = SplitCredits(DailyBudget) /\ ceiling'[q] # 0
    BY <1>1, <1>3, <2>1 DEF Collecting
  <2>. QED BY <2>2, <2>3, <2>4 DEF Collecting, SplitCredits
<1>9. ASSUME NEW q \in Runs, pc'[q] = "done" PROVE Closed(q)'
  <2>1. pc[q] = "done" /\ q # r
    BY <1>1, <1>3, <1>9
  <2>2. [t \in Sources |-> client'[q][t].billed] = [t \in Sources |-> client[q][t].billed]
    BY <1>2, <2>1
  <2>3. BilledBy(q)' = BilledBy(q)
    BY <2>2 DEF BilledBy
  <2>. QED BY <1>2, <1>3, <2>1, <2>3 DEF Books, Closed
<1>. QED BY <1>5, <1>6, <1>7, <1>8, <1>9 DEF Books

(* Steps that touch neither the totals nor what was held.                   *)
LEMMA QuietMove ==
    ASSUME LInv, Books, NEW r \in Runs, NEW s \in Sources, NEW c, Becomes(r, s, c),
           client[r][s].at \notin {"off", "over", "write"}, c.at \notin {"write", "call"},
           UNCHANGED run, c.told = client[r][s].told,
           c.loaded = client[r][s].loaded, c.persisted = client[r][s].persisted,
           c.inProcess = client[r][s].inProcess, c.billed = client[r][s].billed,
           c.counted = client[r][s].counted
    PROVE  Books' /\ DayBill' = DayBill
<1>1. Collecting(r) /\ client[r][s].told = FALSE
  BY WhoMoves
<1>2. /\ Settled(client[r][s], Live(r)) /\ client[r][s] \in Client
      /\ client[r][s].at = "call" => Cost[client[r][s].query] \in Nat
  BY ClientFacts DEF Books, Sound
<1>3. Settled(c, Live(r))
  BY <1>1, <1>2 DEF Settled, Client
<1>4. Live(r) => Fits(c, ceiling[r], DayTotal)
  BY <1>1 DEF Collecting, Fits
<1>5. Books'
  BY <1>3, <1>4, CollectorKeepsBooks
<1>6. \A q \in Runs, t \in Sources : client'[q][t].billed = client[q][t].billed
  BY Elsewhere DEF LInv
<1>. QED BY <1>5, <1>6, BillStays

LEMMA SpendKeepsQuiet ==
    ASSUME LInv, Books, NEW r \in Runs, NEW s \in Sources, Spend(r, s)
    PROVE  Books' /\ DayBill' = DayBill
<1>. DEFINE c == client[r][s]
            fresh == IF Live(r) THEN DayTotal ELSE 0
            first == IF c.loaded THEN c.persisted ELSE fresh
            persisted == IF Breach(c, first) THEN fresh ELSE first
            loaded == [c EXCEPT !.loaded = TRUE, !.cap = Cap(c), !.persisted = persisted]
            held == [loaded EXCEPT !.at = "call", !.inProcess = @ + Cost[c.query]]
            refused == [loaded EXCEPT !.at = "over", !.query = NoQuery, !.todo = {}]
<1>1. \/ ~ Breach(c, persisted) /\ Becomes(r, s, held)
      \/ Breach(c, persisted) /\ Becomes(r, s, refused)
  BY DEF Spend
<1>2. /\ c \in Client /\ Sound(c, Allowance(r), Live(r))
      /\ c.at = "spend" /\ c.query \in Queries /\ Cost[c.query] \in Nat \ {0}
  BY ClientFacts DEF Spend, At, Sound
<1>3. Collecting(r) /\ c.told = FALSE
  BY <1>2, WhoMoves
<1>4. Settled(c, Live(r)) /\ (Live(r) => Fits(c, ceiling[r], DayTotal))
  BY <1>3 DEF Books, Collecting
<1>5. Cap(c) = ceiling[r]
  BY <1>2, <1>3 DEF Collecting, Sound, Allowance
<1>6. DayTotal \in Nat
  BY DayTotalType DEF LInv
<1>7. UNCHANGED run
  BY DEF Spend
<1>8. Live(r) => persisted = DayTotal
  BY <1>4 DEF Fits
<1>. HIDE DEF c, persisted
<1>9. CASE ~ Breach(c, persisted) /\ Becomes(r, s, held)
  <2>1. Settled(held, Live(r)) /\ held.told = c.told /\ held.billed = c.billed
    BY <1>2, <1>3, <1>4 DEF Client, Settled
  <2>2. Live(r) => c.inProcess + Cost[c.query] + DayTotal <= ceiling[r]
    <3>1. Live(r) => DayTotal + c.inProcess + Cost[c.query] <= ceiling[r]
      <4>1. c.inProcess \in Nat /\ ceiling[r] \in Nat
        BY <1>2 DEF Client, LInv, TypeOK
      <4>. QED BY <1>2, <1>5, <1>6, <1>8, <1>9, <4>1 DEF Breach
    <3>. QED BY <1>2, <1>6, <3>1 DEF Client
  <2>3. Live(r) => Fits(held, ceiling[r], DayTotal)
    BY <1>2, <1>8, <2>2 DEF Client, Fits
  <2>. HIDE DEF held
  <2>4. Books'
    BY <1>2, <1>7, <1>9, <2>1, <2>3, CollectorKeepsBooks DEF c
  <2>5. \A q \in Runs, t \in Sources : client'[q][t].billed = client[q][t].billed
    BY <1>9, <2>1, Elsewhere DEF LInv, c
  <2>. QED BY <2>4, <2>5, BillStays
<1>10. CASE Breach(c, persisted) /\ Becomes(r, s, refused)
  <2>1. Settled(refused, Live(r)) /\ refused.told = c.told /\ refused.billed = c.billed
    BY <1>2, <1>3, <1>4 DEF Client, Settled
  <2>2. Live(r) => Fits(refused, ceiling[r], DayTotal)
    BY <1>2, <1>4, <1>8 DEF Client, Fits
  <2>. HIDE DEF refused
  <2>3. Books'
    BY <1>2, <1>7, <1>10, <2>1, <2>2, CollectorKeepsBooks DEF c
  <2>4. \A q \in Runs, t \in Sources : client'[q][t].billed = client[q][t].billed
    BY <1>10, <2>1, Elsewhere DEF LInv, c
  <2>. QED BY <2>3, <2>4, BillStays
<1>. QED BY <1>1, <1>9, <1>10

LEMMA CallAnswersKeepsQuiet ==
    ASSUME LInv, LInv', Books, NEW r \in Runs, NEW s \in Sources, CallAnswers(r, s),
           excuse' = {}, DayBill <= DailyBudget
    PROVE  Books' /\ DayBill' <= DailyBudget
<1>. DEFINE c == client[r][s]
            live == [c EXCEPT !.at = "write", !.billed = @ + Cost[c.query]]
            fixture == [c EXCEPT !.at = "next", !.query = NoQuery,
                                 !.counted = @ + Cost[c.query]]
            d == IF Live(r) THEN live ELSE fixture
<1>1. /\ c \in Client /\ Sound(c, Allowance(r), Live(r))
      /\ c.at = "call" /\ c.query \in Queries /\ Cost[c.query] \in Nat \ {0}
  BY ClientFacts DEF CallAnswers, At, Sound
<1>2. Becomes(r, s, d) /\ UNCHANGED run
  <2>1. CASE ~ Live(r)
    BY <2>1 DEF CallAnswers
  <2>2. CASE Live(r)
    <3>1. PICK n \in 1..MaxAttempts :
             /\ Becomes(r, s, [Worked(c, n) EXCEPT !.at = "write"])
             /\ IF n = 1 THEN UNCHANGED <<excuse, faults>>
                         ELSE Excuse({"repeated"}) /\ Fault
      BY <2>2 DEF CallAnswers
    <3>2. n = 1
      BY <3>1 DEF Excuse
    <3>3. c.billed + 1 * Cost[c.query] = c.billed + Cost[c.query]
      BY <1>1 DEF Client
    <3>. HIDE DEF c
    <3>4. [Worked(c, 1) EXCEPT !.at = "write"] = live
      BY <1>1, <3>3 DEF Worked, Client
    <3>5. UNCHANGED run
      BY DEF CallAnswers
    <3>. QED BY <2>2, <3>1, <3>2, <3>4, <3>5
  <2>. QED BY <2>1, <2>2
<1>3. pc[r] = "collect" /\ Collecting(r) /\ c.told = FALSE
  BY <1>1, WhoMoves
<1>4. Settled(c, Live(r)) /\ (Live(r) => Fits(c, ceiling[r], DayTotal))
  BY <1>3 DEF Books, Collecting
<1>. HIDE DEF c
<1>5. d.told = c.told /\ (Live(r) => d.inProcess = c.inProcess) /\ (~ Live(r) => d.billed = c.billed)
  BY <1>1 DEF Client
<1>6. Settled(d, Live(r))
  <2>1. CASE Live(r)
    BY <1>1, <1>3, <1>4, <2>1 DEF Client, Settled
  <2>2. CASE ~ Live(r)
    BY <1>1, <1>3, <1>4, <2>2 DEF Client, Settled
  <2>. QED BY <2>1, <2>2
<1>7. Live(r) => Fits(d, ceiling[r], DayTotal)
  BY <1>1, <1>4 DEF Client, Fits
<1>. HIDE DEF d
<1>8. Books'
  BY <1>1, <1>2, <1>5, <1>6, <1>7, CollectorKeepsBooks DEF c
<1>9. /\ client'[r][s] = d
      /\ \A q \in Runs, t \in Sources :
            ~ (q = r /\ t = s) => client'[q][t] = client[q][t]
  BY <1>2, Elsewhere DEF LInv
<1>10. CASE Live(r)
  <2>1. c.inProcess # 0
    BY <1>1, <1>4, <1>10 DEF Client, Settled
  <2>2. SomeoneHolds'
    BY <1>2, <1>3, <1>5, <1>9, <1>10, <2>1 DEF SomeoneHolds, run, Live
  <2>3. (LInv /\ Books /\ SomeoneHolds => DayBill <= DailyBudget)'
    BY BillFollows, PTL
  <2>4. (DayBill <= DailyBudget)'
    BY <1>8, <2>2, <2>3
  <2>. QED BY <1>8, <2>4
<1>11. CASE ~ Live(r)
  <2>1. \A q \in Runs, t \in Sources : client'[q][t].billed = client[q][t].billed
    BY <1>5, <1>9, <1>11 DEF c
  <2>. QED BY <1>8, <2>1, BillStays
<1>. QED BY <1>10, <1>11

LEMMA WriteCacheKeepsQuiet ==
    ASSUME LInv, Books, NEW r \in Runs, NEW s \in Sources, WriteCache(r, s)
    PROVE  Books' /\ DayBill' = DayBill
<1>. DEFINE c == client[r][s]
            d == [c EXCEPT !.at = "next", !.query = NoQuery,
                           !.counted = @ + Cost[c.query]]
<1>1. /\ c \in Client /\ Sound(c, Allowance(r), Live(r))
      /\ c.at = "write" /\ c.query \in Queries /\ Cost[c.query] \in Nat \ {0}
  BY ClientFacts DEF WriteCache, At, Sound
<1>2. Becomes(r, s, d) /\ UNCHANGED run
  BY DEF WriteCache
<1>3. pc[r] = "collect" /\ Collecting(r) /\ c.told = FALSE
  BY <1>1, WhoMoves
<1>4. Settled(c, Live(r)) /\ (Live(r) => Fits(c, ceiling[r], DayTotal))
  BY <1>3 DEF Books, Collecting
<1>. HIDE DEF c
<1>5. d.told = c.told /\ d.billed = c.billed
  BY <1>1 DEF Client
<1>6. Settled(d, Live(r))
  BY <1>1, <1>3, <1>4 DEF Client, Settled
<1>7. Live(r) => Fits(d, ceiling[r], DayTotal)
  BY <1>1, <1>4 DEF Client, Fits
<1>. HIDE DEF d
<1>8. Books'
  BY <1>1, <1>2, <1>5, <1>6, <1>7, CollectorKeepsBooks DEF c
<1>9. \A q \in Runs, t \in Sources : client'[q][t].billed = client[q][t].billed
  BY <1>2, <1>5, Elsewhere DEF LInv, c
<1>. QED BY <1>8, <1>9, BillStays

LEMMA CollectKeepsQuiet ==
    ASSUME QInv, LInv', NEW r \in Runs, NEW s \in Sources, Collect(r, s), excuse' = {}
    PROVE  Books' /\ DayBill' <= DailyBudget
<1>1. excuse = {}
  BY DEF Collect, Lookup, LookupFails, Spend, SpendFails, CallAnswers, CallFails,
         WriteCache, WriteCacheFails, CollectorEnds, Excuse
<1>2. LInv /\ Books /\ DayBill <= DailyBudget
  BY <1>1 DEF QInv
<1>. DEFINE c == client[r][s]
<1>3. c \in Client
  BY <1>2 DEF LInv, TypeOK
<1>4. ASSUME Lookup(r, s) \/ LookupFails(r, s)
      PROVE  Books' /\ DayBill' = DayBill
  <2>1. PICK q \in c.todo :
           \/ Becomes(r, s, [c EXCEPT !.todo = @ \ {q}])
           \/ Becomes(r, s, [[c EXCEPT !.todo = @ \ {q}] EXCEPT !.at = "spend", !.query = q])
    BY <1>4 DEF Lookup, LookupFails
  <2>2. c.at = "next" /\ UNCHANGED run
    BY <1>4 DEF Lookup, LookupFails, At
  <2>3. CASE Becomes(r, s, [c EXCEPT !.todo = @ \ {q}])
    <3>. DEFINE d == [c EXCEPT !.todo = @ \ {q}]
    <3>1. /\ d.at \notin {"write", "call"} /\ d.told = c.told /\ d.loaded = c.loaded
          /\ d.persisted = c.persisted /\ d.inProcess = c.inProcess
          /\ d.billed = c.billed /\ d.counted = c.counted
      BY <1>3, <2>2 DEF Client
    <3>2. Becomes(r, s, d)
      BY <2>3
    <3>. HIDE DEF d
    <3>. QED BY <1>2, <2>2, <3>1, <3>2, QuietMove
  <2>4. CASE Becomes(r, s, [[c EXCEPT !.todo = @ \ {q}] EXCEPT !.at = "spend", !.query = q])
    <3>. DEFINE d == [[c EXCEPT !.todo = @ \ {q}] EXCEPT !.at = "spend", !.query = q]
    <3>1. /\ d.at \notin {"write", "call"} /\ d.told = c.told /\ d.loaded = c.loaded
          /\ d.persisted = c.persisted /\ d.inProcess = c.inProcess
          /\ d.billed = c.billed /\ d.counted = c.counted
      BY <1>3, <2>2 DEF Client
    <3>2. Becomes(r, s, d)
      BY <2>4
    <3>. HIDE DEF d
    <3>. QED BY <1>2, <2>2, <3>1, <3>2, QuietMove
  <2>. QED BY <2>1, <2>3, <2>4
<1>5. ASSUME SpendFails(r, s) \/ CallFails(r, s) \/ CollectorEnds(r, s)
      PROVE  Books' /\ DayBill' = DayBill
  <2>1. c.at \in {"spend", "call", "next"} /\ UNCHANGED run
    BY <1>5 DEF SpendFails, CallFails, CollectorEnds, At
  <2>2. PICK stage \in {"next", "over"} :
           Becomes(r, s, [c EXCEPT !.at = stage, !.query = NoQuery])
    <3>1. ASSUME CallFails(r, s) PROVE Becomes(r, s, [c EXCEPT !.at = "next",
                                                               !.query = NoQuery])
      <4>1. PICK n \in 0..(IF Live(r) THEN MaxAttempts ELSE 0) :
               /\ Becomes(r, s, [Worked(c, n) EXCEPT !.at = "next", !.query = NoQuery])
               /\ Excuse(IF n = 0 THEN {} ELSE {"repeated"})
        BY <3>1 DEF CallFails
      <4>2. n = 0
        BY <4>1 DEF Excuse
      <4>3. c.query \in Queries /\ Cost[c.query] \in Nat
        BY <1>2, <3>1, ClientFacts DEF CallFails, At, Sound
      <4>4. c.billed + 0 * Cost[c.query] = c.billed
        BY <1>3, <4>3 DEF Client
      <4>. HIDE DEF c
      <4>5. [Worked(c, 0) EXCEPT !.at = "next", !.query = NoQuery] =
                [c EXCEPT !.at = "next", !.query = NoQuery]
        BY <1>3, <4>4 DEF Worked, Client
      <4>. QED BY <4>1, <4>2, <4>5
    <3>. QED BY <1>5, <3>1 DEF SpendFails, CollectorEnds
  <2>. DEFINE d == [c EXCEPT !.at = stage, !.query = NoQuery]
  <2>3. /\ d.at \notin {"write", "call"} /\ d.told = c.told /\ d.loaded = c.loaded
        /\ d.persisted = c.persisted /\ d.inProcess = c.inProcess
        /\ d.billed = c.billed /\ d.counted = c.counted
    BY <1>3 DEF Client
  <2>4. Becomes(r, s, d)
    BY <2>2
  <2>. HIDE DEF d
  <2>. QED BY <1>2, <2>1, <2>3, <2>4, QuietMove
<1>6. ~ WriteCacheFails(r, s)
  BY DEF WriteCacheFails, Excuse
<1>. QED BY <1>2, <1>4, <1>5, <1>6, SpendKeepsQuiet, CallAnswersKeepsQuiet,
            WriteCacheKeepsQuiet DEF Collect

-----------------------------------------------------------------------------
(* A quiet day: the steps of the orchestrator.                              *)

LEMMA BeginKeepsQuiet ==
    ASSUME LInv, Books, NEW r \in Runs, Begin(r), excuse' = {}
    PROVE  Books' /\ DayBill' = DayBill
<1>1. PICK x \in Runs, budget \in {0, DailyBudget} :
          /\ row' = [row EXCEPT ![r] = x]
          /\ ceiling' = [ceiling EXCEPT ![r] = SplitCredits(budget)]
          /\ client' = [client EXCEPT ![r] =
                [s \in Sources |-> NewClient(s, mode[r], SplitCredits(budget))]]
          /\ Excuse({why \in Excuses :
                \/ why = "force" /\ x # r
                \/ why = "overlap" /\ \E o \in Runs : pc[o] = "collect"
                \/ why = "split" /\ SplitCredits(budget) = 0})
  BY DEF Begin
<1>2. /\ x = r /\ SplitCredits(budget) # 0
      /\ \A o \in Runs : pc[o] # "collect"
  <2>1. {why \in Excuses :
                \/ why = "force" /\ x # r
                \/ why = "overlap" /\ \E o \in Runs : pc[o] = "collect"
                \/ why = "split" /\ SplitCredits(budget) = 0} = {}
    BY <1>1 DEF Excuse
  <2>2. {"force", "overlap", "split"} \subseteq Excuses
    BY DEF Excuses
  <2>. QED BY <2>1, <2>2
<1>. DEFINE k == SplitCredits(DailyBudget)
<1>3. budget = DailyBudget
  <2>1. SplitCredits(0) = 0
    <3>1. SplitCredits(0) \in Nat /\ SplitCredits(0) <= 0
      BY SplitWithin
    <3>. QED BY <3>1
  <2>. QED BY <1>2, <2>1
<1>4. k # 0 /\ k \in Nat
  BY <1>2, <1>3, SplitWithin, LedgerAssumption
<1>5. /\ row' = [row EXCEPT ![r] = r] /\ ceiling' = [ceiling EXCEPT ![r] = k]
      /\ client' = [client EXCEPT ![r] = [s \in Sources |-> NewClient(s, mode[r], k)]]
  BY <1>1, <1>2, <1>3
<1>. DEFINE n(s) == NewClient(s, mode[r], k)
<1>6. \A s \in Sources :
         /\ n(s).told = FALSE /\ n(s).billed = 0 /\ n(s).counted = 0
         /\ n(s).inProcess = 0 /\ n(s).loaded = FALSE /\ n(s).at \notin {"call", "write"}
  BY DEF NewClient, Off
<1>7. \A s \in Sources : Settled(n(s), Live(r)) /\ Fits(n(s), k, DayTotal)
  BY <1>6 DEF Settled, Fits
<1>. HIDE DEF k, n
<1>8. /\ \A s \in Sources : client'[r][s] = n(s)
      /\ \A q \in Runs \ {r} : client'[q] = client[q]
  BY <1>5 DEF LInv, TypeOK, n
<1>9. /\ pc[r] = "idle" /\ pc' = [pc EXCEPT ![r] = "collect"]
      /\ UNCHANGED <<mode, total, used>>
      /\ \A q \in Runs : Live(q)' = Live(q)
      /\ DayTotal' = DayTotal
  BY DEF Begin, Live, DayTotal
<1>10. pc'[r] = "collect" /\ \A q \in Runs \ {r} : pc'[q] = pc[q]
  BY <1>9 DEF LInv, TypeOK
<1>11. Untouched(r)
  BY <1>9 DEF Books
<1>12. OneAtATime'
  BY <1>2, <1>10 DEF Books, OneAtATime
<1>13. ASSUME NEW q \in Runs, NEW t \in Sources
       PROVE  Settled(client'[q][t], Live(q)')
  BY <1>7, <1>8, <1>9 DEF Books
<1>14. ASSUME NEW q \in Runs, pc'[q] = "idle" PROVE Untouched(q)'
  BY <1>8, <1>9, <1>10, <1>14 DEF Books, Untouched
<1>15. ASSUME NEW q \in Runs, pc'[q] = "collect" PROVE Collecting(q)'
  <2>1. q = r
    BY <1>2, <1>10, <1>15
  <2>. DEFINE z == [s \in Sources |-> 0]
  <2>2. Reports(r)' = z
    BY <1>6, <1>8 DEF Reports
  <2>3. SumFunction(z) = 0
    <3>1. (\A s \in Sources : z[s] = 0) /\ DOMAIN z = Sources
      OBVIOUS
    <3>. HIDE DEF z
    <3>. QED BY <3>1, SumOverDomain, SumOfZeros, LedgerAssumption
  <2>4. total'[r] = SumFunction(Reports(r)')
    BY <1>9, <1>11, <2>2, <2>3 DEF Untouched
  <2>5. used'[r] = 0
    BY <1>9, <1>11 DEF Untouched
  <2>6. row'[r] = r /\ ceiling'[r] = k
    BY <1>5 DEF LInv, TypeOK
  <2>7. k = SplitCredits(DailyBudget)'
    BY DEF k, SplitCredits
  <2>8. \A s \in Sources : Fits(client'[r][s], ceiling'[r], DayTotal')
    BY <1>7, <1>8, <1>9, <2>6
  <2>. QED BY <1>4, <2>1, <2>4, <2>5, <2>6, <2>7, <2>8 DEF Collecting
<1>16. ASSUME NEW q \in Runs, NEW t \in Sources
       PROVE  client'[q][t].billed = client[q][t].billed
  <2>1. client[r][t].billed = 0
    BY <1>11 DEF Untouched, Off
  <2>. QED BY <1>6, <1>8, <2>1
<1>17. DayBill' = DayBill /\ \A q \in Runs : BilledBy(q)' = BilledBy(q)
  BY <1>16, BillStays
<1>18. ASSUME NEW q \in Runs, pc'[q] = "done" PROVE Closed(q)'
  <2>1. pc[q] = "done" /\ q # r
    BY <1>10, <1>18
  <2>2. used'[q] = used[q] /\ BilledBy(q)' = BilledBy(q)
    BY <1>9, <1>17
  <2>. QED BY <1>8, <2>1, <2>2 DEF Books, Closed
<1>. QED BY <1>12, <1>13, <1>14, <1>15, <1>17, <1>18 DEF Books

LEMMA TakeAnswerKeepsQuiet ==
    ASSUME LInv, Books, NEW r \in Runs, NEW s \in Sources, TakeAnswer(r, s)
    PROVE  Books' /\ DayBill' = DayBill
<1>. DEFINE c == client[r][s]
            d == [c EXCEPT !.told = TRUE]
<1>1. /\ pc[r] = "collect" /\ c.at = "over" /\ ~ c.told
      /\ client' = [client EXCEPT ![r][s].told = TRUE]
      /\ total' = [total EXCEPT ![r] = @ + c.counted]
      /\ UNCHANGED <<pc, mode, row, ceiling, used>>
  BY DEF TakeAnswer
<1>2. c \in Client /\ Collecting(r) /\ Settled(c, Live(r))
  BY <1>1 DEF LInv, TypeOK, Books
<1>3. Becomes(r, s, d)
  BY <1>1 DEF LInv, TypeOK, Becomes
<1>. HIDE DEF c
<1>4. /\ d.told = TRUE /\ d.counted = c.counted /\ d.billed = c.billed /\ d.at = "over"
      /\ Settled(d, Live(r))
      /\ \A share, day : Fits(c, share, day) => Fits(d, share, day)
  BY <1>1, <1>2 DEF Client, Settled, Fits
<1>. HIDE DEF d
<1>5. /\ client'[r][s] = d
      /\ \A q \in Runs, t \in Sources :
            ~ (q = r /\ t = s) => client'[q][t] = client[q][t]
  BY <1>3, Elsewhere DEF LInv
<1>6. DayTotal' = DayTotal /\ \A q \in Runs : Live(q)' = Live(q)
  BY <1>1 DEF DayTotal, Live
<1>7. total'[r] = SumFunction(Reports(r)')
  <2>. DEFINE f == Reports(r)
              g == Reports(r)'
  <2>1. DOMAIN f = Sources /\ DOMAIN g = Sources
    BY DEF Reports
  <2>2. \A t \in Sources : f[t] \in Nat
    BY DEF Reports, LInv, TypeOK, Client
  <2>3. f[s] = 0 /\ g[s] = c.counted /\ c.counted \in Nat
    BY <1>1, <1>2, <1>4, <1>5 DEF Reports, Client, c
  <2>4. \A t \in Sources \ {s} : g[t] = f[t]
    BY <1>5 DEF Reports
  <2>5. total[r] = SumFunction(f)
    BY <1>2 DEF Collecting
  <2>6. total'[r] = total[r] + c.counted
    BY <1>1 DEF LInv, TypeOK
  <2>. HIDE DEF f, g
  <2>7. SumFunctionOnSet(g, Sources) = SumFunctionOnSet(f, Sources) - f[s] + g[s]
    <3>1. \A t \in Sources : f[t] \in Nat /\ g[t] \in Nat
      BY <2>2, <2>3, <2>4
    <3>. QED BY <2>4, <3>1, SumUpdates, LedgerAssumption
  <2>8. SumFunctionOnSet(f, Sources) \in Nat
    BY <2>2, SumInNat, LedgerAssumption
  <2>9. SumFunction(f) = SumFunctionOnSet(f, Sources) /\ SumFunction(g) = SumFunctionOnSet(g, Sources)
    BY <2>1, SumOverDomain
  <2>10. total'[r] = SumFunction(g)
    BY <2>3, <2>5, <2>6, <2>7, <2>8, <2>9
  <2>. QED BY <2>10 DEF g
<1>8. \A q \in Runs, t \in Sources : client'[q][t].billed = client[q][t].billed
  BY <1>4, <1>5 DEF c
<1>9. DayBill' = DayBill /\ \A q \in Runs : BilledBy(q)' = BilledBy(q)
  BY <1>8, BillStays
<1>10. OneAtATime'
  BY <1>1 DEF Books, OneAtATime
<1>11. ASSUME NEW q \in Runs, NEW t \in Sources
       PROVE  Settled(client'[q][t], Live(q)')
  <2>1. CASE q = r /\ t = s
    BY <1>4, <1>5, <1>6, <2>1
  <2>2. CASE ~ (q = r /\ t = s)
    BY <1>5, <1>6, <2>2 DEF Books
  <2>. QED BY <2>1, <2>2
<1>12. \A q \in Runs \ {r} : total'[q] = total[q]
  BY <1>1 DEF LInv, TypeOK
<1>13. ASSUME NEW q \in Runs, pc'[q] = "idle" PROVE Untouched(q)'
  <2>1. pc[q] = "idle" /\ q # r
    BY <1>1, <1>13
  <2>. QED BY <1>1, <1>5, <1>12, <2>1 DEF Books, Untouched
<1>14. ASSUME NEW q \in Runs, pc'[q] = "collect" PROVE Collecting(q)'
  <2>1. q = r
    BY <1>1, <1>14 DEF Books, OneAtATime
  <2>2. ASSUME Live(r), NEW t \in Sources
        PROVE  Fits(client'[r][t], ceiling[r], DayTotal)
    <3>1. Fits(client[r][t], ceiling[r], DayTotal)
      BY <1>2, <2>2 DEF Collecting
    <3>2. CASE t = s
      BY <1>4, <1>5, <3>1, <3>2 DEF c
    <3>3. CASE t # s
      BY <1>5, <3>1, <3>3
    <3>. QED BY <3>2, <3>3
  <2>3. /\ row'[r] = r /\ used'[r] = 0
        /\ ceiling'[r] = SplitCredits(DailyBudget)' /\ ceiling'[r] # 0
    BY <1>1, <1>2 DEF Collecting, SplitCredits
  <2>. QED BY <1>1, <1>6, <1>7, <2>1, <2>2, <2>3 DEF Collecting
<1>15. ASSUME NEW q \in Runs, pc'[q] = "done" PROVE Closed(q)'
  <2>1. pc[q] = "done" /\ q # r
    BY <1>1, <1>15
  <2>. QED BY <1>1, <1>5, <1>9, <2>1 DEF Books, Closed
<1>. QED BY <1>9, <1>10, <1>11, <1>13, <1>14, <1>15 DEF Books

(* The row a run closes covers what Anakin billed its collectors.           *)
LEMMA FinishRunKeepsQuiet ==
    ASSUME LInv, Books, NEW r \in Runs, FinishRun(r)
    PROVE  Books' /\ DayBill' = DayBill
<1>1. /\ pc[r] = "collect" /\ \A s \in Sources : client[r][s].told
      /\ pc' = [pc EXCEPT ![r] = "done"]
      /\ used' = [used EXCEPT ![row[r]] = total[r]]
      /\ UNCHANGED <<mode, row, ceiling, total, client>>
  BY DEF FinishRun
<1>2. Collecting(r)
  BY <1>1 DEF Books
<1>3. pc'[r] = "done" /\ \A q \in Runs \ {r} : pc'[q] = pc[q]
  BY <1>1 DEF LInv, TypeOK
<1>4. used'[r] = total[r] /\ \A q \in Runs \ {r} : used'[q] = used[q]
  BY <1>1, <1>2 DEF LInv, TypeOK, Collecting
<1>5. DayBill' = DayBill /\ \A q \in Runs : BilledBy(q)' = BilledBy(q)
  BY <1>1, BillStays
<1>6. \A s \in Sources : client[r][s].at = "over"
  BY <1>1 DEF Books, Settled
<1>7. BilledBy(r) <= total[r]
  <2>. DEFINE f == [s \in Sources |-> client[r][s].billed]
              g == Reports(r)
  <2>1. DOMAIN f = Sources /\ DOMAIN g = Sources
    BY DEF Reports
  <2>2. \A s \in Sources : f[s] \in Nat /\ g[s] \in Nat /\ f[s] <= g[s]
    <3>. SUFFICES ASSUME NEW s \in Sources
                  PROVE  f[s] \in Nat /\ g[s] \in Nat /\ f[s] <= g[s]
      OBVIOUS
    <3>1. g[s] = client[r][s].counted
      BY <1>1 DEF Reports
    <3>2. client[r][s].counted \in Nat /\ client[r][s].billed \in Nat
      BY DEF LInv, TypeOK, Client
    <3>3. client[r][s].billed <= client[r][s].counted
      BY <1>6, <3>2 DEF Books, Settled
    <3>. QED BY <3>1, <3>2, <3>3
  <2>3. BilledBy(r) = SumFunction(f) /\ total[r] = SumFunction(g)
    BY <1>2 DEF BilledBy, Collecting
  <2>. HIDE DEF f, g
  <2>4. SumFunctionOnSet(f, Sources) <= SumFunctionOnSet(g, Sources)
    BY <2>2, SumMonotone, LedgerAssumption
  <2>. QED BY <2>1, <2>3, <2>4, SumOverDomain
<1>8. OneAtATime'
  BY <1>1, <1>3 DEF Books, OneAtATime
<1>9. ASSUME NEW q \in Runs, NEW t \in Sources
      PROVE  Settled(client'[q][t], Live(q)')
  BY <1>1 DEF Books, Live
<1>10. ASSUME NEW q \in Runs, pc'[q] = "idle" PROVE Untouched(q)'
  <2>1. q # r /\ pc[q] = "idle"
    BY <1>3, <1>10
  <2>. QED BY <1>1, <1>4, <2>1 DEF Books, Untouched
<1>11. \A q \in Runs : pc'[q] # "collect"
  BY <1>1, <1>3 DEF Books, OneAtATime
<1>12. ASSUME NEW q \in Runs, pc'[q] = "done" PROVE Closed(q)'
  <2>1. CASE q = r
    BY <1>1, <1>4, <1>5, <1>6, <1>7, <2>1 DEF Closed
  <2>2. CASE q # r
    BY <1>1, <1>3, <1>4, <1>5, <1>12, <2>2 DEF Books, Closed
  <2>. QED BY <2>1, <2>2
<1>. QED BY <1>5, <1>8, <1>9, <1>10, <1>11, <1>12 DEF Books

LEMMA InitQInv == Init => QInv
<1>. SUFFICES ASSUME Init PROVE Books /\ DayBill <= DailyBudget
  BY InitLInv DEF QInv
<1>1. \A r \in Runs : pc[r] = "idle" /\ Untouched(r)
  BY DEF Init, Untouched
<1>2. \A r \in Runs, s \in Sources : Settled(client[r][s], Live(r))
  BY DEF Init, Settled, Off
<1>3. Books
  BY <1>1, <1>2 DEF Books, OneAtATime
<1>. DEFINE bill == [r \in Runs |-> BilledBy(r)]
<1>4. \A r \in Runs : bill[r] = 0
  BY <1>1, OffBillsNothing DEF Untouched, Off
<1>5. DOMAIN bill = Runs
  OBVIOUS
<1>. HIDE DEF bill
<1>6. SumFunction(bill) = 0
  BY <1>4, <1>5, SumOverDomain, SumOfZeros, LedgerAssumption
<1>. QED BY <1>3, <1>6, LedgerAssumption DEF DayBill, bill

LEMMA NextQInv == QInv /\ [Next]_vars => QInv'
<1>. SUFFICES ASSUME QInv, [Next]_vars PROVE QInv'
  OBVIOUS
<1>1. LInv'
  BY NextLInv DEF QInv
<1>. SUFFICES ASSUME excuse' = {} PROVE Books' /\ (DayBill <= DailyBudget)'
  BY <1>1 DEF QInv
<1>2. ASSUME NEW r \in Runs, NEW s \in Sources, Collect(r, s)
      PROVE  Books' /\ (DayBill <= DailyBudget)'
  BY <1>1, <1>2, CollectKeepsQuiet
<1>3. ASSUME NEW r \in Runs, Orchestrate(r)
      PROVE  Books' /\ (DayBill <= DailyBudget)'
  <2>1. \A s \in Sources : ~ GiveUp(r, s)
    BY DEF GiveUp, Excuse
  <2>2. ~ Unfinished(r)
    BY DEF Unfinished, Excuse
  <2>3. excuse = {}
    BY <1>3, <2>1, <2>2 DEF Orchestrate, Begin, Excuse, FinishRun, TakeAnswer
  <2>4. LInv /\ Books /\ DayBill <= DailyBudget
    BY <2>3 DEF QInv
  <2>. QED BY <1>3, <2>1, <2>2, <2>4, BeginKeepsQuiet, TakeAnswerKeepsQuiet,
              FinishRunKeepsQuiet DEF Orchestrate
<1>4. CASE UNCHANGED vars
  <2>1. Books /\ DayBill <= DailyBudget
    BY <1>4 DEF QInv, vars
  <2>2. DayBill' = DayBill /\ \A r \in Runs : BilledBy(r)' = BilledBy(r)
    BY <1>4, BillStays DEF vars
  <2>3. DayTotal' = DayTotal /\ \A r \in Runs : Reports(r)' = Reports(r)
    BY <1>4 DEF vars, DayTotal, Reports
  <2>4. Books'
    BY <1>4, <2>1, <2>2, <2>3
       DEF vars, Books, OneAtATime, Live, Untouched, Collecting, Closed, SplitCredits
  <2>. QED BY <2>1, <2>2, <2>4
<1>. QED BY <1>2, <1>3, <1>4 DEF Next

(* CreditBudget, splitCredits, Budget.Spend and FinishRun together: when    *)
(* executions neither overlap nor are forced, every split leaves something  *)
(* and no paid call goes unreported, Anakin bills the day no more than the  *)
(* brand's daily budget.                                                    *)
THEOREM QuietDayHolds == Spec => []QuietDayWithinBudget
<1>1. QInv => QuietDayWithinBudget
  BY DEF QInv, QuietDayWithinBudget
<1>. QED BY <1>1, InitQInv, NextQInv, PTL DEF Spec

=============================================================================
