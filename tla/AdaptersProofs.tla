---------------------------- MODULE AdaptersProofs ----------------------------
(***************************************************************************)
(* Theorems about Adapters.tla and the client it walks with, for any       *)
(* queries, prices and posts, any ceiling and any number of attempts and   *)
(* polls.  ClientInv is about FetchClient alone, whoever calls it; WalkInv *)
(* about the walk of one collector.                                        *)
(***************************************************************************)
EXTENDS Adapters, SumTheorems

-----------------------------------------------------------------------------
(* What upstream may still bill.  Owed: the jobs nobody polls.  Due: the    *)
(* call in progress.  Left: that call with all its attempts.                *)

OwedFor == [k \in Keys |-> orphans[k] * Cost[k]]
Owed == SumFunction(OwedFor)

Due == IF call.state = "post" \/ call.job = "running" THEN Cost[call.key] ELSE 0

Left == IF call.state = "post" THEN (MaxAttempts + 1 - call.attempt) * Cost[call.key]
        ELSE IF call.job = "running" THEN Cost[call.key] ELSE 0

ClientInv ==
    /\ ClientTypeOK
    /\ call.state = "poll" <=> call.job # "none"
    /\ call.state \in {"post", "poll"} => counted + Cost[call.key] <= spent
    /\ counted <= billed
    /\ call.job = "completed" => counted + Cost[call.key] <= billed
    /\ billed + Owed + Due <= spent + lost
    /\ billed + Owed + Left <= MaxAttempts * spent

-----------------------------------------------------------------------------
(* One collector's walk.                                                    *)

InTodo(k) == \E i \in DOMAIN todo : todo[i] = k
DealtWith(k) == k \in asked \/ k \in missed \/ InTodo(k)

(* The walk waits for the client on behalf of the next call it has to make. *)
WaitsForNext ==
    call.state # "idle" => todo # <<>> /\ call.key = Head(todo) /\ ~ batch.done

(* The page of the draft that enrich is at.                                 *)
PageNow == Page[tried[Len(tried)].post]

(* Pages are asked for one by one, when the searches are over.              *)
SearchesComeFirst ==
    source = "web" =>
        /\ tried = <<>> => \A i \in DOMAIN todo : todo[i] \in SearchKeys
        /\ tried # <<>> => todo = <<>> \/ todo = <<PageNow>>

(* What becomes of the drafts whose page was asked for, and whose the pages *)
(* are that were read.                                                      *)
PagesAreRead ==
    source = "web" =>
        /\ \A i \in DOMAIN tried : tried[i] \in found /\ tried[i].post.short
        /\ \A i \in DOMAIN tried :
              \/ tried[i] \in scraped
              \/ Page[tried[i].post] \in missed
              \/ i = Len(tried) /\ todo # <<>>
        /\ \A d \in scraped : d.post.short
        /\ \A k \in asked \ SearchKeys : \E d \in scraped : k = Page[d.post]

PostsAreDrafted == \A p \in given : InWindow(p) => \E d \in found : d.post = p

NothingIsForgotten ==
    /\ source \notin Listings => \A k \in SearchKeys : DealtWith(k)
    /\ source \in Listings /\ handle => DealtWith(Listing)
    /\ source \in Listings /\ ~ handle => problems
    /\ missed # {} => problems \/ stop

BatchIsFinal ==
    batch.done =>
        /\ todo = <<>> /\ batch.mentions = Mentions
        /\ stop \/ ~ MorePages
        /\ batch.truncated = stop /\ batch.errors = (problems \/ stop)

WalkInv ==
    /\ TypeOK
    /\ WaitsForNext /\ SearchesComeFirst /\ PagesAreRead
    /\ PostsAreDrafted /\ NothingIsForgotten /\ BatchIsFinal

AInv == ClientInv /\ WalkInv

-----------------------------------------------------------------------------
(* Arithmetic of the bill.                                                  *)

LEMMA Times ==
    ASSUME NEW n \in Nat \ {0}, NEW c \in Nat
    PROVE  n * c \in Nat /\ n * c >= c /\ (n - 1) * c = n * c - c /\ (n - 1) * c \in Nat
<1>1. n * c \in Nat /\ (n - 1) * c \in Nat
  <2>1. n - 1 \in Nat
    OBVIOUS
  <2>. QED BY <2>1
<1>2. (n - 1) * c = n * c - c
  OBVIOUS
<1>. QED BY <1>1, <1>2

LEMMA Distribute ==
    ASSUME NEW m \in Nat, NEW s \in Nat, NEW c \in Nat
    PROVE  m * (s + c) = m * s + m * c /\ m * s \in Nat /\ m * c \in Nat
OBVIOUS

LEMMA CostType ==
    ASSUME ClientTypeOK
    PROVE  /\ call.key \in Keys /\ Cost[call.key] \in Nat \ {0}
           /\ spent \in Nat /\ counted \in Nat /\ billed \in Nat /\ lost \in Nat
           /\ counted <= spent
BY FetchAssumption DEF ClientTypeOK

LEMMA OwedType == ClientTypeOK => Owed \in Nat
<1>. SUFFICES ASSUME ClientTypeOK PROVE Owed \in Nat
  OBVIOUS
<1>. DEFINE f == OwedFor
<1>1. \A k \in Keys : f[k] \in Nat
  <2>. SUFFICES ASSUME NEW k \in Keys PROVE f[k] \in Nat
    OBVIOUS
  <2>1. orphans[k] \in Nat /\ Cost[k] \in Nat
    BY FetchAssumption DEF ClientTypeOK
  <2>2. f[k] = orphans[k] * Cost[k]
    BY DEF OwedFor
  <2>. QED BY <2>1, <2>2
<1>2. DOMAIN f = Keys
  BY DEF OwedFor
<1>. HIDE DEF f
<1>3. SumFunctionOnSet(f, Keys) \in Nat
  BY <1>1, SumInNat, FetchAssumption
<1>. QED BY <1>2, <1>3, SumOverDomain DEF Owed, f

LEMMA OwedChanges ==
    ASSUME ClientTypeOK, NEW k \in Keys, NEW n \in Nat,
           orphans' = [orphans EXCEPT ![k] = n]
    PROVE  Owed' = Owed - orphans[k] * Cost[k] + n * Cost[k]
<1>. DEFINE f == OwedFor
            g == OwedFor'
<1>1. orphans \in [Keys -> Nat] /\ orphans' \in [Keys -> Nat] /\ orphans'[k] = n
  BY DEF ClientTypeOK
<1>2. \A j \in Keys : f[j] = orphans[j] * Cost[j] /\ g[j] = orphans'[j] * Cost[j]
  BY DEF OwedFor
<1>3. \A j \in Keys : Cost[j] \in Nat
  BY FetchAssumption
<1>4. ASSUME NEW j \in Keys PROVE f[j] \in Nat /\ g[j] \in Nat
  <2>1. orphans[j] \in Nat /\ orphans'[j] \in Nat /\ Cost[j] \in Nat
    BY <1>1, <1>3
  <2>. QED BY <1>2, <2>1
<1>5. \A j \in Keys \ {k} : g[j] = f[j]
  BY <1>1, <1>2 DEF ClientTypeOK
<1>6. DOMAIN f = Keys /\ DOMAIN g = Keys
  BY DEF OwedFor
<1>7. Owed = SumFunction(f) /\ Owed' = SumFunction(g)
  BY DEF Owed
<1>8. f[k] = orphans[k] * Cost[k] /\ g[k] = n * Cost[k]
  BY <1>1, <1>2
<1>. HIDE DEF f, g
<1>9. SumFunctionOnSet(g, Keys) = SumFunctionOnSet(f, Keys) - f[k] + g[k]
  BY <1>4, <1>5, SumUpdates, FetchAssumption
<1>. QED BY <1>6, <1>7, <1>8, <1>9, SumOverDomain

LEMMA OneMoreOrphan ==
    ASSUME ClientTypeOK, NEW k \in Keys, orphans' = [orphans EXCEPT ![k] = @ + 1]
    PROVE  Owed' = Owed + Cost[k] /\ orphans' \in [Keys -> Nat]
<1>. DEFINE n == orphans[k]
            m == n + 1
<1>1. n \in Nat /\ m \in Nat /\ Cost[k] \in Nat
  <2>1. n \in Nat
    BY DEF ClientTypeOK
  <2>. QED BY <2>1, FetchAssumption
<1>2. Owed' = Owed - n * Cost[k] + m * Cost[k]
  <2>1. orphans' = [orphans EXCEPT ![k] = m]
    OBVIOUS
  <2>. HIDE DEF m
  <2>. QED BY <1>1, <2>1, OwedChanges
<1>3. Owed \in Nat
  BY OwedType
<1>4. orphans' \in [Keys -> Nat]
  BY DEF ClientTypeOK
<1>. HIDE DEF n
<1>5. (n + 1) * Cost[k] = n * Cost[k] + Cost[k] /\ n * Cost[k] \in Nat
  BY <1>1
<1>. QED BY <1>1, <1>2, <1>3, <1>4, <1>5

LEMMA OneOrphanLess ==
    ASSUME ClientTypeOK, NEW k \in Keys, orphans[k] > 0,
           orphans' = [orphans EXCEPT ![k] = @ - 1]
    PROVE  Owed' = Owed - Cost[k] /\ orphans' \in [Keys -> Nat]
<1>. DEFINE n == orphans[k]
            m == n - 1
<1>1. n \in Nat \ {0} /\ m \in Nat /\ Cost[k] \in Nat
  <2>1. n \in Nat
    BY DEF ClientTypeOK
  <2>. QED BY <2>1, FetchAssumption
<1>2. Owed' = Owed - n * Cost[k] + m * Cost[k]
  <2>1. orphans' = [orphans EXCEPT ![k] = m]
    OBVIOUS
  <2>. HIDE DEF m
  <2>. QED BY <1>1, <2>1, OwedChanges
<1>3. Owed \in Nat
  BY OwedType
<1>4. orphans' \in [Keys -> Nat]
  BY <1>1 DEF ClientTypeOK
<1>. HIDE DEF n
<1>5. (n - 1) * Cost[k] = n * Cost[k] - Cost[k] /\ n * Cost[k] \in Nat
  BY <1>1, Times
<1>. QED BY <1>1, <1>2, <1>3, <1>4, <1>5

(* What is left of the call's attempts, in each state.                      *)
LEMMA LeftFacts ==
    ASSUME ClientInv
    PROVE  /\ call.state = "post" => /\ Left \in Nat /\ Left >= Cost[call.key]
                                     /\ call.job = "none"
           /\ call.job = "running" => Left = Cost[call.key] /\ call.state = "poll"
           /\ call.state # "post" /\ call.job # "running" => Left = 0
<1>1. CASE call.state = "post"
  <2>. DEFINE n == MaxAttempts + 1 - call.attempt
  <2>1. n \in Nat \ {0}
    BY FetchAssumption DEF ClientInv, ClientTypeOK
  <2>2. Left = n * Cost[call.key]
    BY <1>1 DEF Left
  <2>. HIDE DEF n
  <2>3. Left \in Nat /\ Left >= Cost[call.key]
    BY <2>1, <2>2, Times, CostType DEF ClientInv
  <2>4. call.job = "none"
    BY <1>1 DEF ClientInv
  <2>. QED BY <1>1, <2>3, <2>4
<1>2. CASE call.state # "post"
  BY <1>2 DEF ClientInv, Left
<1>. QED BY <1>1, <1>2

-----------------------------------------------------------------------------
(* The client's steps.                                                      *)

(* The call in progress is dropped, and what it may still bill is owed, or  *)
(* was billed, or is not billed any more.                                   *)
LEMMA EndsFacts ==
    ASSUME ClientInv, NEW state \in Results, Ends(state)
    PROVE  /\ call' = [call EXCEPT !.state = state, !.attempt = 1, !.polls = 0, !.job = "none"]
           /\ orphans' \in [Keys -> Nat]
           /\ Owed' = Owed + (IF call.job = "running" THEN Cost[call.key] ELSE 0)
<1>1. call' = [call EXCEPT !.state = state, !.attempt = 1, !.polls = 0, !.job = "none"]
  BY DEF Ends, Now
<1>2. CASE call.job = "running"
  <2>1. orphans' = [orphans EXCEPT ![call.key] = @ + 1]
    BY <1>2 DEF Ends
  <2>. QED BY <1>1, <1>2, <2>1, OneMoreOrphan, CostType DEF ClientInv
<1>3. CASE call.job # "running"
  <2>1. orphans' = orphans
    BY <1>3 DEF Ends, ClientInv, ClientTypeOK
  <2>2. Owed' = Owed
    BY <2>1 DEF Owed, OwedFor
  <2>3. Owed \in Nat
    BY OwedType DEF ClientInv
  <2>. QED BY <1>1, <1>3, <2>1, <2>2, <2>3 DEF ClientInv, ClientTypeOK
<1>. QED BY <1>2, <1>3

(* A call over: its answer has been counted in full or not at all, and its  *)
(* own bill was added to billed if it came before the payload.              *)
LEMMA OverKeepsClientInv ==
    ASSUME ClientInv, NEW state \in Results,
           call' = [call EXCEPT !.state = state, !.attempt = 1, !.polls = 0, !.job = "none"],
           orphans' \in [Keys -> Nat],
           spent' = spent, lost' = lost, memo' \subseteq Keys,
           counted' \in Nat, counted' <= spent, counted' <= billed', billed' \in Nat,
           billed' + Owed' <= spent + lost,
           billed' + Owed' <= MaxAttempts * spent
    PROVE  ClientInv'
<1>1. /\ call'.state = state /\ call'.job = "none" /\ call'.key = call.key
      /\ call'.attempt = 1 /\ call'.polls = 0
  BY DEF ClientInv, ClientTypeOK
<1>2. ClientTypeOK'
  <2>1. call' \in [state : {"idle", "post", "poll"} \cup Results, key : Keys,
                   attempt : 1..MaxAttempts, polls : 0..(MaxPolls - 1),
                   job : {"none", "running", "completed", "failed"}]
    <3>1. 1 \in 1..MaxAttempts /\ 0 \in 0..(MaxPolls - 1)
      BY FetchAssumption
    <3>. QED BY <3>1 DEF ClientInv, ClientTypeOK
  <2>2. counted' \in 0..spent' /\ spent' \in 0..Ceiling /\ lost' \in Nat
    BY DEF ClientInv, ClientTypeOK
  <2>. QED BY <2>1, <2>2 DEF ClientTypeOK
<1>3. Due' = 0 /\ Left' = 0
  BY <1>1 DEF Due, Left, Results
<1>4. (Owed \in Nat)'
  BY <1>2, OwedType, PTL
<1>. QED BY <1>1, <1>2, <1>3, <1>4 DEF ClientInv, Results

LEMMA FailKeepsClientInv ==
    ASSUME ClientInv, Fail, call.state \in {"post", "poll"}, UNCHANGED <<billed, lost>>
    PROVE  ClientInv'
<1>1. /\ call' = [call EXCEPT !.state = "failed", !.attempt = 1, !.polls = 0, !.job = "none"]
      /\ orphans' \in [Keys -> Nat]
      /\ Owed' = Owed + (IF call.job = "running" THEN Cost[call.key] ELSE 0)
  BY EndsFacts DEF Fail, Results
<1>2. Owed' <= Owed + Due /\ Owed' <= Owed + Left /\ Owed' \in Nat
  <2>1. Owed \in Nat /\ Cost[call.key] \in Nat
    BY OwedType, CostType DEF ClientInv
  <2>2. CASE call.job = "running"
    BY <1>1, <2>1, <2>2, LeftFacts DEF Due
  <2>3. CASE call.job # "running"
    BY <1>1, <2>1, <2>3, LeftFacts DEF Due
  <2>. QED BY <2>2, <2>3
<1>3. /\ Due \in Nat /\ Left \in Nat /\ Owed \in Nat
  BY OwedType, CostType, LeftFacts DEF ClientInv, Due
<1>4. MaxAttempts * spent \in Nat
  BY CostType, FetchAssumption DEF ClientInv
<1>5. billed + Owed' <= spent + lost /\ billed + Owed' <= MaxAttempts * spent
  BY <1>2, <1>3, <1>4, CostType DEF ClientInv
<1>. QED BY <1>1, <1>5, OverKeepsClientInv, CostType DEF ClientInv, Fail, ClientTypeOK, Results

(* The payload of a call that is billed by now.                             *)
LEMMA AnsweredKeepsClientInv ==
    ASSUME ClientInv, Ends("answered"), call.state \in {"post", "poll"},
           call.job # "running",
           memo' = memo \cup {call.key}, counted' = counted + Cost[call.key],
           UNCHANGED <<spent, lost>>,
           \/ call.job = "completed" /\ billed' = billed
           \/ call.state = "post" /\ billed' = billed + Cost[call.key]
    PROVE  ClientInv'
<1>1. /\ call' = [call EXCEPT !.state = "answered", !.attempt = 1, !.polls = 0, !.job = "none"]
      /\ orphans' \in [Keys -> Nat]
      /\ Owed' = Owed
  <2>1. Owed \in Nat
    BY OwedType DEF ClientInv
  <2>. QED BY <2>1, EndsFacts DEF Results
<1>2. /\ Due \in Nat /\ Left \in Nat /\ Owed \in Nat
      /\ Cost[call.key] \in Nat
      /\ call.state = "post" => Due = Cost[call.key] /\ Left >= Cost[call.key]
  BY OwedType, CostType, LeftFacts DEF ClientInv, Due
<1>3. MaxAttempts * spent \in Nat
  BY CostType, FetchAssumption DEF ClientInv
<1>4. /\ counted' \in Nat /\ counted' <= spent /\ counted' <= billed' /\ billed' \in Nat
      /\ billed' + Owed <= spent + lost /\ billed' + Owed <= MaxAttempts * spent
  BY <1>2, <1>3, CostType DEF ClientInv
<1>5. memo' \subseteq Keys
  BY CostType DEF ClientInv, ClientTypeOK
<1>. QED BY <1>1, <1>4, <1>5, OverKeepsClientInv DEF Results

LEMMA InlineKeepsClientInv == ASSUME ClientInv, InlineAnswered PROVE ClientInv'
<1>1. /\ call.state = "post" /\ billed' = billed + Cost[call.key] /\ lost' = lost
      /\ call.job = "none"
  BY DEF InlineAnswered, ClientInv
<1>2. CASE Fail
  <2>1. /\ call' = [call EXCEPT !.state = "failed", !.attempt = 1, !.polls = 0, !.job = "none"]
        /\ orphans' \in [Keys -> Nat] /\ Owed' = Owed
    <3>1. Owed \in Nat
      BY OwedType DEF ClientInv
    <3>. QED BY <1>1, <1>2, <3>1, EndsFacts DEF Fail, Results
  <2>2. /\ Owed \in Nat /\ Cost[call.key] \in Nat /\ Left \in Nat
        /\ Due = Cost[call.key] /\ Left >= Cost[call.key]
    BY <1>1, OwedType, CostType, LeftFacts DEF ClientInv, Due
  <2>3. MaxAttempts * spent \in Nat
    BY CostType, FetchAssumption DEF ClientInv
  <2>4. /\ billed' \in Nat /\ counted <= billed'
        /\ billed' + Owed <= spent + lost /\ billed' + Owed <= MaxAttempts * spent
    BY <1>1, <2>2, <2>3, CostType DEF ClientInv
  <2>. QED BY <1>1, <1>2, <2>1, <2>4, OverKeepsClientInv, CostType
           DEF ClientInv, Fail, ClientTypeOK, Results
<1>3. CASE ~ Fail
  BY <1>1, <1>3, AnsweredKeepsClientInv DEF InlineAnswered, Arrive
<1>. QED BY <1>2, <1>3

(* The call goes on.                                                        *)
LEMMA GoesOnKeepsClientInv ==
    ASSUME ClientInv, call' \in [state : {"post", "poll"}, key : {call.key},
                                 attempt : 1..MaxAttempts, polls : 0..(MaxPolls - 1),
                                 job : {"none", "running", "completed", "failed"}],
           call.state \in {"post", "poll"},
           call'.state = "poll" <=> call'.job # "none",
           orphans' \in [Keys -> Nat], billed' \in Nat, lost' \in Nat, counted <= billed',
           call'.job = "completed" => counted + Cost[call.key] <= billed',
           billed' + Owed' + Due' <= spent + lost',
           billed' + Owed' + Left' <= MaxAttempts * spent,
           UNCHANGED <<spent, counted, memo>>
    PROVE  ClientInv'
<1>1. ClientTypeOK'
  BY DEF ClientInv, ClientTypeOK
<1>2. counted + Cost[call.key] <= spent /\ call'.key = call.key
  BY DEF ClientInv
<1>. QED BY <1>1, <1>2 DEF ClientInv

LEMMA AcceptedKeepsClientInv == ASSUME ClientInv, JobAccepted PROVE ClientInv'
<1>1. /\ call.state = "post" /\ call.key \in Async
      /\ call' = [call EXCEPT !.state = "poll", !.attempt = 1, !.job = "running"]
      /\ UNCHANGED <<spent, counted, memo, orphans, billed, lost>>
  BY DEF JobAccepted
<1>2. 1 \in 1..MaxAttempts
  BY FetchAssumption
<1>3. /\ call' \in [state : {"post", "poll"}, key : {call.key},
                    attempt : 1..MaxAttempts, polls : 0..(MaxPolls - 1),
                    job : {"none", "running", "completed", "failed"}]
      /\ call'.state = "poll" /\ call'.job = "running" /\ call'.key = call.key
  BY <1>1, <1>2 DEF ClientInv, ClientTypeOK
<1>4. Owed' = Owed /\ Owed \in Nat
  BY <1>1, OwedType DEF Owed, OwedFor, ClientInv
<1>5. Due' = Cost[call.key] /\ Left' = Cost[call.key]
  BY <1>3 DEF Due, Left
<1>6. Due = Cost[call.key] /\ Left >= Cost[call.key] /\ Left \in Nat
  BY <1>1, LeftFacts DEF Due
<1>7. MaxAttempts * spent \in Nat
  BY CostType, FetchAssumption DEF ClientInv
<1>8. /\ billed + Owed + Due' <= spent + lost
      /\ billed + Owed + Left' <= MaxAttempts * spent
  BY <1>4, <1>5, <1>6, <1>7, CostType DEF ClientInv
<1>. QED BY <1>1, <1>3, <1>4, <1>8, CostType, GoesOnKeepsClientInv DEF ClientInv, ClientTypeOK

LEMMA WithoutIdKeepsClientInv == ASSUME ClientInv, JobWithoutId PROVE ClientInv'
<1>1. /\ call.state = "post"
      /\ call' = [call EXCEPT !.state = "failed", !.attempt = 1, !.polls = 0, !.job = "none"]
      /\ orphans' = [orphans EXCEPT ![call.key] = @ + 1]
      /\ UNCHANGED <<spent, counted, memo, billed, lost>>
  BY DEF JobWithoutId, Now
<1>2. Owed' = Owed + Cost[call.key] /\ orphans' \in [Keys -> Nat]
  BY <1>1, OneMoreOrphan, CostType DEF ClientInv
<1>3. /\ Owed \in Nat /\ Cost[call.key] \in Nat /\ Left \in Nat
      /\ Due = Cost[call.key] /\ Left >= Cost[call.key]
  BY <1>1, OwedType, CostType, LeftFacts DEF ClientInv, Due
<1>4. MaxAttempts * spent \in Nat
  BY CostType, FetchAssumption DEF ClientInv
<1>5. billed + Owed' <= spent + lost /\ billed + Owed' <= MaxAttempts * spent
  BY <1>2, <1>3, <1>4, CostType DEF ClientInv
<1>. QED BY <1>1, <1>2, <1>5, OverKeepsClientInv, CostType DEF ClientInv, ClientTypeOK, Results

(* One attempt less is left.                                                *)
LEMMA RepeatFacts ==
    ASSUME ClientInv, Repeat, call.state \in {"post", "poll"}
    PROVE  /\ call' \in [state : {"post", "poll"}, key : {call.key},
                         attempt : 1..MaxAttempts, polls : 0..(MaxPolls - 1),
                         job : {"none", "running", "completed", "failed"}]
           /\ call'.state = call.state /\ call'.job = call.job
           /\ Due' = Due
           /\ call.state = "post" => Left' = Left - Cost[call.key]
           /\ call.state = "poll" => Left' = Left
<1>1. /\ call.attempt < MaxAttempts /\ call' = [call EXCEPT !.attempt = @ + 1]
      /\ call.attempt \in 1..MaxAttempts
  BY DEF Repeat, ClientInv, ClientTypeOK
<1>2. call.attempt + 1 \in 1..MaxAttempts
  BY <1>1, FetchAssumption
<1>3. /\ call' \in [state : {"post", "poll"}, key : {call.key},
                    attempt : 1..MaxAttempts, polls : 0..(MaxPolls - 1),
                    job : {"none", "running", "completed", "failed"}]
      /\ call'.state = call.state /\ call'.job = call.job /\ call'.key = call.key
      /\ call'.attempt = call.attempt + 1
  BY <1>1, <1>2 DEF ClientInv, ClientTypeOK
<1>4. Due' = Due
  BY <1>3 DEF Due
<1>5. ASSUME call.state = "post" PROVE Left' = Left - Cost[call.key]
  <2>. DEFINE n == MaxAttempts + 1 - call.attempt
              c == Cost[call.key]
  <2>1. n \in Nat \ {0} /\ MaxAttempts + 1 - call'.attempt = n - 1
    BY <1>1, <1>3, FetchAssumption
  <2>2. c \in Nat
    BY CostType DEF ClientInv
  <2>3. Left = n * c /\ Left' = (n - 1) * c
    BY <1>3, <1>5, <2>1 DEF Left
  <2>. HIDE DEF n, c
  <2>4. Left' = Left - c
    BY <2>1, <2>2, <2>3, Times
  <2>. QED BY <2>4 DEF c
<1>6. call.state = "poll" => Left' = Left
  BY <1>3 DEF Left
<1>. QED BY <1>3, <1>4, <1>5, <1>6

LEMMA LostKeepsClientInv == ASSUME ClientInv, PostLost PROVE ClientInv'
<1>. DEFINE c == Cost[call.key]
<1>1. /\ call.state = "post" /\ lost' = lost + c
      /\ UNCHANGED <<spent, counted, memo>>
  BY DEF PostLost
<1>2. /\ Owed \in Nat /\ c \in Nat /\ Left \in Nat /\ Due = c /\ Left >= c
      /\ call.job = "none"
  BY <1>1, OwedType, CostType, LeftFacts DEF ClientInv, Due
<1>3. orphans' \in [Keys -> Nat] /\ billed' \in Nat /\ billed <= billed'
      /\ billed' + Owed' = billed + Owed + c /\ Owed' \in Nat
  <2>1. CASE orphans' = [orphans EXCEPT ![call.key] = @ + 1] /\ billed' = billed
    <3>1. Owed' = Owed + c /\ orphans' \in [Keys -> Nat]
      BY <2>1, OneMoreOrphan, CostType DEF ClientInv
    <3>. QED BY <1>2, <2>1, <3>1, CostType DEF ClientInv
  <2>2. CASE billed' = billed + c /\ orphans' = orphans
    <3>1. Owed' = Owed
      BY <2>2 DEF Owed, OwedFor
    <3>. QED BY <1>2, <2>2, <3>1, CostType DEF ClientInv, ClientTypeOK
  <2>. QED BY <2>1, <2>2 DEF PostLost
<1>4. MaxAttempts * spent \in Nat /\ spent \in Nat /\ lost \in Nat /\ billed \in Nat /\ counted \in Nat
  BY CostType, FetchAssumption DEF ClientInv
<1>5. CASE Repeat
  <2>1. /\ call' \in [state : {"post", "poll"}, key : {call.key},
                      attempt : 1..MaxAttempts, polls : 0..(MaxPolls - 1),
                      job : {"none", "running", "completed", "failed"}]
        /\ call'.state = "post" /\ call'.job = "none" /\ Due' = c /\ Left' = Left - c
    BY <1>1, <1>2, <1>5, RepeatFacts
  <2>. HIDE DEF c
  <2>2. billed' + Owed' + Due' <= spent + lost'
    <3>1. billed + Owed + c <= spent + lost
      BY <1>2 DEF ClientInv
    <3>2. lost' = lost + c /\ Due' = c
      BY <1>1, <2>1
    <3>3. billed' + Owed' = billed + Owed + c
      BY <1>3
    <3>4. /\ billed \in Nat /\ Owed \in Nat /\ c \in Nat /\ spent \in Nat /\ lost \in Nat
          /\ billed' \in Nat /\ Owed' \in Nat
      BY <1>2, <1>3, <1>4
    <3>5. billed' + Owed' + Due' = billed + Owed + c + c
      BY <3>2, <3>3
    <3>6. spent + lost' = spent + lost + c
      BY <3>2, <3>4
    <3>7. billed + Owed + c + c <= spent + lost + c
      BY <3>1, <3>4
    <3>. QED BY <3>5, <3>6, <3>7
  <2>3. billed' + Owed' + Left' <= MaxAttempts * spent
    <3>. DEFINE m == MaxAttempts * spent
    <3>1. billed + Owed + Left <= m
      BY DEF ClientInv
    <3>2. m \in Nat
      BY <1>4
    <3>. HIDE DEF m
    <3>3. billed' + Owed' + Left' = billed + Owed + Left
      <4>1. /\ billed \in Nat /\ Owed \in Nat /\ Left \in Nat /\ c \in Nat
            /\ billed' \in Nat /\ Owed' \in Nat
        BY <1>2, <1>3, <1>4
      <4>2. billed' + Owed' = billed + Owed + c
        BY <1>3
      <4>3. Left' = Left - c
        BY <2>1
      <4>4. billed' + Owed' + (Left - c) = billed + Owed + c + (Left - c)
        BY <4>2
      <4>5. billed + Owed + c + (Left - c) = billed + Owed + Left
        BY <4>1
      <4>. QED BY <4>3, <4>4, <4>5
    <3>. QED BY <3>1, <3>3 DEF m
  <2>4. counted <= billed' /\ lost' \in Nat
    BY <1>1, <1>2, <1>3, <1>4 DEF ClientInv
  <2>. QED BY <1>1, <1>3, <2>1, <2>2, <2>3, <2>4, GoesOnKeepsClientInv
<1>6. CASE Now("failed")
  <2>1. call' = [call EXCEPT !.state = "failed", !.attempt = 1, !.polls = 0, !.job = "none"]
    BY <1>6 DEF Now
  <2>. HIDE DEF c
  <2>2. billed' + Owed' <= spent + lost' /\ billed' + Owed' <= MaxAttempts * spent
    BY <1>1, <1>2, <1>3, <1>4 DEF ClientInv
  <2>3. /\ call'.state = "failed" /\ call'.job = "none"
    BY <2>1 DEF ClientInv, ClientTypeOK
  <2>4. ClientTypeOK'
    <3>1. 1 \in 1..MaxAttempts /\ 0 \in 0..(MaxPolls - 1)
      BY FetchAssumption
    <3>2. lost' \in Nat
      BY <1>1, <1>2, <1>4
    <3>. QED BY <1>1, <1>3, <2>1, <3>1, <3>2 DEF ClientInv, ClientTypeOK, Results
  <2>5. Due' = 0 /\ Left' = 0
    BY <2>3 DEF Due, Left
  <2>6. counted <= billed'
    BY <1>3, <1>4 DEF ClientInv
  <2>. QED BY <1>1, <1>3, <2>2, <2>3, <2>4, <2>5, <2>6 DEF ClientInv
<1>. QED BY <1>5, <1>6 DEF PostLost

LEMMA TryAgainKeepsClientInv ==
    ASSUME ClientInv, TryAgain, call.state \in {"post", "poll"}, UNCHANGED <<billed, lost>>
    PROVE  ClientInv'
<1>1. CASE Fail
  BY <1>1, FailKeepsClientInv
<1>2. CASE Repeat /\ UNCHANGED <<spent, counted, memo, orphans>>
  <2>1. /\ call' \in [state : {"post", "poll"}, key : {call.key},
                      attempt : 1..MaxAttempts, polls : 0..(MaxPolls - 1),
                      job : {"none", "running", "completed", "failed"}]
        /\ call'.state = call.state /\ call'.job = call.job /\ Due' = Due
        /\ Left' = Left \/ Left' = Left - Cost[call.key]
    BY <1>2, RepeatFacts
  <2>2. Owed' = Owed /\ Owed \in Nat
    BY <1>2, OwedType DEF Owed, OwedFor, ClientInv
  <2>3. Left \in Nat /\ MaxAttempts * spent \in Nat
    BY LeftFacts, CostType, FetchAssumption DEF ClientInv
  <2>4. billed + Owed + Left' <= MaxAttempts * spent
    BY <2>1, <2>2, <2>3, CostType DEF ClientInv
  <2>. QED BY <1>2, <2>1, <2>2, <2>4, GoesOnKeepsClientInv DEF ClientInv, ClientTypeOK
<1>. QED BY <1>1, <1>2 DEF TryAgain

LEMMA PollKeepsClientInv == ASSUME ClientInv, Poll PROVE ClientInv'
<1>1. call.state = "poll" /\ UNCHANGED <<billed, lost>>
  BY DEF Poll
<1>2. CASE Fail
  BY <1>1, <1>2, FailKeepsClientInv
<1>3. CASE call.job = "completed" /\ Arrive /\ ~ Fail
  BY <1>1, <1>3, AnsweredKeepsClientInv DEF Arrive
<1>4. CASE /\ call.polls < MaxPolls - 1
           /\ call' = [call EXCEPT !.polls = @ + 1, !.attempt = 1]
           /\ UNCHANGED <<spent, counted, memo, orphans>>
  <2>1. 1 \in 1..MaxAttempts /\ call.polls + 1 \in 0..(MaxPolls - 1)
    BY <1>4, FetchAssumption DEF ClientInv, ClientTypeOK
  <2>2. /\ call' \in [state : {"post", "poll"}, key : {call.key},
                      attempt : 1..MaxAttempts, polls : 0..(MaxPolls - 1),
                      job : {"none", "running", "completed", "failed"}]
        /\ call'.state = "poll" /\ call'.job = call.job /\ call'.key = call.key
    BY <1>1, <1>4, <2>1 DEF ClientInv, ClientTypeOK
  <2>3. Due' = Due /\ Left' = Left
    BY <1>1, <2>2 DEF Due, Left
  <2>4. Owed' = Owed
    BY <1>4 DEF Owed, OwedFor
  <2>. QED BY <1>1, <1>4, <2>2, <2>3, <2>4, GoesOnKeepsClientInv DEF ClientInv, ClientTypeOK
<1>. QED BY <1>2, <1>3, <1>4 DEF Poll, PollAgain

LEMMA JobEndsKeepsClientInv == ASSUME ClientInv, JobEnds PROVE ClientInv'
<1>1. /\ call.job = "running" /\ call.state = "poll"
      /\ UNCHANGED <<spent, counted, memo, orphans, lost>>
  BY DEF JobEnds, ClientInv
<1>2. Due = Cost[call.key] /\ Left = Cost[call.key]
  BY <1>1 DEF Due, Left
<1>3. Owed' = Owed /\ Owed \in Nat
  BY <1>1, OwedType DEF Owed, OwedFor, ClientInv
<1>4. MaxAttempts * spent \in Nat
  BY CostType, FetchAssumption DEF ClientInv
<1>5. PICK end \in {"completed", "failed"} :
         /\ call' = [call EXCEPT !.job = end]
         /\ billed' = billed + (IF end = "completed" THEN Cost[call.key] ELSE 0)
  BY CostType DEF JobEnds, ClientInv
<1>6. /\ call' \in [state : {"post", "poll"}, key : {call.key},
                    attempt : 1..MaxAttempts, polls : 0..(MaxPolls - 1),
                    job : {"none", "running", "completed", "failed"}]
      /\ call'.state = "poll" /\ call'.job = end
  BY <1>1, <1>5 DEF ClientInv, ClientTypeOK
<1>7. Due' = 0 /\ Left' = 0
  BY <1>6 DEF Due, Left
<1>8. /\ billed' \in Nat /\ counted <= billed'
      /\ end = "completed" => counted + Cost[call.key] <= billed'
      /\ billed' + Owed <= spent + lost /\ billed' + Owed <= MaxAttempts * spent
  BY <1>2, <1>3, <1>4, <1>5, CostType DEF ClientInv
<1>9. billed' + Owed' + Due' <= spent + lost' /\ billed' + Owed' + Left' <= MaxAttempts * spent
  BY <1>1, <1>3, <1>7, <1>8
<1>. QED BY <1>1, <1>6, <1>8, <1>9, GoesOnKeepsClientInv DEF ClientInv, ClientTypeOK

LEMMA OrphanEndsKeepsClientInv ==
    ASSUME ClientInv, NEW k \in Keys, OrphanEnds(k) PROVE ClientInv'
<1>1. /\ orphans[k] > 0 /\ orphans' = [orphans EXCEPT ![k] = @ - 1]
      /\ billed' = billed \/ billed' = billed + Cost[k]
      /\ UNCHANGED <<call, spent, counted, memo, lost>>
  BY DEF OrphanEnds
<1>2. Owed' = Owed - Cost[k] /\ orphans' \in [Keys -> Nat]
  BY <1>1, OneOrphanLess DEF ClientInv
<1>3. Owed \in Nat /\ Cost[k] \in Nat /\ Due \in Nat /\ Left \in Nat
  BY OwedType, CostType, LeftFacts, FetchAssumption DEF ClientInv, Due
<1>4. Due' = Due /\ Left' = Left
  BY <1>1 DEF Due, Left
<1>5. MaxAttempts * spent \in Nat
  BY CostType, FetchAssumption DEF ClientInv
<1>6. /\ billed' \in Nat /\ billed <= billed'
      /\ billed' + Owed' + Due' <= spent + lost
      /\ billed' + Owed' + Left' <= MaxAttempts * spent
  BY <1>1, <1>2, <1>3, <1>4, <1>5, CostType DEF ClientInv
<1>7. ClientTypeOK'
  BY <1>1, <1>2, <1>6 DEF ClientInv, ClientTypeOK
<1>8. counted <= billed' /\ (call.job = "completed" => counted + Cost[call.key] <= billed')
  BY <1>3, <1>6, CostType DEF ClientInv
<1>. QED BY <1>1, <1>6, <1>7, <1>8 DEF ClientInv

LEMMA ClientKeepsClientInv ==
    ASSUME ClientInv, ClientStep \/ Upstream PROVE ClientInv'
<1>1. CASE PostFails \/ PollFails
  <2>1. call.state \in {"post", "poll"} /\ UNCHANGED <<billed, lost>> /\ (TryAgain \/ Fail)
    BY <1>1 DEF PostFails, PollFails
  <2>. QED BY <2>1, TryAgainKeepsClientInv, FailKeepsClientInv
<1>. QED BY <1>1, InlineKeepsClientInv, AcceptedKeepsClientInv, WithoutIdKeepsClientInv,
            LostKeepsClientInv, PollKeepsClientInv, JobEndsKeepsClientInv,
            OrphanEndsKeepsClientInv DEF ClientStep, Upstream

-----------------------------------------------------------------------------
(* The walk's use of the client.                                            *)

LEMMA StartKeepsClientInv ==
    ASSUME ClientInv, NEW k \in Keys, Start(k) PROVE ClientInv'
<1>1. /\ call.state = "idle" /\ UNCHANGED <<counted, memo, orphans, billed, lost>>
      /\ call.job = "none"
  BY DEF Start, ClientInv
<1>2. PICK state \in {"post"} \cup Results :
         /\ call' = [call EXCEPT !.state = state, !.key = k]
         /\ \/ state = "post" /\ Affordable(k) /\ spent' = spent + Cost[k]
            \/ state # "post" /\ spent' = spent
  BY DEF Start, Results
<1>3. /\ call' \in [state : {"idle", "post", "poll"} \cup Results, key : Keys,
                    attempt : 1..MaxAttempts, polls : 0..(MaxPolls - 1),
                    job : {"none", "running", "completed", "failed"}]
      /\ call'.state = state /\ call'.key = k /\ call'.job = "none"
      /\ call'.attempt = call.attempt
  BY <1>1, <1>2 DEF ClientInv, ClientTypeOK
<1>4. ClientTypeOK'
  <2>1. spent' \in 0..Ceiling /\ counted' \in 0..spent'
    BY <1>1, <1>2, FetchAssumption DEF ClientInv, ClientTypeOK, Affordable
  <2>. QED BY <1>1, <1>3, <2>1 DEF ClientInv, ClientTypeOK
<1>5. Owed' = Owed /\ Owed \in Nat
  BY <1>1, OwedType DEF Owed, OwedFor, ClientInv
<1>6. Due = 0 /\ Left = 0
  BY <1>1 DEF Due, Left
<1>7. Cost[k] \in Nat /\ MaxAttempts \in Nat /\ spent \in Nat
  BY FetchAssumption, CostType DEF ClientInv
<1>8. CASE state = "post"
  <2>. DEFINE n == MaxAttempts + 1 - call.attempt
              c == Cost[k]
  <2>1. spent' = spent + c
    BY <1>2, <1>8 DEF Results
  <2>2. Due' = c /\ Left' = n * c
    BY <1>3, <1>8 DEF Due, Left
  <2>3. n \in Nat /\ MaxAttempts - n \in Nat
    BY FetchAssumption DEF ClientInv, ClientTypeOK
  <2>. HIDE DEF n, c
  <2>4. n * c <= MaxAttempts * c
    <3>1. n * c \in Nat /\ (MaxAttempts - n) * c \in Nat
      BY <1>7, <2>3 DEF c
    <3>2. (MaxAttempts - n) * c = MaxAttempts * c - n * c
      BY <1>7, <2>3 DEF c
    <3>3. MaxAttempts * c \in Nat
      BY <1>7 DEF c
    <3>. QED BY <3>1, <3>2, <3>3
  <2>5. /\ MaxAttempts * spent' = MaxAttempts * spent + MaxAttempts * c
        /\ MaxAttempts * spent \in Nat /\ MaxAttempts * c \in Nat
    BY <1>7, <2>1, Distribute DEF c
  <2>6. /\ n * c \in Nat /\ c \in Nat
    BY <1>7, <2>3 DEF c
  <2>7. billed + Owed + Due' <= spent' + lost
    <3>1. billed + Owed <= spent + lost
      BY <1>5, <1>6, CostType DEF ClientInv
    <3>. QED BY <1>5, <1>7, <2>1, <2>2, <2>6, <3>1, CostType DEF ClientInv
  <2>8. billed + Owed + Left' <= MaxAttempts * spent'
    <3>1. billed + Owed <= MaxAttempts * spent
      BY <1>5, <1>6, CostType DEF ClientInv
    <3>. QED BY <1>5, <2>2, <2>4, <2>5, <2>6, <3>1, CostType DEF ClientInv
  <2>9. counted + Cost[k] <= spent'
    BY <1>7, <2>1, CostType DEF ClientInv, c
  <2>. QED BY <1>1, <1>3, <1>4, <1>5, <1>8, <2>7, <2>8, <2>9 DEF ClientInv
<1>9. CASE state # "post"
  <2>1. Due' = 0 /\ Left' = 0
    BY <1>3, <1>9 DEF Due, Left
  <2>. QED BY <1>1, <1>2, <1>3, <1>4, <1>5, <1>6, <1>9, <2>1 DEF ClientInv, Results
<1>. QED BY <1>8, <1>9

LEMMA TakenKeepsClientInv ==
    ASSUME ClientInv, NEW result \in Results, Take(result) PROVE ClientInv'
<1>1. /\ call.state = result /\ UNCHANGED <<spent, counted, memo, orphans, billed, lost>>
      /\ call' = [call EXCEPT !.state = "idle", !.attempt = 1, !.polls = 0, !.job = "none"]
  BY DEF Take, Now
<1>2. Due = 0 /\ Left = 0
  BY <1>1 DEF ClientInv, Due, Left, Results
<1>3. call'.state = "idle" /\ call'.job = "none"
  BY <1>1 DEF ClientInv, ClientTypeOK
<1>4. ClientTypeOK'
  <2>1. 1 \in 1..MaxAttempts /\ 0 \in 0..(MaxPolls - 1)
    BY FetchAssumption
  <2>. QED BY <1>1, <2>1 DEF ClientInv, ClientTypeOK
<1>5. Due' = 0 /\ Left' = 0 /\ Owed' = Owed
  BY <1>1, <1>3 DEF Due, Left, Owed, OwedFor
<1>. QED BY <1>1, <1>2, <1>3, <1>4, <1>5 DEF ClientInv

LEMMA InitClientInv == ClientInit => ClientInv
<1>. SUFFICES ASSUME ClientInit PROVE ClientInv
  OBVIOUS
<1>1. ClientTypeOK
  <2>1. 1 \in 1..MaxAttempts /\ 0 \in 0..(MaxPolls - 1) /\ 0 \in 0..Ceiling
    BY FetchAssumption
  <2>2. (CHOOSE k \in Keys : TRUE) \in Keys
    BY AdaptersAssumption
  <2>. QED BY <2>1, <2>2 DEF ClientInit, ClientTypeOK
<1>2. Owed = 0
  <2>. DEFINE f == OwedFor
  <2>1. \A k \in Keys : f[k] = 0
    BY FetchAssumption DEF ClientInit, OwedFor
  <2>2. DOMAIN f = Keys
    BY DEF OwedFor
  <2>. HIDE DEF f
  <2>3. SumFunctionOnSet(f, Keys) = 0
    BY <2>1, SumOfZeros, FetchAssumption
  <2>. QED BY <2>2, <2>3, SumOverDomain DEF Owed, f
<1>3. Due = 0 /\ Left = 0
  BY DEF ClientInit, Due, Left
<1>. QED BY <1>1, <1>2, <1>3, FetchAssumption DEF ClientInv, ClientInit

-----------------------------------------------------------------------------
(* The walk's list of calls.                                                *)

LEMMA TailFacts ==
    ASSUME NEW S, NEW s \in Seq(S), s # <<>>
    PROVE  /\ Head(s) \in S /\ Tail(s) \in Seq(S)
           /\ 1 \in DOMAIN s /\ s[1] = Head(s)
           /\ \A i \in DOMAIN Tail(s) : i + 1 \in DOMAIN s /\ Tail(s)[i] = s[i + 1]
           /\ \A i \in DOMAIN s : s[i] = Head(s) \/ \E j \in DOMAIN Tail(s) : Tail(s)[j] = s[i]
<1>1. Len(s) \in Nat \ {0} /\ DOMAIN s = 1..Len(s)
  OBVIOUS
<1>2. Tail(s) \in Seq(S) /\ Len(Tail(s)) = Len(s) - 1 /\ Head(s) = s[1] /\ Head(s) \in S
  BY <1>1
<1>3. DOMAIN Tail(s) = 1..(Len(s) - 1)
  BY <1>1, <1>2
<1>4. \A i \in 1..(Len(s) - 1) : Tail(s)[i] = s[i + 1]
  BY <1>1
<1>5. ASSUME NEW i \in DOMAIN s, i # 1
      PROVE  i - 1 \in DOMAIN Tail(s) /\ Tail(s)[i - 1] = s[i]
  <2>1. i - 1 \in 1..(Len(s) - 1)
    BY <1>1, <1>5
  <2>. QED BY <1>1, <1>3, <1>4, <2>1
<1>6. \A i \in DOMAIN Tail(s) : i + 1 \in DOMAIN s /\ Tail(s)[i] = s[i + 1]
  BY <1>1, <1>3, <1>4
<1>7. 1 \in DOMAIN s /\ s[1] = Head(s)
  BY <1>1, <1>2
<1>8. ASSUME NEW i \in DOMAIN s
      PROVE  s[i] = Head(s) \/ \E j \in DOMAIN Tail(s) : Tail(s)[j] = s[i]
  <2>1. CASE i = 1
    BY <1>7, <2>1
  <2>2. CASE i # 1
    BY <1>5, <2>2
  <2>. QED BY <2>1, <2>2
<1>. QED BY <1>2, <1>6, <1>7, <1>8

(* What the walk has taken is off its list and on one of the others.        *)
LEMMA DealtWithStays ==
    ASSUME todo \in Seq(Keys), todo # <<>>, todo' = Tail(todo), call.key = Head(todo),
           asked \subseteq asked', missed \subseteq missed',
           call.key \in asked' \cup missed', NEW k, DealtWith(k)
    PROVE  DealtWith(k)'
<1>1. CASE InTodo(k)
  <2>1. PICK i \in DOMAIN todo : todo[i] = k
    BY <1>1 DEF InTodo
  <2>2. k = call.key \/ \E j \in DOMAIN Tail(todo) : Tail(todo)[j] = k
    BY <2>1, TailFacts
  <2>. QED BY <2>2 DEF DealtWith, InTodo
<1>2. CASE ~ InTodo(k)
  BY <1>2 DEF DealtWith
<1>. QED BY <1>1, <1>2

WalkTypeOK ==
    /\ source \in Sources
    /\ handle \in BOOLEAN
    /\ todo \in Seq(Keys)
    /\ scraped \subseteq found /\ found \subseteq Drafts
    /\ tried \in Seq(Drafts) /\ Len(tried) <= PageLimit
    /\ problems \in BOOLEAN /\ stop \in BOOLEAN
    /\ batch \in [done : BOOLEAN, mentions : SUBSET [post : Posts, scraped : BOOLEAN],
                  truncated : BOOLEAN, errors : BOOLEAN]
    /\ asked \subseteq Keys /\ missed \subseteq Keys
    /\ given \subseteq Posts

LEMMA TypeIsTwo == TypeOK <=> ClientTypeOK /\ WalkTypeOK
BY DEF TypeOK, WalkTypeOK

LEMMA TakeFacts ==
    ASSUME AInv, NEW result \in Results, Take(result)
    PROVE  /\ todo \in Seq(Keys) /\ todo # <<>> /\ call.key = Head(todo) /\ call.key \in Keys
           /\ ~ batch.done /\ call'.state = "idle"
           /\ UNCHANGED <<source, handle, batch>>
           /\ ClientInv' /\ ClientTypeOK'
<1>1. call.state # "idle"
  BY DEF Take, Results
<1>2. todo # <<>> /\ call.key = Head(todo) /\ ~ batch.done
  BY <1>1 DEF AInv, WalkInv, WaitsForNext
<1>3. todo \in Seq(Keys) /\ call.key \in Keys
  BY DEF AInv, WalkInv, TypeOK, ClientTypeOK
<1>4. ClientInv'
  BY TakenKeepsClientInv DEF AInv
<1>5. call'.state = "idle"
  BY DEF Take, Now, AInv, ClientInv, ClientTypeOK
<1>. QED BY <1>2, <1>3, <1>4, <1>5 DEF Take, ClientInv

LEMMA SearchKeysAre == source = "web" => SearchKeys = {Searches["web"][i] : i \in DOMAIN Searches["web"]}
BY DEF SearchKeys

(* A page is asked for by a draft, and no search is.                        *)
LEMMA PagesAreNoSearches ==
    ASSUME AInv, source = "web"
    PROVE  /\ \A d \in found : Page[d.post] \notin SearchKeys
           /\ tried # <<>> => /\ Len(tried) \in DOMAIN tried
                              /\ PageNow \notin SearchKeys
                              /\ todo # <<>> => Head(todo) = PageNow /\ Tail(todo) = <<>>
                                               /\ 1 \in DOMAIN todo /\ todo[1] = PageNow
<1>1. ASSUME NEW d \in found PROVE Page[d.post] \notin SearchKeys
  <2>1. d.post \in Posts
    BY DEF AInv, WalkInv, TypeOK, Drafts
  <2>. QED BY <2>1, SearchKeysAre, AdaptersAssumption
<1>2. ASSUME tried # <<>>
      PROVE  Len(tried) \in DOMAIN tried /\ PageNow \notin SearchKeys
  <2>1. Len(tried) \in DOMAIN tried
    BY <1>2 DEF AInv, WalkInv, TypeOK
  <2>2. tried[Len(tried)] \in found
    BY <2>1 DEF AInv, WalkInv, PagesAreRead
  <2>. QED BY <1>1, <2>1, <2>2 DEF PageNow
<1>3. ASSUME tried # <<>>, todo # <<>>
      PROVE  /\ Head(todo) = PageNow /\ Tail(todo) = <<>>
             /\ 1 \in DOMAIN todo /\ todo[1] = PageNow
  <2>1. todo = <<PageNow>>
    BY <1>3 DEF AInv, WalkInv, SearchesComeFirst
  <2>. HIDE DEF PageNow
  <2>. QED BY <2>1
<1>. QED BY <1>1, <1>2, <1>3

(* A mention is a draft that was kept, with the text it has by then.        *)
LEMMA MentionsAre ==
    ASSUME NEW m \in Mentions
    PROVE  \E d \in Kept : m = [post |-> d.post, scraped |-> d \in scraped] /\ m.post = d.post
                            /\ (m.scraped <=> d \in scraped)
<1>1. PICK d \in Kept : m = [post |-> d.post, scraped |-> d \in scraped]
  BY Zenon DEF Mentions
<1>2. m.post = d.post
  BY <1>1
<1>3. m.scraped = (d \in scraped)
  BY <1>1, Zenon
<1>. QED BY <1>1, <1>2, <1>3, Zenon

(* The walk stays where it is.                                              *)
LEMMA WalkStays ==
    ASSUME WalkInv, ClientTypeOK', UNCHANGED <<walkVars, historyVars>>,
           call'.state # "idle" => todo # <<>> /\ call'.key = Head(todo) /\ ~ batch.done
    PROVE  WalkInv'
<1>1. UNCHANGED <<source, handle, todo, found, scraped, tried, problems, stop, batch,
                  asked, given, missed>>
  BY DEF walkVars, historyVars
<1>2. TypeOK'
  BY <1>1 DEF WalkInv, TypeOK
<1>3. SearchKeys' = SearchKeys /\ \A p : InWindow(p)' = InWindow(p)
  BY <1>1 DEF SearchKeys, InWindow
<1>4. Mentions' = Mentions /\ MorePages' = MorePages
  BY <1>1 DEF Mentions, Kept, Text, MorePages, ToScrape
<1>5. \A k : DealtWith(k)' = DealtWith(k)
  BY <1>1 DEF DealtWith, InTodo
<1>6. WaitsForNext'
  BY <1>1 DEF WaitsForNext
<1>7. SearchesComeFirst'
  BY <1>1, <1>3 DEF WalkInv, SearchesComeFirst, PageNow
<1>8. PagesAreRead' /\ PostsAreDrafted'
  BY <1>1, <1>3 DEF WalkInv, PagesAreRead, PostsAreDrafted
<1>9. NothingIsForgotten'
  BY <1>1, <1>3, <1>5 DEF WalkInv, NothingIsForgotten
<1>10. BatchIsFinal'
  BY <1>1, <1>4 DEF WalkInv, BatchIsFinal
<1>. QED BY <1>2, <1>6, <1>7, <1>8, <1>9, <1>10 DEF WalkInv

(* The client's own steps end no call and start none.                       *)
LEMMA ClientKeepsWalkInv ==
    ASSUME AInv, ClientInv', ClientStep \/ Upstream, UNCHANGED <<walkVars, historyVars>>
    PROVE  WalkInv'
<1>1. /\ call'.key = call.key
      /\ call.state = "idle" => call'.state = "idle"
  <2>1. CASE Upstream
    BY <2>1 DEF Upstream, JobEnds, OrphanEnds, AInv, ClientInv, ClientTypeOK
  <2>2. CASE ClientStep
    <3>1. call.state # "idle"
      BY <2>2 DEF ClientStep, InlineAnswered, JobAccepted, JobWithoutId, PostLost, PostFails,
                  Poll, PollFails
    <3>2. call'.key = call.key
      BY <2>2 DEF ClientStep, InlineAnswered, JobAccepted, JobWithoutId, PostLost, PostFails,
                  Poll, PollFails, PollAgain, TryAgain, Repeat, Fail, Arrive, Ends, Now,
                  AInv, ClientInv, ClientTypeOK
    <3>. QED BY <3>1, <3>2
  <2>. QED BY <2>1, <2>2
<1>2. WalkInv /\ ClientTypeOK'
  BY DEF AInv, ClientInv
<1>. QED BY <1>1, <1>2, WalkStays DEF WalkInv, WaitsForNext

LEMMA AskKeepsAInv == ASSUME AInv, Ask PROVE AInv'
<1>1. todo \in Seq(Keys) /\ todo # <<>>
  BY DEF AInv, WalkInv, TypeOK, Ask
<1>2. Head(todo) \in Keys
  BY <1>1, TailFacts
<1>3. ClientInv'
  BY <1>2, StartKeepsClientInv DEF AInv, Ask
<1>4. call'.key = Head(todo)
  BY <1>2 DEF Ask, Start, AInv, ClientInv, ClientTypeOK
<1>5. WalkInv'
  BY <1>1, <1>3, <1>4, WalkStays DEF Ask, AInv, ClientInv
<1>. QED BY <1>3, <1>5 DEF AInv

(* The call in progress is over, and the calls that are left, or none.      *)
LEMMA PageEnds ==
    ASSUME AInv, call.key = Head(todo), todo # <<>>, todo' = Tail(todo) \/ todo' = <<>>,
           missed \subseteq missed', call.key \in missed',
           SearchKeys' = SearchKeys, UNCHANGED <<source, found, scraped, tried, asked>>
    PROVE  SearchesComeFirst' /\ PagesAreRead'
<1>. SUFFICES ASSUME source = "web" PROVE SearchesComeFirst' /\ PagesAreRead'
  BY DEF SearchesComeFirst, PagesAreRead
<1>1. todo \in Seq(Keys) /\ DOMAIN tried = 1..Len(tried) /\ (tried = <<>> => Len(tried) = 0)
  BY DEF AInv, WalkInv, TypeOK
<1>2. \A i \in DOMAIN Tail(todo) : i + 1 \in DOMAIN todo /\ Tail(todo)[i] = todo[i + 1]
  BY <1>1, TailFacts
<1>3. CASE tried = <<>>
  <2>1. \A i \in DOMAIN todo' : todo'[i] \in SearchKeys
    BY <1>2, <1>3 DEF AInv, WalkInv, SearchesComeFirst
  <2>2. DOMAIN tried = {}
    BY <1>3
  <2>. QED BY <1>3, <2>1, <2>2 DEF SearchesComeFirst, AInv, WalkInv, PagesAreRead
<1>4. CASE tried # <<>>
  <2>1. call.key = PageNow /\ Tail(todo) = <<>>
    BY <1>4, PagesAreNoSearches
  <2>2. SearchesComeFirst'
    BY <1>4, <2>1 DEF SearchesComeFirst
  <2>3. \A i \in DOMAIN tried : tried[i] \in scraped \/ Page[tried[i].post] \in missed'
    BY <2>1 DEF AInv, WalkInv, PagesAreRead, PageNow
  <2>. QED BY <2>2, <2>3 DEF AInv, WalkInv, PagesAreRead
<1>. QED BY <1>3, <1>4

(* One call is dealt with and nothing is found.                             *)
LEMMA NothingFoundKeepsWalkInv ==
    ASSUME AInv, NEW result \in Results, Take(result), todo' = Tail(todo),
           UNCHANGED <<found, scraped, tried, given>>,
           problems' \in BOOLEAN, stop' = stop, problems => problems',
           asked' = asked /\ missed' = missed \cup {call.key} /\ problems'
    PROVE  WalkInv'
<1>1. /\ todo \in Seq(Keys) /\ todo # <<>> /\ call.key = Head(todo) /\ call.key \in Keys
      /\ ~ batch.done /\ call'.state = "idle"
      /\ UNCHANGED <<source, handle, batch>> /\ ClientTypeOK'
  BY TakeFacts
<1>2. /\ Tail(todo) \in Seq(Keys)
      /\ \A i \in DOMAIN Tail(todo) : i + 1 \in DOMAIN todo /\ Tail(todo)[i] = todo[i + 1]
  BY <1>1, TailFacts
<1>3. TypeOK'
  BY <1>1, <1>2 DEF AInv, WalkInv, TypeOK
<1>4. SearchKeys' = SearchKeys /\ \A p : InWindow(p)' = InWindow(p)
  BY <1>1 DEF SearchKeys, InWindow
<1>5. \A k : DealtWith(k) => DealtWith(k)'
  BY <1>1, DealtWithStays
<1>6. SearchesComeFirst' /\ PagesAreRead'
  BY <1>1, <1>2, <1>4, PageEnds
<1>7. PostsAreDrafted'
  BY <1>1, <1>4 DEF AInv, WalkInv, PostsAreDrafted
<1>8. NothingIsForgotten'
  BY <1>1, <1>4, <1>5 DEF AInv, WalkInv, NothingIsForgotten
<1>9. WaitsForNext' /\ BatchIsFinal'
  BY <1>1 DEF WaitsForNext, BatchIsFinal
<1>. QED BY <1>3, <1>6, <1>7, <1>8, <1>9 DEF WalkInv

LEMMA RefusalKeepsWalkInv == ASSUME AInv, TakeRefusal PROVE WalkInv'
<1>1. /\ stop' = TRUE /\ todo' = <<>>
      /\ missed' = missed \cup {todo[i] : i \in DOMAIN todo}
      /\ UNCHANGED <<found, scraped, tried, problems, asked, given>>
  BY DEF TakeRefusal
<1>2. /\ todo \in Seq(Keys) /\ ~ batch.done /\ call'.state = "idle"
      /\ todo # <<>> /\ call.key = Head(todo)
      /\ UNCHANGED <<source, handle, batch>> /\ ClientTypeOK'
  BY TakeFacts DEF TakeRefusal, Results
<1>3. missed' \subseteq Keys
  BY <1>1, <1>2 DEF AInv, WalkInv, TypeOK
<1>4. TypeOK'
  BY <1>1, <1>2, <1>3 DEF AInv, WalkInv, TypeOK
<1>5. SearchKeys' = SearchKeys /\ \A p : InWindow(p)' = InWindow(p)
  BY <1>2 DEF SearchKeys, InWindow
<1>6. \A k : DealtWith(k) => DealtWith(k)'
  BY <1>1 DEF DealtWith, InTodo
<1>7. SearchesComeFirst' /\ PagesAreRead'
  <2>1. call.key \in missed'
    BY <1>1, <1>2, TailFacts
  <2>. QED BY <1>1, <1>2, <1>5, <2>1, PageEnds
<1>8. PostsAreDrafted'
  BY <1>1, <1>2, <1>5 DEF AInv, WalkInv, PostsAreDrafted
<1>9. NothingIsForgotten'
  BY <1>1, <1>2, <1>5, <1>6 DEF AInv, WalkInv, NothingIsForgotten
<1>10. WaitsForNext' /\ BatchIsFinal'
  BY <1>2 DEF WaitsForNext, BatchIsFinal
<1>. QED BY <1>4, <1>7, <1>8, <1>9, <1>10 DEF WalkInv

(* Posts arrive: those in the window become drafts.                         *)
LEMMA DraftKeepsWalkInv ==
    ASSUME AInv, NEW P \in SUBSET Posts, NEW D \in SUBSET P, NEW problem \in BOOLEAN,
           Draft(P, D, problem),
           source = "web" => call.key \in SearchKeys,
           \A p \in P : InWindow(p) => p \in D
    PROVE  WalkInv'
<1>1. /\ Take("answered") /\ asked' = asked \cup {call.key} /\ given' = given \cup P
      /\ found' = found \cup {[left |-> Turn, post |-> p] : p \in D}
      /\ problems' = (problems \/ P # D \/ problem)
      /\ todo' = Tail(todo) /\ UNCHANGED <<missed, scraped, tried, stop>>
  BY DEF Draft, Answered
<1>2. /\ todo \in Seq(Keys) /\ todo # <<>> /\ call.key = Head(todo) /\ call.key \in Keys
      /\ ~ batch.done /\ call'.state = "idle"
      /\ UNCHANGED <<source, handle, batch>> /\ ClientTypeOK'
  BY <1>1, TakeFacts DEF Results
<1>3. /\ Tail(todo) \in Seq(Keys) /\ 1 \in DOMAIN todo /\ todo[1] = Head(todo)
      /\ \A i \in DOMAIN Tail(todo) : i + 1 \in DOMAIN todo /\ Tail(todo)[i] = todo[i + 1]
  BY <1>2, TailFacts
<1>4. TypeOK'
  <2>1. Turn \in Nat
    BY <1>2 DEF Turn
  <2>2. found' \subseteq Drafts
    BY <1>1, <2>1 DEF AInv, WalkInv, TypeOK, Drafts
  <2>. QED BY <1>1, <1>2, <1>3, <2>2 DEF AInv, WalkInv, TypeOK
<1>5. SearchKeys' = SearchKeys /\ \A p : InWindow(p)' = InWindow(p)
  BY <1>2 DEF SearchKeys, InWindow
<1>6. \A k : DealtWith(k) => DealtWith(k)'
  BY <1>1, <1>2, DealtWithStays
<1>7. source = "web" => tried = <<>>
  BY <1>2, PagesAreNoSearches
<1>8. SearchesComeFirst'
  BY <1>1, <1>2, <1>3, <1>5, <1>7 DEF AInv, WalkInv, SearchesComeFirst
<1>9. PagesAreRead'
  <2>. SUFFICES ASSUME source = "web" PROVE PagesAreRead'
    BY <1>2 DEF PagesAreRead
  <2>1. asked' \ SearchKeys' \subseteq asked \ SearchKeys
    BY <1>1, <1>5
  <2>2. DOMAIN tried' = {}
    BY <1>1, <1>7
  <2>. QED BY <1>1, <2>1, <2>2 DEF AInv, WalkInv, PagesAreRead
<1>10. PostsAreDrafted'
  <2>1. ASSUME NEW p \in D PROVE \E d \in found' : d.post = p
    <3>1. [left |-> Turn, post |-> p] \in found'
      BY <1>1
    <3>. QED BY <3>1
  <2>. QED BY <1>1, <1>5, <2>1 DEF AInv, WalkInv, PostsAreDrafted
<1>11. NothingIsForgotten'
  BY <1>1, <1>2, <1>5, <1>6 DEF AInv, WalkInv, NothingIsForgotten
<1>12. WaitsForNext' /\ BatchIsFinal'
  BY <1>2 DEF WaitsForNext, BatchIsFinal
<1>. QED BY <1>4, <1>8, <1>9, <1>10, <1>11, <1>12 DEF WalkInv

LEMMA DraftingKeepsWalkInv ==
    ASSUME AInv, TakeResults \/ TakeRedditPosts \/ TakeComments \/ TakeReviews \/ TakeFeed
    PROVE  WalkInv'
<1>1. CASE TakeResults
  <2>1. PICK P \in SUBSET Posts : Draft(P, {p \in P : p.when # "garbled"}, FALSE)
    BY <1>1 DEF TakeResults
  <2>2. call.key \in SearchKeys
    BY <1>1 DEF TakeResults
  <2>3. \A p \in P : InWindow(p) => p \in {q \in P : q.when # "garbled"}
    BY DEF InWindow
  <2>. QED BY <2>1, <2>2, <2>3, DraftKeepsWalkInv
<1>2. CASE TakeRedditPosts \/ TakeComments \/ TakeReviews \/ TakeFeed
  <2>1. PICK P \in SUBSET Posts, problem \in BOOLEAN : Draft(P, HaveDate(P), problem)
    <3>1. \A P : (P = {}) \in BOOLEAN
      OBVIOUS
    <3>. QED BY <1>2, <3>1 DEF TakeRedditPosts, TakeComments, TakeReviews, TakeFeed
  <2>2. source \in {"reddit", "youtube", "playstore", "appstore"}
    BY <1>2 DEF TakeRedditPosts, TakeComments, TakeReviews, TakeFeed
  <2>3. HaveDate(P) \in SUBSET P /\ \A p \in P : InWindow(p) => p \in HaveDate(P)
    BY <2>2 DEF InWindow, HaveDate
  <2>. QED BY <2>1, <2>2, <2>3, DraftKeepsWalkInv
<1>. QED BY <1>1, <1>2

LEMMA VideosKeepWalkInv == ASSUME AInv, TakeVideos PROVE WalkInv'
<1>1. /\ source = "youtube" /\ Take("answered")
      /\ asked' = asked \cup {call.key} /\ given' = given
      /\ UNCHANGED <<missed, found, scraped, tried, problems, stop>>
  BY DEF TakeVideos, Answered
<1>2. PICK n \in 0..VideoLimit : \E videos \in [1..n -> Videos] : todo' = videos \o Tail(todo)
  BY DEF TakeVideos
<1>3. PICK videos \in [1..n -> Videos] : todo' = videos \o Tail(todo)
  BY <1>2
<1>4. /\ todo \in Seq(Keys) /\ todo # <<>> /\ call.key = Head(todo) /\ call.key \in Keys
      /\ ~ batch.done /\ call'.state = "idle"
      /\ UNCHANGED <<source, handle, batch>> /\ ClientTypeOK'
  BY <1>1, TakeFacts DEF Results
<1>5. /\ Tail(todo) \in Seq(Keys)
      /\ \A i \in DOMAIN todo :
            todo[i] = Head(todo) \/ \E j \in DOMAIN Tail(todo) : Tail(todo)[j] = todo[i]
  BY <1>4, TailFacts
<1>6. n \in Nat
  BY AdaptersAssumption
<1>7. videos \in Seq(Keys) /\ Len(videos) = n
  BY <1>6, AdaptersAssumption
<1>8. /\ todo' \in Seq(Keys)
      /\ \A j \in DOMAIN Tail(todo) : n + j \in DOMAIN todo' /\ todo'[n + j] = Tail(todo)[j]
  <2>. DEFINE t == Tail(todo)
  <2>1. t \in Seq(Keys)
    BY <1>5
  <2>. HIDE DEF t
  <2>2. todo' = videos \o t
    BY <1>3 DEF t
  <2>3. /\ todo' \in Seq(Keys)
        /\ \A j \in DOMAIN t : n + j \in DOMAIN todo' /\ todo'[n + j] = t[j]
    BY <1>6, <1>7, <2>1, <2>2
  <2>. QED BY <2>3 DEF t
<1>9. TypeOK'
  BY <1>1, <1>4, <1>8 DEF AInv, WalkInv, TypeOK
<1>10. ASSUME NEW k, DealtWith(k) PROVE DealtWith(k)'
  <2>1. InTodo(k) => k = call.key \/ \E j \in DOMAIN Tail(todo) : Tail(todo)[j] = k
    BY <1>4, <1>5 DEF InTodo
  <2>2. InTodo(k) => k = call.key \/ InTodo(k)'
    BY <1>8, <2>1 DEF InTodo
  <2>. QED BY <1>1, <1>10, <2>2 DEF DealtWith
<1>11. SearchKeys' = SearchKeys /\ \A p : InWindow(p)' = InWindow(p)
  BY <1>4 DEF SearchKeys, InWindow
<1>12. SearchesComeFirst' /\ PagesAreRead'
  BY <1>1, <1>4 DEF SearchesComeFirst, PagesAreRead
<1>13. PostsAreDrafted'
  BY <1>1, <1>11 DEF AInv, WalkInv, PostsAreDrafted
<1>14. NothingIsForgotten'
  BY <1>1, <1>4, <1>10, <1>11 DEF AInv, WalkInv, NothingIsForgotten
<1>15. WaitsForNext' /\ BatchIsFinal'
  BY <1>4 DEF WaitsForNext, BatchIsFinal
<1>. QED BY <1>9, <1>12, <1>13, <1>14, <1>15 DEF WalkInv

LEMMA PageKeepsWalkInv == ASSUME AInv, TakePage PROVE WalkInv'
<1>1. /\ source = "web" /\ call.key \notin SearchKeys /\ Take("answered")
      /\ asked' = asked \cup {call.key} /\ given' = given
      /\ scraped' = scraped \cup {tried[Len(tried)]}
      /\ todo' = Tail(todo)
      /\ UNCHANGED <<missed, found, tried, problems, stop>>
  BY DEF TakePage, Answered
<1>2. /\ todo \in Seq(Keys) /\ todo # <<>> /\ call.key = Head(todo) /\ call.key \in Keys
      /\ ~ batch.done /\ call'.state = "idle"
      /\ UNCHANGED <<source, handle, batch>> /\ ClientTypeOK'
  BY <1>1, TakeFacts DEF Results
<1>3. /\ Tail(todo) \in Seq(Keys) /\ 1 \in DOMAIN todo /\ todo[1] = Head(todo)
      /\ \A i \in DOMAIN Tail(todo) : i + 1 \in DOMAIN todo /\ Tail(todo)[i] = todo[i + 1]
  BY <1>2, TailFacts
<1>. DEFINE last == tried[Len(tried)]
<1>4. tried # <<>>
  BY <1>1, <1>2, <1>3 DEF AInv, WalkInv, SearchesComeFirst
<1>5. /\ last \in found /\ last.post.short /\ call.key = Page[last.post]
      /\ Tail(todo) = <<>>
  BY <1>1, <1>2, <1>4, PagesAreNoSearches DEF AInv, WalkInv, PagesAreRead, PageNow
<1>6. TypeOK'
  BY <1>1, <1>2, <1>3, <1>5 DEF AInv, WalkInv, TypeOK
<1>7. SearchKeys' = SearchKeys /\ \A p : InWindow(p)' = InWindow(p)
  BY <1>2 DEF SearchKeys, InWindow
<1>8. \A k : DealtWith(k) => DealtWith(k)'
  BY <1>1, <1>2, DealtWithStays
<1>9. SearchesComeFirst'
  BY <1>1, <1>4, <1>5 DEF SearchesComeFirst
<1>10. PagesAreRead'
  <2>. HIDE DEF last
  <2>1. \A i \in DOMAIN tried : tried[i] \in scraped' \/ Page[tried[i].post] \in missed
    BY <1>1 DEF AInv, WalkInv, PagesAreRead, last
  <2>2. \A e \in scraped' : e.post.short
    BY <1>1, <1>5 DEF AInv, WalkInv, PagesAreRead, last
  <2>3. \A k \in asked' \ SearchKeys' : \E e \in scraped' : k = Page[e.post]
    BY <1>1, <1>5, <1>7 DEF AInv, WalkInv, PagesAreRead, last
  <2>. QED BY <1>1, <2>1, <2>2, <2>3 DEF AInv, WalkInv, PagesAreRead
<1>11. PostsAreDrafted'
  BY <1>1, <1>7 DEF AInv, WalkInv, PostsAreDrafted
<1>12. NothingIsForgotten'
  BY <1>1, <1>2, <1>7, <1>8 DEF AInv, WalkInv, NothingIsForgotten
<1>13. WaitsForNext' /\ BatchIsFinal'
  BY <1>2 DEF WaitsForNext, BatchIsFinal
<1>. QED BY <1>6, <1>9, <1>10, <1>11, <1>12, <1>13 DEF WalkInv

LEMMA NextPageKeepsWalkInv == ASSUME AInv, NextPage PROVE WalkInv'
<1>1. /\ source = "web" /\ call.state = "idle" /\ todo = <<>> /\ ~ batch.done
      /\ Len(tried) < PageLimit
      /\ UNCHANGED <<clientVars, historyVars, source, handle, found, scraped,
                     problems, stop, batch>>
  BY DEF NextPage
<1>2. PICK d \in ToScrape : tried' = Append(tried, d) /\ todo' = <<Page[d.post]>>
  BY DEF NextPage
<1>3. /\ d \in found /\ d \in Drafts /\ d.post \in Posts /\ d.post.short
      /\ Page[d.post] \in Keys
  BY <1>2, AdaptersAssumption DEF AInv, WalkInv, TypeOK, ToScrape, Drafts
<1>4. todo' \in Seq(Keys) /\ todo' # <<>>
  BY <1>2, <1>3
<1>5. /\ tried' \in Seq(Drafts) /\ Len(tried') = Len(tried) + 1 /\ tried' # <<>>
      /\ DOMAIN tried = 1..Len(tried) /\ DOMAIN tried' = 1..(Len(tried) + 1)
      /\ \A i \in DOMAIN tried : tried'[i] = tried[i]
      /\ tried'[Len(tried')] = d
  <2>1. tried \in Seq(Drafts)
    BY DEF AInv, WalkInv, TypeOK
  <2>. QED BY <1>2, <1>3, <2>1
<1>6. Len(tried') <= PageLimit
  <2>1. Len(tried) \in Nat
    BY DEF AInv, WalkInv, TypeOK
  <2>. QED BY <1>1, <1>5, <2>1, AdaptersAssumption
<1>7. UNCHANGED <<call, spent, counted, memo, orphans, billed, lost, asked, given, missed>>
  BY <1>1 DEF clientVars, historyVars
<1>8. TypeOK'
  BY <1>1, <1>4, <1>5, <1>6, <1>7 DEF AInv, WalkInv, TypeOK, ClientTypeOK
<1>9. SearchKeys' = SearchKeys /\ \A q : InWindow(q)' = InWindow(q)
  BY <1>1 DEF SearchKeys, InWindow
<1>10. SearchesComeFirst'
  BY <1>2, <1>5 DEF SearchesComeFirst, PageNow
<1>11. \A k : DealtWith(k) => DealtWith(k)'
  BY <1>1, <1>7 DEF DealtWith, InTodo
<1>12. PagesAreRead'
  <2>1. ASSUME NEW i \in DOMAIN tried'
        PROVE  /\ tried'[i] \in found /\ tried'[i].post.short
               /\ \/ tried'[i] \in scraped
                  \/ Page[tried'[i].post] \in missed
                  \/ i = Len(tried')
    <3>1. CASE i = Len(tried')
      BY <1>3, <1>5, <3>1
    <3>2. CASE i # Len(tried')
      <4>1. i \in DOMAIN tried /\ tried'[i] = tried[i]
        <5>1. Len(tried) \in Nat
          BY DEF AInv, WalkInv, TypeOK
        <5>. QED BY <1>5, <3>2, <5>1
      <4>. QED BY <1>1, <4>1 DEF AInv, WalkInv, PagesAreRead
    <3>. QED BY <3>1, <3>2
  <2>. QED BY <1>1, <1>4, <1>7, <1>9, <2>1 DEF AInv, WalkInv, PagesAreRead
<1>13. PostsAreDrafted'
  BY <1>1, <1>7, <1>9 DEF AInv, WalkInv, PostsAreDrafted
<1>14. NothingIsForgotten'
  BY <1>1, <1>7, <1>9, <1>11 DEF AInv, WalkInv, NothingIsForgotten
<1>15. WaitsForNext' /\ BatchIsFinal'
  BY <1>1, <1>7 DEF WaitsForNext, BatchIsFinal
<1>. QED BY <1>8, <1>10, <1>12, <1>13, <1>14, <1>15 DEF WalkInv

LEMMA FinishKeepsWalkInv == ASSUME AInv, Finish PROVE WalkInv'
<1>1. /\ call.state = "idle" /\ todo = <<>>
      /\ batch' = [done |-> TRUE, mentions |-> Mentions, truncated |-> stop,
                   errors |-> problems \/ stop]
      /\ stop \/ ~ MorePages
      /\ UNCHANGED <<clientVars, historyVars, source, handle, todo, found, scraped,
                     tried, problems, stop>>
  BY DEF Finish
<1>2. UNCHANGED <<call, spent, counted, memo, orphans, billed, lost, asked, given, missed>>
  BY <1>1 DEF clientVars, historyVars
<1>3. /\ Mentions \subseteq [post : Posts, scraped : BOOLEAN]
      /\ Mentions' = Mentions /\ MorePages' = MorePages
  <2>1. ASSUME NEW d \in Kept
        PROVE  [post |-> d.post, scraped |-> d \in scraped] \in [post : Posts, scraped : BOOLEAN]
    <3>1. d.post \in Posts
      BY DEF Kept, Drafts, AInv, WalkInv, TypeOK
    <3>2. (d \in scraped) \in BOOLEAN
      OBVIOUS
    <3>. QED BY <3>1, <3>2, Zenon
  <2>2. Mentions \subseteq [post : Posts, scraped : BOOLEAN]
    BY <2>1, Zenon DEF Mentions
  <2>3. Mentions' = Mentions
    BY <1>1 DEF Mentions, Kept, Text
  <2>4. MorePages' = MorePages
    BY <1>1 DEF MorePages, ToScrape
  <2>. QED BY <2>2, <2>3, <2>4
<1>4. stop \in BOOLEAN /\ (problems \/ stop) \in BOOLEAN
  BY DEF AInv, WalkInv, TypeOK
<1>5. batch' \in [done : BOOLEAN, mentions : SUBSET [post : Posts, scraped : BOOLEAN],
                  truncated : BOOLEAN, errors : BOOLEAN]
  BY <1>1, <1>3, <1>4
<1>6. TypeOK'
  BY <1>1, <1>2, <1>5 DEF AInv, WalkInv, TypeOK, ClientTypeOK
<1>7. SearchKeys' = SearchKeys /\ \A p : InWindow(p)' = InWindow(p)
  BY <1>1 DEF SearchKeys, InWindow
<1>8. \A k : DealtWith(k) => DealtWith(k)'
  BY <1>1, <1>2 DEF DealtWith, InTodo
<1>9. SearchesComeFirst' /\ PagesAreRead' /\ PostsAreDrafted'
  BY <1>1, <1>2, <1>7 DEF AInv, WalkInv, SearchesComeFirst, PageNow, PagesAreRead, PostsAreDrafted
<1>10. NothingIsForgotten'
  BY <1>1, <1>2, <1>7, <1>8 DEF AInv, WalkInv, NothingIsForgotten
<1>11. WaitsForNext'
  BY <1>1, <1>2 DEF WaitsForNext
<1>12. BatchIsFinal'
  BY <1>1, <1>3 DEF BatchIsFinal
<1>. QED BY <1>6, <1>9, <1>10, <1>11, <1>12 DEF WalkInv

LEMMA InitAInv == Init => AInv
<1>. SUFFICES ASSUME Init PROVE AInv
  OBVIOUS
<1>1. ClientInv
  BY InitClientInv DEF Init
<1>2. todo \in Seq(Keys) /\ (source \notin Listings => todo = Searches[source])
      /\ (source \in Listings /\ handle => todo = <<Listing>>)
  BY AdaptersAssumption DEF Init
<1>3. TypeOK
  <2>1. ClientTypeOK
    BY <1>1 DEF ClientInv
  <2>2. /\ source \in Sources /\ handle \in BOOLEAN /\ problems \in BOOLEAN
        /\ found = {} /\ scraped = {} /\ tried = <<>> /\ stop = FALSE /\ batch = NoBatch
        /\ asked = {} /\ given = {} /\ missed = {}
    BY DEF Init
  <2>3. tried \in Seq(Drafts) /\ Len(tried) <= PageLimit
    BY <2>2, AdaptersAssumption
  <2>4. batch \in [done : BOOLEAN, mentions : SUBSET [post : Posts, scraped : BOOLEAN],
                   truncated : BOOLEAN, errors : BOOLEAN]
    BY <2>2 DEF NoBatch
  <2>. QED BY <1>2, <2>1, <2>2, <2>3, <2>4 DEF TypeOK
<1>4. WaitsForNext /\ BatchIsFinal
  BY DEF Init, ClientInit, WaitsForNext, BatchIsFinal, NoBatch
<1>5. SearchesComeFirst
  BY <1>2 DEF Init, SearchesComeFirst, SearchKeys, Listings
<1>6. PagesAreRead /\ PostsAreDrafted
  BY DEF Init, PagesAreRead, PostsAreDrafted
<1>7. NothingIsForgotten
  <2>1. ASSUME source \notin Listings, NEW k \in SearchKeys PROVE DealtWith(k)
    BY <1>2, <2>1 DEF SearchKeys, DealtWith, InTodo
  <2>2. ASSUME source \in Listings, handle PROVE DealtWith(Listing)
    <3>1. todo = <<Listing>>
      BY <1>2, <2>2
    <3>2. 1 \in DOMAIN todo /\ todo[1] = Listing
      BY <3>1
    <3>. QED BY <3>2 DEF DealtWith, InTodo
  <2>. QED BY <2>1, <2>2 DEF Init, NothingIsForgotten
<1>. QED BY <1>1, <1>3, <1>4, <1>5, <1>6, <1>7 DEF AInv, WalkInv

LEMMA NextAInv == AInv /\ [Next]_vars => AInv'
<1>. SUFFICES ASSUME AInv, [Next]_vars PROVE AInv'
  OBVIOUS
<1>1. CASE Ask
  BY <1>1, AskKeepsAInv
<1>2. ASSUME TakeFailure \/ TakeRefusal \/ TakeResults \/ TakeRedditPosts \/ TakeVideos
             \/ TakeComments \/ TakeReviews \/ TakeFeed \/ TakePage
      PROVE  AInv'
  <2>1. PICK result \in Results : Take(result)
    BY <1>2 DEF TakeFailure, TakeRefusal, TakeResults, TakeRedditPosts, TakeVideos,
                TakeComments, TakeReviews, TakeFeed, TakePage, Draft, Answered, Results
  <2>2. ClientInv'
    BY <2>1, TakeFacts
  <2>3. CASE TakeFailure
    BY <2>1, <2>2, <2>3, NothingFoundKeepsWalkInv DEF TakeFailure, AInv
  <2>. QED BY <1>2, <2>2, <2>3, RefusalKeepsWalkInv, DraftingKeepsWalkInv, VideosKeepWalkInv,
              PageKeepsWalkInv DEF AInv
<1>3. CASE NextPage \/ Finish
  <2>1. UNCHANGED clientVars
    BY <1>3 DEF NextPage, Finish
  <2>2. ClientInv'
    BY <2>1 DEF AInv, ClientInv, ClientTypeOK, clientVars, Due, Left, Owed, OwedFor
  <2>. QED BY <1>3, <2>2, NextPageKeepsWalkInv, FinishKeepsWalkInv DEF AInv
<1>4. CASE (ClientStep \/ Upstream) /\ UNCHANGED <<walkVars, historyVars>>
  BY <1>4, ClientKeepsClientInv, ClientKeepsWalkInv DEF AInv
<1>5. CASE UNCHANGED vars
  <2>1. UNCHANGED clientVars /\ UNCHANGED <<walkVars, historyVars>>
    BY <1>5 DEF vars
  <2>2. ClientInv'
    BY <2>1 DEF AInv, ClientInv, ClientTypeOK, clientVars, Due, Left, Owed, OwedFor
  <2>3. call' = call
    BY <2>1 DEF clientVars
  <2>. QED BY <2>1, <2>2, <2>3, WalkStays DEF AInv, ClientInv, WalkInv, WaitsForNext
<1>. QED BY <1>1, <1>2, <1>3, <1>4, <1>5 DEF Next, Walk

(* ClientInv and WalkInv hold in every reachable state: what the client     *)
(* holds covers what upstream may still bill, and no query, post or page of *)
(* the walk is lost on the way to its batch.                                *)
THEOREM Invariance == Spec => []AInv
BY InitAInv, NextAInv, PTL DEF Spec

-----------------------------------------------------------------------------
(* What follows.                                                            *)

(* Every reachable state is well-typed; in particular a client's ceiling    *)
(* holds, and it counts no more than it held.                               *)
THEOREM TypeCorrect == Spec => []TypeOK
<1>1. AInv => TypeOK
  BY DEF AInv, WalkInv
<1>. QED BY <1>1, Invariance, PTL

(* fetch (internal/anakin/http.go): whatever is retried, times out or ends  *)
(* after nobody waits for it, upstream bills no more than was held and the  *)
(* price of the POSTs whose answer was lost.                                *)
THEOREM HeldCoversTheBill == Spec => []BillIsHeldOrLost
<1>1. AInv => BillIsHeldOrLost
  <2>. SUFFICES ASSUME AInv PROVE billed <= spent + lost
    BY DEF BillIsHeldOrLost
  <2>1. ClientInv
    BY DEF AInv
  <2>2. /\ Owed \in Nat /\ Due \in Nat
        /\ spent \in Nat /\ billed \in Nat /\ lost \in Nat
    BY <2>1, OwedType, CostType DEF ClientInv, Due
  <2>3. billed + Owed + Due <= spent + lost
    BY <2>1 DEF ClientInv
  <2>. QED BY <2>2, <2>3
<1>. QED BY <1>1, Invariance, PTL

(* do (internal/anakin/http.go): a call is billed at most once for each of  *)
(* its attempts, and what Stats reports as used was billed.                 *)
THEOREM AttemptsBoundTheBill == Spec => []BillIsBracketed
<1>1. AInv => BillIsBracketed
  <2>. SUFFICES ASSUME AInv PROVE counted <= billed /\ billed <= MaxAttempts * spent
    BY DEF BillIsBracketed
  <2>1. ClientInv
    BY DEF AInv
  <2>2. Owed \in Nat /\ Left \in Nat /\ billed \in Nat /\ MaxAttempts * spent \in Nat
    BY <2>1, OwedType, CostType, LeftFacts, FetchAssumption DEF ClientInv
  <2>3. counted <= billed /\ billed + Owed + Left <= MaxAttempts * spent
    BY <2>1 DEF ClientInv
  <2>. QED BY <2>2, <2>3
<1>. QED BY <1>1, Invariance, PTL

(* sources/registry.go: a post of an answer that was paid for, in the       *)
(* window and without a negative keyword, is in the batch, whatever failed  *)
(* or was refused before or after it.                                       *)
THEOREM PaidPostsArrive == Spec => []PaidForIsHandedOver
<1>1. AInv => PaidForIsHandedOver
  <2>. SUFFICES ASSUME AInv, batch.done, NEW p \in given,
                       InWindow(p), ~ p.snippet, ~ p.page
                PROVE  \E m \in batch.mentions : m.post = p
    BY DEF PaidForIsHandedOver
  <2>1. PICK d \in found : d.post = p
    BY DEF AInv, WalkInv, PostsAreDrafted
  <2>2. d \in Kept
    BY <2>1 DEF Kept, Text, InWindow
  <2>3. [post |-> d.post, scraped |-> d \in scraped] \in batch.mentions
    BY <2>2 DEF AInv, WalkInv, BatchIsFinal, Mentions
  <2>. QED BY <2>1, <2>3
<1>. QED BY <1>1, Invariance, PTL

(* enrich (sources/web/web.go): once a page was fetched that one draft has, *)
(* it decides, for the draft and against it; and a short snippet is handed  *)
(* over for one of three reasons only.                                      *)
THEOREM PagesDecide == Spec => []PageDecides
<1>1. AInv => PageDecides
  <2>. SUFFICES ASSUME AInv, source = "web", batch.done PROVE PageDecides
    BY DEF PageDecides
  <2>1. batch.mentions = Mentions
    BY DEF AInv, WalkInv, BatchIsFinal
  <2>2. ASSUME NEW d \in found, Alone(d), Page[d.post] \in asked, InWindow(d.post)
        PROVE  {m \in batch.mentions : m.post = d.post} =
                  IF d.post.page THEN {} ELSE {[post |-> d.post, scraped |-> TRUE]}
    <3>1. Page[d.post] \notin SearchKeys
      BY PagesAreNoSearches
    <3>2. PICK e \in scraped : Page[d.post] = Page[e.post]
      BY <2>2, <3>1 DEF AInv, WalkInv, PagesAreRead
    <3>3. e \in found /\ e.post.short
      BY DEF AInv, WalkInv, TypeOK, PagesAreRead
    <3>4. d \in scraped
      BY <2>2, <3>2, <3>3 DEF Alone
    <3>5. \A c \in found : c.post = d.post => c = d
      BY <2>2 DEF Alone
    <3>6. d.post.when # "outside"
      BY <2>2 DEF InWindow
    <3>7. d \in Kept <=> ~ d.post.page
      BY <3>4, <3>6 DEF Kept, Text
    <3>8. ASSUME NEW m \in batch.mentions, m.post = d.post
          PROVE  m = [post |-> d.post, scraped |-> TRUE] /\ ~ d.post.page
      <4>1. PICK c \in Kept : /\ m = [post |-> c.post, scraped |-> c \in scraped]
                              /\ m.post = c.post
        BY <2>1, MentionsAre
      <4>2. c = d
        BY <3>5, <3>8, <4>1 DEF Kept
      <4>3. (c \in scraped) = TRUE
        BY <3>4, <4>2, Zenon
      <4>. QED BY <3>7, <4>1, <4>2, <4>3, Zenon
    <3>9. ASSUME ~ d.post.page
          PROVE  [post |-> d.post, scraped |-> TRUE] \in batch.mentions
      <4>1. (d \in scraped) = TRUE
        BY <3>4, Zenon
      <4>. QED BY <2>1, <3>7, <3>9, <4>1, Zenon DEF Mentions
    <3>10. CASE d.post.page
      BY <3>8, <3>10
    <3>11. CASE ~ d.post.page
      <4>. DEFINE it == [post |-> d.post, scraped |-> TRUE]
      <4>1. it.post = d.post
        OBVIOUS
      <4>2. it \in batch.mentions
        BY <3>9, <3>11
      <4>3. \A m \in batch.mentions : m.post = d.post => m = it
        BY <3>8
      <4>. HIDE DEF it
      <4>4. {m \in batch.mentions : m.post = d.post} = {it}
        BY <4>1, <4>2, <4>3
      <4>. QED BY <3>11, <4>4 DEF it
    <3>. QED BY <3>10, <3>11
  <2>3. ASSUME NEW m \in batch.mentions, m.post.short, ~ m.scraped,
               ~ batch.truncated, Page[m.post] \notin missed
        PROVE  Len(tried) = PageLimit
    <3>1. PICK d \in found : d.post = m.post /\ d \notin scraped
      BY <2>1, <2>3, MentionsAre DEF Kept
    <3>2. ~ MorePages /\ todo = <<>>
      BY <2>3 DEF AInv, WalkInv, BatchIsFinal
    <3>3. \A i \in DOMAIN tried : tried[i] # d
      BY <2>3, <3>1, <3>2 DEF AInv, WalkInv, PagesAreRead
    <3>4. ~ (Len(tried) < PageLimit)
      BY <2>3, <3>1, <3>2, <3>3 DEF MorePages, ToScrape
    <3>5. Len(tried) \in Nat /\ Len(tried) <= PageLimit
      BY DEF AInv, WalkInv, TypeOK
    <3>. QED BY <3>4, <3>5, AdaptersAssumption
  <2>. QED BY <2>2, <2>3 DEF PageDecides
<1>. QED BY <1>1, Invariance, PTL

(* A batch that reports neither an error nor a ceiling is complete.         *)
THEOREM SilenceIsComplete == Spec => []SilenceMeansComplete
<1>1. AInv => SilenceMeansComplete
  <2>. SUFFICES ASSUME AInv, batch.done, ~ batch.errors
                PROVE  /\ missed = {} /\ ~ batch.truncated
                       /\ IF source \in Listings THEN Listing \in asked
                          ELSE SearchKeys \subseteq asked
    BY DEF SilenceMeansComplete
  <2>1. todo = <<>> /\ batch.truncated = stop /\ batch.errors = (problems \/ stop)
    BY DEF AInv, WalkInv, BatchIsFinal
  <2>2. ~ problems /\ ~ stop
    BY <2>1
  <2>3. missed = {}
    BY <2>2 DEF AInv, WalkInv, NothingIsForgotten
  <2>4. \A k : DealtWith(k) => k \in asked
    BY <2>1, <2>3 DEF DealtWith, InTodo
  <2>5. source \in Listings => handle
    BY <2>2 DEF AInv, WalkInv, NothingIsForgotten
  <2>6. IF source \in Listings THEN Listing \in asked ELSE SearchKeys \subseteq asked
    BY <2>4, <2>5 DEF AInv, WalkInv, NothingIsForgotten
  <2>. QED BY <2>1, <2>2, <2>3, <2>6
<1>. QED BY <1>1, Invariance, PTL

=============================================================================
