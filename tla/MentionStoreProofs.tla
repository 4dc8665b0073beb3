-------------------------- MODULE MentionStoreProofs --------------------------
(***************************************************************************)
(* Theorems about MentionStore.tla, for any runs and contents, any size of *)
(* batch, and any number of attempts, failures and restarts.               *)
(***************************************************************************)
EXTENDS MentionStore, TLAPS

-----------------------------------------------------------------------------
(* The inductive invariant.  None of the properties is inductive: each is   *)
(* about the end of a run, and rests on what was true of its rows, its call *)
(* and its reply on the way there.                                          *)

Pending(r) == job[r].todo \cup job[r].batch \cup job[r].given

(* Where a run can be once bp-enricher was called, and once it has saved.   *)
Called == {"wait", "persist", "window", "done", "dead"}
Saving == {"ask"} \cup Called

(* bp-enricher works on what the run kept, and only after the run called.   *)
JobIsForKept ==
    \A r \in Runs :
        /\ Pending(r) \subseteq kept[r]
        /\ job[r].at # "off" => pc[r] \in Called
        /\ job[r].at = "lookup" => job[r].todo = kept[r]
        /\ job[r].at = "over" => Pending(r) = {}

(* Without an error, what a job has still to ask for and what it has        *)
(* answered is everything the run kept.                                     *)
JobForgetsNothing ==
    \A r \in Runs : job[r].at # "off" /\ ~ job[r].errors =>
        \A c \in kept[r] : c \in Pending(r) \/ job[r].out[c] = "answer"

ReplyIsComplete ==
    \A r \in Runs : pc[r] = "persist" /\ ~ log[r] =>
        \A c \in kept[r] : reply[r][c] = "answer"

(* A row has the id of a run that kept the content and is past saving it.   *)
RowsAreKept ==
    \A r \in Runs, c \in Contents : mentions[c] = r => c \in kept[r] /\ pc[r] \in Saving

(* A verdict belongs to a row, and the run of the row has stored it.        *)
VerdictsAreLate ==
    \A c \in Contents : enrichment[c] # "none" =>
        mentions[c] \in Runs /\ pc[mentions[c]] \in {"window", "done", "dead"}

OwnRowsAreSettled ==
    \A r \in Runs, c \in Contents :
        ~ log[r] /\ mentions[c] = r =>
            /\ pc[r] \in {"window", "done"} => enrichment[c] = "answer"
            /\ pc[r] = "done" => analysed[r][c] = "answer"

(* What a run has found is stored, or it is about to store it.              *)
FoundIsStored ==
    \A r \in Runs : ~ log[r] /\ pc[r] # "dead" =>
        \A c \in found[r] : \/ mentions[c] # NoRun
                            \/ c \in kept[r] /\ pc[r] \in {"idle", "collect", "save"}

MInv ==
    /\ TypeOK
    /\ CacheHoldsAnswers
    /\ JobIsForKept /\ JobForgetsNothing /\ ReplyIsComplete
    /\ RowsAreKept /\ VerdictsAreLate /\ OwnRowsAreSettled /\ FoundIsStored

-----------------------------------------------------------------------------
(* What a step does to the functions of the state.                          *)

LEMMA GotoFacts ==
    ASSUME TypeOK, NEW r \in Runs, NEW from, NEW to \in {"idle", "done", "dead"} \cup Active,
           Goto(r, from, to)
    PROVE  /\ pc' \in [Runs -> {"idle", "done", "dead"} \cup Active]
           /\ pc[r] = from /\ pc'[r] = to /\ \A s \in Runs \ {r} : pc'[s] = pc[s]
BY DEF Goto, TypeOK

LEMMA SmoothFacts ==
    ASSUME TypeOK, Smooth
    PROVE  /\ log' \in [Runs -> BOOLEAN] /\ faults' \in 0..MaxFaults
           /\ \A s \in Runs : log'[s] = log[s]
BY DEF Smooth, TypeOK

LEMMA FaultFacts ==
    ASSUME TypeOK, Fault
    PROVE  faults' \in 0..MaxFaults
BY MentionAssumption DEF Fault, TypeOK

LEMMA FailureFacts ==
    ASSUME TypeOK, NEW r \in Runs, Failure(r)
    PROVE  /\ log' \in [Runs -> BOOLEAN] /\ faults' \in 0..MaxFaults
           /\ log'[r] = TRUE /\ \A s \in Runs \ {r} : log'[s] = log[s]
<1>1. Fault /\ log' = [log EXCEPT ![r] = TRUE]
  BY DEF Failure
<1>. QED BY <1>1, FaultFacts DEF TypeOK

(* The job of one run changes.                                              *)
LEMMA JobFacts ==
    ASSUME TypeOK, NEW r \in Runs, NEW j \in Job, job' = [job EXCEPT ![r] = j]
    PROVE  job' \in [Runs -> Job] /\ job'[r] = j /\ \A s \in Runs \ {r} : job'[s] = job[s]
BY DEF TypeOK

LEMMA NoJobIsAJob == NoJob \in Job /\ Unknown \in [Contents -> Verdicts]
<1>1. Unknown \in [Contents -> Verdicts]
  BY DEF Unknown, Verdicts
<1>2. 0 \in 0..MaxAttempts
  BY MentionAssumption
<1>. QED BY <1>1, <1>2 DEF NoJob, Job

-----------------------------------------------------------------------------
(* The parts of the invariant that a step leaves alone.                     *)

(* A step that is not bp-enricher's.                                        *)
LEMMA JobsStay ==
    ASSUME MInv, UNCHANGED job, \A r \in Runs : kept[r] \subseteq kept'[r],
           \A r \in Runs : pc[r] \in Called => pc'[r] \in Called /\ kept'[r] = kept[r]
    PROVE  JobIsForKept' /\ JobForgetsNothing'
BY DEF MInv, JobIsForKept, JobForgetsNothing, Pending

(* A step that writes neither the cache nor, but for more, what runs keep.  *)
LEMMA CacheStays ==
    ASSUME MInv, UNCHANGED cached, \A r \in Runs : kept[r] \subseteq kept'[r]
    PROVE  CacheHoldsAnswers'
BY DEF MInv, CacheHoldsAnswers

(* A step that writes no row and ends no run.                               *)
LEMMA RowsStay ==
    ASSUME MInv, UNCHANGED tables, UNCHANGED analysed,
           \A r \in Runs : log[r] => log'[r],
           \A r \in Runs : kept[r] \subseteq kept'[r],
           \A r \in Runs : /\ pc[r] \in Saving => pc'[r] \in Saving
                           /\ pc[r] \in {"window", "done", "dead"} =>
                                 pc'[r] \in {"window", "done", "dead"}
                           /\ pc'[r] = pc[r] \/ pc'[r] \notin {"window", "done"} \/ log'[r]
                              \/ kept'[r] = {}
    PROVE  RowsAreKept' /\ VerdictsAreLate' /\ OwnRowsAreSettled'
<1>1. mentions' = mentions /\ enrichment' = enrichment /\ analysed' = analysed
  BY DEF tables
<1>2. RowsAreKept'
  BY <1>1 DEF MInv, RowsAreKept
<1>3. VerdictsAreLate'
  BY <1>1 DEF MInv, VerdictsAreLate
<1>4. ASSUME NEW r \in Runs, NEW c \in Contents, ~ log'[r], mentions'[c] = r
      PROVE  /\ pc'[r] \in {"window", "done"} => enrichment'[c] = "answer"
             /\ pc'[r] = "done" => analysed'[r][c] = "answer"
  <2>1. ~ log[r] /\ c \in kept'[r] /\ mentions[c] = r
    BY <1>1, <1>2, <1>4 DEF RowsAreKept, MInv, TypeOK
  <2>2. /\ pc[r] \in {"window", "done"} => enrichment[c] = "answer"
        /\ pc[r] = "done" => analysed[r][c] = "answer"
    BY <2>1 DEF MInv, OwnRowsAreSettled
  <2>. QED BY <1>1, <1>4, <2>1, <2>2
<1>5. OwnRowsAreSettled'
  BY <1>4 DEF OwnRowsAreSettled
<1>. QED BY <1>2, <1>3, <1>5

(* A step that finds nothing and drops nothing.                             *)
LEMMA FoundStays ==
    ASSUME MInv, UNCHANGED <<found, kept>>,
           \A c \in Contents : mentions[c] # NoRun => mentions'[c] # NoRun,
           \A r \in Runs : /\ log[r] => log'[r]
                           /\ pc[r] = "dead" => pc'[r] = "dead"
                           /\ \/ pc'[r] \in {"idle", "collect", "save", "dead"}
                              \/ log'[r] \/ kept[r] = {}
                              \/ pc[r] \notin {"idle", "collect", "save"}
    PROVE  FoundIsStored'
<1>. SUFFICES ASSUME NEW r \in Runs, ~ log'[r], pc'[r] # "dead", NEW c \in found'[r]
              PROVE  \/ mentions'[c] # NoRun
                     \/ c \in kept'[r] /\ pc'[r] \in {"idle", "collect", "save"}
  BY DEF FoundIsStored
<1>1. ~ log[r] /\ pc[r] # "dead" /\ c \in found[r] /\ c \in Contents
  BY DEF MInv, TypeOK
<1>. QED BY <1>1 DEF MInv, FoundIsStored

LEMMA RepliesStay ==
    ASSUME MInv, UNCHANGED reply, \A r \in Runs : log[r] => log'[r],
           \A r \in Runs : pc'[r] = "persist" => pc[r] = "persist" /\ kept'[r] = kept[r]
    PROVE  ReplyIsComplete'
BY DEF MInv, ReplyIsComplete

-----------------------------------------------------------------------------
(* The orchestrator's steps.                                                *)

LEMMA StartKeepsMInv == ASSUME MInv, NEW r \in Runs, StartRun(r) PROVE MInv'
<1>. USE DEF StartRun, Active, Called, Saving, tables
<1>1. TypeOK /\ Smooth /\ Goto(r, "idle", "collect")
      /\ UNCHANGED <<found, kept, job, reply, analysed, tables, cached>>
  BY DEF MInv
<1>2. /\ pc' \in [Runs -> {"idle", "done", "dead"} \cup Active]
      /\ pc[r] = "idle" /\ pc'[r] = "collect" /\ \A s \in Runs \ {r} : pc'[s] = pc[s]
      /\ log' \in [Runs -> BOOLEAN] /\ faults' \in 0..MaxFaults
      /\ \A s \in Runs : log'[s] = log[s]
  BY <1>1, GotoFacts, SmoothFacts
<1>3. TypeOK'
  BY <1>1, <1>2 DEF TypeOK
<1>4. JobIsForKept' /\ JobForgetsNothing' /\ CacheHoldsAnswers'
  BY <1>1, <1>2, JobsStay, CacheStays
<1>5. RowsAreKept' /\ VerdictsAreLate' /\ OwnRowsAreSettled'
  BY <1>1, <1>2, RowsStay
<1>6. FoundIsStored' /\ ReplyIsComplete'
  BY <1>1, <1>2, FoundStays, RepliesStay
<1>. QED BY <1>3, <1>4, <1>5, <1>6 DEF MInv

LEMMA FindKeepsMInv ==
    ASSUME MInv, NEW r \in Runs, NEW c \in Contents, Find(r, c) PROVE MInv'
<1>. USE DEF Active, Called, Saving, tables
<1>1. /\ TypeOK /\ pc[r] = "collect" /\ c \notin found[r]
      /\ UNCHANGED <<pc, job, reply, analysed, tables, cached>>
      /\ found' = [found EXCEPT ![r] = @ \cup {c}]
  BY DEF MInv, Find
<1>2. PICK K \in SUBSET Contents :
         /\ kept' = [kept EXCEPT ![r] = K] /\ kept[r] \subseteq K
         /\ \/ Smooth /\ (mentions[c] = NoRun => c \in K)
            \/ Failure(r)
  <2>1. CASE Smooth /\ kept' = [kept EXCEPT ![r] = @ \cup {d \in {c} : mentions[d] = NoRun}]
    <3>. DEFINE K == kept[r] \cup {d \in {c} : mentions[d] = NoRun}
    <3>1. K \in SUBSET Contents /\ kept[r] \subseteq K /\ (mentions[c] = NoRun => c \in K)
      BY <1>1 DEF TypeOK
    <3>. QED BY <2>1, <3>1
  <2>2. CASE Failure(r) /\ kept' = kept
    <3>1. kept[r] \in SUBSET Contents /\ kept' = [kept EXCEPT ![r] = kept[r]]
      BY <1>1, <2>2 DEF TypeOK
    <3>. QED BY <2>2, <3>1
  <2>3. CASE Failure(r) /\ kept' = [kept EXCEPT ![r] = @ \cup {c}]
    <3>1. kept[r] \cup {c} \in SUBSET Contents
      BY <1>1 DEF TypeOK
    <3>. QED BY <2>3, <3>1
  <2>. QED BY <2>1, <2>2, <2>3 DEF Find
<1>3. /\ log' \in [Runs -> BOOLEAN] /\ faults' \in 0..MaxFaults
      /\ \A s \in Runs : log[s] => log'[s]
      /\ log'[r] \/ (mentions[c] = NoRun => c \in K)
  BY <1>1, <1>2, SmoothFacts, FailureFacts
<1>4. TypeOK'
  BY <1>1, <1>2, <1>3 DEF TypeOK
<1>5. \A s \in Runs : kept[s] \subseteq kept'[s] /\ (s # r => kept'[s] = kept[s])
  BY <1>1, <1>2 DEF TypeOK
<1>6. JobIsForKept' /\ JobForgetsNothing' /\ CacheHoldsAnswers'
  BY <1>1, <1>5, JobsStay, CacheStays
<1>7. RowsAreKept' /\ VerdictsAreLate' /\ OwnRowsAreSettled'
  BY <1>1, <1>3, <1>5, RowsStay
<1>8. ReplyIsComplete'
  BY <1>1, <1>3, <1>5, RepliesStay
<1>9. FoundIsStored'
  <2>. SUFFICES ASSUME NEW s \in Runs, ~ log'[s], pc'[s] # "dead", NEW d \in found'[s]
                PROVE  \/ mentions'[d] # NoRun
                       \/ d \in kept'[s] /\ pc'[s] \in {"idle", "collect", "save"}
    BY DEF FoundIsStored
  <2>1. CASE s = r /\ d = c
    BY <1>1, <1>2, <1>3, <2>1 DEF TypeOK
  <2>2. CASE ~ (s = r /\ d = c)
    <3>1. d \in found[s] /\ ~ log[s]
      BY <1>1, <1>3, <2>2 DEF TypeOK
    <3>. QED BY <1>1, <1>5, <3>1 DEF MInv, FoundIsStored
  <2>. QED BY <2>1, <2>2
<1>. QED BY <1>4, <1>6, <1>7, <1>8, <1>9 DEF MInv

LEMMA CollectDoneKeepsMInv == ASSUME MInv, NEW r \in Runs, CollectDone(r) PROVE MInv'
<1>. USE DEF Active, Called, Saving, tables
<1>. DEFINE next == IF kept[r] = {} THEN "window" ELSE "save"
<1>1. TypeOK /\ Smooth /\ Goto(r, "collect", next)
      /\ UNCHANGED <<found, kept, job, reply, analysed, tables, cached>>
  BY DEF MInv, CollectDone
<1>2. /\ pc' \in [Runs -> {"idle", "done", "dead"} \cup Active]
      /\ pc[r] = "collect" /\ pc'[r] = next /\ \A s \in Runs \ {r} : pc'[s] = pc[s]
      /\ log' \in [Runs -> BOOLEAN] /\ faults' \in 0..MaxFaults
      /\ \A s \in Runs : log'[s] = log[s]
  BY <1>1, GotoFacts, SmoothFacts
<1>3. TypeOK'
  BY <1>1, <1>2 DEF TypeOK
<1>4. JobIsForKept' /\ JobForgetsNothing' /\ CacheHoldsAnswers'
  BY <1>1, <1>2, JobsStay, CacheStays
<1>5. RowsAreKept' /\ VerdictsAreLate' /\ OwnRowsAreSettled'
  BY <1>1, <1>2, RowsStay
<1>6. FoundIsStored' /\ ReplyIsComplete'
  BY <1>1, <1>2, FoundStays, RepliesStay
<1>. QED BY <1>3, <1>4, <1>5, <1>6 DEF MInv

LEMMA SaveMentionsKeepsMInv == ASSUME MInv, NEW r \in Runs, SaveMentions(r) PROVE MInv'
<1>. USE DEF Active, Called, Saving
<1>1. /\ TypeOK /\ Goto(r, "save", "ask")
      /\ UNCHANGED <<found, kept, job, reply, analysed, enrichment, cached>>
      /\ (mentions' = Saved(r) /\ Smooth) \/ (mentions' \in {mentions, Saved(r)} /\ Failure(r))
  BY DEF MInv, SaveMentions
<1>2. /\ pc' \in [Runs -> {"idle", "done", "dead"} \cup Active]
      /\ pc[r] = "save" /\ pc'[r] = "ask" /\ \A s \in Runs \ {r} : pc'[s] = pc[s]
      /\ log' \in [Runs -> BOOLEAN] /\ faults' \in 0..MaxFaults
      /\ \A s \in Runs : log[s] => log'[s]
      /\ log'[r] \/ mentions' = Saved(r)
  BY <1>1, GotoFacts, SmoothFacts, FailureFacts
<1>3. /\ mentions' \in [Contents -> Runs \cup {NoRun}]
      /\ \A c \in Contents : \/ mentions'[c] = mentions[c]
                             \/ mentions[c] = NoRun /\ mentions'[c] = r /\ c \in kept[r]
      /\ mentions' = Saved(r) => \A c \in kept[r] : mentions'[c] # NoRun
  BY <1>1, MentionAssumption DEF TypeOK, Saved
<1>4. TypeOK'
  BY <1>1, <1>2, <1>3 DEF TypeOK
<1>5. JobIsForKept' /\ JobForgetsNothing' /\ CacheHoldsAnswers' /\ ReplyIsComplete'
  BY <1>1, <1>2, JobsStay, CacheStays, RepliesStay
<1>6. RowsAreKept'
  <2>. SUFFICES ASSUME NEW s \in Runs, NEW c \in Contents, mentions'[c] = s
                PROVE  c \in kept'[s] /\ pc'[s] \in Saving
    BY DEF RowsAreKept
  <2>1. CASE mentions[c] = s
    BY <1>1, <1>2, <2>1 DEF MInv, RowsAreKept
  <2>2. CASE mentions[c] # s
    BY <1>1, <1>2, <1>3, <2>2
  <2>. QED BY <2>1, <2>2
<1>7. VerdictsAreLate'
  <2>. SUFFICES ASSUME NEW c \in Contents, enrichment'[c] # "none"
                PROVE  /\ mentions'[c] \in Runs
                       /\ pc'[mentions'[c]] \in {"window", "done", "dead"}
    BY DEF VerdictsAreLate
  <2>1. mentions[c] \in Runs /\ pc[mentions[c]] \in {"window", "done", "dead"}
    BY <1>1 DEF MInv, VerdictsAreLate
  <2>2. mentions'[c] = mentions[c]
    BY <1>3, <2>1, MentionAssumption
  <2>. QED BY <1>2, <2>1, <2>2
<1>8. OwnRowsAreSettled'
  BY <1>1, <1>2, <1>3 DEF MInv, OwnRowsAreSettled, TypeOK
<1>9. FoundIsStored'
  BY <1>1, <1>2, <1>3, MentionAssumption DEF MInv, FoundIsStored, TypeOK
<1>. QED BY <1>4, <1>5, <1>6, <1>7, <1>8, <1>9 DEF MInv

LEMMA CallKeepsMInv == ASSUME MInv, NEW r \in Runs, CallEnricher(r) PROVE MInv'
<1>. USE DEF Active, Called, Saving, tables
<1>. DEFINE j == [NoJob EXCEPT !.at = "lookup", !.todo = kept[r]]
<1>1. /\ TypeOK /\ Smooth /\ Goto(r, "ask", "wait") /\ job' = [job EXCEPT ![r] = j]
      /\ UNCHANGED <<found, kept, reply, analysed, tables, cached>>
  BY DEF MInv, CallEnricher
<1>2. /\ pc' \in [Runs -> {"idle", "done", "dead"} \cup Active]
      /\ pc[r] = "ask" /\ pc'[r] = "wait" /\ \A s \in Runs \ {r} : pc'[s] = pc[s]
      /\ log' \in [Runs -> BOOLEAN] /\ faults' \in 0..MaxFaults
      /\ \A s \in Runs : log'[s] = log[s]
  BY <1>1, GotoFacts, SmoothFacts
<1>3. /\ j \in Job /\ j.at = "lookup" /\ j.todo = kept[r] /\ j.batch = {} /\ j.given = {}
  BY <1>1, NoJobIsAJob DEF NoJob, Job, TypeOK
<1>. HIDE DEF j
<1>4. job' \in [Runs -> Job] /\ job'[r] = j /\ \A s \in Runs \ {r} : job'[s] = job[s]
  BY <1>1, <1>3, JobFacts
<1>5. TypeOK'
  BY <1>1, <1>2, <1>4 DEF TypeOK
<1>6. JobIsForKept'
  BY <1>1, <1>2, <1>3, <1>4 DEF MInv, JobIsForKept, Pending
<1>7. JobForgetsNothing'
  BY <1>1, <1>2, <1>3, <1>4 DEF MInv, JobForgetsNothing, Pending
<1>8. RowsAreKept' /\ VerdictsAreLate' /\ OwnRowsAreSettled'
  BY <1>1, <1>2, RowsStay
<1>9. FoundIsStored' /\ ReplyIsComplete' /\ CacheHoldsAnswers'
  BY <1>1, <1>2, FoundStays, RepliesStay, CacheStays
<1>. QED BY <1>5, <1>6, <1>7, <1>8, <1>9 DEF MInv

LEMMA TakeReplyKeepsMInv == ASSUME MInv, NEW r \in Runs, TakeReply(r) PROVE MInv'
<1>. USE DEF Active, Called, Saving, tables
<1>1. /\ TypeOK /\ Goto(r, "wait", "persist") /\ job[r].at = "over"
      /\ reply' = [reply EXCEPT ![r] = job[r].out]
      /\ log' = [log EXCEPT ![r] = @ \/ job[r].errors]
      /\ job' = [job EXCEPT ![r] = NoJob]
      /\ UNCHANGED <<found, kept, analysed, tables, cached, faults>>
  BY DEF MInv, TakeReply
<1>2. /\ pc' \in [Runs -> {"idle", "done", "dead"} \cup Active]
      /\ pc[r] = "wait" /\ pc'[r] = "persist" /\ \A s \in Runs \ {r} : pc'[s] = pc[s]
  BY <1>1, GotoFacts
<1>3. /\ job[r].errors \in BOOLEAN /\ job[r].out \in [Contents -> Verdicts]
      /\ log[r] \in BOOLEAN
  BY <1>1 DEF TypeOK, Job
<1>4. /\ log' \in [Runs -> BOOLEAN]
      /\ log'[r] = (log[r] \/ job[r].errors) /\ \A s \in Runs \ {r} : log'[s] = log[s]
  <2>1. (log[r] \/ job[r].errors) \in BOOLEAN /\ log \in [Runs -> BOOLEAN]
    BY <1>1, <1>3 DEF TypeOK
  <2>. QED BY <1>1, <2>1
<1>5. /\ reply' \in [Runs -> [Contents -> Verdicts]] /\ reply'[r] = job[r].out
      /\ \A s \in Runs \ {r} : reply'[s] = reply[s]
  BY <1>1, <1>3 DEF TypeOK
<1>6. job' \in [Runs -> Job] /\ job'[r] = NoJob /\ \A s \in Runs \ {r} : job'[s] = job[s]
  BY <1>1, JobFacts, NoJobIsAJob
<1>7. TypeOK'
  BY <1>1, <1>2, <1>4, <1>5, <1>6 DEF TypeOK
<1>8. JobIsForKept' /\ JobForgetsNothing'
  BY <1>1, <1>2, <1>6 DEF MInv, JobIsForKept, JobForgetsNothing, Pending, NoJob
<1>9. ReplyIsComplete'
  <2>. SUFFICES ASSUME NEW s \in Runs, pc'[s] = "persist", ~ log'[s], NEW c \in kept'[s]
                PROVE  reply'[s][c] = "answer"
    BY DEF ReplyIsComplete
  <2>1. CASE s = r
    <3>1. ~ job[r].errors /\ Pending(r) = {}
      BY <1>1, <1>4, <2>1 DEF MInv, JobIsForKept
    <3>2. job[r].out[c] = "answer"
      BY <1>1, <2>1, <3>1 DEF MInv, JobForgetsNothing
    <3>. QED BY <1>5, <2>1, <3>2
  <2>2. CASE s # r
    BY <1>1, <1>2, <1>4, <1>5, <2>2 DEF MInv, ReplyIsComplete
  <2>. QED BY <2>1, <2>2
<1>10. RowsAreKept' /\ VerdictsAreLate' /\ OwnRowsAreSettled'
  BY <1>1, <1>2, <1>4, RowsStay
<1>11. FoundIsStored' /\ CacheHoldsAnswers'
  BY <1>1, <1>2, <1>4, FoundStays, CacheStays
<1>. QED BY <1>7, <1>8, <1>9, <1>10, <1>11 DEF MInv

LEMMA CallFailsKeepsMInv == ASSUME MInv, NEW r \in Runs, CallFails(r) PROVE MInv'
<1>. USE DEF Active, Called, Saving, tables
<1>1. TypeOK /\ Failure(r) /\ Goto(r, "wait", "window")
      /\ UNCHANGED <<found, kept, job, reply, analysed, tables, cached>>
  BY DEF MInv, CallFails
<1>2. /\ pc' \in [Runs -> {"idle", "done", "dead"} \cup Active]
      /\ pc[r] = "wait" /\ pc'[r] = "window" /\ \A s \in Runs \ {r} : pc'[s] = pc[s]
      /\ log' \in [Runs -> BOOLEAN] /\ faults' \in 0..MaxFaults
      /\ log'[r] /\ \A s \in Runs \ {r} : log'[s] = log[s]
  BY <1>1, GotoFacts, FailureFacts
<1>3. TypeOK'
  BY <1>1, <1>2 DEF TypeOK
<1>4. JobIsForKept' /\ JobForgetsNothing' /\ CacheHoldsAnswers'
  BY <1>1, <1>2, JobsStay, CacheStays
<1>5. RowsAreKept' /\ VerdictsAreLate' /\ OwnRowsAreSettled'
  BY <1>1, <1>2, RowsStay
<1>6. FoundIsStored' /\ ReplyIsComplete'
  BY <1>1, <1>2, FoundStays, RepliesStay
<1>. QED BY <1>3, <1>4, <1>5, <1>6 DEF MInv

LEMMA SaveEnrichmentsKeepsMInv ==
    ASSUME MInv, NEW r \in Runs, SaveEnrichments(r) PROVE MInv'
<1>. USE DEF Active, Called, Saving
<1>1. /\ TypeOK /\ Goto(r, "persist", "window")
      /\ UNCHANGED <<found, kept, job, reply, analysed, mentions, cached>>
      /\ \/ enrichment' = Enriched(r) /\ Smooth
         \/ enrichment' \in {enrichment, Enriched(r)} /\ Failure(r)
  BY DEF MInv, SaveEnrichments
<1>2. /\ pc' \in [Runs -> {"idle", "done", "dead"} \cup Active]
      /\ pc[r] = "persist" /\ pc'[r] = "window" /\ \A s \in Runs \ {r} : pc'[s] = pc[s]
      /\ log' \in [Runs -> BOOLEAN] /\ faults' \in 0..MaxFaults
      /\ \A s \in Runs : log[s] => log'[s]
      /\ log'[r] \/ enrichment' = Enriched(r)
  BY <1>1, GotoFacts, SmoothFacts, FailureFacts
<1>3. /\ enrichment' \in [Contents -> Verdicts]
      /\ \A c \in Contents :
            \/ enrichment'[c] = enrichment[c]
            \/ mentions[c] = r /\ enrichment[c] = "none" /\ enrichment'[c] # "none"
      /\ enrichment' = Enriched(r) => \A c \in Contents :
            mentions[c] = r /\ enrichment[c] = "none" => enrichment'[c] = reply[r][c]
  BY <1>1 DEF TypeOK, Enriched
<1>4. TypeOK'
  BY <1>1, <1>2, <1>3 DEF TypeOK
<1>5. JobIsForKept' /\ JobForgetsNothing' /\ CacheHoldsAnswers' /\ ReplyIsComplete'
  BY <1>1, <1>2, JobsStay, CacheStays, RepliesStay
<1>6. RowsAreKept'
  BY <1>1, <1>2 DEF MInv, RowsAreKept, TypeOK
<1>7. VerdictsAreLate'
  BY <1>1, <1>2, <1>3 DEF MInv, VerdictsAreLate, TypeOK
<1>8. OwnRowsAreSettled'
  <2>. SUFFICES ASSUME NEW s \in Runs, NEW c \in Contents, ~ log'[s], mentions'[c] = s
                PROVE  /\ pc'[s] \in {"window", "done"} => enrichment'[c] = "answer"
                       /\ pc'[s] = "done" => analysed'[s][c] = "answer"
    BY DEF OwnRowsAreSettled
  <2>1. CASE s # r
    BY <1>1, <1>2, <1>3, <2>1 DEF MInv, OwnRowsAreSettled
  <2>2. CASE s = r
    <3>1. ~ log[r] /\ mentions[c] = r /\ c \in kept[r]
      BY <1>1, <1>2, <2>2 DEF MInv, RowsAreKept
    <3>2. enrichment[c] = "none"
      BY <1>2, <3>1 DEF MInv, VerdictsAreLate
    <3>3. reply[r][c] = "answer"
      BY <1>2, <3>1 DEF MInv, ReplyIsComplete
    <3>. QED BY <1>2, <1>3, <2>2, <3>1, <3>2, <3>3
  <2>. QED BY <2>1, <2>2
<1>9. FoundIsStored'
  BY <1>1, <1>2, FoundStays
<1>. QED BY <1>4, <1>5, <1>6, <1>7, <1>8, <1>9 DEF MInv

LEMMA ReadWindowKeepsMInv == ASSUME MInv, NEW r \in Runs, ReadWindow(r) PROVE MInv'
<1>. USE DEF Active, Called, Saving, tables
<1>1. /\ TypeOK /\ Goto(r, "window", "done")
      /\ UNCHANGED <<found, kept, job, reply, mentions, enrichment, cached>>
      /\ \/ analysed' = [analysed EXCEPT ![r] = enrichment] /\ Smooth
         \/ analysed' = [analysed EXCEPT ![r] = reply[r]] /\ Failure(r)
  BY DEF MInv, ReadWindow
<1>2. /\ pc' \in [Runs -> {"idle", "done", "dead"} \cup Active]
      /\ pc[r] = "window" /\ pc'[r] = "done" /\ \A s \in Runs \ {r} : pc'[s] = pc[s]
      /\ log' \in [Runs -> BOOLEAN] /\ faults' \in 0..MaxFaults
      /\ \A s \in Runs : log[s] => log'[s]
      /\ log'[r] \/ analysed' = [analysed EXCEPT ![r] = enrichment]
  BY <1>1, GotoFacts, SmoothFacts, FailureFacts
<1>3. /\ analysed' \in [Runs -> [Contents -> Verdicts]]
      /\ log'[r] \/ analysed'[r] = enrichment
      /\ \A s \in Runs \ {r} : analysed'[s] = analysed[s]
  BY <1>1, <1>2 DEF TypeOK
<1>4. TypeOK'
  BY <1>1, <1>2, <1>3 DEF TypeOK
<1>5. JobIsForKept' /\ JobForgetsNothing' /\ CacheHoldsAnswers' /\ ReplyIsComplete'
  BY <1>1, <1>2, JobsStay, CacheStays, RepliesStay
<1>6. RowsAreKept' /\ VerdictsAreLate'
  BY <1>1, <1>2 DEF MInv, RowsAreKept, VerdictsAreLate, TypeOK
<1>7. OwnRowsAreSettled'
  BY <1>1, <1>2, <1>3 DEF MInv, OwnRowsAreSettled
<1>8. FoundIsStored'
  BY <1>1, <1>2, FoundStays
<1>. QED BY <1>4, <1>5, <1>6, <1>7, <1>8 DEF MInv

-----------------------------------------------------------------------------
(* bp-enricher's steps, and the two that kill a process.                    *)

(* A step of one job that changes neither the cache nor the tables.         *)
LEMMA JobKeepsMInv ==
    ASSUME MInv, NEW r \in Runs, NEW j \in Job, job' = [job EXCEPT ![r] = j],
           UNCHANGED <<pc, found, kept, log, reply, analysed, tables>>,
           cached' \in [Contents -> Verdicts], CacheHoldsAnswers', faults' \in 0..MaxFaults,
           job[r].at # "off", j.todo \cup j.batch \cup j.given \subseteq kept[r],
           j.at \in {"batch", "over"},
           j.at = "over" => j.todo \cup j.batch \cup j.given = {},
           ~ j.errors => \A c \in kept[r] : \/ c \in j.todo \cup j.batch \cup j.given
                                            \/ j.out[c] = "answer"
    PROVE  MInv'
<1>. USE DEF tables
<1>1. TypeOK /\ job' \in [Runs -> Job] /\ job'[r] = j /\ \A s \in Runs \ {r} : job'[s] = job[s]
  BY JobFacts DEF MInv
<1>2. TypeOK'
  BY <1>1 DEF TypeOK
<1>3. JobIsForKept'
  BY <1>1 DEF MInv, JobIsForKept, Pending
<1>4. JobForgetsNothing'
  BY <1>1 DEF MInv, JobForgetsNothing, Pending
<1>5. ReplyIsComplete' /\ RowsAreKept' /\ VerdictsAreLate' /\ OwnRowsAreSettled' /\ FoundIsStored'
  BY RepliesStay, RowsStay, FoundStays
<1>. QED BY <1>2, <1>3, <1>4, <1>5 DEF MInv

LEMMA JobFields ==
    ASSUME MInv, NEW r \in Runs
    PROVE  /\ job \in [Runs -> Job]
           /\ job[r] \in Job /\ job[r].at \in {"off", "lookup", "batch", "over"}
           /\ job[r].attempt \in 0..MaxAttempts
           /\ job[r].out \in [Contents -> Verdicts] /\ job[r].errors \in BOOLEAN
           /\ kept[r] \subseteq Contents
           /\ job[r].todo \subseteq kept[r] /\ job[r].batch \subseteq kept[r]
           /\ job[r].given \subseteq kept[r]
<1>1. job \in [Runs -> Job] /\ kept \in [Runs -> SUBSET Contents]
  BY DEF MInv, TypeOK
<1>2. job[r] \in Job
  BY <1>1
<1>3. Pending(r) \subseteq kept[r]
  BY DEF MInv, JobIsForKept
<1>. QED BY <1>1, <1>2, <1>3 DEF Job, Pending

LEMMA LookUpKeepsMInv == ASSUME MInv, NEW r \in Runs, LookUp(r) PROVE MInv'
<1>. DEFINE hits == {c \in job[r].todo : cached[c] # "none"}
            out == [c \in Contents |-> IF c \in hits THEN cached[c] ELSE "none"]
            j == [job[r] EXCEPT !.at = "batch", !.todo = @ \ hits, !.out = out]
<1>1. /\ job[r].at = "lookup" /\ job' = [job EXCEPT ![r] = j]
      /\ UNCHANGED <<pc, found, kept, reply, analysed, tables, cached>> /\ Smooth
  BY JobFields DEF LookUp
<1>2. cached \in [Contents -> Verdicts] /\ \A c \in Contents : cached[c] \in {"none", "answer"}
  BY DEF MInv, TypeOK, CacheHoldsAnswers, Verdicts
<1>3. out \in [Contents -> Verdicts] /\ \A c \in hits : c \in Contents => out[c] = "answer"
  BY <1>2 DEF Verdicts
<1>. HIDE DEF hits, out
<1>4. /\ j.at = "batch" /\ j.todo = job[r].todo \ hits /\ j.batch = job[r].batch
      /\ j.given = job[r].given /\ j.out = out /\ j.errors = job[r].errors
      /\ j \in Job
  <2>1. job[r] \in Job
    BY JobFields
  <2>. QED BY <2>1, <1>3 DEF Job
<1>. HIDE DEF j
<1>5. CacheHoldsAnswers' /\ cached' \in [Contents -> Verdicts] /\ faults' \in 0..MaxFaults
  BY <1>1, <1>2, CacheStays, SmoothFacts DEF MInv
<1>6. ~ j.errors => \A c \in kept[r] : \/ c \in j.todo \cup j.batch \cup j.given
                                       \/ j.out[c] = "answer"
  <2>. SUFFICES ASSUME ~ j.errors, NEW c \in kept[r], c \notin j.todo \cup j.batch \cup j.given
                PROVE  j.out[c] = "answer"
    OBVIOUS
  <2>1. c \in Contents
    BY JobFields
  <2>2. c \in job[r].todo
    BY <1>1 DEF MInv, JobIsForKept
  <2>3. c \in hits
    BY <1>4, <2>2
  <2>. QED BY <1>3, <1>4, <2>1, <2>3
<1>. QED BY <1>1, <1>4, <1>5, <1>6, JobFields, JobKeepsMInv DEF Smooth

LEMMA NextBatchKeepsMInv == ASSUME MInv, NEW r \in Runs, NextBatch(r) PROVE MInv'
<1>1. PICK b \in SUBSET job[r].todo :
         job' = [job EXCEPT ![r].batch = b, ![r].todo = @ \ b, ![r].attempt = 0]
  BY DEF NextBatch
<1>. DEFINE j == [job[r] EXCEPT !.batch = b, !.todo = @ \ b, !.attempt = 0]
<1>2. /\ job[r].at = "batch" /\ job[r].batch \cup job[r].given = {}
      /\ job' = [job EXCEPT ![r] = j]
      /\ UNCHANGED <<pc, found, kept, reply, analysed, tables, cached>> /\ Smooth
  BY <1>1, JobFields DEF NextBatch
<1>3. 0 \in 0..MaxAttempts
  BY MentionAssumption
<1>4. /\ j.at = "batch" /\ j.todo = job[r].todo \ b /\ j.batch = b
      /\ j.given = job[r].given /\ j.out = job[r].out /\ j.errors = job[r].errors
      /\ j \in Job
  <2>1. job[r] \in Job
    BY JobFields
  <2>. QED BY <2>1, <1>2, <1>3 DEF Job
<1>. HIDE DEF j
<1>5. CacheHoldsAnswers' /\ cached' \in [Contents -> Verdicts] /\ faults' \in 0..MaxFaults
  BY <1>2, CacheStays, SmoothFacts DEF MInv, TypeOK
<1>6. ~ j.errors => \A c \in kept[r] : \/ c \in j.todo \cup j.batch \cup j.given
                                       \/ j.out[c] = "answer"
  BY <1>2, <1>4 DEF MInv, JobForgetsNothing, Pending
<1>. QED BY <1>2, <1>4, <1>5, <1>6, JobFields, JobKeepsMInv DEF Smooth

LEMMA AttemptKeepsMInv == ASSUME MInv, NEW r \in Runs, Attempt(r) PROVE MInv'
<1>1. PICK got \in SUBSET job[r].batch :
         /\ job' = [job EXCEPT ![r].batch = @ \ got, ![r].given = @ \cup got,
                               ![r].attempt = @ + 1]
         /\ UNCHANGED faults \/ Fault
  BY DEF Attempt
<1>. DEFINE j == [job[r] EXCEPT !.batch = @ \ got, !.given = @ \cup got, !.attempt = @ + 1]
<1>2. /\ job[r].at = "batch" /\ job[r].attempt < MaxAttempts
      /\ job' = [job EXCEPT ![r] = j]
      /\ UNCHANGED <<pc, found, kept, log, reply, analysed, tables, cached>>
  BY <1>1, JobFields DEF Attempt
<1>3. job[r].attempt + 1 \in 0..MaxAttempts
  <2>1. job[r].attempt \in 0..MaxAttempts
    BY JobFields
  <2>. QED BY <1>2, <2>1, MentionAssumption
<1>4. /\ j.at = "batch" /\ j.todo = job[r].todo /\ j.batch = job[r].batch \ got
      /\ j.given = job[r].given \cup got /\ j.out = job[r].out /\ j.errors = job[r].errors
      /\ j \in Job
  <2>1. job[r] \in Job
    BY JobFields
  <2>. QED BY <2>1, <1>2, <1>3 DEF Job
<1>. HIDE DEF j
<1>5. CacheHoldsAnswers' /\ cached' \in [Contents -> Verdicts] /\ faults' \in 0..MaxFaults
  BY <1>1, <1>2, CacheStays, FaultFacts DEF MInv, TypeOK
<1>6. ~ j.errors => \A c \in kept[r] : \/ c \in j.todo \cup j.batch \cup j.given
                                       \/ j.out[c] = "answer"
  BY <1>2, <1>4 DEF MInv, JobForgetsNothing, Pending
<1>. QED BY <1>2, <1>4, <1>5, <1>6, JobFields, JobKeepsMInv

LEMMA CacheBatchKeepsMInv == ASSUME MInv, NEW r \in Runs, CacheBatch(r) PROVE MInv'
<1>. DEFINE Reply(c) == IF c \in job[r].given THEN "answer"
                        ELSE IF c \in Degraded(r) THEN "neutral" ELSE job[r].out[c]
            out == [c \in Contents |-> Reply(c)]
            errors == job[r].errors \/ Degraded(r) # {}
            j == [job[r] EXCEPT !.batch = {}, !.given = {}, !.errors = errors, !.out = out]
<1>1. /\ job[r].at = "batch" /\ job' = [job EXCEPT ![r] = j]
      /\ cached' = [c \in Contents |-> IF c \in job[r].given THEN "answer" ELSE cached[c]]
      /\ UNCHANGED <<pc, found, kept, reply, analysed, tables>> /\ Smooth
  BY JobFields DEF CacheBatch
<1>2. /\ out \in [Contents -> Verdicts] /\ errors \in BOOLEAN
      /\ ~ errors => job[r].batch = {} /\ ~ job[r].errors
      /\ \A c \in Contents : job[r].batch = {} =>
            out[c] = IF c \in job[r].given THEN "answer" ELSE job[r].out[c]
  BY JobFields DEF Verdicts, Degraded
<1>. HIDE DEF out, errors
<1>3. /\ j.at = "batch" /\ j.todo = job[r].todo /\ j.batch = {} /\ j.given = {}
      /\ j.out = out /\ j.errors = errors
      /\ j \in Job
  <2>1. job[r] \in Job
    BY JobFields
  <2>. QED BY <2>1, <1>1, <1>2 DEF Job
<1>. HIDE DEF j
<1>4. CacheHoldsAnswers' /\ cached' \in [Contents -> Verdicts]
  <2>1. cached \in [Contents -> Verdicts]
    BY DEF MInv, TypeOK
  <2>2. cached' \in [Contents -> Verdicts]
    BY <1>1, <2>1 DEF Verdicts
  <2>3. ASSUME NEW c \in Contents, cached'[c] # "none"
        PROVE  cached'[c] = "answer" /\ \E s \in Runs : c \in kept'[s]
    <3>1. CASE c \in job[r].given
      BY <1>1, <3>1, JobFields
    <3>2. CASE c \notin job[r].given
      BY <1>1, <2>3, <3>2 DEF MInv, CacheHoldsAnswers
    <3>. QED BY <3>1, <3>2
  <2>. QED BY <2>2, <2>3 DEF CacheHoldsAnswers
<1>5. ~ j.errors => \A c \in kept[r] : \/ c \in j.todo \cup j.batch \cup j.given
                                       \/ j.out[c] = "answer"
  <2>. SUFFICES ASSUME ~ j.errors, NEW c \in kept[r], c \notin j.todo \cup j.batch \cup j.given
                PROVE  j.out[c] = "answer"
    OBVIOUS
  <2>1. c \in Contents /\ job[r].batch = {} /\ ~ job[r].errors /\ c \notin job[r].todo
    BY <1>2, <1>3, JobFields
  <2>2. c \in job[r].given \/ job[r].out[c] = "answer"
    BY <1>1, <2>1 DEF MInv, JobForgetsNothing, Pending
  <2>. QED BY <1>2, <1>3, <2>1, <2>2
<1>6. faults' \in 0..MaxFaults
  BY <1>1, SmoothFacts DEF MInv
<1>. QED BY <1>1, <1>3, <1>4, <1>5, <1>6, JobFields, JobKeepsMInv DEF Smooth

LEMMA EnricherDoneKeepsMInv == ASSUME MInv, NEW r \in Runs, EnricherDone(r) PROVE MInv'
<1>. DEFINE j == [job[r] EXCEPT !.at = "over"]
<1>1. /\ job[r].at = "batch" /\ job[r].todo \cup job[r].batch \cup job[r].given = {}
      /\ job' = [job EXCEPT ![r] = j]
      /\ UNCHANGED <<pc, found, kept, reply, analysed, tables, cached>> /\ Smooth
  BY JobFields DEF EnricherDone
<1>2. /\ j.at = "over" /\ j.todo = job[r].todo /\ j.batch = job[r].batch
      /\ j.given = job[r].given /\ j.out = job[r].out /\ j.errors = job[r].errors
      /\ j \in Job
  <2>1. job[r] \in Job
    BY JobFields
  <2>. QED BY <2>1, <1>1 DEF Job
<1>. HIDE DEF j
<1>3. CacheHoldsAnswers' /\ cached' \in [Contents -> Verdicts] /\ faults' \in 0..MaxFaults
  BY <1>1, CacheStays, SmoothFacts DEF MInv, TypeOK
<1>4. ~ j.errors => \A c \in kept[r] : \/ c \in j.todo \cup j.batch \cup j.given
                                       \/ j.out[c] = "answer"
  BY <1>1, <1>2 DEF MInv, JobForgetsNothing, Pending
<1>. QED BY <1>1, <1>2, <1>3, <1>4, JobFields, JobKeepsMInv DEF Smooth

LEMMA CrashKeepsMInv == ASSUME MInv, Crash PROVE MInv'
<1>. USE DEF Active, Called, Saving, tables
<1>1. /\ TypeOK /\ Fault
      /\ pc' = [r \in Runs |-> IF pc[r] \in Active THEN "dead" ELSE pc[r]]
      /\ UNCHANGED <<found, kept, log, job, reply, analysed, tables, cached>>
  BY DEF MInv, Crash
<1>2. pc' \in [Runs -> {"idle", "done", "dead"} \cup Active] /\ faults' \in 0..MaxFaults
  BY <1>1, FaultFacts DEF TypeOK
<1>3. \A r \in Runs : pc'[r] = pc[r] \/ pc'[r] = "dead"
  BY <1>1
<1>4. \A r \in Runs : pc[r] \in {"done", "dead"} => pc'[r] = pc[r]
  BY <1>1
<1>5. \A r \in Runs : pc'[r] \in {"idle", "done", "dead"}
  BY <1>1 DEF TypeOK
<1>6. TypeOK'
  BY <1>1, <1>2 DEF TypeOK
<1>7. JobIsForKept' /\ JobForgetsNothing' /\ CacheHoldsAnswers'
  BY <1>1, <1>3, JobsStay, CacheStays
<1>8. RowsAreKept' /\ VerdictsAreLate' /\ OwnRowsAreSettled'
  BY <1>1, <1>3, <1>4, RowsStay
<1>9. FoundIsStored'
  BY <1>1, <1>3, <1>4, FoundStays
<1>10. ReplyIsComplete'
  BY <1>1, <1>5, RepliesStay
<1>. QED BY <1>6, <1>7, <1>8, <1>9, <1>10 DEF MInv

LEMMA RestartKeepsMInv == ASSUME MInv, EnricherRestarts PROVE MInv'
<1>. USE DEF tables
<1>1. /\ TypeOK /\ Fault /\ cached' = Unknown /\ job' = [r \in Runs |-> NoJob]
      /\ UNCHANGED <<pc, found, kept, log, reply, analysed, tables>>
  BY DEF MInv, EnricherRestarts
<1>2. TypeOK'
  BY <1>1, FaultFacts, NoJobIsAJob DEF TypeOK
<1>3. CacheHoldsAnswers'
  BY <1>1 DEF CacheHoldsAnswers, Unknown
<1>4. JobIsForKept' /\ JobForgetsNothing'
  BY <1>1 DEF JobIsForKept, JobForgetsNothing, Pending, NoJob
<1>5. ReplyIsComplete' /\ RowsAreKept' /\ VerdictsAreLate' /\ OwnRowsAreSettled' /\ FoundIsStored'
  BY <1>1, RepliesStay, RowsStay, FoundStays
<1>. QED BY <1>2, <1>3, <1>4, <1>5 DEF MInv

-----------------------------------------------------------------------------
(* The invariant holds.                                                     *)

LEMMA InitMInv == Init => MInv
<1>. SUFFICES ASSUME Init PROVE MInv
  OBVIOUS
<1>1. 0 \in 0..MaxFaults
  BY MentionAssumption
<1>2. TypeOK
  BY <1>1, NoJobIsAJob DEF Init, TypeOK
<1>3. CacheHoldsAnswers /\ VerdictsAreLate
  BY DEF Init, CacheHoldsAnswers, VerdictsAreLate, Unknown
<1>4. JobIsForKept /\ JobForgetsNothing /\ ReplyIsComplete
  BY DEF Init, JobIsForKept, JobForgetsNothing, ReplyIsComplete, Pending, NoJob
<1>5. RowsAreKept /\ OwnRowsAreSettled /\ FoundIsStored
  BY MentionAssumption DEF Init, RowsAreKept, OwnRowsAreSettled, FoundIsStored
<1>. QED BY <1>2, <1>3, <1>4, <1>5 DEF MInv

LEMMA StepMInv == MInv /\ [Next]_vars => MInv'
<1>. SUFFICES ASSUME MInv, [Next]_vars PROVE MInv'
  OBVIOUS
<1>1. ASSUME NEW r \in Runs, Orchestrate(r) PROVE MInv'
  BY <1>1, StartKeepsMInv, FindKeepsMInv, CollectDoneKeepsMInv, SaveMentionsKeepsMInv,
     CallKeepsMInv, TakeReplyKeepsMInv, CallFailsKeepsMInv, SaveEnrichmentsKeepsMInv,
     ReadWindowKeepsMInv DEF Orchestrate
<1>2. ASSUME NEW r \in Runs, Enricher(r) PROVE MInv'
  BY <1>2, LookUpKeepsMInv, NextBatchKeepsMInv, AttemptKeepsMInv, CacheBatchKeepsMInv,
     EnricherDoneKeepsMInv DEF Enricher
<1>3. CASE Crash \/ EnricherRestarts
  BY <1>3, CrashKeepsMInv, RestartKeepsMInv
<1>4. CASE UNCHANGED vars
  <2>1. UNCHANGED <<pc, found, kept, log, job, reply, analysed, mentions, enrichment,
                    cached, faults>>
    BY <1>4 DEF vars
  <2>2. TypeOK' /\ CacheHoldsAnswers'
    BY <2>1 DEF MInv, TypeOK, CacheHoldsAnswers
  <2>3. JobIsForKept' /\ JobForgetsNothing' /\ ReplyIsComplete'
    BY <2>1 DEF MInv, JobIsForKept, JobForgetsNothing, ReplyIsComplete, Pending
  <2>4. RowsAreKept' /\ VerdictsAreLate' /\ OwnRowsAreSettled' /\ FoundIsStored'
    BY <2>1 DEF MInv, RowsAreKept, VerdictsAreLate, OwnRowsAreSettled, FoundIsStored
  <2>. QED BY <2>2, <2>3, <2>4 DEF MInv
<1>. QED BY <1>1, <1>2, <1>3, <1>4 DEF Next

(* MInv holds in every reachable state: where a row, a call and a reply can *)
(* be while a run is on its way.                                            *)
THEOREM Invariance == Spec => []MInv
BY InitMInv, StepMInv, PTL DEF Spec

-----------------------------------------------------------------------------
(* What follows.                                                            *)

(* Every reachable state is well-typed.                                     *)
THEOREM TypeCorrect == Spec => []TypeOK
<1>1. MInv => TypeOK
  BY DEF MInv
<1>. QED BY <1>1, Invariance, PTL

(* agents/bp-enricher, Handle: no neutral ever gets into the cache.         *)
THEOREM CacheIsOfAnswers == Spec => []CacheHoldsAnswers
<1>1. MInv => CacheHoldsAnswers
  BY DEF MInv
<1>. QED BY <1>1, Invariance, PTL

(* agents/bp-orchestrator/pipeline.go, steps 4 to 5: however runs, crashes  *)
(* and restarts interleave, a stored mention without the model's answer is  *)
(* of a run that has not finished or has an error to show for it.           *)
THEOREM GapsAreReported == Spec => []GapIsReported
<1>1. MInv => GapIsReported
  <2>. SUFFICES ASSUME MInv, NEW c \in Contents, mentions[c] # NoRun, enrichment[c] # "answer",
                       pc[mentions[c]] = "done", ~ log[mentions[c]]
                PROVE  FALSE
    BY DEF GapIsReported
  <2>1. mentions[c] \in Runs
    BY DEF MInv, TypeOK
  <2>. QED BY <2>1 DEF MInv, OwnRowsAreSettled
<1>. QED BY <1>1, Invariance, PTL

(* Steps 5 and 5b: what a run without an error analyses of the mentions it  *)
(* stored is what the table has, and it is the model's answer.              *)
THEOREM OwnVerdictsAreStored == Spec => []OwnVerdictIsStored
<1>1. MInv => OwnVerdictIsStored
  BY DEF MInv, OwnRowsAreSettled, OwnVerdictIsStored
<1>. QED BY <1>1, Invariance, PTL

(* Step 5b: what a run without an error found and misses in its window is   *)
(* another run's row, and that run has not finished or has failed it.       *)
THEOREM SilentMissesAreOthers == Spec => SilentMissNeedsAnotherRun
<1>1. ASSUME MInv, NEW r \in Runs, ReadWindow(r), ~ log'[r], NEW c \in Missed(r)
      PROVE  /\ mentions[c] \in Runs \ {r}
             /\ pc[mentions[c]] # "done" \/ log[mentions[c]]
  <2>1. TypeOK /\ pc[r] = "window"
    BY <1>1 DEF MInv, ReadWindow, Goto
  <2>2. Smooth /\ analysed' = [analysed EXCEPT ![r] = enrichment]
    BY <1>1, <2>1, FailureFacts DEF ReadWindow
  <2>3. ~ log[r] /\ c \in found[r] /\ c \in Contents /\ enrichment[c] = "none"
    BY <1>1, <2>1, <2>2 DEF Smooth, Missed, TypeOK
  <2>4. mentions[c] # NoRun
    BY <1>1, <2>1, <2>3 DEF MInv, FoundIsStored
  <2>5. mentions[c] \in Runs
    BY <2>1, <2>3, <2>4 DEF TypeOK
  <2>6. mentions[c] # r
    BY <1>1, <2>1, <2>3 DEF MInv, OwnRowsAreSettled
  <2>. QED BY <1>1, <2>3, <2>5, <2>6 DEF MInv, OwnRowsAreSettled
<1>2. MInv /\ [Next]_vars =>
         [\A r \in Runs : ReadWindow(r) /\ ~ log'[r] =>
             \A c \in Missed(r) :
                 LET owner == mentions[c]
                 IN  owner \in Runs \ {r} /\ (pc[owner] # "done" \/ log[owner])]_vars
  BY <1>1
<1>. QED BY <1>2, Invariance, PTL DEF Spec, SilentMissNeedsAnotherRun

=============================================================================
