--------------------------- MODULE AlertBookProofs ---------------------------
(***************************************************************************)
(* Theorems about AlertBook.tla, for any executions and dedupe keys, any   *)
(* length of an answer and any number of faults.  PipeInv is about the     *)
(* pipeline and what it returns, FeedInv about the open page.              *)
(***************************************************************************)
EXTENDS AlertBook, SumTheorems

-----------------------------------------------------------------------------
(* The inductive invariant.                                                 *)

(* An execution writes its rows once, so a row's execution is past that.    *)
Writers == {"lookup", "respond", "drafts", "done", "dead"}
RowsHaveWriters ==
    \A k \in Keys, r \in Runs : table[k] = r => pc[r] \in Writers

(* created_at is never 0, which is what no cursor is.                       *)
StartsCount == \A r \in Runs : pc[r] # "idle" => started[r] >= 1

(* The alerts of an execution without an error are in the table, and from   *)
(* the lookup on it has the ids of the rows.                                *)
RaisedAreStored ==
    \A r \in Runs : ~ log[r] /\ pc[r] \in Writers \ {"dead"} =>
        \A k \in raised[r] :
            /\ table[k] # NoRun
            /\ pc[r] # "lookup" => ids[r][k] = table[k]

(* Its urgent alerts have a reply and then a draft.                         *)
UrgentAreAnswered ==
    \A r \in Runs :
        /\ urgent[r] \subseteq raised[r]
        /\ ~ log[r] /\ pc[r] = "drafts" => drafting[r] = urgent[r]
        /\ ~ log[r] /\ pc[r] = "done" => urgent[r] \subseteq drafted[r]

PipeInv ==
    /\ TypeOK /\ clock >= 1
    /\ RowsHaveWriters /\ StartsCount /\ RaisedAreStored /\ UrgentAreAnswered

(* Nothing on screen at first paint is newer than the cursor, and the       *)
(* cursor is no newer than the table.                                       *)
CursorIsBetween ==
    /\ page = "closed" => cursor = 0 /\ painted = {} /\ receipts = {}
    /\ \A k \in painted : k \in Stored /\ CreatedAt(k) <= cursor
    /\ cursor # 0 => \E k \in Stored : cursor <= CreatedAt(k)

(* As long as executions do not overlap, one starts after the others ended. *)
EndsBeforeNow ==
    \A r \in Runs : pc[r] \in {"done", "dead"} => started[r] < clock
OneAtATime ==
    "overlap" \notin excuse =>
        \A r, o \in Runs : pc[r] \in Active /\ o # r =>
            /\ pc[o] \notin Active
            /\ pc[o] # "idle" => started[o] < started[r]

FeedInv ==
    /\ CursorIsBetween /\ EndsBeforeNow /\ OneAtATime
    /\ FirstPaintReceiptsComeFromTheCut
    /\ QuietFeedPassesNothing

BInv == PipeInv /\ FeedInv

-----------------------------------------------------------------------------
(* What a step does to the functions of the state.                          *)

LEMMA GotoFacts ==
    ASSUME TypeOK, NEW r \in Runs, NEW from, NEW to \in {"idle", "done", "dead"} \cup Active,
           Goto(r, from, to)
    PROVE  /\ pc' \in [Runs -> {"idle", "done", "dead"} \cup Active]
           /\ pc[r] = from /\ pc'[r] = to /\ \A s \in Runs \ {r} : pc'[s] = pc[s]
BY DEF Goto, TypeOK

LEMMA LoggedFacts ==
    ASSUME TypeOK, NEW r \in Runs, NEW faulty \in BOOLEAN, Logged(r, faulty)
    PROVE  /\ log' \in [Runs -> BOOLEAN] /\ faults' \in 0..MaxFaults
           /\ log'[r] = (log[r] \/ faulty) /\ \A s \in Runs \ {r} : log'[s] = log[s]
<1>1. log \in [Runs -> BOOLEAN] /\ (log[r] \/ faulty) \in BOOLEAN
  BY DEF TypeOK
<1>2. log' = [log EXCEPT ![r] = log[r] \/ faulty]
  BY DEF Logged
<1>3. faults' \in 0..MaxFaults
  BY AlertAssumption DEF Logged, TypeOK
<1>. QED BY <1>1, <1>2, <1>3

(* The newest of what arrived.                                              *)
LEMMA LargestExists ==
    ASSUME NEW n \in Nat, NEW T \in SUBSET (0..n), T # {}
    PROVE  \E t \in T : \A u \in T : u <= t
<1>. DEFINE Above(t) == {x \in 0..n : t < x}
            S == 0..n
            B == {Above(t) : t \in T}
<1>1. IsFiniteSet(S)
  BY FS_Interval
<1>2. \A t \in T : Above(t) \in SUBSET S
  OBVIOUS
<1>3. PICK t \in T : \A u \in T : Above(u) \subseteq Above(t) => Above(u) = Above(t)
  <2>. HIDE DEF Above, S
  <2>1. B \in SUBSET (SUBSET S) /\ B # {}
    BY <1>2
  <2>2. \E b \in B : \A c \in B : c \subseteq b => c = b
    <3>. HIDE DEF B
    <3>. QED BY <1>1, <2>1, SmallestSet
  <2>. QED BY <2>2
<1>4. ASSUME NEW u \in T, u > t PROVE FALSE
  <2>1. Above(u) \subseteq Above(t) /\ u \in Above(t) /\ u \notin Above(u)
    BY <1>4
  <2>. QED BY <1>3, <2>1
<1>5. \A u \in T : u <= t
  BY <1>4
<1>. QED BY <1>5

LEMMA NewestFacts ==
    ASSUME TypeOK, NEW A \in SUBSET Stored, A # {}
    PROVE  /\ \E k \in A : Newest(A) = CreatedAt(k)
           /\ \A k \in A : CreatedAt(k) <= Newest(A)
<1>. DEFINE T == {CreatedAt(k) : k \in A}
<1>1. clock \in Nat /\ T \in SUBSET (0..clock) /\ T # {}
  BY DEF TypeOK, Stored, CreatedAt
<1>2. \E t \in T : \A u \in T : u <= t
  <2>. HIDE DEF T
  <2>. QED BY <1>1, LargestExists
<1>3. \E t \in T : \A k \in A : CreatedAt(k) <= t
  BY <1>2
<1>4. Newest(A) = CHOOSE t \in T : \A k \in A : CreatedAt(k) <= t
  BY DEF Newest
<1>. QED BY <1>3, <1>4

LEMMA CreatedAtType ==
    ASSUME TypeOK, NEW k \in Stored
    PROVE  k \in Keys /\ table[k] \in Runs /\ CreatedAt(k) \in 0..clock
BY DEF TypeOK, Stored, CreatedAt

LEMMA RowsAreOld ==
    ASSUME PipeInv, NEW k \in Stored
    PROVE  /\ k \in Keys /\ table[k] \in Runs /\ pc[table[k]] \in Writers
           /\ CreatedAt(k) = started[table[k]] /\ CreatedAt(k) \in 1..clock
<1>1. k \in Keys /\ table[k] \in Runs /\ CreatedAt(k) \in 0..clock
  BY CreatedAtType DEF PipeInv
<1>2. pc[table[k]] \in Writers
  BY <1>1 DEF PipeInv, RowsHaveWriters
<1>3. started[table[k]] >= 1
  BY <1>1, <1>2 DEF PipeInv, StartsCount, Writers
<1>. QED BY <1>1, <1>2, <1>3 DEF CreatedAt, PipeInv, TypeOK

-----------------------------------------------------------------------------
(* A step of the pipeline that writes no row leaves the feed alone.         *)

LEMMA FeedStays ==
    ASSUME BInv, UNCHANGED <<pageVars, excuse, started, whole, table>>,
           clock' \in Nat, clock <= clock',
           \A r \in Runs : /\ pc'[r] \in Active => pc[r] \in Active
                           /\ pc'[r] = "idle" <=> pc[r] = "idle"
                           /\ pc'[r] \in {"done", "dead"} =>
                                 pc[r] \in {"done", "dead"} \/ clock < clock'
    PROVE  FeedInv'
<1>1. UNCHANGED <<page, shown, painted, receipts, cursor>>
  BY DEF pageVars
<1>2. Stored' = Stored /\ \A k : CreatedAt(k)' = CreatedAt(k)
  BY DEF Stored, CreatedAt
<1>3. CursorIsBetween'
  BY <1>1, <1>2 DEF BInv, FeedInv, CursorIsBetween
<1>4. EndsBeforeNow'
  <2>. SUFFICES ASSUME NEW r \in Runs, pc'[r] \in {"done", "dead"} PROVE started'[r] < clock'
    BY DEF EndsBeforeNow
  <2>1. started[r] \in 0..clock /\ clock \in Nat
    BY DEF BInv, PipeInv, TypeOK
  <2>2. CASE pc[r] \in {"done", "dead"}
    BY <2>1, <2>2 DEF BInv, FeedInv, EndsBeforeNow
  <2>3. CASE clock < clock'
    BY <2>1, <2>3
  <2>. QED BY <2>2, <2>3
<1>5. OneAtATime'
  BY DEF BInv, FeedInv, OneAtATime
<1>6. FirstPaintReceiptsComeFromTheCut'
  BY <1>1, <1>2 DEF BInv, FeedInv, FirstPaintReceiptsComeFromTheCut
<1>7. QuietFeedPassesNothing'
  <2>1. Passed' = Passed
    BY <1>1, <1>2 DEF Passed, After
  <2>. QED BY <2>1 DEF BInv, FeedInv, QuietFeedPassesNothing
<1>. QED BY <1>3, <1>4, <1>5, <1>6, <1>7 DEF FeedInv

-----------------------------------------------------------------------------
(* The pipeline.                                                            *)

LEMMA DetectKeepsBInv == ASSUME BInv, NEW r \in Runs, Detect(r) PROVE BInv'
<1>. USE DEF Active, Writers
<1>1. PICK R \in SUBSET Keys, U \in SUBSET Keys, faulty \in BOOLEAN :
         /\ U \subseteq R
         /\ raised' = [raised EXCEPT ![r] = R]
         /\ urgent' = [urgent EXCEPT ![r] = U]
         /\ ids' = [ids EXCEPT ![r] = [k \in Keys |-> IF k \in R THEN r ELSE NoRun]]
         /\ pc' = [pc EXCEPT ![r] = IF R = {} THEN "respond" ELSE "insert"]
         /\ Logged(r, faulty)
  BY DEF Detect
<1>2. /\ TypeOK /\ pc[r] = "detect"
      /\ UNCHANGED <<started, whole, drafting, drafted, table, clock, pageVars, excuse>>
  BY DEF Detect, Lasting, BInv, PipeInv
<1>3. UNCHANGED <<page, shown, painted, receipts, cursor>>
  BY <1>2 DEF pageVars
<1>4. /\ pc' \in [Runs -> {"idle", "done", "dead"} \cup Active]
      /\ pc'[r] = (IF R = {} THEN "respond" ELSE "insert")
      /\ \A s \in Runs \ {r} : pc'[s] = pc[s]
  BY <1>1, <1>2 DEF TypeOK
<1>5. /\ log' \in [Runs -> BOOLEAN] /\ faults' \in 0..MaxFaults
      /\ \A s \in Runs : log[s] => log'[s]
  BY <1>1, <1>2, LoggedFacts
<1>6. /\ raised' \in [Runs -> SUBSET Keys] /\ raised'[r] = R
      /\ \A s \in Runs \ {r} : raised'[s] = raised[s]
  BY <1>1, <1>2 DEF TypeOK
<1>7. /\ urgent' \in [Runs -> SUBSET Keys] /\ urgent'[r] = U
      /\ \A s \in Runs \ {r} : urgent'[s] = urgent[s]
  BY <1>1, <1>2 DEF TypeOK
<1>8. /\ ids' \in [Runs -> [Keys -> Runs \cup {NoRun}]]
      /\ \A s \in Runs \ {r} : ids'[s] = ids[s]
  BY <1>1, <1>2 DEF TypeOK
<1>9. TypeOK'
  BY <1>2, <1>3, <1>4, <1>5, <1>6, <1>7, <1>8 DEF TypeOK
<1>10. RowsHaveWriters' /\ StartsCount'
  BY <1>2, <1>4 DEF BInv, PipeInv, RowsHaveWriters, StartsCount
<1>11. RaisedAreStored'
  BY <1>2, <1>4, <1>5, <1>6, <1>8 DEF BInv, PipeInv, RaisedAreStored
<1>12. UrgentAreAnswered'
  BY <1>1, <1>2, <1>4, <1>5, <1>6, <1>7 DEF BInv, PipeInv, UrgentAreAnswered
<1>13. FeedInv'
  BY <1>2, <1>4, FeedStays DEF TypeOK
<1>. QED BY <1>2, <1>9, <1>10, <1>11, <1>12, <1>13 DEF BInv, PipeInv

LEMMA LookUpKeepsBInv == ASSUME BInv, NEW r \in Runs, LookUpIds(r) PROVE BInv'
<1>. USE DEF Active, Writers
<1>1. PICK faulty \in BOOLEAN :
         /\ Logged(r, faulty)
         /\ ids' = [ids EXCEPT ![r] = StoredIDs(r)] \/ (faulty /\ UNCHANGED ids)
  BY DEF LookUpIds
<1>2. /\ TypeOK /\ Goto(r, "lookup", "respond")
      /\ UNCHANGED <<started, whole, raised, urgent, drafting, drafted, table, clock,
                     pageVars, excuse>>
  BY DEF LookUpIds, Lasting, BInv, PipeInv
<1>3. UNCHANGED <<page, shown, painted, receipts, cursor>>
  BY <1>2 DEF pageVars
<1>4. /\ pc' \in [Runs -> {"idle", "done", "dead"} \cup Active]
      /\ pc[r] = "lookup" /\ pc'[r] = "respond" /\ \A s \in Runs \ {r} : pc'[s] = pc[s]
      /\ log' \in [Runs -> BOOLEAN] /\ faults' \in 0..MaxFaults
      /\ \A s \in Runs : log[s] => log'[s]
      /\ faulty => log'[r]
  BY <1>1, <1>2, GotoFacts, LoggedFacts
<1>5. /\ ids' \in [Runs -> [Keys -> Runs \cup {NoRun}]]
      /\ \A s \in Runs \ {r} : ids'[s] = ids[s]
      /\ log'[r] \/ \A k \in raised[r] : ids'[r][k] = table[k]
  <2>1. StoredIDs(r) \in [Keys -> Runs \cup {NoRun}] /\ raised[r] \subseteq Keys
    BY <1>2 DEF TypeOK, StoredIDs
  <2>2. \A k \in raised[r] : StoredIDs(r)[k] = table[k]
    BY <2>1 DEF StoredIDs
  <2>. QED BY <1>1, <1>2, <1>4, <2>1, <2>2 DEF TypeOK
<1>6. TypeOK'
  BY <1>2, <1>3, <1>4, <1>5 DEF TypeOK
<1>7. RowsHaveWriters' /\ StartsCount'
  BY <1>2, <1>4 DEF BInv, PipeInv, RowsHaveWriters, StartsCount
<1>8. RaisedAreStored'
  BY <1>2, <1>4, <1>5 DEF BInv, PipeInv, RaisedAreStored
<1>9. UrgentAreAnswered'
  BY <1>2, <1>4 DEF BInv, PipeInv, UrgentAreAnswered
<1>10. FeedInv'
  BY <1>2, <1>4, FeedStays DEF TypeOK
<1>. QED BY <1>2, <1>6, <1>7, <1>8, <1>9, <1>10 DEF BInv, PipeInv

LEMMA RespondKeepsBInv == ASSUME BInv, NEW r \in Runs, Respond(r) PROVE BInv'
<1>. USE DEF Active, Writers
<1>1. PICK replies \in SUBSET urgent[r] :
         /\ drafting' = [drafting EXCEPT ![r] = replies]
         /\ Logged(r, replies # urgent[r])
  BY DEF Respond
<1>2. /\ TypeOK /\ Goto(r, "respond", "drafts")
      /\ UNCHANGED <<started, whole, raised, urgent, ids, drafted, table, clock,
                     pageVars, excuse>>
  BY DEF Respond, Lasting, BInv, PipeInv
<1>3. UNCHANGED <<page, shown, painted, receipts, cursor>>
  BY <1>2 DEF pageVars
<1>4. /\ pc' \in [Runs -> {"idle", "done", "dead"} \cup Active]
      /\ pc[r] = "respond" /\ pc'[r] = "drafts" /\ \A s \in Runs \ {r} : pc'[s] = pc[s]
      /\ log' \in [Runs -> BOOLEAN] /\ faults' \in 0..MaxFaults
      /\ \A s \in Runs : log[s] => log'[s]
      /\ ~ log'[r] => replies = urgent[r]
  BY <1>1, <1>2, GotoFacts, LoggedFacts
<1>5. /\ drafting' \in [Runs -> SUBSET Keys] /\ drafting'[r] = replies
      /\ \A s \in Runs \ {r} : drafting'[s] = drafting[s]
  BY <1>1, <1>2 DEF TypeOK
<1>6. TypeOK'
  BY <1>2, <1>3, <1>4, <1>5 DEF TypeOK
<1>7. RowsHaveWriters' /\ StartsCount'
  BY <1>2, <1>4 DEF BInv, PipeInv, RowsHaveWriters, StartsCount
<1>8. RaisedAreStored'
  BY <1>2, <1>4 DEF BInv, PipeInv, RaisedAreStored
<1>9. UrgentAreAnswered'
  BY <1>2, <1>4, <1>5 DEF BInv, PipeInv, UrgentAreAnswered
<1>10. FeedInv'
  BY <1>2, <1>4, FeedStays DEF TypeOK
<1>. QED BY <1>2, <1>6, <1>7, <1>8, <1>9, <1>10 DEF BInv, PipeInv

LEMMA SaveDraftsKeepsBInv == ASSUME BInv, NEW r \in Runs, SaveDrafts(r) PROVE BInv'
<1>. USE DEF Active, Writers
<1>1. PICK written \in {{}, Writable(r)}, faulty \in BOOLEAN :
         /\ written = Writable(r) \/ faulty
         /\ drafted' = [drafted EXCEPT ![r] = written]
         /\ Logged(r, faulty)
  BY DEF SaveDrafts
<1>2. /\ TypeOK /\ Goto(r, "drafts", "done")
      /\ drafting' = [drafting EXCEPT ![r] = {}]
      /\ clock' = clock + 1
      /\ UNCHANGED <<started, whole, raised, urgent, ids, table, pageVars, excuse>>
  BY DEF SaveDrafts, BInv, PipeInv
<1>3. UNCHANGED <<page, shown, painted, receipts, cursor>>
  BY <1>2 DEF pageVars
<1>4. /\ pc' \in [Runs -> {"idle", "done", "dead"} \cup Active]
      /\ pc[r] = "drafts" /\ pc'[r] = "done" /\ \A s \in Runs \ {r} : pc'[s] = pc[s]
      /\ log' \in [Runs -> BOOLEAN] /\ faults' \in 0..MaxFaults
      /\ \A s \in Runs : log[s] => log'[s]
      /\ faulty => log'[r]
  BY <1>1, <1>2, GotoFacts, LoggedFacts
<1>5. Writable(r) \subseteq Keys
  BY <1>2 DEF Writable, TypeOK
<1>6. /\ drafting' \in [Runs -> SUBSET Keys]
      /\ drafted' \in [Runs -> SUBSET Keys] /\ drafted'[r] = written
      /\ \A s \in Runs \ {r} : drafting'[s] = drafting[s] /\ drafted'[s] = drafted[s]
  BY <1>1, <1>2, <1>5 DEF TypeOK
<1>7. clock \in Nat /\ clock' \in Nat /\ clock < clock'
      /\ started' \in [Runs -> 0..clock'] /\ cursor' \in 0..clock'
  BY <1>2, <1>3 DEF TypeOK
<1>8. TypeOK'
  BY <1>2, <1>3, <1>4, <1>6, <1>7 DEF TypeOK
<1>9. RowsHaveWriters' /\ StartsCount'
  BY <1>2, <1>4 DEF BInv, PipeInv, RowsHaveWriters, StartsCount
<1>10. RaisedAreStored'
  BY <1>2, <1>4 DEF BInv, PipeInv, RaisedAreStored
<1>11. ~ log'[r] => urgent[r] \subseteq written
  <2>. SUFFICES ASSUME ~ log'[r], NEW k \in urgent[r] PROVE k \in written
    OBVIOUS
  <2>1. ~ log[r] /\ k \in drafting[r] /\ k \in raised[r]
    BY <1>4 DEF BInv, PipeInv, UrgentAreAnswered
  <2>2. ids[r][k] = table[k]
    BY <1>4, <2>1 DEF BInv, PipeInv, RaisedAreStored
  <2>. QED BY <1>1, <1>4, <2>1, <2>2 DEF Writable
<1>12. UrgentAreAnswered'
  BY <1>2, <1>4, <1>6, <1>11 DEF BInv, PipeInv, UrgentAreAnswered
<1>13. FeedInv'
  BY <1>2, <1>4, <1>7, FeedStays
<1>14. clock' >= 1
  BY <1>7 DEF BInv, PipeInv
<1>. QED BY <1>8, <1>9, <1>10, <1>12, <1>13, <1>14 DEF BInv, PipeInv

LEMMA CrashKeepsBInv == ASSUME BInv, Crash PROVE BInv'
<1>. USE DEF Active, Writers
<1>. DEFINE dies == {r \in Runs : pc[r] \in Active}
<1>1. /\ TypeOK /\ faults' \in 0..MaxFaults /\ clock' = clock + 1
      /\ pc' = [r \in Runs |-> IF r \in dies THEN "dead" ELSE pc[r]]
      /\ raised' = [r \in Runs |-> IF r \in dies THEN {} ELSE raised[r]]
      /\ urgent' = [r \in Runs |-> IF r \in dies THEN {} ELSE urgent[r]]
      /\ drafting' = [r \in Runs |-> IF r \in dies THEN {} ELSE drafting[r]]
      /\ ids' = [r \in Runs |-> IF r \in dies THEN [k \in Keys |-> NoRun] ELSE ids[r]]
      /\ log' = [r \in Runs |-> r \notin dies /\ log[r]]
      /\ UNCHANGED <<started, whole, drafted, table, pageVars, excuse>>
  BY AlertAssumption DEF Crash, BInv, PipeInv, TypeOK
<1>2. UNCHANGED <<page, shown, painted, receipts, cursor>>
  BY <1>1 DEF pageVars
<1>3. /\ pc' \in [Runs -> {"idle", "done", "dead"} \cup Active]
      /\ raised' \in [Runs -> SUBSET Keys] /\ urgent' \in [Runs -> SUBSET Keys]
      /\ drafting' \in [Runs -> SUBSET Keys]
  BY <1>1 DEF TypeOK
<1>4. ids' \in [Runs -> [Keys -> Runs \cup {NoRun}]]
  BY <1>1 DEF TypeOK
<1>5. log' \in [Runs -> BOOLEAN]
  <2>1. \A r \in Runs : (r \notin dies /\ log[r]) \in BOOLEAN
    OBVIOUS
  <2>. HIDE DEF dies
  <2>. QED BY <1>1, <2>1, Zenon
<1>6. clock \in Nat /\ clock' \in Nat /\ clock < clock'
      /\ started' \in [Runs -> 0..clock'] /\ cursor' \in 0..clock'
  BY <1>1, <1>2 DEF TypeOK
<1>7. TypeOK'
  BY <1>1, <1>2, <1>3, <1>4, <1>5, <1>6 DEF TypeOK
<1>8. \A r \in Runs :
         \/ r \in dies /\ pc'[r] = "dead" /\ urgent'[r] = {} /\ raised'[r] = {}
         \/ /\ r \notin dies /\ pc'[r] = pc[r] /\ urgent'[r] = urgent[r]
            /\ raised'[r] = raised[r] /\ ids'[r] = ids[r] /\ drafting'[r] = drafting[r]
            /\ log'[r] = log[r]
  <2>1. \A r \in Runs \ dies : log'[r] = log[r]
    <3>1. log \in [Runs -> BOOLEAN]
      BY <1>1 DEF TypeOK
    <3>. HIDE DEF dies
    <3>. QED BY <1>1, <3>1
  <2>. QED BY <1>1, <2>1
<1>9. RowsHaveWriters' /\ StartsCount'
  BY <1>1, <1>8 DEF BInv, PipeInv, RowsHaveWriters, StartsCount
<1>10. RaisedAreStored'
  BY <1>1, <1>8 DEF BInv, PipeInv, RaisedAreStored
<1>11. UrgentAreAnswered'
  BY <1>1, <1>8 DEF BInv, PipeInv, UrgentAreAnswered
<1>12. FeedInv'
  BY <1>1, <1>6, <1>8, FeedStays
<1>13. clock' >= 1
  BY <1>6 DEF BInv, PipeInv
<1>. QED BY <1>7, <1>9, <1>10, <1>11, <1>12, <1>13 DEF BInv, PipeInv

(* An execution begins: it has no rows, and it starts no earlier than the   *)
(* others ended.                                                            *)
LEMMA BeginKeepsBInv == ASSUME BInv, NEW r \in Runs, Begin(r) PROVE BInv'
<1>. USE DEF Active, Writers
<1>1. PICK later \in {0, 1}, w \in BOOLEAN :
         /\ clock' = clock + later
         /\ started' = [started EXCEPT ![r] = clock + later]
         /\ whole' = [whole EXCEPT ![r] = w]
  BY DEF Begin
<1>2. /\ TypeOK /\ Goto(r, "idle", "detect")
      /\ excuse' = excuse \cup {why \in {"overlap"} : \E o \in Runs : pc[o] \in Active}
      /\ UNCHANGED <<raised, urgent, ids, drafting, drafted, log, table, pageVars, faults>>
  BY DEF Begin, BInv, PipeInv
<1>3. UNCHANGED <<page, shown, painted, receipts, cursor>>
  BY <1>2 DEF pageVars
<1>4. /\ pc' \in [Runs -> {"idle", "done", "dead"} \cup Active]
      /\ pc[r] = "idle" /\ pc'[r] = "detect" /\ \A s \in Runs \ {r} : pc'[s] = pc[s]
  BY <1>2, GotoFacts
<1>5. clock \in Nat /\ clock' \in Nat /\ clock <= clock'
  BY <1>1, <1>2 DEF TypeOK
<1>6. /\ started' \in [Runs -> 0..clock'] /\ started'[r] = clock'
      /\ \A s \in Runs \ {r} : started'[s] = started[s]
  BY <1>1, <1>2, <1>5 DEF TypeOK
<1>7. /\ whole' \in [Runs -> BOOLEAN]
      /\ \A s \in Runs \ {r} : whole'[s] = whole[s]
  BY <1>1, <1>2 DEF TypeOK
<1>8. cursor' \in 0..clock' /\ excuse' \subseteq {"overlap", "burst"} /\ excuse \subseteq excuse'
  <2>1. cursor' \in 0..clock'
    BY <1>2, <1>3, <1>5 DEF TypeOK
  <2>2. excuse' \subseteq {"overlap", "burst"} /\ excuse \subseteq excuse'
    BY <1>2 DEF TypeOK
  <2>. QED BY <2>1, <2>2
<1>9. TypeOK'
  BY <1>2, <1>3, <1>4, <1>5, <1>6, <1>7, <1>8 DEF TypeOK
<1>10. clock >= 1
  BY DEF BInv, PipeInv
<1>11. RowsHaveWriters'
  BY <1>2, <1>4 DEF BInv, PipeInv, RowsHaveWriters
<1>12. StartsCount'
  BY <1>4, <1>5, <1>6, <1>10 DEF BInv, PipeInv, StartsCount
<1>13. RaisedAreStored' /\ UrgentAreAnswered'
  BY <1>2, <1>4 DEF BInv, PipeInv, RaisedAreStored, UrgentAreAnswered
<1>14. Stored' = Stored
  BY <1>2 DEF Stored
<1>15. \A k \in Stored : CreatedAt(k)' = CreatedAt(k) /\ whole'[table'[k]] = whole[table[k]]
  <2>. SUFFICES ASSUME NEW k \in Stored
                PROVE  started'[table'[k]] = started[table[k]] /\ whole'[table'[k]] = whole[table[k]]
    BY DEF CreatedAt
  <2>1. table[k] \in Runs \ {r}
    BY <1>4, RowsAreOld DEF BInv
  <2>. QED BY <1>2, <1>6, <1>7, <2>1
<1>16. CursorIsBetween'
  BY <1>3, <1>14, <1>15 DEF BInv, FeedInv, CursorIsBetween
<1>17. EndsBeforeNow'
  <2>. SUFFICES ASSUME NEW s \in Runs, pc'[s] \in {"done", "dead"} PROVE started'[s] < clock'
    BY DEF EndsBeforeNow
  <2>1. s # r /\ started[s] < clock /\ started[s] \in Nat
    BY <1>2, <1>4 DEF BInv, FeedInv, EndsBeforeNow, TypeOK
  <2>. QED BY <1>5, <1>6, <2>1
<1>18. OneAtATime'
  <2>. SUFFICES ASSUME "overlap" \notin excuse', NEW s \in Runs, NEW o \in Runs,
                       pc'[s] \in Active, o # s
                PROVE  /\ pc'[o] \notin Active
                       /\ pc'[o] # "idle" => started'[o] < started'[s]
    BY DEF OneAtATime
  <2>1. \A t \in Runs : pc[t] \notin Active
    BY <1>2
  <2>2. s = r /\ pc'[o] = pc[o]
    BY <1>4, <2>1
  <2>3. pc[o] # "idle" => started[o] < clock /\ started[o] \in Nat
    BY <1>2, <2>1 DEF BInv, FeedInv, EndsBeforeNow, TypeOK
  <2>. QED BY <1>5, <1>6, <2>1, <2>2, <2>3
<1>19. FirstPaintReceiptsComeFromTheCut'
  <2>1. painted \subseteq Stored
    BY DEF BInv, FeedInv, CursorIsBetween
  <2>. QED BY <1>3, <1>15, <2>1 DEF BInv, FeedInv, FirstPaintReceiptsComeFromTheCut
<1>20. QuietFeedPassesNothing'
  <2>1. After(cursor)' = After(cursor)
    BY <1>3, <1>14, <1>15 DEF After
  <2>2. Passed' = Passed
    BY <1>3, <1>14, <2>1 DEF Passed
  <2>. QED BY <1>8, <2>2 DEF BInv, FeedInv, QuietFeedPassesNothing
<1>. QED BY <1>9, <1>10, <1>5, <1>11, <1>12, <1>13, <1>16, <1>17, <1>18, <1>19, <1>20
         DEF BInv, PipeInv, FeedInv

(* The rows are written.  They are newer than every other, so the cursor of *)
(* the open page is before them: this is where overlapping executions would *)
(* break the feed.                                                          *)
LEMMA InsertKeepsBInv == ASSUME BInv, NEW r \in Runs, InsertAlerts(r) PROVE BInv'
<1>. USE DEF Active, Writers
<1>1. PICK next \in {"lookup", "respond"}, faulty \in BOOLEAN :
         /\ Goto(r, "insert", next) /\ Logged(r, faulty)
         /\ table' \in {table, Inserted(r)}
         /\ ~ faulty => table' = Inserted(r) /\ next = "lookup"
  BY DEF InsertAlerts
<1>2. /\ TypeOK
      /\ UNCHANGED <<started, whole, raised, urgent, ids, drafting, drafted, clock,
                     pageVars, excuse>>
  BY DEF InsertAlerts, Lasting, BInv, PipeInv
<1>3. UNCHANGED <<page, shown, painted, receipts, cursor>>
  BY <1>2 DEF pageVars
<1>4. /\ pc' \in [Runs -> {"idle", "done", "dead"} \cup Active]
      /\ pc[r] = "insert" /\ pc'[r] = next /\ \A s \in Runs \ {r} : pc'[s] = pc[s]
      /\ log' \in [Runs -> BOOLEAN] /\ faults' \in 0..MaxFaults
      /\ \A s \in Runs : log[s] => log'[s]
      /\ faulty => log'[r]
  BY <1>1, <1>2, GotoFacts, LoggedFacts
<1>5. /\ table' \in [Keys -> Runs \cup {NoRun}]
      /\ \A k \in Keys : \/ table'[k] = table[k]
                         \/ table[k] = NoRun /\ table'[k] = r
      /\ ~ faulty => \A k \in raised[r] : table'[k] # NoRun
  BY <1>1, <1>2, AlertAssumption DEF TypeOK, Inserted
<1>6. TypeOK'
  BY <1>2, <1>3, <1>4, <1>5 DEF TypeOK
<1>7. RowsHaveWriters'
  BY <1>4, <1>5 DEF BInv, PipeInv, RowsHaveWriters
<1>8. StartsCount'
  BY <1>2, <1>4 DEF BInv, PipeInv, StartsCount
<1>9. RaisedAreStored'
  <2>. SUFFICES ASSUME NEW s \in Runs, ~ log'[s], pc'[s] \in Writers \ {"dead"},
                       NEW k \in raised'[s]
                PROVE  table'[k] # NoRun /\ (pc'[s] # "lookup" => ids'[s][k] = table'[k])
    BY DEF RaisedAreStored
  <2>1. CASE s = r
    BY <1>1, <1>2, <1>4, <1>5, <2>1
  <2>2. CASE s # r
    <3>1. table[k] # NoRun /\ (pc[s] # "lookup" => ids[s][k] = table[k]) /\ k \in Keys
      BY <1>2, <1>4, <2>2 DEF BInv, PipeInv, RaisedAreStored, TypeOK
    <3>. QED BY <1>2, <1>4, <1>5, <2>2, <3>1
  <2>. QED BY <2>1, <2>2
<1>10. UrgentAreAnswered'
  BY <1>2, <1>4 DEF BInv, PipeInv, UrgentAreAnswered
<1>11. \A k \in Keys : k \in Stored => k \in Stored' /\ table'[k] = table[k]
  <2>. SUFFICES ASSUME NEW k \in Keys, table[k] # NoRun PROVE table'[k] # NoRun /\ table'[k] = table[k]
    BY DEF Stored
  <2>. QED BY <1>5
<1>12. \A k \in Stored : k \in Stored' /\ table'[k] = table[k] /\ CreatedAt(k)' = CreatedAt(k)
  <2>1. Stored \subseteq Keys
    BY DEF Stored
  <2>. QED BY <1>2, <1>11, <2>1 DEF CreatedAt
<1>13. painted \subseteq Stored
  BY DEF BInv, FeedInv, CursorIsBetween
<1>14. CursorIsBetween'
  BY <1>3, <1>12, <1>13 DEF BInv, FeedInv, CursorIsBetween
<1>15. EndsBeforeNow'
  BY <1>2, <1>4 DEF BInv, FeedInv, EndsBeforeNow
<1>16. OneAtATime'
  BY <1>2, <1>4 DEF BInv, FeedInv, OneAtATime
<1>17. FirstPaintReceiptsComeFromTheCut'
  BY <1>2, <1>3, <1>12, <1>13 DEF BInv, FeedInv, FirstPaintReceiptsComeFromTheCut
<1>18. QuietFeedPassesNothing'
  <2>. SUFFICES ASSUME excuse = {}, page = "open", NEW k \in Stored', k \notin shown
                PROVE  k \in After(cursor)'
    BY <1>2, <1>3 DEF QuietFeedPassesNothing, Passed
  <2>1. CASE k \in Stored
    <3>1. k \in After(cursor)
      BY <2>1 DEF BInv, FeedInv, QuietFeedPassesNothing, Passed
    <3>. QED BY <1>2, <1>3, <1>12, <2>1, <3>1 DEF After
  <2>2. CASE k \notin Stored
    <3>1. k \in Keys /\ table[k] = NoRun /\ table'[k] # NoRun
      BY <2>2 DEF Stored
    <3>2. table'[k] = r /\ CreatedAt(k)' = started[r]
      BY <1>2, <1>5, <3>1 DEF CreatedAt
    <3>3. CASE cursor = 0
      BY <1>3, <3>3 DEF After
    <3>4. CASE cursor # 0
      <4>1. PICK newest \in Stored : cursor <= CreatedAt(newest)
        BY <3>4 DEF BInv, FeedInv, CursorIsBetween
      <4>2. /\ table[newest] \in Runs /\ pc[table[newest]] \in Writers
            /\ CreatedAt(newest) = started[table[newest]]
        BY RowsAreOld DEF BInv
      <4>3. table[newest] # r
        BY <1>4, <4>2
      <4>4. started[table[newest]] < started[r]
        BY <1>4, <4>2, <4>3 DEF BInv, FeedInv, OneAtATime
      <4>5. cursor \in Nat /\ started[r] \in Nat /\ started[table[newest]] \in Nat
        BY <1>2, <4>2 DEF TypeOK
      <4>6. started[r] > cursor
        BY <4>1, <4>2, <4>4, <4>5
      <4>7. CreatedAt(k)' > cursor'
        BY <1>3, <3>2, <4>6
      <4>. QED BY <4>7 DEF After
    <3>. QED BY <3>3, <3>4
  <2>. QED BY <2>1, <2>2
<1>. QED BY <1>6, <1>7, <1>8, <1>9, <1>10, <1>14, <1>15, <1>16, <1>17, <1>18, <1>2
         DEF BInv, PipeInv, FeedInv

-----------------------------------------------------------------------------
(* The page.                                                                *)

LEMMA PipeStays ==
    ASSUME PipeInv, TypeOK', UNCHANGED <<clock, runVars, table>>
    PROVE  PipeInv'
<1>1. UNCHANGED <<pc, started, raised, urgent, ids, drafting, drafted, log>>
  BY DEF runVars
<1>. QED BY <1>1 DEF PipeInv, RowsHaveWriters, StartsCount, RaisedAreStored, UrgentAreAnswered

(* An answer with room to spare is everything there is.                     *)
LEMMA WholePage ==
    ASSUME NEW S \in SUBSET Keys, NEW p \in Pages(S), ~ (Cardinality(S) > PageLimit)
    PROVE  p = S
<1>1. IsFiniteSet(S) /\ Cardinality(S) \in Nat
  BY AlertAssumption, FS_Subset, FS_CardinalityType
<1>2. p \in SUBSET S /\ Cardinality(p) = Cardinality(S)
  BY <1>1, AlertAssumption DEF Pages
<1>. QED BY <1>1, <1>2, FS_Subset

LEMMA OpenKeepsBInv == ASSUME BInv, Open PROVE BInv'
<1>1. PICK arrived \in Pages(Stored) \cup {{}} :
         /\ faults' = faults + (IF arrived \in Pages(Stored) THEN 0 ELSE 1)
         /\ faults' <= MaxFaults
         /\ shown' = arrived /\ painted' = arrived /\ cursor' = Newest(arrived)
  BY DEF Open
<1>2. /\ TypeOK /\ page = "closed" /\ page' = "open"
      /\ excuse' = excuse \cup Overflow(Stored)
      /\ UNCHANGED <<clock, runVars, table, receipts>>
  BY DEF Open, BInv, PipeInv
<1>3. UNCHANGED <<pc, started, whole, raised, urgent, ids, drafting, drafted, log>>
  BY <1>2 DEF runVars
<1>4. arrived \subseteq Stored /\ cursor = 0 /\ receipts = {}
  BY <1>2 DEF Pages, BInv, FeedInv, CursorIsBetween
<1>5. \/ arrived = {} /\ cursor' = 0
      \/ /\ \E k \in arrived : cursor' = CreatedAt(k)
         /\ \A k \in arrived : CreatedAt(k) <= cursor'
  <2>1. CASE arrived = {}
    BY <1>1, <1>4, <2>1 DEF Newest
  <2>2. CASE arrived # {}
    BY <1>1, <1>2, <1>4, <2>2, NewestFacts
  <2>. QED BY <2>1, <2>2
<1>6. cursor' \in 0..clock'
  BY <1>2, <1>4, <1>5, CreatedAtType DEF TypeOK
<1>7. faults' \in 0..MaxFaults
  BY <1>1, <1>2, AlertAssumption DEF TypeOK
<1>8. excuse' \subseteq {"overlap", "burst"} /\ ("overlap" \in excuse => "overlap" \in excuse')
  BY <1>2 DEF TypeOK, Overflow
<1>9. shown' \subseteq Keys /\ painted' \subseteq Keys /\ receipts' \subseteq Keys
  BY <1>1, <1>2, <1>4 DEF Stored
<1>10. TypeOK'
  BY <1>2, <1>3, <1>6, <1>7, <1>8, <1>9 DEF TypeOK
<1>11. PipeInv'
  BY <1>2, <1>10, PipeStays DEF BInv
<1>12. Stored' = Stored /\ \A k : CreatedAt(k)' = CreatedAt(k)
  BY <1>2, <1>3 DEF Stored, CreatedAt
<1>13. CursorIsBetween'
  <2>1. \A k \in painted' : k \in Stored /\ CreatedAt(k) <= cursor'
    BY <1>1, <1>4, <1>5
  <2>2. cursor' # 0 => \E k \in Stored : cursor' <= CreatedAt(k)
    <3>. SUFFICES ASSUME cursor' # 0 PROVE \E k \in Stored : cursor' <= CreatedAt(k)
      OBVIOUS
    <3>1. PICK k \in Stored : cursor' = CreatedAt(k)
      BY <1>4, <1>5
    <3>2. CreatedAt(k) <= CreatedAt(k)
      BY <1>2, CreatedAtType DEF TypeOK
    <3>. QED BY <3>1, <3>2
  <2>. QED BY <1>2, <1>12, <2>1, <2>2 DEF CursorIsBetween
<1>14. EndsBeforeNow' /\ OneAtATime'
  BY <1>2, <1>3, <1>8 DEF BInv, FeedInv, EndsBeforeNow, OneAtATime
<1>15. FirstPaintReceiptsComeFromTheCut'
  BY <1>2, <1>4 DEF FirstPaintReceiptsComeFromTheCut
<1>16. QuietFeedPassesNothing'
  <2>. SUFFICES ASSUME excuse' = {} PROVE Stored \subseteq shown' \cup After(cursor)'
    BY <1>12 DEF QuietFeedPassesNothing, Passed
  <2>1. ~ (Cardinality(Stored) > PageLimit)
    BY <1>2 DEF Overflow
  <2>2. CASE arrived \in Pages(Stored)
    <3>1. Stored \in SUBSET Keys
      BY DEF Stored
    <3>. QED BY <1>1, <2>1, <2>2, <3>1, WholePage
  <2>3. CASE arrived = {}
    <3>1. cursor' = 0
      BY <1>5, <2>3
    <3>. QED BY <1>12, <3>1 DEF After
  <2>. QED BY <2>2, <2>3
<1>. QED BY <1>11, <1>13, <1>14, <1>15, <1>16 DEF BInv, FeedInv

LEMMA PollKeepsBInv == ASSUME BInv, Poll PROVE BInv'
<1>1. PICK arrived \in Pages(After(cursor)) :
         /\ shown' = shown \cup arrived
         /\ \E measurable \in {{}, arrived} : receipts' = receipts \cup measurable
         /\ cursor' = Newest(arrived)
  BY DEF Poll
<1>2. /\ TypeOK /\ page = "open"
      /\ excuse' = excuse \cup Overflow(After(cursor))
      /\ UNCHANGED <<clock, runVars, table, page, painted, faults>>
  BY DEF Poll, BInv, PipeInv
<1>3. UNCHANGED <<pc, started, whole, raised, urgent, ids, drafting, drafted, log>>
  BY <1>2 DEF runVars
<1>4. arrived \subseteq After(cursor) /\ After(cursor) \subseteq Stored /\ Stored \subseteq Keys
  BY DEF Pages, After, Stored
<1>5. \A k \in arrived : /\ CreatedAt(k) \in 1..clock
                         /\ CreatedAt(k) >= cursor
                         /\ CreatedAt(k) = cursor => ~ whole[table[k]]
  <2>. SUFFICES ASSUME NEW k \in arrived
                PROVE  /\ CreatedAt(k) \in 1..clock
                       /\ CreatedAt(k) >= cursor
                       /\ CreatedAt(k) = cursor => ~ whole[table[k]]
    OBVIOUS
  <2>1. CreatedAt(k) \in 1..clock
    BY <1>4, RowsAreOld DEF BInv
  <2>2. cursor = 0 \/ CreatedAt(k) > cursor \/ (CreatedAt(k) = cursor /\ ~ whole[table[k]])
    BY <1>4 DEF After
  <2>3. cursor \in Nat /\ clock \in Nat
    BY <1>2 DEF TypeOK
  <2>. QED BY <2>1, <2>2, <2>3
<1>6. \/ arrived = {} /\ cursor' = cursor
      \/ /\ \E k \in arrived : cursor' = CreatedAt(k)
         /\ \A k \in arrived : CreatedAt(k) <= cursor'
  <2>1. CASE arrived = {}
    BY <1>1, <2>1 DEF Newest
  <2>2. CASE arrived # {}
    BY <1>1, <1>2, <1>4, <2>2, NewestFacts
  <2>. QED BY <2>1, <2>2
<1>7. cursor' \in 0..clock' /\ cursor <= cursor'
  <2>1. cursor \in 0..clock /\ clock \in Nat
    BY <1>2 DEF TypeOK
  <2>. QED BY <1>2, <1>5, <1>6, <2>1
<1>8. /\ excuse' \subseteq {"overlap", "burst"} /\ excuse \subseteq excuse'
  BY <1>2 DEF TypeOK, Overflow
<1>9. shown' \subseteq Keys /\ receipts' \subseteq Keys /\ receipts' \subseteq receipts \cup arrived
  BY <1>1, <1>2, <1>4 DEF TypeOK
<1>10. TypeOK'
  BY <1>2, <1>3, <1>7, <1>8, <1>9 DEF TypeOK
<1>11. PipeInv'
  BY <1>2, <1>10, PipeStays DEF BInv
<1>12. Stored' = Stored /\ \A k : CreatedAt(k)' = CreatedAt(k)
  BY <1>2, <1>3 DEF Stored, CreatedAt
<1>13. CursorIsBetween'
  <2>1. \A k \in painted : k \in Stored /\ CreatedAt(k) <= cursor'
    <3>. SUFFICES ASSUME NEW k \in painted PROVE k \in Stored /\ CreatedAt(k) <= cursor'
      OBVIOUS
    <3>1. k \in Stored /\ CreatedAt(k) <= cursor
      BY DEF BInv, FeedInv, CursorIsBetween
    <3>2. CreatedAt(k) \in Nat /\ cursor \in Nat /\ cursor' \in Nat
      BY <1>2, <1>7, <3>1, CreatedAtType DEF TypeOK
    <3>. QED BY <1>7, <3>1, <3>2
  <2>2. cursor' # 0 => \E k \in Stored : cursor' <= CreatedAt(k)
    <3>1. CASE cursor' = cursor
      BY <3>1 DEF BInv, FeedInv, CursorIsBetween
    <3>2. CASE \E k \in arrived : cursor' = CreatedAt(k)
      <4>1. PICK k \in Stored : cursor' = CreatedAt(k)
        BY <1>4, <3>2
      <4>2. CreatedAt(k) <= CreatedAt(k)
        BY <1>2, CreatedAtType DEF TypeOK
      <4>. QED BY <4>1, <4>2
    <3>. QED BY <1>6, <3>1, <3>2
  <2>. QED BY <1>2, <1>12, <2>1, <2>2 DEF CursorIsBetween
<1>14. EndsBeforeNow' /\ OneAtATime'
  BY <1>2, <1>3, <1>8 DEF BInv, FeedInv, EndsBeforeNow, OneAtATime
<1>15. FirstPaintReceiptsComeFromTheCut'
  <2>. SUFFICES ASSUME NEW k \in painted, k \in receipts'
                PROVE  ~ whole[table[k]] /\ \A other \in painted : CreatedAt(other) <= CreatedAt(k)
    BY <1>2, <1>3, <1>12 DEF FirstPaintReceiptsComeFromTheCut
  <2>1. CASE k \in receipts
    BY <2>1 DEF BInv, FeedInv, FirstPaintReceiptsComeFromTheCut
  <2>2. CASE k \in arrived
    <3>1. \A other \in painted : CreatedAt(other) <= cursor
      BY DEF BInv, FeedInv, CursorIsBetween
    <3>2. CreatedAt(k) = cursor /\ ~ whole[table[k]]
      <4>1. CreatedAt(k) <= cursor /\ cursor \in Nat /\ clock \in Nat
        BY <1>2, <3>1 DEF TypeOK
      <4>. QED BY <1>5, <2>2, <4>1
    <3>. QED BY <3>1, <3>2
  <2>. QED BY <1>9, <2>1, <2>2
<1>16. QuietFeedPassesNothing'
  <2>. SUFFICES ASSUME excuse' = {} PROVE Stored \subseteq shown'
    BY <1>12 DEF QuietFeedPassesNothing, Passed
  <2>1. ~ (Cardinality(After(cursor)) > PageLimit) /\ excuse = {}
    BY <1>2 DEF Overflow
  <2>2. arrived = After(cursor)
    BY <1>4, <2>1, WholePage
  <2>3. Stored \subseteq shown \cup After(cursor)
    BY <1>2, <2>1 DEF BInv, FeedInv, QuietFeedPassesNothing, Passed
  <2>. QED BY <1>1, <2>2, <2>3
<1>. QED BY <1>11, <1>13, <1>14, <1>15, <1>16 DEF BInv, FeedInv

-----------------------------------------------------------------------------
(* The invariant holds.                                                     *)

LEMMA InitBInv == Init => BInv
<1>. SUFFICES ASSUME Init PROVE BInv
  OBVIOUS
<1>1. TypeOK
  BY AlertAssumption DEF Init, TypeOK
<1>2. RowsHaveWriters /\ StartsCount /\ RaisedAreStored /\ UrgentAreAnswered
  BY AlertAssumption DEF Init, RowsHaveWriters, StartsCount, RaisedAreStored,
                         UrgentAreAnswered, Writers
<1>3. CursorIsBetween /\ EndsBeforeNow /\ OneAtATime
  BY DEF Init, CursorIsBetween, EndsBeforeNow, OneAtATime, Active
<1>4. FirstPaintReceiptsComeFromTheCut /\ QuietFeedPassesNothing
  BY DEF Init, FirstPaintReceiptsComeFromTheCut, QuietFeedPassesNothing, Passed
<1>5. clock >= 1
  BY DEF Init
<1>. QED BY <1>1, <1>2, <1>3, <1>4, <1>5 DEF BInv, PipeInv, FeedInv

LEMMA NextBInv == BInv /\ [Next]_vars => BInv'
<1>. SUFFICES ASSUME BInv, [Next]_vars PROVE BInv'
  OBVIOUS
<1>1. CASE Next
  BY <1>1, BeginKeepsBInv, DetectKeepsBInv, InsertKeepsBInv, LookUpKeepsBInv,
     RespondKeepsBInv, SaveDraftsKeepsBInv, CrashKeepsBInv, OpenKeepsBInv, PollKeepsBInv
  DEF Next
<1>2. CASE UNCHANGED vars
  <2>1. UNCHANGED <<clock, runVars, table, pageVars, excuse, faults>>
    BY <1>2 DEF vars
  <2>2. UNCHANGED <<pc, started, whole, raised, urgent, ids, drafting, drafted, log,
                    page, shown, painted, receipts, cursor>>
    BY <2>1 DEF runVars, pageVars
  <2>3. TypeOK'
    BY <2>1, <2>2 DEF BInv, PipeInv, TypeOK
  <2>4. PipeInv'
    BY <2>1, <2>3, PipeStays DEF BInv
  <2>5. clock \in Nat
    BY DEF BInv, PipeInv, TypeOK
  <2>6. FeedInv'
    BY <2>1, <2>2, <2>5, FeedStays
  <2>. QED BY <2>4, <2>6 DEF BInv
<1>. QED BY <1>1, <1>2

(* PipeInv and FeedInv hold in every reachable state.                       *)
THEOREM Invariance == Spec => []BInv
BY InitBInv, NextBInv, PTL DEF Spec

-----------------------------------------------------------------------------
(* What follows.                                                            *)

(* Every reachable state is well-typed.                                     *)
THEOREM TypeCorrect == Spec => []TypeOK
<1>1. BInv => TypeOK
  BY DEF BInv, PipeInv
<1>. QED BY <1>1, Invariance, PTL

(* SaveAlerts and its lookup (agents/bp-orchestrator/store.go): the alert   *)
(* ids in the brief of an execution without an error are ids of rows,       *)
(* however many executions raise the same keys in the hour, and whichever   *)
(* of them dies.                                                            *)
THEOREM BriefsCiteRows == Spec => []BriefCitesRows
<1>1. BInv => BriefCitesRows
  BY DEF BInv, PipeInv, RaisedAreStored, BriefCitesRows, Writers
<1>. QED BY <1>1, Invariance, PTL

(* respond and SaveDrafts (agents/bp-orchestrator/pipeline.go): no draft of *)
(* an urgent alert is dropped without a word.                               *)
THEOREM UrgentAlertsAreDrafted == Spec => []UrgentAlertIsDrafted
<1>1. BInv => UrgentAlertIsDrafted
  BY DEF BInv, PipeInv, UrgentAreAnswered, UrgentAlertIsDrafted
<1>. QED BY <1>1, Invariance, PTL

(* recentAlerts (bff/src/db.ts) and the feed's cursor: without overlapping  *)
(* executions and bursts, whatever fails or crashes, the open page passes   *)
(* no alert.                                                                *)
THEOREM QuietFeedsMissNothing == Spec => []QuietFeedPassesNothing
<1>1. BInv => QuietFeedPassesNothing
  BY DEF BInv, FeedInv
<1>. QED BY <1>1, Invariance, PTL

(* web/components/AlertFeed.tsx, bff/src/rows.ts: an alert of the first     *)
(* paint that gets a receipt is its newest, and owes it to the cut of its   *)
(* created_at to milliseconds; nothing else gives it one, ever.             *)
THEOREM ReceiptsComeFromTheCut == Spec => []FirstPaintReceiptsComeFromTheCut
<1>1. BInv => FirstPaintReceiptsComeFromTheCut
  BY DEF BInv, FeedInv
<1>. QED BY <1>1, Invariance, PTL

=============================================================================
