------------------------------ MODULE AlertBook ------------------------------
(***************************************************************************)
(* An alert from the rule that fires to the screen: bp-detector raises it  *)
(* afresh in every execution (agents/bp-detector/rules.go), the            *)
(* orchestrator saves it under a dedupe key that is stable for the hour    *)
(* and has a reply drafted for it (steps 6 and 7 of                        *)
(* agents/bp-orchestrator/pipeline.go, store.go), and a dashboard page     *)
(* polls for it (bff/src/db.ts, web/components/AlertFeed.tsx).             *)
(*                                                                         *)
(* One brand, one page.  An execution raises at most one alert per key; in *)
(* it the fresh id of an alert is the execution, together with the key.    *)
(***************************************************************************)
EXTENDS Naturals, FiniteSets

CONSTANTS
    Runs,        \* executions of the pipeline
    Keys,        \* dedupe keys, kind:source:hour
    PageLimit,   \* routes/alerts.ts DEFAULT_LIMIT, routes/pulse.ts ALERT_LIMIT
    MaxFaults,   \* bound: failed calls, statements and requests, crashes
    NoRun

ASSUME AlertAssumption ==
    /\ IsFiniteSet(Keys)
    /\ PageLimit \in Nat \ {0}
    /\ MaxFaults \in Nat
    /\ NoRun \notin Runs

VARIABLES
    clock,      \* milliseconds
    pc,         \* pc[r]: the next step of execution r
    started,    \* started[r]: the window's end, every created_at of r
    whole,      \* whole[r]: that instant is on a whole millisecond
    raised,     \* raised[r]: the keys of the AlertSet
    urgent,     \* urgent[r]: those r rates high or critical, on-brand samples only
    ids,        \* ids[r][k]: the alert id r uses from now on
    drafting,   \* drafting[r]: the replies bp-responder gave r
    drafted,    \* drafted[r]: the drafts of r in reply_drafts
    log,        \* log[r]: runLog is not empty
    table,      \* table[k]: the execution whose row has the key k
    page,       \* the browser: the page is closed or open
    shown,      \* the keys on screen
    painted,    \* those of the first paint
    receipts,   \* those that carry a receipt, a time-to-alert
    cursor,     \* sinceRef: the newest created_at held, 0 for none
    excuse,     \* history: what happened that the feed does not allow for
    faults

runVars == <<pc, started, whole, raised, urgent, ids, drafting, drafted, log>>
pageVars == <<page, shown, painted, receipts, cursor>>
vars == <<clock, runVars, table, pageVars, excuse, faults>>

Active == {"detect", "insert", "lookup", "respond", "drafts"}

TypeOK ==
    /\ clock \in Nat
    /\ pc \in [Runs -> {"idle", "done", "dead"} \cup Active]
    /\ started \in [Runs -> 0..clock]
    /\ whole \in [Runs -> BOOLEAN]
    /\ raised \in [Runs -> SUBSET Keys]
    /\ urgent \in [Runs -> SUBSET Keys]
    /\ ids \in [Runs -> [Keys -> Runs \cup {NoRun}]]
    /\ drafting \in [Runs -> SUBSET Keys]
    /\ drafted \in [Runs -> SUBSET Keys]
    /\ log \in [Runs -> BOOLEAN]
    /\ table \in [Keys -> Runs \cup {NoRun}]
    /\ page \in {"closed", "open"}
    /\ {shown, painted, receipts} \subseteq SUBSET Keys
    /\ cursor \in 0..clock
    /\ excuse \subseteq {"overlap", "burst"}
    /\ faults \in 0..MaxFaults

Init ==
    /\ clock = 1
    /\ pc = [r \in Runs |-> "idle"]
    /\ started = [r \in Runs |-> 0]
    /\ whole = [r \in Runs |-> FALSE]
    /\ raised = [r \in Runs |-> {}]
    /\ urgent = [r \in Runs |-> {}]
    /\ ids = [r \in Runs |-> [k \in Keys |-> NoRun]]
    /\ drafting = [r \in Runs |-> {}]
    /\ drafted = [r \in Runs |-> {}]
    /\ log = [r \in Runs |-> FALSE]
    /\ table = [k \in Keys |-> NoRun]
    /\ page = "closed"
    /\ shown = {} /\ painted = {} /\ receipts = {}
    /\ cursor = 0
    /\ excuse = {}
    /\ faults = 0

Goto(r, from, to) ==
    /\ pc[r] = from
    /\ pc' = [pc EXCEPT ![r] = to]

(* runLog.addf, when something at hand failed.                              *)
Logged(r, faulty) ==
    /\ log' = [log EXCEPT ![r] = @ \/ faulty]
    /\ faults' = faults + (IF faulty THEN 1 ELSE 0)
    /\ faults' <= MaxFaults

Lasting == UNCHANGED <<clock, pageVars, excuse>>

-----------------------------------------------------------------------------
(* The pipeline.                                                            *)

(* The window ends now: DetectInput.Now.  An execution that starts while    *)
(* another is at work overlaps it.                                          *)
Begin(r) ==
    /\ Goto(r, "idle", "detect")
    /\ \E later \in {0, 1}, w \in BOOLEAN :
          /\ clock' = clock + later
          /\ started' = [started EXCEPT ![r] = clock + later]
          /\ whole' = [whole EXCEPT ![r] = w]
    /\ excuse' = excuse \cup
          {why \in {"overlap"} : \E o \in Runs : pc[o] \in Active}
    /\ UNCHANGED <<raised, urgent, ids, drafting, drafted, log, table,
                   pageVars, faults>>

(* bp-detector.  Which rules fire, how they rate it and which mentions are  *)
(* the samples depend on a window that differs between executions; urgent   *)
(* are the alerts that respond would answer.  A call or a baseline that     *)
(* fails is a run without alerts; a malformed alert is left out and noted.  *)
Detect(r) ==
    /\ pc[r] = "detect"
    /\ \E R \in SUBSET Keys :
          /\ raised' = [raised EXCEPT ![r] = R]
          /\ \E U \in SUBSET R : urgent' = [urgent EXCEPT ![r] = U]
          /\ ids' = [ids EXCEPT ![r] = [k \in Keys |-> IF k \in R THEN r ELSE NoRun]]
          /\ pc' = [pc EXCEPT ![r] = IF R = {} THEN "respond" ELSE "insert"]
          /\ \E faulty \in BOOLEAN : Logged(r, faulty)
    /\ UNCHANGED <<started, whole, drafting, drafted, table>> /\ Lasting

(* SaveAlerts, its batch: one transaction, ON CONFLICT (dedupe_key) DO      *)
(* NOTHING.  It may fail with or without being committed.                   *)
Inserted(r) ==
    [k \in Keys |-> IF k \in raised[r] /\ table[k] = NoRun THEN r ELSE table[k]]
InsertAlerts(r) ==
    /\ \/ /\ Goto(r, "insert", "lookup")
          /\ table' = Inserted(r)
          /\ Logged(r, FALSE)
       \/ /\ Goto(r, "insert", "respond")
          /\ table' \in {table, Inserted(r)}
          /\ Logged(r, TRUE)
    /\ UNCHANGED <<started, whole, raised, urgent, ids, drafting, drafted>>
    /\ Lasting

(* Mutant: the ids sent are taken for the ids stored.                       *)
SentIDs(r) == ids[r]

(* storedIDs: from here on an alert has the id of the row with its key.  If *)
(* the read fails it keeps its fresh one.                                   *)
StoredIDs(r) == [k \in Keys |-> IF k \in raised[r] THEN table[k] ELSE NoRun]
LookUpIds(r) ==
    /\ Goto(r, "lookup", "respond")
    /\ \/ /\ ids' = [ids EXCEPT ![r] = StoredIDs(r)]
          /\ Logged(r, FALSE)
       \/ /\ Logged(r, TRUE)
          /\ UNCHANGED ids
    /\ UNCHANGED <<started, whole, raised, urgent, drafting, drafted, table>>
    /\ Lasting

(* Mutant: a reply that could not be had is not logged.                     *)
RespondQuietly(r) ==
    /\ Goto(r, "respond", "drafts")
    /\ \E given \in SUBSET urgent[r] : drafting' = [drafting EXCEPT ![r] = given]
    /\ UNCHANGED <<started, whole, raised, urgent, ids, drafted, log, table, faults>>
    /\ Lasting

(* respond: a bp-responder call per alert this execution rates high or      *)
(* critical and holds to be about the brand only.  Those that fail are      *)
(* logged.                                                                  *)
Respond(r) ==
    /\ Goto(r, "respond", "drafts")
    /\ \E given \in SUBSET urgent[r] :
          /\ drafting' = [drafting EXCEPT ![r] = given]
          /\ Logged(r, given # urgent[r])
    /\ UNCHANGED <<started, whole, raised, urgent, ids, drafted, table>>
    /\ Lasting

(* SaveDrafts: a draft is written where its alert's id is in the table.     *)
(* Then the brief, and the execution is over; it took some time.            *)
Writable(r) == {k \in drafting[r] : table[k] = ids[r][k]}
SaveDrafts(r) ==
    /\ Goto(r, "drafts", "done")
    /\ \E written \in {{}, Writable(r)}, faulty \in BOOLEAN :
          /\ faulty => drafting[r] # {}
          /\ written = Writable(r) \/ faulty
          /\ drafted' = [drafted EXCEPT ![r] = written]
          /\ Logged(r, faulty)
    /\ drafting' = [drafting EXCEPT ![r] = {}]
    /\ clock' = clock + 1
    /\ UNCHANGED <<started, whole, raised, urgent, ids, table, pageVars, excuse>>

(* The orchestrator dies, and comes back later.                             *)
Crash ==
    /\ faults < MaxFaults
    /\ faults' = faults + 1
    /\ clock' = clock + 1
    /\ LET lost == {r \in Runs : pc[r] \in Active}
           Kept(held) == [r \in Runs |-> IF r \in lost THEN {} ELSE held[r]]
       IN  /\ lost # {}
           /\ pc' = [r \in Runs |-> IF r \in lost THEN "dead" ELSE pc[r]]
           /\ raised' = Kept(raised)
           /\ urgent' = Kept(urgent)
           /\ drafting' = Kept(drafting)
           /\ ids' = [r \in Runs |-> IF r \in lost THEN [k \in Keys |-> NoRun] ELSE ids[r]]
           /\ log' = [r \in Runs |-> r \notin lost /\ log[r]]
    /\ UNCHANGED <<started, whole, drafted, table, pageVars, excuse>>

-----------------------------------------------------------------------------
(* The feed.                                                                *)

CreatedAt(k) == started[table[k]]
Stored == {k \in Keys : table[k] # NoRun}

(* Mutant: the query says created_at >= since.                              *)
AfterOrAt(since) == {k \in Stored : CreatedAt(k) >= since}

(* rows.ts gives created_at in milliseconds, while the column has           *)
(* microseconds: with that for a since, created_at > since is true of the   *)
(* very row it came from, unless that row is on a whole millisecond.        *)
After(since) ==
    {k \in Stored : since = 0 \/ CreatedAt(k) > since
                              \/ (CreatedAt(k) = since /\ ~ whole[table[k]])}

(* recentAlerts: ORDER BY created_at DESC LIMIT PageLimit, ties in any      *)
(* order.                                                                   *)
Pages(S) ==
    {p \in SUBSET S :
        /\ Cardinality(p) = IF Cardinality(S) < PageLimit THEN Cardinality(S)
                            ELSE PageLimit
        /\ \A k \in p, other \in S \ p : CreatedAt(k) >= CreatedAt(other)}

(* Mutants: the browser reads its own clock, in step or running fast.       *)
NewestByClock(arrived) == IF arrived = {} THEN cursor ELSE clock
NewestByFastClock(arrived) == IF arrived = {} THEN cursor ELSE clock + 1

(* newestCreatedAt(arrived) ?? sinceRef.current                             *)
Newest(arrived) ==
    IF arrived = {} THEN cursor
    ELSE CHOOSE t \in {CreatedAt(k) : k \in arrived} :
            \A k \in arrived : CreatedAt(k) <= t

Overflow(S) == {why \in {"burst"} : Cardinality(S) > PageLimit}

(* First paint: the pulse, whose alerts are [] if their query failed.       *)
Open ==
    /\ page = "closed"
    /\ page' = "open"
    /\ \E arrived \in Pages(Stored) \cup {{}} :
          /\ faults' = faults + (IF arrived \in Pages(Stored) THEN 0 ELSE 1)
          /\ faults' <= MaxFaults
          /\ shown' = arrived
          /\ painted' = arrived
          /\ cursor' = Newest(arrived)
    /\ excuse' = excuse \cup Overflow(Stored)
    /\ UNCHANGED <<clock, runVars, table, receipts>>

(* A poll that is answered: what arrived is merged by id, and gets a        *)
(* receipt unless the browser's clock is behind its created_at.  A poll     *)
(* that fails changes nothing.                                              *)
Poll ==
    /\ page = "open"
    /\ \E arrived \in Pages(After(cursor)) :
          /\ shown' = shown \cup arrived
          /\ \E measurable \in {{}, arrived} : receipts' = receipts \cup measurable
          /\ cursor' = Newest(arrived)
    /\ excuse' = excuse \cup Overflow(After(cursor))
    /\ UNCHANGED <<clock, runVars, table, page, painted, faults>>

-----------------------------------------------------------------------------
Next ==
    \/ \E r \in Runs :
          Begin(r) \/ Detect(r) \/ InsertAlerts(r) \/ LookUpIds(r)
          \/ Respond(r) \/ SaveDrafts(r)
    \/ Crash
    \/ Open
    \/ Poll

Spec == Init /\ [][Next]_vars

-----------------------------------------------------------------------------
(* Properties.                                                              *)

(* SaveAlerts returns the ids the table ended up with: the ids an execution *)
(* without an error has at its end, which its brief cites, are those of the *)
(* rows, whichever execution of the hour came first.                        *)
BriefCitesRows ==
    \A r \in Runs : pc[r] = "done" /\ ~ log[r] =>
        \A k \in raised[r] : table[k] # NoRun /\ ids[r][k] = table[k]

(* A draft written against an id the dedupe conflict threw away is one the  *)
(* database drops without a word: an execution that ends without an error   *)
(* has a draft in the table for each urgent alert about the brand only.     *)
UrgentAlertIsDrafted ==
    \A r \in Runs : pc[r] = "done" /\ ~ log[r] => urgent[r] \subseteq drafted[r]

(* The feed's cursor passes no alert that is still to come: as long as      *)
(* executions do not overlap and no more alerts are new than one answer     *)
(* takes, nothing is in the table that the open page neither shows nor      *)
(* will be given by its next poll.                                          *)
Passed == IF page = "open" THEN Stored \ (shown \cup After(cursor)) ELSE {}
QuietFeedPassesNothing == excuse = {} => Passed = {}

(* bff/src/routes/alerts.ts: the one thing this feed may never do is        *)
(* silently miss a crisis.                                                  *)
FeedMissesNothing == Passed = {}

(* web/components/AlertFeed.tsx: an alert already on screen at first paint  *)
(* was detected before this page existed, so it carries no receipt.  Its    *)
(* created_at is cut to milliseconds on the way to the browser and back     *)
(* (bff/src/rows.ts), and that alone breaks the rule: only the newest of    *)
(* the first paint, off the millisecond, is polled again and gets one.      *)
FirstPaintReceiptsComeFromTheCut ==
    \A k \in painted \cap receipts :
        /\ ~ whole[table[k]]
        /\ \A other \in painted : CreatedAt(other) <= CreatedAt(k)

=============================================================================
