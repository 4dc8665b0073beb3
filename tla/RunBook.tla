------------------------------- MODULE RunBook -------------------------------
(***************************************************************************)
(* What bp-orchestrator promises whoever triggers a run, said without the  *)
(* pipeline: the runs table is a book with one page per (brand, kind,      *)
(* bucket).  A page is opened once, keeps the id of the trigger that       *)
(* opened it, is closed with a final status, and is written again only     *)
(* after somebody asked for a forced re-run of it.  A trigger is answered  *)
(* at most once, with the id that is on its page.                          *)
(*                                                                         *)
(* Orchestrator.tla is the detailed specification that implements this.    *)
(***************************************************************************)
CONSTANTS
    Invocations,   \* triggers; a trigger's fresh run id is the trigger itself
    Slots,         \* the idempotency keys (kind, time bucket) of one brand
    NoRun          \* "no id yet"

VARIABLES
    page,          \* page[s]: status on the page, "none" before it is opened
    owner,         \* owner[s]: the run id on the page
    forced,        \* slots for which a forced re-run was accepted
    told           \* told[i]: the run id trigger i was answered with

bookVars == <<page, owner, forced, told>>

Closed == {"ok", "partial", "failed"}

BookInit ==
    /\ page = [s \in Slots |-> "none"]
    /\ owner = [s \in Slots |-> NoRun]
    /\ forced = {}
    /\ told = [i \in Invocations |-> NoRun]

(* A trigger opens an unopened page under its own id.                       *)
Open(s, i) ==
    /\ page[s] = "none"
    /\ page' = [page EXCEPT ![s] = "running"]
    /\ owner' = [owner EXCEPT ![s] = i]
    /\ UNCHANGED <<forced, told>>

(* A forced trigger is accepted for a page that is already open.            *)
AcceptForce(s) ==
    /\ page[s] # "none"
    /\ forced' = forced \cup {s}
    /\ UNCHANGED <<page, owner, told>>

(* A trigger that does not run anything is answered from the page.          *)
AnswerFromPage(s, i) ==
    /\ page[s] # "none"
    /\ told[i] = NoRun
    /\ told' = [told EXCEPT ![i] = owner[s]]
    /\ UNCHANGED <<page, owner, forced>>

(* An execution ends: its trigger is answered with the page's id, and the   *)
(* page is closed.  A closed page is written again only if it was forced.   *)
Close(s, i) ==
    /\ page[s] # "none"
    /\ page[s] \in Closed => s \in forced
    /\ told[i] = NoRun
    /\ told' = [told EXCEPT ![i] = owner[s]]
    /\ \E status \in Closed : page' = [page EXCEPT ![s] = status]
    /\ UNCHANGED <<owner, forced>>

BookNext ==
    \E s \in Slots :
        \/ AcceptForce(s)
        \/ \E i \in Invocations :
              Open(s, i) \/ AnswerFromPage(s, i) \/ Close(s, i)

BookSpec == BookInit /\ [][BookNext]_bookVars

=============================================================================
