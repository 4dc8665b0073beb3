---------------------------- MODULE BrandRegistry ----------------------------
(***************************************************************************)
(* What is promised to whoever adds a brand, said without the form, the    *)
(* agent, the pool and the transaction: the registry gets at most one      *)
(* entry for a brand, at once and for good, and the entry begins with the  *)
(* words that were asked for.  A request has one outcome.  It is created,  *)
(* and there is an entry; it is refused, and there never will be one; or   *)
(* it is left open, and an entry may be there or still come.               *)
(*                                                                         *)
(* Onboarding.tla is the detailed specification that implements this.      *)
(***************************************************************************)
EXTENDS SequencesExt

CONSTANTS
    Brands,    \* a request names its brand
    WordLists, \* what may be asked for
    Once(_)    \* a list with each of its words once

VARIABLES
    asked,     \* asked[b]: the words asked for
    told,      \* told[b]: how the request for b ended
    entries    \* [brand, keywords, drafted]

registryVars == <<asked, told, entries>>

IsKept(b) == \E e \in entries : e.brand = b

RegistryInit ==
    /\ asked = [b \in Brands |-> <<>>]
    /\ told = [b \in Brands |-> "unasked"]
    /\ entries = {}

EndsAs(b, outcome) ==
    /\ told[b] = "waiting"
    /\ told' = [told EXCEPT ![b] = outcome]
    /\ UNCHANGED <<asked, entries>>

Ask(b) ==
    /\ told[b] = "unasked"
    /\ \E words \in WordLists : asked' = [asked EXCEPT ![b] = words]
    /\ told' = [told EXCEPT ![b] = "waiting"]
    /\ UNCHANGED entries

(* The entry is made once, whether somebody still waits for it or not.      *)
Store(b) ==
    /\ ~ IsKept(b)
    /\ told[b] \in {"waiting", "open"}
    /\ \E e \in entries' :
          /\ e.brand = b
          /\ IsPrefix(Once(asked[b]), e.keywords)
          /\ ~ e.drafted => e.keywords = Once(asked[b])
          /\ entries' = entries \cup {e}
    /\ UNCHANGED <<asked, told>>

Confirm(b) == IsKept(b) /\ EndsAs(b, "created")

Refuse(b) == ~ IsKept(b) /\ EndsAs(b, "refused")

LeaveOpen(b) == EndsAs(b, "open")

RegistryNext ==
    \E b \in Brands : Ask(b) \/ Store(b) \/ Confirm(b) \/ Refuse(b) \/ LeaveOpen(b)

RegistrySpec == RegistryInit /\ [][RegistryNext]_registryVars

=============================================================================
