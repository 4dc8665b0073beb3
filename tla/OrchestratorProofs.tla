------------------------- MODULE OrchestratorProofs -------------------------
(***************************************************************************)
(* Theorems about Orchestrator.tla, for any set of triggers, any profile,  *)
(* any clock and any number of faults.  The inductive invariant IInv is    *)
(* proved first; the safety theorems and the refinement follow from it.    *)
(***************************************************************************)
EXTENDS Orchestrator, TLAPS

-----------------------------------------------------------------------------
(* The two shapes of a step: the control state moves, the log is noted.     *)

LEMMA GotoType ==
    ASSUME TypeOK, NEW i \in Invocations, NEW from, NEW to \in Labels,
           Goto(i, from, to)
    PROVE  pc' \in [Invocations -> Labels]
BY DEF Goto, TypeOK

LEMMA LoggedType ==
    ASSUME TypeOK, NEW i \in Invocations, NEW faulty \in BOOLEAN,
           Logged(i, faulty)
    PROVE  log' \in [Invocations -> BOOLEAN] /\ faults' \in 0..MaxFaults
<1>1. log' \in [Invocations -> BOOLEAN]
  BY DEF Logged, TypeOK
<1>2. faults' \in 0..MaxFaults
  BY OrchestratorAssumption DEF Logged, Fault, TypeOK
<1>. QED BY <1>1, <1>2

LEMMA ForgetType ==
    ASSUME TypeOK, NEW S, Forget(S)
    PROVE  /\ chosen' \in [Invocations -> SUBSET Sources]
           /\ result' \in [Invocations -> [Sources -> Outcomes \cup {"none"}]]
           /\ log' \in [Invocations -> BOOLEAN]
           /\ held' \in [Invocations -> SUBSET {"enriched", "alerts"}]
<1>1. chosen' \in [Invocations -> SUBSET Sources]
  BY DEF Forget, TypeOK
<1>2. result' \in [Invocations -> [Sources -> Outcomes \cup {"none"}]]
  BY DEF Forget, TypeOK
<1>3. log' \in [Invocations -> BOOLEAN]
  <2>1. \A i \in Invocations : (i \notin S /\ log[i]) \in BOOLEAN
    OBVIOUS
  <2>. QED BY <2>1, Zenon DEF Forget
<1>4. held' \in [Invocations -> SUBSET {"enriched", "alerts"}]
  BY DEF Forget, TypeOK
<1>. QED BY <1>1, <1>2, <1>3, <1>4

LEMMA BucketInSlots ==
    ASSUME NEW k \in Kinds, NEW h \in 0..MaxHour
    PROVE  <<k, BucketFor(k, h)>> \in Slots
BY DEF Slots

LEMMA FinalStatusType ==
    ASSUME NEW i, NEW errors
    PROVE  FinalStatus(i, errors) \in Final
BY DEF FinalStatus, Final

(* A step of the pipeline between the claim and the record: it moves one    *)
(* execution on and leaves the table, the ids and the answers alone.        *)
Moves(i) ==
    /\ \E from \in Executing, to \in Executing \ {"finish"} : Goto(i, from, to)
    /\ UNCHANGED <<clock, rows, req, slot, runId, answer>>

(* A row whose id is not touched was still minted by the same request, as   *)
(* long as a refused request stays refused.                                 *)
RowsMinted == \A s \in Slots : rows[s] # NoRecord => Minted(rows[s].id, s)
RefusedStays == \A j \in Invocations : pc[j] = "refused" => pc'[j] = "refused"

LEMMA MintedKept ==
    ASSUME IInv, UNCHANGED <<slot, runId>>, RefusedStays,
           \A s \in Slots : rows'[s] # NoRecord =>
               rows[s] # NoRecord /\ rows'[s].id = rows[s].id
    PROVE  RowsMinted'
<1>. SUFFICES ASSUME NEW s \in Slots, rows'[s] # NoRecord
              PROVE  Minted(rows[s].id, s)'
  BY DEF RowsMinted
<1>1. rows[s].id \in Invocations /\ Minted(rows[s].id, s) /\ rows'[s].id = rows[s].id
  BY DEF IInv, TypeOK, IdsAgree, Record
<1>. QED BY <1>1 DEF Minted, RefusedStays

LEMMA MovesKeepsIds ==
    ASSUME IInv, NEW i \in Invocations, Moves(i)
    PROVE  SlotIsSet' /\ OwnsWhileExecuting' /\ IdsAgree'
<1>. USE DEF IInv, Moves, Goto, TypeOK
<1>1. SlotIsSet'
  BY DEF SlotIsSet, Executing
<1>2. OwnsWhileExecuting'
  BY DEF OwnsWhileExecuting, Executing
<1>3. IdsAgree'
  <2>1. RefusedStays
    BY DEF RefusedStays, Executing
  <2>2. RowsMinted'
    BY <2>1, MintedKept
  <2>. QED BY <2>2 DEF IdsAgree, RowsMinted
<1>. QED BY <1>1, <1>2, <1>3

-----------------------------------------------------------------------------
(* Each action preserves the invariant.                                     *)

LEMMA HandleKeepsIInv ==
    ASSUME IInv, NEW i \in Invocations, Handle(i)
    PROVE  IInv'
<1>. USE DEF IInv, Handle
<1>1. <<req[i].kind, BucketFor(req[i].kind, clock)>> \in Slots
  BY BucketInSlots DEF TypeOK
<1>2. TypeOK'
  <2>1. pc' \in [Invocations -> Labels]
    BY GotoType DEF Labels
  <2>. QED BY <1>1, <2>1 DEF TypeOK
<1>3. runId[i] = NoRun
  BY DEF OwnsWhileExecuting, Goto
<1>4. SlotIsSet'
  BY <1>1, <1>3 DEF SlotIsSet, Goto, TypeOK, Executing
<1>5. OwnsWhileExecuting'
  BY DEF OwnsWhileExecuting, Goto, TypeOK, Executing
<1>6. IdsAgree'
  <2>1. ASSUME NEW s \in Slots, rows[s] # NoRecord
        PROVE  Minted(rows[s].id, s)'
    <3>1. rows[s].id \in Invocations /\ Minted(rows[s].id, s)
      BY <2>1 DEF TypeOK, Record, IdsAgree
    <3>2. rows[s].id # i
      BY <1>3, <3>1, OrchestratorAssumption DEF Minted, Goto
    <3>. QED BY <3>1, <3>2 DEF Minted, Goto, TypeOK
  <2>2. ASSUME NEW j \in Invocations, runId[j] # NoRun
        PROVE  rows[slot'[j]].id = runId[j] /\ (~ req[j].force => runId[j] = j)
    BY <1>3, <2>2 DEF IdsAgree, TypeOK
  <2>3. ASSUME NEW j \in Invocations, pc'[j] = "finish"
        PROVE  answer[j] \in Record /\ answer[j].id = runId[j] /\ answer[j].status \in Final
    BY <2>3 DEF IdsAgree, TypeOK, Goto
  <2>. QED BY <2>1, <2>2, <2>3 DEF IdsAgree
<1>. QED BY <1>2, <1>4, <1>5, <1>6

LEMMA RefuseKeepsIInv ==
    ASSUME IInv, NEW i \in Invocations, Refuse(i)
    PROVE  IInv'
<1>. USE DEF IInv, Refuse, request
<1>1. TypeOK'
  BY DEF TypeOK, Labels, Settled
<1>2. SlotIsSet'
  BY DEF SlotIsSet, TypeOK, Executing
<1>3. OwnsWhileExecuting'
  BY DEF OwnsWhileExecuting, TypeOK, Executing
<1>4. IdsAgree'
  <2>1. RefusedStays
    BY DEF RefusedStays, TypeOK
  <2>2. RowsMinted'
    BY <2>1, MintedKept
  <2>. QED BY <2>2 DEF IdsAgree, RowsMinted, TypeOK
<1>. QED BY <1>1, <1>2, <1>3, <1>4

LEMMA ClaimInsertKeepsIInv ==
    ASSUME IInv, NEW i \in Invocations, ClaimInsert(i)
    PROVE  IInv'
<1>. USE DEF IInv, ClaimInsert
<1>1. slot[i] \in Slots /\ runId[i] = NoRun /\ i # NoRun
  BY OrchestratorAssumption DEF SlotIsSet, OwnsWhileExecuting, Goto
<1>2. TypeOK'
  <2>1. pc' \in [Invocations -> Labels]
    BY GotoType DEF Labels, Executing
  <2>2. FreshRow(i) \in Record
    BY DEF FreshRow, Record, Status
  <2>3. rows' \in [Slots -> Record \cup {NoRecord}]
    BY <2>2 DEF TypeOK
  <2>4. runId' \in [Invocations -> Invocations \cup {NoRun}]
    BY DEF TypeOK
  <2>. QED BY <2>1, <2>3, <2>4 DEF TypeOK
<1>3. SlotIsSet'
  <2>1. FreshRow(i) # NoRecord
    BY <1>1 DEF FreshRow, NoRecord
  <2>. QED BY <1>1, <2>1 DEF SlotIsSet, TypeOK, Executing, Goto
<1>4. OwnsWhileExecuting'
  BY <1>1 DEF OwnsWhileExecuting, TypeOK, Executing, Goto
<1>5. IdsAgree'
  <2>1. ASSUME NEW s \in Slots, rows'[s] # NoRecord
        PROVE  Minted(rows[s].id, s)'
    <3>1. CASE s = slot[i]
      BY <1>1, <3>1 DEF TypeOK, Minted, FreshRow
    <3>2. CASE s # slot[i]
      <4>1. rows'[s] = rows[s]
        BY <1>1, <3>2 DEF TypeOK
      <4>2. rows[s].id \in Invocations /\ Minted(rows[s].id, s)
        BY <2>1, <4>1 DEF TypeOK, Record, IdsAgree
      <4>3. rows[s].id # i
        BY <3>2, <4>2 DEF Minted
      <4>. QED BY <4>1, <4>2, <4>3 DEF Minted, Goto, TypeOK
    <3>. QED BY <3>1, <3>2
  <2>2. ASSUME NEW j \in Invocations, runId'[j] # NoRun
        PROVE  rows'[slot[j]].id = runId'[j] /\ (~ req[j].force => runId'[j] = j)
    <3>1. CASE j = i
      BY <1>1, <3>1 DEF TypeOK, FreshRow
    <3>2. CASE j # i
      <4>1. runId'[j] = runId[j] /\ rows[slot[j]].id = runId[j] /\ slot[j] \in Slots
        BY <2>2, <3>2 DEF IdsAgree, SlotIsSet, TypeOK
      <4>2. slot[j] # slot[i]
        BY <1>1, <2>2, <4>1 DEF NoRecord
      <4>. QED BY <1>1, <2>2, <4>1, <4>2 DEF IdsAgree, TypeOK
    <3>. QED BY <3>1, <3>2
  <2>3. ASSUME NEW j \in Invocations, pc'[j] = "finish"
        PROVE  answer[j] \in Record /\ answer[j].id = runId'[j] /\ answer[j].status \in Final
    <3>1. j # i /\ pc[j] = "finish"
      BY <2>3 DEF Goto, TypeOK
    <3>. QED BY <3>1 DEF IdsAgree, TypeOK
  <2>. QED BY <2>1, <2>2, <2>3 DEF IdsAgree
<1>. QED BY <1>2, <1>3, <1>4, <1>5

LEMMA ClaimLostKeepsIInv ==
    ASSUME IInv, NEW i \in Invocations, ClaimLost(i)
    PROVE  IInv'
<1>. USE DEF IInv, ClaimLost, request
<1>1. slot[i] \in Slots /\ runId[i] = NoRun /\ i # NoRun
  BY OrchestratorAssumption DEF SlotIsSet, OwnsWhileExecuting, Goto
<1>2. FreshRow(i) \in Record /\ FreshRow(i) # NoRecord
  BY <1>1 DEF FreshRow, Record, Status, NoRecord
<1>3. TypeOK'
  <2>1. pc' \in [Invocations -> Labels]
    BY GotoType DEF Labels, Settled
  <2>2. rows' \in [Slots -> Record \cup {NoRecord}]
    BY <1>2 DEF TypeOK
  <2>3. faults' \in 0..MaxFaults
    BY OrchestratorAssumption DEF Fault, TypeOK
  <2>. QED BY <2>1, <2>2, <2>3 DEF TypeOK
<1>4. SlotIsSet'
  BY <1>1, <1>2 DEF SlotIsSet, TypeOK, Executing, Goto
<1>5. OwnsWhileExecuting'
  BY DEF OwnsWhileExecuting, TypeOK, Executing, Goto
<1>6. IdsAgree'
  <2>1. ASSUME NEW s \in Slots, rows'[s] # NoRecord
        PROVE  Minted(rows[s].id, s)'
    <3>1. CASE s = slot[i]
      BY <1>1, <3>1 DEF TypeOK, Minted, FreshRow, Goto
    <3>2. CASE s # slot[i]
      <4>1. rows'[s] = rows[s]
        BY <1>1, <3>2 DEF TypeOK
      <4>2. rows[s].id \in Invocations /\ Minted(rows[s].id, s)
        BY <2>1, <4>1 DEF TypeOK, Record, IdsAgree
      <4>. QED BY <4>1, <4>2 DEF Minted, Goto, TypeOK
    <3>. QED BY <3>1, <3>2
  <2>2. ASSUME NEW j \in Invocations, runId[j] # NoRun
        PROVE  rows'[slot[j]].id = runId[j] /\ (~ req[j].force => runId[j] = j)
    <3>1. slot[j] \in Slots /\ rows[slot[j]].id = runId[j]
      BY <2>2 DEF IdsAgree, SlotIsSet
    <3>2. slot[j] # slot[i]
      BY <2>2, <3>1 DEF NoRecord
    <3>. QED BY <1>1, <2>2, <3>1, <3>2 DEF IdsAgree, TypeOK
  <2>3. ASSUME NEW j \in Invocations, pc'[j] = "finish"
        PROVE  answer[j] \in Record /\ answer[j].id = runId[j] /\ answer[j].status \in Final
    BY <2>3 DEF IdsAgree, TypeOK, Goto
  <2>. QED BY <2>1, <2>2, <2>3 DEF IdsAgree
<1>. QED BY <1>3, <1>4, <1>5, <1>6

LEMMA ClaimConflictKeepsIInv ==
    ASSUME IInv, NEW i \in Invocations, ClaimConflict(i)
    PROVE  IInv'
<1>. USE DEF IInv, ClaimConflict, request
<1>1. TypeOK'
  <2>1. pc' \in [Invocations -> Labels]
    BY GotoType DEF Labels
  <2>. QED BY <2>1 DEF TypeOK
<1>2. SlotIsSet'
  BY DEF SlotIsSet, TypeOK, Executing, Goto
<1>3. OwnsWhileExecuting'
  BY DEF OwnsWhileExecuting, TypeOK, Executing, Goto
<1>4. IdsAgree'
  <2>1. RefusedStays
    BY DEF RefusedStays, TypeOK, Goto
  <2>2. RowsMinted'
    BY <2>1, MintedKept
  <2>. QED BY <2>2 DEF IdsAgree, RowsMinted, TypeOK, Goto
<1>. QED BY <1>1, <1>2, <1>3, <1>4

LEMMA ReturnExistingKeepsIInv ==
    ASSUME IInv, NEW i \in Invocations, ReturnExisting(i)
    PROVE  IInv'
<1>. USE DEF IInv, ReturnExisting, request
<1>1. rows[slot[i]] \in Record
  BY DEF SlotIsSet, TypeOK, Goto
<1>2. TypeOK'
  <2>1. pc' \in [Invocations -> Labels]
    BY GotoType DEF Labels, Settled
  <2>. QED BY <1>1, <2>1 DEF TypeOK
<1>3. SlotIsSet'
  BY DEF SlotIsSet, TypeOK, Executing, Goto
<1>4. OwnsWhileExecuting'
  BY DEF OwnsWhileExecuting, TypeOK, Executing, Goto
<1>5. IdsAgree'
  <2>1. RefusedStays
    BY DEF RefusedStays, TypeOK, Goto
  <2>2. RowsMinted'
    BY <2>1, MintedKept
  <2>. QED BY <2>2 DEF IdsAgree, RowsMinted, TypeOK, Goto
<1>. QED BY <1>2, <1>3, <1>4, <1>5

LEMMA AdoptForcedKeepsIInv ==
    ASSUME IInv, NEW i \in Invocations, AdoptForced(i)
    PROVE  IInv'
<1>. USE DEF IInv, AdoptForced
<1>1. slot[i] \in Slots /\ rows[slot[i]] # NoRecord /\ rows[slot[i]] \in Record
  BY DEF SlotIsSet, TypeOK, Goto
<1>2. rows[slot[i]].id \in Invocations /\ rows[slot[i]].id # NoRun
  BY <1>1, OrchestratorAssumption DEF Record
<1>3. TypeOK'
  <2>1. pc' \in [Invocations -> Labels]
    BY GotoType DEF Labels, Executing
  <2>. QED BY <1>2, <2>1 DEF TypeOK
<1>4. SlotIsSet'
  BY <1>1 DEF SlotIsSet, TypeOK, Executing, Goto
<1>5. OwnsWhileExecuting'
  BY <1>2 DEF OwnsWhileExecuting, TypeOK, Executing, Goto
<1>6. IdsAgree'
  <2>2. ASSUME NEW s \in Slots, rows[s] # NoRecord
        PROVE  Minted(rows[s].id, s)'
    <3>1. rows[s].id \in Invocations /\ Minted(rows[s].id, s)
      BY <2>2 DEF IdsAgree, TypeOK, Record
    <3>2. rows[s].id # i
      BY <3>1, OrchestratorAssumption DEF Minted, OwnsWhileExecuting, Goto
    <3>. QED BY <3>1, <3>2 DEF Minted, Goto, TypeOK
  <2>3. ASSUME NEW j \in Invocations, runId'[j] # NoRun
        PROVE  rows[slot[j]].id = runId'[j] /\ (~ req[j].force => runId'[j] = j)
    BY <2>3 DEF IdsAgree, TypeOK
  <2>4. ASSUME NEW j \in Invocations, pc'[j] = "finish"
        PROVE  answer[j] \in Record /\ answer[j].id = runId'[j] /\ answer[j].status \in Final
    BY <2>4 DEF IdsAgree, TypeOK, Goto
  <2>. QED BY <2>2, <2>3, <2>4 DEF IdsAgree
<1>. QED BY <1>3, <1>4, <1>5, <1>6

LEMMA ChooseSourcesKeepsIInv ==
    ASSUME IInv, NEW i \in Invocations, ChooseSources(i)
    PROVE  IInv'
<1>1. PICK cs \in SUBSET Sources, faulty \in BOOLEAN :
        chosen' = [chosen EXCEPT ![i] = cs] /\ Logged(i, faulty)
  BY DEF ChooseSources
<1>2. TypeOK'
  <2>1. pc' \in [Invocations -> Labels]
    BY GotoType DEF ChooseSources, IInv, Labels, Executing
  <2>2. log' \in [Invocations -> BOOLEAN] /\ faults' \in 0..MaxFaults
    BY <1>1, LoggedType DEF IInv
  <2>. QED BY <1>1, <2>1, <2>2 DEF ChooseSources, IInv, TypeOK, request
<1>3. Moves(i)
  BY DEF ChooseSources, Moves, request, Executing
<1>. QED BY <1>2, <1>3, MovesKeepsIds DEF IInv

LEMMA CollectorAnswersKeepsIInv ==
    ASSUME IInv, NEW i \in Invocations, NEW s \in Sources, CollectorAnswers(i, s)
    PROVE  IInv'
<1>1. PICK outcome \in Outcomes :
        /\ result' = [result EXCEPT ![i][s] = outcome]
        /\ Logged(i, outcome \in {"down", "broken", "partial"})
  BY DEF CollectorAnswers
<1>2. TypeOK'
  <2>1. log' \in [Invocations -> BOOLEAN] /\ faults' \in 0..MaxFaults
    BY <1>1, OrchestratorAssumption DEF Logged, Fault, IInv, TypeOK
  <2>2. result' \in [Invocations -> [Sources -> Outcomes \cup {"none"}]]
    BY <1>1 DEF IInv, TypeOK
  <2>. QED BY <2>1, <2>2 DEF CollectorAnswers, IInv, TypeOK, request
<1>3. UNCHANGED <<rows, pc, req, slot, runId, answer>>
  BY DEF CollectorAnswers, request
<1>4. SlotIsSet' /\ OwnsWhileExecuting' /\ IdsAgree'
  BY <1>3 DEF IInv, SlotIsSet, OwnsWhileExecuting, IdsAgree, Minted
<1>. QED BY <1>2, <1>4 DEF IInv

LEMMA CollectDoneKeepsIInv ==
    ASSUME IInv, NEW i \in Invocations, CollectDone(i)
    PROVE  IInv'
<1>1. TypeOK'
  <2>1. pc' \in [Invocations -> Labels]
    BY GotoType DEF CollectDone, IInv, Labels, Executing
  <2>. QED BY <2>1 DEF CollectDone, IInv, TypeOK, request
<1>2. Moves(i)
  BY DEF CollectDone, Moves, request, Executing
<1>. QED BY <1>1, <1>2, MovesKeepsIds DEF IInv

LEMMA EnrichKeepsIInv ==
    ASSUME IInv, NEW i \in Invocations, Enrich(i)
    PROVE  IInv'
<1>1. PICK some \in BOOLEAN, faulty \in BOOLEAN :
        /\ held' = [held EXCEPT ![i] = IF some THEN {"enriched"} ELSE {}]
        /\ Logged(i, faulty)
  BY DEF Enrich
<1>2. TypeOK'
  <2>1. pc' \in [Invocations -> Labels]
    BY GotoType DEF Enrich, IInv, Labels, Executing
  <2>2. log' \in [Invocations -> BOOLEAN] /\ faults' \in 0..MaxFaults
    BY <1>1, LoggedType DEF IInv
  <2>3. held' \in [Invocations -> SUBSET {"enriched", "alerts"}]
    BY <1>1 DEF IInv, TypeOK
  <2>. QED BY <2>1, <2>2, <2>3 DEF Enrich, IInv, TypeOK, request
<1>3. Moves(i)
  BY DEF Enrich, Moves, request, Executing
<1>. QED BY <1>2, <1>3, MovesKeepsIds DEF IInv

LEMMA ReadWindowKeepsIInv ==
    ASSUME IInv, NEW i \in Invocations, ReadWindow(i)
    PROVE  IInv'
<1>1. TypeOK'
  <2>1. pc' \in [Invocations -> Labels]
    BY GotoType DEF ReadWindow, IInv, Labels, Executing
  <2>2. log' \in [Invocations -> BOOLEAN] /\ faults' \in 0..MaxFaults
    BY LoggedType DEF ReadWindow, IInv
  <2>3. held' \in [Invocations -> SUBSET {"enriched", "alerts"}]
    BY DEF ReadWindow, IInv, TypeOK
  <2>. QED BY <2>1, <2>2, <2>3 DEF ReadWindow, IInv, TypeOK, request
<1>2. Moves(i)
  BY DEF ReadWindow, Moves, request, Executing
<1>. QED BY <1>1, <1>2, MovesKeepsIds DEF IInv

LEMMA AnalyseKeepsIInv ==
    ASSUME IInv, NEW i \in Invocations, Analyse(i)
    PROVE  IInv'
<1>1. PICK found \in {{}, {"alerts"}}, faulty \in BOOLEAN :
        /\ held' = [held EXCEPT ![i] = found]
        /\ Logged(i, faulty)
  BY DEF Analyse
<1>2. TypeOK'
  <2>1. pc' \in [Invocations -> Labels]
    BY GotoType DEF Analyse, IInv, Labels, Executing
  <2>2. log' \in [Invocations -> BOOLEAN] /\ faults' \in 0..MaxFaults
    BY <1>1, LoggedType DEF IInv
  <2>3. held' \in [Invocations -> SUBSET {"enriched", "alerts"}]
    BY <1>1 DEF IInv, TypeOK
  <2>. QED BY <2>1, <2>2, <2>3 DEF Analyse, IInv, TypeOK, request
<1>3. Moves(i)
  BY DEF Analyse, Moves, request, Executing
<1>. QED BY <1>2, <1>3, MovesKeepsIds DEF IInv

LEMMA RespondKeepsIInv ==
    ASSUME IInv, NEW i \in Invocations, Respond(i)
    PROVE  IInv'
<1>1. TypeOK'
  <2>1. pc' \in [Invocations -> Labels]
    BY GotoType DEF Respond, IInv, Labels, Executing
  <2>2. log' \in [Invocations -> BOOLEAN] /\ faults' \in 0..MaxFaults
    BY LoggedType DEF Respond, IInv
  <2>3. held' \in [Invocations -> SUBSET {"enriched", "alerts"}]
    BY DEF Respond, IInv, TypeOK
  <2>. QED BY <2>1, <2>2, <2>3 DEF Respond, IInv, TypeOK, request
<1>2. Moves(i)
  BY DEF Respond, Moves, request, Executing
<1>. QED BY <1>1, <1>2, MovesKeepsIds DEF IInv

LEMMA WriteBriefKeepsIInv ==
    ASSUME IInv, NEW i \in Invocations, WriteBrief(i)
    PROVE  IInv'
<1>1. TypeOK'
  <2>1. pc' \in [Invocations -> Labels]
    BY GotoType DEF WriteBrief, IInv, Labels, Executing
  <2>2. log' \in [Invocations -> BOOLEAN] /\ faults' \in 0..MaxFaults
    BY LoggedType DEF WriteBrief, IInv
  <2>. QED BY <2>1, <2>2 DEF WriteBrief, IInv, TypeOK, request
<1>2. Moves(i)
  BY DEF WriteBrief, Moves, request, Executing
<1>. QED BY <1>1, <1>2, MovesKeepsIds DEF IInv

LEMMA RecordSourceYieldKeepsIInv ==
    ASSUME IInv, NEW i \in Invocations, RecordSourceYield(i)
    PROVE  IInv'
<1>1. PICK fails \in BOOLEAN :
        /\ Fault(IF fails THEN 1 ELSE 0)
        /\ answer' = [answer EXCEPT ![i] =
              [id |-> runId[i], status |-> FinalStatus(i, log[i]),
               errors |-> log[i] \/ fails, degraded |-> Skipped(i) # {}]]
  BY DEF RecordSourceYield
<1>2. pc[i] = "yield" /\ runId[i] \in Invocations /\ slot[i] \in Slots
  BY DEF RecordSourceYield, Goto, IInv, TypeOK, OwnsWhileExecuting, SlotIsSet, Executing
<1>3. /\ answer'[i] \in Record
      /\ answer'[i].id = runId[i]
      /\ answer'[i].status \in Final
  BY <1>1, <1>2, FinalStatusType DEF IInv, TypeOK, Record, Status
<1>4. TypeOK'
  <2>1. pc' \in [Invocations -> Labels]
    BY GotoType DEF RecordSourceYield, IInv, Labels, Executing
  <2>2. faults' \in 0..MaxFaults
    BY <1>1, OrchestratorAssumption DEF Fault, IInv, TypeOK
  <2>3. answer' \in [Invocations -> Record \cup {NoRecord}]
    BY <1>1, <1>3 DEF IInv, TypeOK
  <2>. QED BY <2>1, <2>2, <2>3 DEF RecordSourceYield, IInv, TypeOK, request
<1>5. SlotIsSet'
  BY DEF RecordSourceYield, IInv, SlotIsSet, TypeOK, Goto, request, Executing
<1>6. OwnsWhileExecuting'
  BY DEF RecordSourceYield, IInv, OwnsWhileExecuting, TypeOK, Goto, request, Executing
<1>7. IdsAgree'
  <2>1. ASSUME NEW j \in Invocations, pc'[j] = "finish"
        PROVE  answer'[j] \in Record /\ answer'[j].id = runId[j] /\ answer'[j].status \in Final
    <3>1. CASE j = i
      BY <1>3, <3>1
    <3>2. CASE j # i
      BY <1>1, <2>1, <3>2 DEF RecordSourceYield, IInv, IdsAgree, TypeOK, Goto
    <3>. QED BY <3>1, <3>2
  <2>2. RefusedStays
    BY DEF RefusedStays, RecordSourceYield, Goto, IInv, TypeOK
  <2>3. RowsMinted'
    BY <2>2, MintedKept DEF RecordSourceYield, request
  <2>. QED BY <2>1, <2>3 DEF RecordSourceYield, IInv, IdsAgree, RowsMinted, request
<1>. QED BY <1>4, <1>5, <1>6, <1>7 DEF IInv

(* The UPDATE leaves every row where and under the id it was.               *)
SameRow(old, new) ==
    /\ new \in Record \cup {NoRecord}
    /\ new.id = old.id
    /\ old # NoRecord <=> new # NoRecord

LEMMA UpdatedRows ==
    ASSUME IInv, NEW i \in Invocations, pc[i] = "finish"
    PROVE  \A s \in Slots : SameRow(rows[s], Updated(i)[s])
<1>1. answer[i] \in Record /\ answer[i].id = runId[i] /\ runId[i] # NoRun
  BY OrchestratorAssumption DEF IInv, IdsAgree, Record
<1>. SUFFICES ASSUME NEW s \in Slots
              PROVE  SameRow(rows[s], Updated(i)[s])
  OBVIOUS
<1>2. CASE s \in RowOf(runId[i])
  BY <1>1, <1>2 DEF Updated, RowOf, NoRecord, SameRow
<1>3. CASE s \notin RowOf(runId[i])
  BY <1>3 DEF Updated, IInv, TypeOK, SameRow
<1>. QED BY <1>2, <1>3

LEMMA FinishRunKeepsIInv ==
    ASSUME IInv, NEW i \in Invocations, FinishRun(i)
    PROVE  IInv'
<1>. USE DEF IInv, FinishRun, request
<1>1. answer[i] \in Record /\ answer[i].id = runId[i] /\ runId[i] # NoRun
  BY OrchestratorAssumption DEF IdsAgree, Goto, Record
<1>2. \A s \in Slots : SameRow(rows[s], rows'[s])
  BY UpdatedRows DEF Goto
<1>3. TypeOK'
  <2>1. pc' \in [Invocations -> Labels]
    BY GotoType DEF Labels, Settled
  <2>2. rows' \in [Slots -> Record \cup {NoRecord}]
    BY <1>2 DEF Updated, SameRow
  <2>. QED BY <2>1, <2>2, ForgetType DEF TypeOK
<1>4. SlotIsSet'
  BY <1>2 DEF SlotIsSet, TypeOK, Executing, Goto, SameRow
<1>5. OwnsWhileExecuting'
  BY DEF OwnsWhileExecuting, TypeOK, Executing, Goto
<1>6. IdsAgree'
  <2>1. ASSUME NEW j \in Invocations, runId[j] # NoRun
        PROVE  rows'[slot[j]].id = runId[j] /\ (~ req[j].force => runId[j] = j)
    BY <1>2, <2>1 DEF IdsAgree, SlotIsSet, SameRow
  <2>2. RowsMinted'
    <3>1. RefusedStays
      BY DEF RefusedStays, Goto, TypeOK
    <3>. QED BY <1>2, <3>1, MintedKept DEF SameRow
  <2>3. ASSUME NEW j \in Invocations, pc'[j] = "finish"
        PROVE  answer[j] \in Record /\ answer[j].id = runId[j] /\ answer[j].status \in Final
    BY <2>3 DEF IdsAgree, TypeOK, Goto
  <2>. QED BY <2>1, <2>2, <2>3 DEF IdsAgree, RowsMinted
<1>. QED BY <1>3, <1>4, <1>5, <1>6

LEMMA FinishRunFailsKeepsIInv ==
    ASSUME IInv, NEW i \in Invocations, FinishRunFails(i)
    PROVE  IInv'
<1>. USE DEF IInv, FinishRunFails, request
<1>1. answer[i] \in Record
  BY DEF IdsAgree, Goto
<1>2. \A s \in Slots : SameRow(rows[s], rows'[s])
  <2>1. CASE rows' = rows
    BY <2>1 DEF SameRow, TypeOK
  <2>2. CASE rows' = Updated(i)
    BY <2>2, UpdatedRows DEF Goto
  <2>. QED BY <2>1, <2>2
<1>3. TypeOK'
  <2>1. pc' \in [Invocations -> Labels]
    BY GotoType DEF Labels, Settled
  <2>2. answer' \in [Invocations -> Record \cup {NoRecord}]
    BY <1>1 DEF TypeOK, Record
  <2>3. faults' \in 0..MaxFaults
    BY OrchestratorAssumption DEF Fault, TypeOK
  <2>4. rows' \in [Slots -> Record \cup {NoRecord}]
    BY <1>2 DEF Updated, SameRow, TypeOK
  <2>. QED BY <2>1, <2>2, <2>3, <2>4, ForgetType DEF TypeOK
<1>4. SlotIsSet'
  BY <1>2 DEF SlotIsSet, TypeOK, Executing, Goto, SameRow
<1>5. OwnsWhileExecuting'
  BY DEF OwnsWhileExecuting, TypeOK, Executing, Goto
<1>6. IdsAgree'
  <2>1. ASSUME NEW j \in Invocations, runId[j] # NoRun
        PROVE  rows'[slot[j]].id = runId[j] /\ (~ req[j].force => runId[j] = j)
    BY <1>2, <2>1 DEF IdsAgree, SlotIsSet, SameRow
  <2>2. RowsMinted'
    <3>1. RefusedStays
      BY DEF RefusedStays, Goto, TypeOK
    <3>. QED BY <1>2, <3>1, MintedKept DEF SameRow
  <2>3. ASSUME NEW j \in Invocations, pc'[j] = "finish"
        PROVE  answer'[j] \in Record /\ answer'[j].id = runId[j] /\ answer'[j].status \in Final
    BY <2>3 DEF IdsAgree, TypeOK, Goto
  <2>. QED BY <2>1, <2>2, <2>3 DEF IdsAgree, RowsMinted
<1>. QED BY <1>3, <1>4, <1>5, <1>6

LEMMA TickKeepsIInv ==
    ASSUME IInv, Tick
    PROVE  IInv'
<1>. USE DEF IInv, Tick, request
<1>1. TypeOK'
  BY OrchestratorAssumption DEF TypeOK
<1>2. SlotIsSet' /\ OwnsWhileExecuting' /\ IdsAgree'
  BY DEF SlotIsSet, OwnsWhileExecuting, IdsAgree, Minted
<1>. QED BY <1>1, <1>2

LEMMA CrashKeepsIInv ==
    ASSUME IInv, Crash
    PROVE  IInv'
<1>. USE DEF IInv, Crash, request
<1>1. \A i \in Invocations : pc'[i] = pc[i] \/ pc'[i] = "dead"
  OBVIOUS
<1>2. TypeOK'
  <2>1. pc' \in [Invocations -> Labels]
    BY DEF TypeOK, Labels, Settled
  <2>2. faults' \in 0..MaxFaults
    BY OrchestratorAssumption DEF Fault, TypeOK
  <2>3. /\ chosen' \in [Invocations -> SUBSET Sources]
        /\ result' \in [Invocations -> [Sources -> Outcomes \cup {"none"}]]
        /\ log' \in [Invocations -> BOOLEAN]
        /\ held' \in [Invocations -> SUBSET {"enriched", "alerts"}]
    BY ForgetType
  <2>. QED BY <2>1, <2>2, <2>3 DEF TypeOK
<1>3. SlotIsSet'
  BY <1>1 DEF SlotIsSet, Executing
<1>4. OwnsWhileExecuting'
  BY <1>1 DEF OwnsWhileExecuting, Executing
<1>5. IdsAgree'
  <2>1. RefusedStays
    BY DEF RefusedStays, Settled
  <2>2. RowsMinted'
    BY <2>1, MintedKept
  <2>. QED BY <1>1, <2>2 DEF IdsAgree, RowsMinted
<1>. QED BY <1>2, <1>3, <1>4, <1>5

-----------------------------------------------------------------------------
(* The inductive invariant, and what it is for.                             *)

LEMMA InitIInv == Init => IInv
<1>. SUFFICES ASSUME Init PROVE IInv
  OBVIOUS
<1>1. TypeOK
  BY OrchestratorAssumption DEF Init, TypeOK, Labels
<1>2. SlotIsSet /\ OwnsWhileExecuting /\ IdsAgree
  BY DEF Init, SlotIsSet, OwnsWhileExecuting, IdsAgree, Executing
<1>. QED BY <1>1, <1>2 DEF IInv

LEMMA NextIInv == IInv /\ [Next]_vars => IInv'
<1>. SUFFICES ASSUME IInv, [Next]_vars PROVE IInv'
  OBVIOUS
<1>1. ASSUME NEW i \in Invocations, Handle(i) \/ Refuse(i) \/ ClaimLost(i) \/ Claim(i)
      PROVE  IInv'
  BY <1>1, HandleKeepsIInv, RefuseKeepsIInv, ClaimLostKeepsIInv, ClaimInsertKeepsIInv,
     ClaimConflictKeepsIInv, ReturnExistingKeepsIInv, AdoptForcedKeepsIInv DEF Claim
<1>2. ASSUME NEW i \in Invocations, Execute(i)
      PROVE  IInv'
  BY <1>2, ChooseSourcesKeepsIInv, CollectorAnswersKeepsIInv, CollectDoneKeepsIInv,
     EnrichKeepsIInv, ReadWindowKeepsIInv, AnalyseKeepsIInv, RespondKeepsIInv,
     WriteBriefKeepsIInv, RecordSourceYieldKeepsIInv, FinishRunKeepsIInv,
     FinishRunFailsKeepsIInv DEF Execute
<1>3. CASE UNCHANGED vars
  BY <1>3 DEF vars, IInv, TypeOK, SlotIsSet, OwnsWhileExecuting, IdsAgree, Minted
<1>. QED BY <1>1, <1>2, <1>3, TickKeepsIInv, CrashKeepsIInv DEF Next

THEOREM Invariance == Spec => []IInv
BY InitIInv, NextIInv, PTL DEF Spec

(* Every reachable state is well-typed.                                     *)
THEOREM TypeCorrect == Spec => []TypeOK
<1>1. IInv => TypeOK
  BY DEF IInv
<1>. QED BY <1>1, Invariance, PTL

(* ClaimRun (store.go): however many triggers for a bucket race, at most    *)
(* one that was not forced ever executes.                                   *)
THEOREM OneUnforcedRun == Spec => []OneUnforcedRunPerBucket
<1>1. IInv => OneUnforcedRunPerBucket
  BY DEF IInv, IdsAgree, OneUnforcedRunPerBucket, Owns
<1>. QED BY <1>1, Invariance, PTL

(* claim and FinishRun: an execution, forced or not, closes the row of its  *)
(* own bucket and no other.                                                 *)
THEOREM OwnersShareRow == Spec => []OwnersShareTheRowId
<1>1. IInv => OwnersShareTheRowId
  <2> SUFFICES ASSUME IInv, NEW i \in Invocations, runId[i] # NoRun
               PROVE  RowOf(runId[i]) = {slot[i]}
    BY DEF OwnersShareTheRowId
  <2>1. slot[i] \in Slots /\ rows[slot[i]].id = runId[i]
    BY DEF IInv, SlotIsSet, IdsAgree
  <2>2. ASSUME NEW s \in Slots, rows[s].id = runId[i]
        PROVE  s = slot[i]
    <3>1. rows[s] # NoRecord /\ rows[slot[i]] # NoRecord
      BY <2>1, <2>2 DEF NoRecord
    <3>. QED BY <2>1, <2>2, <3>1 DEF IInv, IdsAgree, Minted
  <2>. QED BY <2>1, <2>2 DEF RowOf
<1>. QED BY <1>1, Invariance, PTL

-----------------------------------------------------------------------------
(* What the status of a run says.  An execution only touches its own tally. *)

SameTally(j) ==
    /\ pc'[j] = pc[j] /\ chosen'[j] = chosen[j] /\ result'[j] = result[j]
    /\ log'[j] = log[j] /\ answer'[j] = answer[j]

LEMMA SameTallyKept ==
    ASSUME NEW j \in Invocations, Tally(j), SameTally(j)
    PROVE  Tally(j)'
BY DEF SameTally, Tally, HonestStatus, GotMentions

LEMMA OthersTally ==
    ASSUME TypeOK, NEW i \in Invocations, NEW j \in Invocations \ {i},
           Handle(i) \/ Refuse(i) \/ ClaimLost(i) \/ Claim(i) \/ Execute(i)
    PROVE  SameTally(j)
<1>. USE DEF SameTally, Goto, TypeOK, request
<1>1. CASE Handle(i) \/ Refuse(i) \/ ClaimLost(i) \/ Claim(i)
  BY <1>1 DEF Handle, Refuse, ClaimLost, Claim, ClaimInsert, ClaimConflict,
     ReturnExisting, AdoptForced
<1>2. CASE ChooseSources(i) \/ CollectDone(i) \/ Enrich(i) \/ ReadWindow(i)
  BY <1>2 DEF ChooseSources, CollectDone, Enrich, ReadWindow, Logged
<1>3. CASE \E s \in Sources : CollectorAnswers(i, s)
  BY <1>3 DEF CollectorAnswers, Logged
<1>4. CASE Analyse(i) \/ Respond(i) \/ WriteBrief(i) \/ RecordSourceYield(i)
  BY <1>4 DEF Analyse, Respond, WriteBrief, RecordSourceYield, Logged
<1>5. CASE FinishRun(i) \/ FinishRunFails(i)
  <2>1. Forget({i}) /\ pc'[j] = pc[j] /\ answer'[j] = answer[j]
    BY <1>5 DEF FinishRun, FinishRunFails
  <2>2. chosen'[j] = chosen[j] /\ result'[j] = result[j]
    BY <2>1 DEF Forget
  <2>3. log'[j] \in BOOLEAN /\ log[j] \in BOOLEAN
    BY <2>1, ForgetType
  <2>4. log'[j] <=> log[j]
    BY <2>1 DEF Forget
  <2>5. log'[j] = log[j]
    BY <2>3, <2>4
  <2>. QED BY <2>1, <2>2, <2>5
<1>. QED BY <1>1, <1>2, <1>3, <1>4, <1>5 DEF Execute

(* Up to the claim there is nothing to tally.                               *)
LEMMA ClaimTally ==
    ASSUME IInv, NEW i \in Invocations, Tally(i),
           Handle(i) \/ Refuse(i) \/ ClaimLost(i) \/ Claim(i)
    PROVE  Tally(i)'
<1>1. pc[i] \in {"idle", "claim", "find"} /\ result' = result
  BY DEF Handle, Refuse, ClaimLost, Claim, ClaimInsert, ClaimConflict,
     ReturnExisting, AdoptForced, Goto
<1>2. pc'[i] \in {"claim", "find", "plan", "refused", "returned"}
  BY DEF Handle, Refuse, ClaimLost, Claim, ClaimInsert, ClaimConflict,
     ReturnExisting, AdoptForced, Goto, IInv, TypeOK
<1>. QED BY <1>1, <1>2 DEF Tally, Executing

LEMMA ChooseSourcesTally ==
    ASSUME IInv, NEW i \in Invocations, Tally(i), ChooseSources(i)
    PROVE  Tally(i)'
<1>1. pc[i] = "plan" /\ pc'[i] = "collect" /\ result' = result
  BY DEF ChooseSources, Goto, IInv, TypeOK
<1>2. chosen'[i] \subseteq Sources
  BY DEF ChooseSources, IInv, TypeOK
<1>3. \A s \in Sources : result'[i][s] = "none"
  BY <1>1 DEF Tally
<1>. QED BY <1>1, <1>2, <1>3 DEF Tally, Executing

LEMMA CollectorAnswersTally ==
    ASSUME IInv, NEW i \in Invocations, NEW s \in Sources, Tally(i), CollectorAnswers(i, s)
    PROVE  Tally(i)'
<1>1. PICK outcome \in Outcomes :
        /\ result' = [result EXCEPT ![i][s] = outcome]
        /\ Logged(i, outcome \in {"down", "broken", "partial"})
  BY DEF CollectorAnswers
<1>2. pc'[i] = "collect" /\ pc[i] = "collect" /\ chosen'[i] = chosen[i]
  BY DEF CollectorAnswers
<1>3. log'[i] = (log[i] \/ outcome \in {"down", "broken", "partial"})
  BY <1>1 DEF Logged, IInv, TypeOK
<1>4. \A t \in chosen[i] : result'[i][t] = IF t = s THEN outcome ELSE result[i][t]
  BY <1>1 DEF IInv, TypeOK
<1>. QED BY <1>2, <1>3, <1>4 DEF Tally, Executing

(* From the fan-out to the record: the log only fills.                      *)
LEMMA LaterStepsTally ==
    ASSUME IInv, NEW i \in Invocations, Tally(i),
           CollectDone(i) \/ Enrich(i) \/ ReadWindow(i) \/ Analyse(i)
           \/ Respond(i) \/ WriteBrief(i)
    PROVE  Tally(i)'
<1>. USE DEF CollectDone, Enrich, ReadWindow, Analyse, Respond, WriteBrief
<1>1. chosen' = chosen /\ result' = result
  OBVIOUS
<1>2. log[i] => log'[i]
  BY DEF Logged, IInv, TypeOK
<1>3. /\ pc[i] \in Executing \ {"plan", "finish"}
      /\ pc'[i] \in Executing \ {"plan", "collect", "finish"}
      /\ pc[i] = "collect" => \A s \in chosen[i] : result[i][s] # "none"
  BY DEF Goto, Executing, IInv, TypeOK
<1>. QED BY <1>1, <1>2, <1>3 DEF Tally, Executing

LEMMA RecordSourceYieldTally ==
    ASSUME IInv, NEW i \in Invocations, Tally(i), RecordSourceYield(i)
    PROVE  Tally(i)'
<1>1. /\ pc[i] = "yield" /\ pc'[i] = "finish"
      /\ chosen' = chosen /\ result' = result /\ log' = log
      /\ answer'[i].status = FinalStatus(i, log[i])
  BY DEF RecordSourceYield, Goto, IInv, TypeOK
<1>2. chosen[i] \subseteq Sources /\ \A s \in Sources : result[i][s] \in Outcomes \cup {"none"}
  BY DEF IInv, TypeOK
<1>3. FinalStatus(i, log[i]) = "ok" =>
        \A s \in Sources : s \in chosen[i] /\ result[i][s] \in {"ok", "quiet"}
  <2>. SUFFICES ASSUME FinalStatus(i, log[i]) = "ok", NEW s \in Sources
                PROVE  s \in chosen[i] /\ result[i][s] \in {"ok", "quiet"}
    OBVIOUS
  <2>1. ~ log[i] /\ Skipped(i) = {}
    BY DEF FinalStatus
  <2>2. s \in chosen[i]
    BY <2>1 DEF Skipped
  <2>. QED BY <1>1, <1>2, <2>1, <2>2 DEF Tally, Executing, Outcomes
<1>4. FinalStatus(i, log[i]) = "failed" =>
        ~ GotMentions(i) /\ \E s \in Sources : result[i][s] \in {"down", "broken"}
  <2>. SUFFICES ASSUME FinalStatus(i, log[i]) = "failed"
                PROVE  ~ GotMentions(i) /\ \E s \in Sources : result[i][s] \in {"down", "broken"}
    OBVIOUS
  <2>1. chosen[i] # {} /\ \A s \in chosen[i] : result[i][s] \in {"down", "broken"}
    BY DEF FinalStatus, Failed
  <2>. QED BY <1>2, <2>1 DEF GotMentions
<1>5. HonestStatus(i)'
  BY <1>1, <1>3, <1>4 DEF HonestStatus, GotMentions
<1>. QED BY <1>1, <1>5 DEF Tally, Executing

LEMMA EndsTally ==
    ASSUME IInv, NEW i \in Invocations, FinishRun(i) \/ FinishRunFails(i)
    PROVE  Tally(i)'
<1>1. pc'[i] = "returned"
  BY DEF FinishRun, FinishRunFails, Goto, IInv, TypeOK
<1>. QED BY <1>1 DEF Tally, Executing

LEMMA CrashTally ==
    ASSUME IInv, NEW i \in Invocations, Tally(i), Crash
    PROVE  Tally(i)'
<1>1. CASE pc[i] \in {"idle"} \cup Settled
  <2>1. SameTally(i)
    BY <1>1 DEF Crash, Forget, SameTally, IInv, TypeOK
  <2>. QED BY <2>1, SameTallyKept
<1>2. CASE pc[i] \notin {"idle"} \cup Settled
  <2>1. pc'[i] = "dead"
    BY <1>2 DEF Crash
  <2>. QED BY <2>1 DEF Tally, Executing
<1>. QED BY <1>1, <1>2

LEMMA NextTInv == TInv /\ [Next]_vars => TInv'
<1>. SUFFICES ASSUME TInv, [Next]_vars PROVE TInv'
  OBVIOUS
<1>1. IInv /\ IInv'
  BY NextIInv DEF TInv
<1>2. ASSUME NEW i \in Invocations PROVE Tally(i)'
  <2>1. Tally(i) /\ TypeOK
    BY <1>1 DEF TInv, IInv
  <2>2. ASSUME NEW j \in Invocations,
               Handle(j) \/ Refuse(j) \/ ClaimLost(j) \/ Claim(j) \/ Execute(j)
        PROVE  Tally(i)'
    <3>1. CASE j # i
      BY <2>1, <2>2, <3>1, OthersTally, SameTallyKept
    <3>2. CASE j = i
      BY <1>1, <2>1, <2>2, <3>2, ClaimTally, ChooseSourcesTally, CollectorAnswersTally,
         LaterStepsTally, RecordSourceYieldTally, EndsTally DEF Execute
    <3>. QED BY <3>1, <3>2
  <2>3. CASE Tick \/ UNCHANGED vars
    <3>1. SameTally(i)
      BY <2>3 DEF Tick, vars, SameTally
    <3>. QED BY <2>1, <3>1, SameTallyKept
  <2>4. CASE Crash
    BY <1>1, <2>1, <2>4, CrashTally
  <2>. QED BY <2>2, <2>3, <2>4 DEF Next
<1>. QED BY <1>1, <1>2 DEF TInv

(* finalStatus and the tallies of collect: "ok" and "failed" mean what they *)
(* say of every source of the profile.                                      *)
THEOREM StatusIsHonest == Spec => []StatusMatchesSources
<1>1. Init => TInv
  BY InitIInv DEF TInv, Tally, Init, Executing
<1>2. TInv => StatusMatchesSources
  BY DEF TInv, Tally, StatusMatchesSources
<1>. QED BY <1>1, <1>2, NextTInv, PTL DEF Spec

-----------------------------------------------------------------------------
(* Who answers for a row that says running.                                 *)

Attended(s) ==
    Abandoned(s) \/ \E i \in Invocations : Owns(i, s) /\ pc[i] \in Executing

(* Ids and slots do not change under an owner; a request that has come to   *)
(* rest stays where it is, with its answer.                                 *)
LEMMA OwnersStay ==
    ASSUME IInv, [Next]_vars, NEW i \in Invocations, NEW s \in Slots, Owns(i, s)
    PROVE  /\ Owns(i, s)'
           /\ pc[i] \in {"dead", "returned"} => pc'[i] = pc[i] /\ answer'[i] = answer[i]
<1>. USE DEF IInv, TypeOK, Owns, Goto, request
<1>1. ASSUME NEW j \in Invocations, Handle(j) \/ Refuse(j) \/ ClaimLost(j) \/ Claim(j)
      PROVE  /\ Owns(i, s)'
             /\ pc[i] \in {"dead", "returned"} => pc'[i] = pc[i] /\ answer'[i] = answer[i]
  <2>1. pc[j] \in {"idle", "claim", "find"} /\ j # i
    BY <1>1 DEF Handle, Refuse, ClaimLost, Claim, ClaimInsert, ClaimConflict,
       ReturnExisting, AdoptForced, OwnsWhileExecuting
  <2>. QED BY <1>1, <2>1 DEF Handle, Refuse, ClaimLost, Claim, ClaimInsert,
       ClaimConflict, ReturnExisting, AdoptForced
<1>2. ASSUME NEW j \in Invocations, Execute(j)
      PROVE  /\ Owns(i, s)'
             /\ pc[i] \in {"dead", "returned"} => pc'[i] = pc[i] /\ answer'[i] = answer[i]
  <2>1. UNCHANGED <<slot, runId>>
    BY <1>2 DEF Execute, ChooseSources, CollectorAnswers, CollectDone, Enrich,
       ReadWindow, Analyse, Respond, WriteBrief, RecordSourceYield, FinishRun, FinishRunFails
  <2>2. pc[j] \in Executing
    BY <1>2 DEF Execute, ChooseSources, CollectorAnswers, CollectDone, Enrich, Executing,
       ReadWindow, Analyse, Respond, WriteBrief, RecordSourceYield, FinishRun, FinishRunFails
  <2>3. \A k \in Invocations \ {j} : pc'[k] = pc[k] /\ answer'[k] = answer[k]
    BY <1>2, OthersTally DEF SameTally
  <2>. QED BY <2>1, <2>2, <2>3 DEF Executing
<1>3. CASE Tick
  BY <1>3 DEF Tick
<1>4. CASE Crash
  BY <1>4 DEF Crash, Settled
<1>5. CASE UNCHANGED vars
  BY <1>5 DEF vars
<1>. QED BY <1>1, <1>2, <1>3, <1>4, <1>5 DEF Next

(* An owner that stops executing has written its row, or abandoned it.      *)
LEMMA OwnerStops ==
    ASSUME IInv, [Next]_vars, NEW i \in Invocations, NEW s \in Slots, Owns(i, s),
           pc[i] \in Executing, pc'[i] \notin Executing
    PROVE  FinishRun(i) \/ Abandoned(s)'
<1>1. Owns(i, s)'
  BY OwnersStay
<1>2. CASE Crash
  <2>1. pc'[i] = "dead"
    BY <1>2 DEF Crash, IInv, TypeOK, Executing
  <2>. QED BY <1>1, <2>1 DEF Abandoned
<1>3. CASE FinishRunFails(i)
  <2>1. pc'[i] = "returned" /\ answer'[i].errors
    BY <1>3 DEF FinishRunFails, Goto, IInv, IdsAgree, TypeOK, Record
  <2>. QED BY <1>1, <2>1 DEF Abandoned
<1>4. CASE Tick \/ UNCHANGED vars
  BY <1>4 DEF Tick, vars
<1>5. ASSUME NEW j \in Invocations \ {i},
             Handle(j) \/ Refuse(j) \/ ClaimLost(j) \/ Claim(j) \/ Execute(j)
      PROVE  FALSE
  BY <1>5, OthersTally DEF SameTally, IInv
<1>6. CASE Handle(i) \/ Refuse(i) \/ ClaimLost(i) \/ Claim(i)
  BY <1>6 DEF Handle, Refuse, ClaimLost, Claim, ClaimInsert, ClaimConflict,
     ReturnExisting, AdoptForced, Goto, Executing
<1>7. CASE Execute(i) /\ ~ FinishRun(i) /\ ~ FinishRunFails(i)
  BY <1>7 DEF Execute, ChooseSources, CollectorAnswers, CollectDone, Enrich, ReadWindow,
     Analyse, Respond, WriteBrief, RecordSourceYield, Goto, Executing, IInv, TypeOK
<1>. QED BY <1>2, <1>3, <1>4, <1>5, <1>6, <1>7 DEF Next

(* An owner's FinishRun closes its row; a row keeps its id.                 *)
LEMMA FinishRunCloses ==
    ASSUME IInv, NEW i \in Invocations, NEW s \in Slots, Owns(i, s), FinishRun(i)
    PROVE  rows'[s].status # "running"
<1>1. s \in RowOf(runId[i]) /\ answer[i].status \in Final
  BY DEF Owns, FinishRun, Goto, IInv, IdsAgree, RowOf
<1>. QED BY <1>1 DEF FinishRun, Updated, Final

LEMMA RowIdStays ==
    ASSUME IInv, [Next]_vars, NEW s \in Slots, rows[s] # NoRecord
    PROVE  rows'[s].id = rows[s].id
<1>1. ASSUME NEW i \in Invocations, ClaimInsert(i) \/ ClaimLost(i)
      PROVE  rows'[s] = rows[s]
  BY <1>1 DEF ClaimInsert, ClaimLost, IInv, TypeOK
<1>2. ASSUME NEW i \in Invocations, FinishRun(i) \/ FinishRunFails(i)
      PROVE  rows'[s].id = rows[s].id
  <2>1. SameRow(rows[s], Updated(i)[s])
    BY <1>2, UpdatedRows DEF FinishRun, FinishRunFails, Goto
  <2>. QED BY <1>2, <2>1 DEF FinishRun, FinishRunFails, SameRow
<1>3. \/ \E i \in Invocations : ClaimInsert(i) \/ ClaimLost(i) \/ FinishRun(i) \/ FinishRunFails(i)
      \/ rows' = rows
  BY DEF Next, Handle, Refuse, Claim, ClaimConflict, ReturnExisting, AdoptForced,
     Execute, ChooseSources, CollectorAnswers, CollectDone, Enrich, ReadWindow,
     Analyse, Respond, WriteBrief, RecordSourceYield, Tick, Crash, vars
<1>. QED BY <1>1, <1>2, <1>3

LEMMA RefusedForGood ==
    ASSUME IInv, [Next]_vars, NEW i \in Invocations, pc[i] = "refused"
    PROVE  pc'[i] = "refused"
<1>1. ASSUME NEW j \in Invocations,
             Handle(j) \/ Refuse(j) \/ ClaimLost(j) \/ Claim(j) \/ Execute(j)
      PROVE  pc'[i] = "refused"
  <2>1. CASE j # i
    BY <1>1, <2>1, OthersTally DEF SameTally, IInv
  <2>2. CASE j = i
    BY <1>1, <2>2 DEF Handle, Refuse, ClaimLost, Claim, ClaimInsert, ClaimConflict,
       ReturnExisting, AdoptForced, Execute, ChooseSources, CollectorAnswers, CollectDone,
       Enrich, ReadWindow, Analyse, Respond, WriteBrief, RecordSourceYield, FinishRun,
       FinishRunFails, Goto
  <2>. QED BY <2>1, <2>2
<1>2. CASE Tick \/ UNCHANGED vars
  BY <1>2 DEF Tick, vars
<1>3. CASE Crash
  BY <1>3 DEF Crash, Settled, IInv, TypeOK
<1>. QED BY <1>1, <1>2, <1>3 DEF Next

LEMMA AbandonedStays ==
    ASSUME IInv, [Next]_vars, NEW s \in Slots, Abandoned(s)
    PROVE  Abandoned(s)'
<1>1. PICK i \in Invocations :
        \/ Owns(i, s) /\ (pc[i] = "dead" \/ (pc[i] = "returned" /\ answer[i].errors))
        \/ rows[s].id = i /\ pc[i] = "refused"
  BY DEF Abandoned
<1>2. CASE Owns(i, s) /\ (pc[i] = "dead" \/ (pc[i] = "returned" /\ answer[i].errors))
  BY <1>2, OwnersStay DEF Abandoned
<1>3. CASE rows[s].id = i /\ pc[i] = "refused"
  <2>1. rows[s] # NoRecord
    BY <1>3, OrchestratorAssumption DEF NoRecord
  <2>. QED BY <1>3, <2>1, RowIdStays, RefusedForGood DEF Abandoned
<1>. QED BY <1>1, <1>2, <1>3

(* A row newly claimed has an owner, or was claimed without an answer.      *)
LEMMA NewRowAttended ==
    ASSUME IInv, [Next]_vars, NEW s \in Slots, rows[s].status # "running",
           rows'[s].status = "running"
    PROVE  Attended(s)'
<1>1. \E i \in Invocations :
         (ClaimInsert(i) \/ ClaimLost(i)) /\ s = slot[i]
  <2>1. ASSUME NEW i \in Invocations, ClaimInsert(i) \/ ClaimLost(i)
        PROVE  s = slot[i]
    BY <2>1 DEF ClaimInsert, ClaimLost, IInv, TypeOK
  <2>2. ASSUME NEW i \in Invocations, FinishRun(i) \/ FinishRunFails(i)
        PROVE  FALSE
    <3>1. answer[i].status \in Final
      BY <2>2 DEF FinishRun, FinishRunFails, Goto, IInv, IdsAgree
    <3>. QED BY <2>2, <3>1 DEF FinishRun, FinishRunFails, Updated, Final
  <2>3. \/ \E i \in Invocations : ClaimInsert(i) \/ ClaimLost(i) \/ FinishRun(i) \/ FinishRunFails(i)
        \/ rows' = rows
    BY DEF Next, Handle, Refuse, Claim, ClaimConflict, ReturnExisting, AdoptForced,
       Execute, ChooseSources, CollectorAnswers, CollectDone, Enrich, ReadWindow,
       Analyse, Respond, WriteBrief, RecordSourceYield, Tick, Crash, vars
  <2>. QED BY <2>1, <2>2, <2>3
<1>2. PICK i \in Invocations : (ClaimInsert(i) \/ ClaimLost(i)) /\ s = slot[i]
  BY <1>1
<1>3. CASE ClaimInsert(i)
  <2>1. Owns(i, s)' /\ pc'[i] \in Executing
    BY <1>2, <1>3, OrchestratorAssumption
    DEF ClaimInsert, Goto, Owns, IInv, TypeOK, Executing
  <2>. QED BY <2>1 DEF Attended
<1>4. CASE ClaimLost(i)
  <2>1. rows'[s].id = i /\ pc'[i] = "refused"
    BY <1>2, <1>4 DEF ClaimLost, Goto, FreshRow, IInv, TypeOK
  <2>. QED BY <2>1 DEF Attended, Abandoned
<1>. QED BY <1>2, <1>3, <1>4

LEMMA NextAttended ==
    IInv /\ RunningRowHasOwner /\ [Next]_vars => RunningRowHasOwner'
<1>. SUFFICES ASSUME IInv, RunningRowHasOwner, [Next]_vars,
                     NEW s \in Slots, rows'[s].status = "running"
              PROVE  Attended(s)'
  BY DEF RunningRowHasOwner, Attended
<1>1. CASE rows[s].status # "running"
  BY <1>1, NewRowAttended
<1>2. CASE rows[s].status = "running"
  <2>1. CASE Abandoned(s)
    BY <2>1, AbandonedStays DEF Attended
  <2>2. CASE \E i \in Invocations : Owns(i, s) /\ pc[i] \in Executing
    <3>1. PICK i \in Invocations : Owns(i, s) /\ pc[i] \in Executing
      BY <2>2
    <3>2. CASE pc'[i] \in Executing
      BY <3>1, <3>2, OwnersStay DEF Attended
    <3>3. CASE pc'[i] \notin Executing
      BY <3>1, <3>3, OwnerStops, FinishRunCloses DEF Attended
    <3>. QED BY <3>2, <3>3
  <2>. QED BY <1>2, <2>1, <2>2 DEF RunningRowHasOwner
<1>. QED BY <1>1, <1>2

(* execute and FinishRun: a row is never left running while nobody works on *)
(* it, unless somebody died over it or could not write or claim it.         *)
THEOREM RunningRowIsAttended == Spec => []RunningRowHasOwner
<1>1. Init => RunningRowHasOwner
  BY DEF Init, RunningRowHasOwner, NoRecord
<1>. QED BY <1>1, Invariance, NextAttended, PTL DEF Spec

-----------------------------------------------------------------------------
(* Orchestrator implements RunBook.  Beyond IInv the argument needs to know *)
(* that a closed row was closed by somebody who has returned: a second      *)
(* close then is another owner, and of two owners one was forced.           *)

ClosedByAnOwner ==
    \A s \in Slots : rows[s].status \in Final =>
        \E j \in Invocations : Owns(j, s) /\ pc[j] = "returned"

BInv == IInv /\ ClosedByAnOwner

(* Once an owner has returned it stays so, whatever the step.               *)
LEMMA ReturnedStays ==
    ASSUME IInv, [Next]_vars, NEW j \in Invocations, NEW s \in Slots,
           Owns(j, s), pc[j] = "returned"
    PROVE  Owns(j, s)' /\ pc'[j] = "returned"
<1>. USE DEF IInv, TypeOK, Owns, Goto, request
<1>1. ASSUME NEW i \in Invocations, Handle(i) \/ Refuse(i) \/ ClaimLost(i) \/ Claim(i)
      PROVE  Owns(j, s)' /\ pc'[j] = "returned"
  BY <1>1 DEF Handle, Refuse, ClaimLost, Claim, ClaimInsert, ClaimConflict, ReturnExisting, AdoptForced
<1>2. ASSUME NEW i \in Invocations, Execute(i)
      PROVE  Owns(j, s)' /\ pc'[j] = "returned"
  BY <1>2 DEF Execute, ChooseSources, CollectorAnswers, CollectDone, Enrich,
     ReadWindow, Analyse, Respond, WriteBrief, RecordSourceYield, FinishRun, FinishRunFails
<1>3. CASE Tick
  BY <1>3 DEF Tick
<1>4. CASE Crash
  BY <1>4 DEF Crash, Settled
<1>5. CASE UNCHANGED vars
  BY <1>5 DEF vars
<1>. QED BY <1>1, <1>2, <1>3, <1>4, <1>5 DEF Next

(* Only the last statement of an execution gives a row a final status.      *)
Ends(i) == FinishRun(i) \/ FinishRunFails(i)

LEMMA OnlyEndsClose ==
    ASSUME IInv, [Next]_vars, NEW s \in Slots,
           rows'[s].status \in Final, rows[s].status \notin Final
    PROVE  \E i \in Invocations : Ends(i) /\ s \in RowOf(runId[i])
<1>1. ASSUME NEW i \in Invocations, ClaimInsert(i) \/ ClaimLost(i)
      PROVE  FALSE
  BY <1>1 DEF ClaimInsert, ClaimLost, FreshRow, IInv, TypeOK, Final
<1>2. ASSUME NEW i \in Invocations, Ends(i)
      PROVE  s \in RowOf(runId[i])
  BY <1>2 DEF Ends, FinishRun, FinishRunFails, Updated
<1>3. \/ \E i \in Invocations : ClaimInsert(i) \/ ClaimLost(i) \/ Ends(i)
      \/ rows' = rows
  BY DEF Next, Handle, Refuse, Claim, ClaimConflict, ReturnExisting, AdoptForced,
     Execute, ChooseSources, CollectorAnswers, CollectDone, Enrich, ReadWindow,
     Analyse, Respond, WriteBrief, RecordSourceYield, Ends, Tick, Crash, vars
<1>. QED BY <1>1, <1>2, <1>3

LEMMA NextBInv == BInv /\ [Next]_vars => BInv'
<1>. SUFFICES ASSUME BInv, [Next]_vars PROVE BInv'
  OBVIOUS
<1>1. IInv'
  BY NextIInv DEF BInv
<1>2. ClosedByAnOwner'
  <2> SUFFICES ASSUME NEW s \in Slots, rows'[s].status \in Final
               PROVE  \E j \in Invocations : Owns(j, s)' /\ pc'[j] = "returned"
    BY DEF ClosedByAnOwner
  <2>1. CASE rows[s].status \in Final
    <3>1. PICK j \in Invocations : Owns(j, s) /\ pc[j] = "returned"
      BY <2>1 DEF BInv, ClosedByAnOwner
    <3>. QED BY <3>1, ReturnedStays DEF BInv
  <2>2. CASE rows[s].status \notin Final
    <3>1. PICK i \in Invocations : Ends(i) /\ s \in RowOf(runId[i])
      BY <2>2, OnlyEndsClose DEF BInv
    <3>2. pc[i] = "finish" /\ pc'[i] = "returned" /\ runId[i] # NoRun
      BY <3>1, OrchestratorAssumption
      DEF Ends, FinishRun, FinishRunFails, Goto, BInv, IInv, TypeOK, OwnsWhileExecuting, Executing
    <3>3. slot[i] = s
      BY <3>1, <3>2 DEF BInv, IInv, IdsAgree, Minted, SlotIsSet, RowOf, NoRecord
    <3>4. Owns(i, s)'
      BY <3>1, <3>2, <3>3 DEF Owns, Ends, FinishRun, FinishRunFails, request
    <3>. QED BY <3>2, <3>4
  <2>. QED BY <2>1, <2>2
<1>. QED BY <1>1, <1>2 DEF BInv

-----------------------------------------------------------------------------
(* The steps, as RunBook sees them.                                         *)

LEMMA InitBook == Init => Book!BookInit
BY DEF Init, Book!BookInit, AnswerGiven, ForcedSlots, Owns, NoRecord

(* Nothing RunBook sees has changed.                                        *)
LEMMA BookStutters ==
    ASSUME UNCHANGED <<rows, req, slot, runId>>,
           \A i \in Invocations : AnswerGiven(i)' = AnswerGiven(i)
    PROVE  UNCHANGED Book!bookVars
BY DEF Book!bookVars, ForcedSlots, Owns

LEMMA HandleBook ==
    ASSUME IInv, NEW i \in Invocations, Handle(i)
    PROVE  UNCHANGED Book!bookVars
<1>1. runId[i] = NoRun
  BY DEF Handle, Goto, IInv, OwnsWhileExecuting
<1>2. ForcedSlots' = ForcedSlots
  BY <1>1 DEF Handle, ForcedSlots, Owns, IInv, TypeOK
<1>3. \A j \in Invocations : AnswerGiven(j)' = AnswerGiven(j)
  BY DEF Handle, Goto, AnswerGiven, IInv, TypeOK
<1>. QED BY <1>2, <1>3 DEF Handle, Book!bookVars

LEMMA ClaimBook ==
    ASSUME IInv, NEW i \in Invocations, ClaimInsert(i) \/ ClaimLost(i)
    PROVE  Book!Open(slot[i], i)
<1>1. slot[i] \in Slots /\ runId[i] = NoRun
  BY DEF ClaimInsert, ClaimLost, request, Goto, IInv, SlotIsSet, OwnsWhileExecuting
<1>2. ForcedSlots' = ForcedSlots
  <2>1. CASE ClaimInsert(i)
    BY <1>1, <2>1 DEF ClaimInsert, ForcedSlots, Owns, IInv, TypeOK
  <2>2. CASE ClaimLost(i)
    BY <2>2 DEF ClaimLost, request, ForcedSlots, Owns
  <2>. QED BY <2>1, <2>2
<1>3. \A j \in Invocations : AnswerGiven(j)' = AnswerGiven(j)
  BY DEF ClaimInsert, ClaimLost, request, Goto, AnswerGiven, IInv, TypeOK
<1>4. \A s \in Slots :
         rows'[s] = IF s = slot[i]
                    THEN FreshRow(i) ELSE rows[s]
  BY <1>1 DEF ClaimInsert, ClaimLost, request, IInv, TypeOK
<1>5. rows[slot[i]].status = "none"
  BY DEF ClaimInsert, ClaimLost, request, NoRecord
<1>6. \A s \in Slots :
         /\ rows'[s].status = IF s = slot[i] THEN "running" ELSE rows[s].status
         /\ rows'[s].id = IF s = slot[i] THEN i ELSE rows[s].id
  BY <1>4 DEF FreshRow
<1>7. [s \in Slots |-> rows[s].status]' =
        [[s \in Slots |-> rows[s].status] EXCEPT ![slot[i]] = "running"]
  BY <1>1, <1>6
<1>8. [s \in Slots |-> rows[s].id]' =
        [[s \in Slots |-> rows[s].id] EXCEPT ![slot[i]] = i]
  BY <1>1, <1>6
<1>. QED BY <1>1, <1>2, <1>3, <1>5, <1>7, <1>8 DEF Book!Open

LEMMA ReturnExistingBook ==
    ASSUME IInv, NEW i \in Invocations, ReturnExisting(i)
    PROVE  Book!AnswerFromPage(slot[i], i)
<1>1. slot[i] \in Slots /\ rows[slot[i]] \in Record
  BY DEF ReturnExisting, Goto, IInv, TypeOK, SlotIsSet
<1>2. \A j \in Invocations :
         AnswerGiven(j)' = IF j = i THEN rows[slot[i]].id ELSE AnswerGiven(j)
  BY DEF ReturnExisting, Goto, AnswerGiven, IInv, TypeOK
<1>3. rows[slot[i]].status # "none" /\ AnswerGiven(i) = NoRun
  BY <1>1 DEF ReturnExisting, Goto, AnswerGiven, Record, Status, Final
<1>4. ForcedSlots' = ForcedSlots
  BY DEF ReturnExisting, request, ForcedSlots, Owns
<1>. QED BY <1>1, <1>2, <1>3, <1>4 DEF Book!AnswerFromPage, ReturnExisting

LEMMA AdoptForcedBook ==
    ASSUME IInv, IInv', NEW i \in Invocations, AdoptForced(i)
    PROVE  Book!AcceptForce(slot[i])
<1>1. slot[i] \in Slots /\ rows[slot[i]] \in Record /\ rows[slot[i]] # NoRecord
  BY DEF AdoptForced, Goto, IInv, TypeOK, SlotIsSet
<1>2. runId[i] = NoRun /\ rows[slot[i]].id # i /\ rows[slot[i]].id # NoRun
  BY <1>1, OrchestratorAssumption
  DEF AdoptForced, Goto, IInv, OwnsWhileExecuting, IdsAgree, Minted, Record
<1>3. ForcedSlots' = ForcedSlots \cup {slot[i]}
  BY <1>1, <1>2 DEF AdoptForced, ForcedSlots, Owns, IInv, TypeOK
<1>4. \A j \in Invocations : AnswerGiven(j)' = AnswerGiven(j)
  BY DEF AdoptForced, Goto, AnswerGiven, IInv, TypeOK
<1>5. rows[slot[i]].status # "none"
  BY <1>1 DEF Record, Status, Final
<1>. QED BY <1>1, <1>3, <1>4, <1>5 DEF Book!AcceptForce, AdoptForced

(* An owner at its last statement, whose trigger has not been answered.     *)
LEMMA OwnerAtFinish ==
    ASSUME IInv, NEW i \in Invocations, pc[i] = "finish"
    PROVE  /\ slot[i] \in Slots
           /\ rows[slot[i]] \in Record
           /\ rows[slot[i]].id = runId[i] /\ runId[i] # NoRun
           /\ rows[slot[i]].status # "none"
           /\ answer[i] \in Record /\ answer[i].id = runId[i]
           /\ answer[i].status \in Final
           /\ RowOf(runId[i]) = {slot[i]}
           /\ AnswerGiven(i) = NoRun
<1>1. slot[i] \in Slots /\ runId[i] # NoRun /\ rows[slot[i]].id = runId[i]
  BY DEF IInv, SlotIsSet, OwnsWhileExecuting, IdsAgree, Executing
<1>2. rows[slot[i]] \in Record
  BY <1>1 DEF IInv, TypeOK, NoRecord
<1>3. ASSUME NEW s \in Slots, rows[s].id = runId[i]
      PROVE  s = slot[i]
  BY <1>1, <1>3 DEF IInv, IdsAgree, Minted, NoRecord
<1>4. RowOf(runId[i]) = {slot[i]}
  BY <1>1, <1>3 DEF RowOf
<1>5. AnswerGiven(i) = NoRun
  BY DEF AnswerGiven
<1>. QED BY <1>1, <1>2, <1>4, <1>5 DEF IInv, IdsAgree, Record, Status, Final

LEMMA CommittedBook ==
    ASSUME BInv, NEW i \in Invocations, Ends(i), rows' = Updated(i)
    PROVE  Book!Close(slot[i], i)
<1>. DEFINE s == slot[i]
<1>1. /\ s \in Slots /\ rows[s].id = runId[i] /\ runId[i] # NoRun
      /\ rows[s].status # "none" /\ answer[i].status \in Final
      /\ answer[i].id = runId[i] /\ RowOf(runId[i]) = {s} /\ AnswerGiven(i) = NoRun
  BY OwnerAtFinish DEF BInv, Ends, FinishRun, FinishRunFails, Goto
<1>2. ASSUME rows[s].status \in Final PROVE s \in ForcedSlots
  <2>1. PICK j \in Invocations : Owns(j, s) /\ pc[j] = "returned"
    BY <1>1, <1>2 DEF BInv, ClosedByAnOwner
  <2>2. j # i /\ runId[j] = runId[i]
    BY <1>1, <2>1 DEF Ends, FinishRun, FinishRunFails, Goto, Owns, BInv, IInv, IdsAgree
  <2>3. CASE runId[i] # i
    BY <1>1, <2>3 DEF ForcedSlots, Owns, BInv, IInv, IdsAgree, TypeOK
  <2>4. CASE runId[j] # j
    BY <1>1, <2>1, <2>4 DEF ForcedSlots, Owns, BInv, IInv, IdsAgree, TypeOK
  <2>. QED BY <2>2, <2>3, <2>4
<1>3. \A t \in Slots : rows'[t] = IF t = s THEN answer[i] ELSE rows[t]
  BY <1>1 DEF Updated
<1>4. \A j \in Invocations :
         AnswerGiven(j)' = IF j = i THEN runId[i] ELSE AnswerGiven(j)
  <2>1. answer'[i].id = runId[i] /\ pc'[i] = "returned"
    BY <1>1 DEF Ends, FinishRun, FinishRunFails, Goto, BInv, IInv, IdsAgree, TypeOK, Record
  <2>2. \A j \in Invocations \ {i} : pc'[j] = pc[j] /\ answer'[j] = answer[j]
    BY DEF Ends, FinishRun, FinishRunFails, Goto, BInv, IInv, TypeOK
  <2>. QED BY <2>1, <2>2 DEF AnswerGiven
<1>5. ForcedSlots' = ForcedSlots
  BY DEF Ends, FinishRun, FinishRunFails, request, ForcedSlots, Owns
<1>6. rows[s].status \in Book!Closed => s \in ForcedSlots
  BY <1>2 DEF Book!Closed, Final
<1>7. [t \in Slots |-> rows[t].status]' =
        [[t \in Slots |-> rows[t].status] EXCEPT ![s] = answer[i].status]
  BY <1>1, <1>3
<1>8. [t \in Slots |-> rows[t].id]' = [t \in Slots |-> rows[t].id]
  BY <1>1, <1>3
<1>9. [j \in Invocations |-> AnswerGiven(j)]' =
        [[j \in Invocations |-> AnswerGiven(j)] EXCEPT ![i] = rows[s].id]
  BY <1>1, <1>4
<1>10. answer[i].status \in Book!Closed
  BY <1>1 DEF Book!Closed, Final
<1>. QED BY <1>1, <1>5, <1>6, <1>7, <1>8, <1>9, <1>10 DEF Book!Close

LEMMA UncommittedBook ==
    ASSUME IInv, NEW i \in Invocations, FinishRunFails(i), rows' = rows
    PROVE  Book!AnswerFromPage(slot[i], i)
<1>1. /\ slot[i] \in Slots /\ rows[slot[i]].id = runId[i]
      /\ rows[slot[i]].status # "none" /\ AnswerGiven(i) = NoRun
      /\ answer[i] \in Record /\ answer[i].id = runId[i]
  BY OwnerAtFinish DEF FinishRunFails, Goto
<1>2. \A j \in Invocations :
         AnswerGiven(j)' = IF j = i THEN rows[slot[i]].id ELSE AnswerGiven(j)
  BY <1>1 DEF FinishRunFails, Goto, AnswerGiven, IInv, TypeOK, Record
<1>3. ForcedSlots' = ForcedSlots
  BY DEF FinishRunFails, request, ForcedSlots, Owns
<1>. QED BY <1>1, <1>2, <1>3 DEF Book!AnswerFromPage, FinishRunFails

(* The steps RunBook does not see.                                          *)
LEMMA InnerStepBook ==
    ASSUME IInv, NEW i \in Invocations,
           \/ Refuse(i) \/ ClaimConflict(i) \/ ChooseSources(i)
           \/ (\E s \in Sources : CollectorAnswers(i, s)) \/ CollectDone(i)
           \/ Enrich(i) \/ ReadWindow(i) \/ Analyse(i) \/ Respond(i)
           \/ WriteBrief(i) \/ RecordSourceYield(i)
    PROVE  UNCHANGED Book!bookVars
<1>1. UNCHANGED <<rows, req, slot, runId>>
  BY DEF Refuse, ClaimConflict, ChooseSources, CollectorAnswers, CollectDone, Enrich,
     ReadWindow, Analyse, Respond, WriteBrief, RecordSourceYield, request
<1>2. ASSUME NEW j \in Invocations PROVE AnswerGiven(j)' = AnswerGiven(j)
  <2>1. /\ pc'[j] = "returned" <=> pc[j] = "returned"
        /\ pc[j] = "returned" => answer'[j] = answer[j]
    BY DEF Refuse, ClaimConflict, ChooseSources, CollectorAnswers, CollectDone, Enrich,
       ReadWindow, Analyse, Respond, WriteBrief, RecordSourceYield, Goto, IInv, TypeOK
  <2>. QED BY <2>1 DEF AnswerGiven
<1>. QED BY <1>1, <1>2, BookStutters

LEMMA NextBook == BInv /\ BInv' /\ [Next]_vars => [Book!BookNext]_(Book!bookVars)
<1>. SUFFICES ASSUME BInv, BInv', [Next]_vars
              PROVE  Book!BookNext \/ UNCHANGED Book!bookVars
  OBVIOUS
<1>1. IInv /\ IInv'
  BY DEF BInv
<1>2. ASSUME NEW i \in Invocations, Handle(i) \/ Refuse(i) \/ ClaimLost(i) \/ Claim(i)
      PROVE  Book!BookNext \/ UNCHANGED Book!bookVars
  <2>1. CASE ClaimInsert(i) \/ ClaimLost(i) \/ ReturnExisting(i) \/ AdoptForced(i)
    <3>1. slot[i] \in Slots
      BY <1>1, <2>1 DEF ClaimInsert, ClaimLost, ReturnExisting, AdoptForced, Goto, IInv, SlotIsSet
    <3>. QED
      BY <1>1, <2>1, <3>1, ClaimBook, ReturnExistingBook, AdoptForcedBook
      DEF Book!BookNext
  <2>2. CASE Handle(i) \/ Refuse(i) \/ ClaimConflict(i)
    BY <1>1, <2>2, HandleBook, InnerStepBook
  <2>. QED BY <1>2, <2>1, <2>2 DEF Claim
<1>3. ASSUME NEW i \in Invocations, Execute(i)
      PROVE  Book!BookNext \/ UNCHANGED Book!bookVars
  <2>1. CASE FinishRun(i) \/ FinishRunFails(i)
    <3>1. slot[i] \in Slots
      BY <1>1, <2>1, OwnerAtFinish DEF FinishRun, FinishRunFails, Goto
    <3>2. CASE rows' = Updated(i)
      BY <2>1, <3>1, <3>2, CommittedBook DEF Ends, Book!BookNext
    <3>3. CASE FinishRunFails(i) /\ rows' = rows
      BY <1>1, <3>1, <3>3, UncommittedBook DEF Book!BookNext
    <3>. QED BY <2>1, <3>2, <3>3 DEF FinishRun, FinishRunFails
  <2>2. CASE ~ (FinishRun(i) \/ FinishRunFails(i))
    BY <1>1, <1>3, <2>2, InnerStepBook DEF Execute
  <2>. QED BY <2>1, <2>2
<1>4. CASE Tick \/ Crash \/ UNCHANGED vars
  <2>1. UNCHANGED <<rows, req, slot, runId, answer>>
    BY <1>4 DEF Tick, Crash, request, vars
  <2>2. \A j \in Invocations : pc'[j] = "returned" <=> pc[j] = "returned"
    BY <1>4 DEF Tick, Crash, Settled, vars
  <2>3. \A j \in Invocations : AnswerGiven(j)' = AnswerGiven(j)
    BY <2>1, <2>2 DEF AnswerGiven
  <2>. QED BY <2>1, <2>3, BookStutters
<1>. QED BY <1>2, <1>3, <1>4 DEF Next

(* The orchestrator keeps the promise of RunBook: a bucket is opened once,  *)
(* keeps its id, is closed, and is rewritten only after a forced re-run;    *)
(* every answer carries the id of its bucket's row.                         *)
THEOREM Refinement == Spec => ImplementsRunBook
<1>1. Init => BInv
  BY InitIInv DEF BInv, ClosedByAnOwner, Init, NoRecord, Final
<1>. QED BY <1>1, NextBInv, InitBook, NextBook, PTL DEF Spec, ImplementsRunBook, Book!BookSpec

=============================================================================
