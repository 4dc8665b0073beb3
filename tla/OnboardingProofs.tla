-------------------------- MODULE OnboardingProofs --------------------------
(***************************************************************************)
(* Theorems about Onboarding.tla and Onboarder.tla, for any number of      *)
(* submissions, any site maps, answers and typed words, any pool and any   *)
(* timers.  AgentInv is about bp-onboarder, FlowInv about the form, the    *)
(* route, the BFF and Postgres, RowsInv about what is stored.              *)
(* Refinement is of BrandRegistry.tla.                                     *)
(***************************************************************************)
EXTENDS Onboarding, SumTheorems

-----------------------------------------------------------------------------
(* The inductive invariant.                                                 *)

Ticks == 0..Max({AgentTicks, DatabaseTicks})

AgentStates ==
    [at : {"idle", "map", "scrape", "chat", "completed", "failed"},
     links : Seq(Page), todo : Seq(Page), tried : SUBSET Page,
     read : BOOLEAN, keywords : Seq(Term)]
Drafts == [keywords : Seq(Term), error : BOOLEAN]
Handlers == [step : Steps, age : Ticks, draft : Drafts]
Calls == [call : {"none", "waiting", "answered", "gave_up", "lost"}, age : 0..WebTicks]
Screens ==
    [shows : {"form", "saving", "error", "partial", "dashboard"}, of : {0} \cup Requests]
Profiles == [brand : Requests, keywords : Seq(Term), drafted : BOOLEAN]

Types ==
    /\ agent \in [Requests -> AgentStates]
    /\ typed \in [Requests -> Seq(Term)]
    /\ screen \in Screens
    /\ web \in [Requests -> Calls]
    /\ bff \in [Requests -> Handlers]
    /\ tx \in [Requests -> {"none", "open", "committed", "unacked", "aborted"}]
    /\ brands \subseteq Requests
    /\ profiles \subseteq Profiles
    /\ stops \in 0..MaxStops

(* The agent reads what it selected in order: the pages it tried are those  *)
(* before the ones it still has to do.                                      *)
ReadsInOrder(a) ==
    LET selected == SelectPages(a.links, PageBudget(0))
    IN  \E m \in 0..Len(selected) - 1 :
           /\ a.todo = SubSeq(selected, m + 1, Len(selected))
           /\ a.tried = {selected[i] : i \in 1..m}
GoodAgent(a) ==
    /\ a.at = "map" => a.tried = {}
    /\ a.at = "scrape" => ReadsInOrder(a) /\ a.todo # <<>>
    /\ a.at = "chat" => a.read /\ a.todo = <<>>
    /\ a.read => a.tried # {}
AgentInv == \A r \in Requests : GoodAgent(agent[r])

(* The agent is asked once: its request is fresh until the handler starts.  *)
AskedOnce == \A s \in Requests : bff[s].step = "none" => agent[s] = Idle

(* The timers that run have not run past their end.                         *)
AgesAreBounded ==
    \A s \in Requests :
        /\ bff[s].step = "ask" => bff[s].age <= AgentTicks
        /\ bff[s].step \in {"connect"} \cup Transaction => bff[s].age <= DatabaseTicks

(* Nothing has happened to a brand that was not submitted.                  *)
Unsubmitted ==
    \A s \in Requests : s > screen.of =>
        web[s].call = "none" /\ bff[s].step = "none" /\ tx[s] = "none"

(* The route waits for the submission the form is saving.                   *)
OneIsWaiting ==
    \A s \in Requests :
        web[s].call = "waiting" => s = screen.of /\ screen.shows = "saving"

(* How far the handler is says what Postgres has of its transaction.        *)
TxOf(step) ==
    CASE step \in {"none", "ask", "connect", "begin"} -> {"none"}
      [] step \in {"brand", "profile"} -> {"open"}
      [] step = "commit" -> {"open", "committed"}
      [] step = "rollback" -> {"unacked", "aborted"}
      [] step = "created" -> {"committed"}
      [] step \in {"refused", "failed", "stopped"} -> {"none", "unacked", "aborted"}
TxFollows == \A s \in Requests : tx[s] \in TxOf(bff[s].step)

PoolHolds == Cardinality({s \in Requests : bff[s].step \in Transaction}) <= PoolSize

(* What the form says of its submission, in terms of the handler.           *)
ScreenFollows ==
    LET s == screen.of
    IN  /\ screen.shows # "form" => s \in Requests
        /\ screen.shows \in {"dashboard", "partial"} => bff[s].step = "created"
        /\ screen.shows = "error" =>
              \/ web[s].call \in {"gave_up", "lost"}
              \/ bff[s].step \in {"refused", "failed", "stopped"}

FlowInv ==
    /\ AskedOnce
    /\ AgesAreBounded
    /\ Unsubmitted
    /\ OneIsWaiting
    /\ TxFollows
    /\ PoolHolds
    /\ ScreenFollows

(* Both rows of a committed transaction are there, and no others.           *)
RowsAreCommitted ==
    /\ brands = {s \in Requests : tx[s] \in {"committed", "unacked"}}
    /\ brands = {p.brand : p \in profiles}
    /\ \A p, q \in profiles : p.brand = q.brand => p = q

(* A draft that failed has no words.                                        *)
DraftsAreWhole == \A s \in Requests : bff[s].draft.error => bff[s].draft.keywords = <<>>

(* A profile merges what its owner typed with what some draft had, which    *)
(* are no words if it failed.                                               *)
ProfilesAreMerged ==
    \A p \in profiles :
        \E words \in Seq(Term) :
            /\ p.keywords = MergeTerms(typed[p.brand], words)
            /\ ~p.drafted => words = <<>>

(* Until its answer is sent, the handler has the draft of the stored row.   *)
DraftIsTheRows ==
    \A p \in profiles : bff[p.brand].step = "commit" => p.drafted = ~bff[p.brand].draft.error

(* "Created from the keywords you typed" is said of a failed draft only.    *)
PartialIsUndrafted ==
    screen.shows = "partial" => \A p \in profiles : p.brand = screen.of => ~p.drafted

RowsInv ==
    /\ RowsAreCommitted
    /\ DraftsAreWhole
    /\ ProfilesAreMerged
    /\ DraftIsTheRows
    /\ PartialIsUndrafted

OInv == Types /\ AgentInv /\ FlowInv /\ RowsInv

-----------------------------------------------------------------------------
(* Smallest and largest numbers.                                            *)

LEMMA SmallestPart ==
    ASSUME NEW S, IsFiniteSet(S), NEW B, B # {}, \A t \in B : t \subseteq S
    PROVE  \E t \in B : \A u \in B : u \subseteq t => u = t
<1>1. B \in SUBSET (SUBSET S)
  OBVIOUS
<1>. QED BY ONLY IsFiniteSet(S), B # {}, <1>1, SmallestSet

LEMMA SmallestNumber ==
    ASSUME NEW B, B # {}, B \subseteq Nat
    PROVE  \E t \in B : \A u \in B : t <= u
<1>0. PICK n \in B : n \in Nat
  OBVIOUS
<1>. DEFINE R == 0..n
            Below(t) == {x \in R : x < t}
            C == {Below(t) : t \in B}
<1>1. \E c \in C : \A d \in C : d \subseteq c => d = c
  <2>1. IsFiniteSet(R)
    BY <1>0, FS_Interval
  <2>2. C # {} /\ \A c \in C : c \subseteq R
    BY <1>0
  <2>. HIDE DEF C, R
  <2>. QED BY <2>1, <2>2, SmallestPart
<1>2. PICK t \in B : \A d \in C : d \subseteq Below(t) => d = Below(t)
  BY <1>1
<1>4. t <= n
  <2>1. SUFFICES ASSUME n < t PROVE FALSE
    BY <1>0
  <2>2. Below(n) \subseteq Below(t) /\ Below(n) \in C
    BY <1>0, <2>1
  <2>3. Below(n) = Below(t)
    BY <1>2, <2>2
  <2>4. n \in Below(t) /\ n \notin Below(n)
    BY <1>0, <2>1
  <2>. QED BY <2>3, <2>4
<1>5. ASSUME NEW u \in B, ~ (t <= u)
      PROVE  FALSE
  <2>1. u < t /\ u \in Nat /\ t \in Nat
    BY <1>5
  <2>2. Below(u) \subseteq Below(t) /\ Below(u) \in C
    BY <2>1
  <2>3. Below(u) = Below(t)
    BY <1>2, <2>2
  <2>4. u \in Below(t) /\ u \notin Below(u)
    BY <1>0, <1>4, <2>1
  <2>. QED BY <2>3, <2>4
<1>. QED BY <1>5

(* Sets of positions in a list.                                             *)
Positions(s) == \E n \in Nat : s \subseteq 1..n

LEMMA PartIsPositions ==
    ASSUME NEW s, Positions(s), NEW t, t \subseteq s
    PROVE  Positions(t)
BY DEF Positions

LEMMA PositionsAreFinite ==
    ASSUME NEW s, Positions(s)
    PROVE  IsFiniteSet(s)
<1>1. PICK n \in Nat : s \subseteq 1..n
  BY DEF Positions
<1>2. IsFiniteSet(1..n)
  BY FS_Interval
<1>. QED BY <1>1, <1>2, FS_Subset

LEMMA MaxOfPart ==
    ASSUME NEW s, Positions(s), s # {}
    PROVE  Max(s) \in s /\ \A y \in s : Max(s) >= y
<1>0. PICK n \in Nat : s \subseteq 1..n
  BY DEF Positions
<1>. DEFINE B == {n - y : y \in s}
<1>1. B \subseteq Nat /\ B # {}
  <2>1. \A y \in s : y \in Int /\ 1 <= y /\ y <= n
    BY <1>0
  <2>2. \A y \in s : n - y \in Nat
    BY <2>1
  <2>. QED BY <2>2
<1>2. \E t \in B : \A u \in B : t <= u
  <2>. HIDE DEF B
  <2>. QED BY <1>1, SmallestNumber
<1>3. PICK x \in s : \A y \in s : n - x <= n - y
  BY <1>2
<1>4. x \in s /\ \A y \in s : x >= y
  BY <1>0, <1>3
<1>. QED BY <1>4 DEF Max

LEMMA MaxOfInterval ==
    ASSUME NEW n \in Nat, n # 0
    PROVE  Max(1..n) = n /\ (1..n) \ {n} = 1..(n - 1)
<1>2. n \in 1..n
  OBVIOUS
<1>1. Max(1..n) \in 1..n /\ \A y \in 1..n : Max(1..n) >= y
  <2>. DEFINE s == 1..n
  <2>1. Positions(s) /\ s # {}
    BY <1>2 DEF Positions
  <2>. HIDE DEF s
  <2>2. Max(s) \in s /\ \A y \in s : Max(s) >= y
    BY <2>1, MaxOfPart
  <2>. QED BY <2>2 DEF s
<1>. QED BY <1>1, <1>2

-----------------------------------------------------------------------------
(* FirstOfEach is a fold: a recursion over the sets of positions.  Its      *)
(* table exists, and read at the first n positions it goes entry by entry.  *)

Extend(kept, x, wanted, same) ==
    IF x \in wanted /\ \A i \in DOMAIN kept : <<kept[i], x>> \notin same
    THEN Append(kept, x) ELSE kept

Folds(list, wanted, same, S, g) ==
    g = [s \in SUBSET S |->
            IF s = {} THEN <<>>
            ELSE Extend(g[s \ {Max(s)}], list[Max(s)], wanted, same)]
FoldOf(list, wanted, same, S) == CHOOSE g : Folds(list, wanted, same, S, g)

LEMMA FoldedList ==
    ASSUME NEW list, NEW wanted, NEW same
    PROVE  FirstOfEach(list, wanted, same)
              = FoldOf(list, wanted, same, DOMAIN list)[DOMAIN list]
BY DEF FirstOfEach, FoldLeft, MapThenFoldSet, FoldOf, Folds, Extend

LEMMA OneFold ==
    ASSUME NEW list, NEW wanted, NEW same, NEW S, Positions(S),
           NEW g, Folds(list, wanted, same, S, g), NEW h, Folds(list, wanted, same, S, h)
    PROVE  g = h
<1>. DEFINE B == {s \in SUBSET S : g[s] # h[s]}
<1>1. SUFFICES B = {}
  BY <1>1 DEF Folds
<1>2. SUFFICES ASSUME B # {} PROVE FALSE
  OBVIOUS
<1>3. PICK t \in B : \A u \in B : u \subseteq t => u = t
  <2>. HIDE DEF B
  <2>1. \A t \in B : t \subseteq S
    BY DEF B
  <2>2. IsFiniteSet(S)
    BY PositionsAreFinite
  <2>. QED BY <1>2, <2>1, <2>2, SmallestPart
<1>4. CASE t = {}
  BY <1>4, g[t] = <<>>, h[t] = <<>> DEF Folds
<1>5. CASE t # {}
  <2>1. Max(t) \in t /\ t \ {Max(t)} \in SUBSET S
    BY <1>5, PartIsPositions, MaxOfPart
  <2>2. g[t \ {Max(t)}] = h[t \ {Max(t)}]
    BY <1>3, <2>1
  <2>3. g[t] = Extend(g[t \ {Max(t)}], list[Max(t)], wanted, same)
    BY <1>5 DEF Folds
  <2>4. h[t] = Extend(h[t \ {Max(t)}], list[Max(t)], wanted, same)
    BY <1>5 DEF Folds
  <2>. QED BY <2>2, <2>3, <2>4
<1>. QED BY <1>4, <1>5

LEMMA PartOfFold ==
    ASSUME NEW list, NEW wanted, NEW same, NEW S, Positions(S),
           NEW g, Folds(list, wanted, same, S, g), NEW T, T \subseteq S
    PROVE  /\ Folds(list, wanted, same, T, FoldOf(list, wanted, same, T))
           /\ FoldOf(list, wanted, same, T)[T] = g[T]
<1>. DEFINE h == [s \in SUBSET T |-> g[s]]
<1>1. Folds(list, wanted, same, T, h)
  <2>1. \A s \in SUBSET T : s \ {Max(s)} \in SUBSET T
    OBVIOUS
  <2>2. \A s \in SUBSET T : g[s] =
            IF s = {} THEN <<>> ELSE Extend(g[s \ {Max(s)}], list[Max(s)], wanted, same)
    BY DEF Folds
  <2>. QED BY <2>1, <2>2 DEF Folds
<1>2. Folds(list, wanted, same, T, FoldOf(list, wanted, same, T))
  BY <1>1 DEF FoldOf
<1>3. FoldOf(list, wanted, same, T) = h
  BY <1>1, <1>2, PartIsPositions, OneFold
<1>. QED BY <1>2, <1>3

LEMMA FoldExists ==
    ASSUME NEW list, NEW wanted, NEW same, NEW S, Positions(S)
    PROVE  Folds(list, wanted, same, S, FoldOf(list, wanted, same, S))
<1>. DEFINE Good(t) == Folds(list, wanted, same, t, FoldOf(list, wanted, same, t))
            B == {t \in SUBSET S : ~ Good(t)}
<1>1. SUFFICES ASSUME B # {} PROVE FALSE
  OBVIOUS
<1>2. PICK t \in B : \A u \in B : u \subseteq t => u = t
  <2>. HIDE DEF B
  <2>1. \A t \in B : t \subseteq S
    BY DEF B
  <2>2. IsFiniteSet(S)
    BY PositionsAreFinite
  <2>. QED BY <1>1, <2>1, <2>2, SmallestPart
<1>3. Positions(t) /\ \A u \in SUBSET t : u # t => Good(u) /\ Positions(u)
  BY <1>2, PartIsPositions
<1>. DEFINE value(u) == FoldOf(list, wanted, same, u)[u]
            h == [s \in SUBSET t |->
                    IF s = {} THEN <<>>
                    ELSE Extend(value(s \ {Max(s)}), list[Max(s)], wanted, same)]
<1>4. ASSUME NEW s \in SUBSET t, s # t
      PROVE  h[s] = value(s)
  <2>1. CASE s = {}
    <3>1. FoldOf(list, wanted, same, s)[s] = <<>>
      BY <1>3, <1>4, <2>1 DEF Folds
    <3>. QED BY <2>1, <3>1
  <2>2. CASE s # {}
    <3>1. Max(s) \in s /\ s \ {Max(s)} \in SUBSET s
      BY <1>3, <1>4, <2>2, MaxOfPart
    <3>2. FoldOf(list, wanted, same, s)[s]
            = Extend(FoldOf(list, wanted, same, s)[s \ {Max(s)}], list[Max(s)], wanted, same)
      BY <1>3, <1>4, <2>2 DEF Folds
    <3>3. value(s \ {Max(s)}) = FoldOf(list, wanted, same, s)[s \ {Max(s)}]
      <4>. DEFINE g == FoldOf(list, wanted, same, s)
                  T == s \ {Max(s)}
      <4>1. Folds(list, wanted, same, s, g) /\ Positions(s) /\ T \subseteq s
        BY <1>3, <1>4, <3>1
      <4>. HIDE DEF g, T
      <4>2. FoldOf(list, wanted, same, T)[T] = g[T]
        BY <4>1, PartOfFold
      <4>. QED BY <4>2 DEF g, T
    <3>. QED BY <2>2, <3>2, <3>3
  <2>. QED BY <2>1, <2>2
<1>5. Folds(list, wanted, same, t, h)
  <2>1. ASSUME NEW s \in SUBSET t, s # {}
        PROVE  h[s] = Extend(h[s \ {Max(s)}], list[Max(s)], wanted, same)
    <3>1. Max(s) \in s
      BY <1>3, <2>1, PartIsPositions, MaxOfPart
    <3>2. s \ {Max(s)} \in SUBSET t /\ s \ {Max(s)} # t
      BY <3>1
    <3>3. h[s \ {Max(s)}] = value(s \ {Max(s)})
      BY <1>4, <3>2
    <3>. QED BY <2>1, <3>3
  <2>2. h[{}] = <<>>
    OBVIOUS
  <2>3. h = [s \in SUBSET t |-> h[s]]
    OBVIOUS
  <2>. HIDE DEF h
  <2>4. h = [s \in SUBSET t |->
               IF s = {} THEN <<>>
               ELSE Extend(h[s \ {Max(s)}], list[Max(s)], wanted, same)]
    BY <2>1, <2>2, <2>3
  <2>. QED BY <2>4 DEF Folds
<1>6. Good(t)
  BY <1>5 DEF FoldOf
<1>. QED BY <1>2, <1>6

(* What is kept of the first n entries.                                     *)
Kept(list, wanted, same, n) == FoldOf(list, wanted, same, DOMAIN list)[1..n]

LEMMA KeptSteps ==
    ASSUME NEW X, NEW list \in Seq(X), NEW wanted, NEW same
    PROVE  /\ FirstOfEach(list, wanted, same) = Kept(list, wanted, same, Len(list))
           /\ Kept(list, wanted, same, 0) = <<>>
           /\ \A n \in 1..Len(list) :
                 Kept(list, wanted, same, n)
                    = Extend(Kept(list, wanted, same, n - 1), list[n], wanted, same)
<1>. DEFINE S == 1..Len(list)
            g == FoldOf(list, wanted, same, S)
<1>1. DOMAIN list = S /\ Len(list) \in Nat /\ Positions(S)
  BY DEF Positions
<1>2. Folds(list, wanted, same, S, g)
  BY <1>1, FoldExists
<1>3. FirstOfEach(list, wanted, same) = g[1..Len(list)]
  BY <1>1, FoldedList
<1>4. \A n : Kept(list, wanted, same, n) = g[1..n]
  BY <1>1 DEF Kept
<1>. HIDE DEF g
<1>5. \A s \in SUBSET S : g[s] =
          IF s = {} THEN <<>> ELSE Extend(g[s \ {Max(s)}], list[Max(s)], wanted, same)
  BY <1>2 DEF Folds
<1>6. 1..0 = {} /\ {} \in SUBSET S
  OBVIOUS
<1>7. Kept(list, wanted, same, 0) = <<>>
  BY <1>4, <1>5, <1>6
<1>8. ASSUME NEW n \in 1..Len(list)
      PROVE  Kept(list, wanted, same, n)
                = Extend(Kept(list, wanted, same, n - 1), list[n], wanted, same)
  <2>0. n \in Nat /\ n # 0 /\ 1 \in 1..n /\ n <= Len(list)
    BY <1>1
  <2>1. 1..n \in SUBSET S /\ 1..n # {} /\ n \in Nat /\ n # 0
    <3>1. \A x \in 1..n : x \in 1..Len(list)
      BY <1>1, <2>0
    <3>. QED BY <2>0, <3>1
  <2>2. Max(1..n) = n /\ (1..n) \ {n} = 1..(n - 1)
    BY <2>1, MaxOfInterval
  <2>3. g[1..n] = Extend(g[(1..n) \ {Max(1..n)}], list[Max(1..n)], wanted, same)
    BY <1>5, <2>1
  <2>4. g[1..n] = Extend(g[1..(n - 1)], list[n], wanted, same)
    BY <2>2, <2>3
  <2>. QED BY <1>4, <2>4
<1>. QED BY <1>3, <1>4, <1>7, <1>8

-----------------------------------------------------------------------------
(* What FirstOfEach computes.                                               *)

IsOf(kept, X, list, wanted, n) ==
    /\ kept \in Seq(X)
    /\ \A i \in DOMAIN kept : kept[i] \in wanted /\ \E j \in 1..n : kept[i] = list[j]
IsApart(kept, same) == \A i, j \in DOMAIN kept : i < j => <<kept[i], kept[j]>> \notin same
IsComplete(kept, list, wanted, same, n) ==
    \A j \in 1..n : list[j] \in wanted =>
        \E i \in DOMAIN kept : kept[i] = list[j] \/ <<kept[i], list[j]>> \in same
Begins(kept, more) ==
    Len(kept) <= Len(more) /\ \A i \in 1..Len(kept) : more[i] = kept[i]

(* Every step keeps wanted entries, apart from each other, and none that    *)
(* was wanted is without one that is the same.                              *)
LEMMA KeptIs ==
    ASSUME NEW X, NEW list \in Seq(X), NEW wanted, NEW same, NEW n \in 0..Len(list)
    PROVE  LET kept == Kept(list, wanted, same, n)
           IN  /\ IsOf(kept, X, list, wanted, n)
               /\ IsApart(kept, same)
               /\ IsComplete(kept, list, wanted, same, n)
<1>. DEFINE kept(m) == Kept(list, wanted, same, m)
            Good(m) == /\ IsOf(kept(m), X, list, wanted, m)
                       /\ IsApart(kept(m), same)
                       /\ IsComplete(kept(m), list, wanted, same, m)
            B == {m \in 0..Len(list) : ~ Good(m)}
<1>1. SUFFICES ASSUME B # {} PROVE FALSE
  OBVIOUS
<1>2. \E m \in B : \A u \in B : m <= u
  <2>1. B \subseteq Nat
    OBVIOUS
  <2>. HIDE DEF B
  <2>. QED BY <1>1, <2>1, SmallestNumber
<1>3. PICK m \in 0..Len(list) : ~ Good(m) /\ \A u \in 0..Len(list) : u < m => Good(u)
  BY <1>2
<1>. HIDE DEF B
<1>4. CASE m = 0
  <2>1. kept(m) = <<>>
    BY <1>4, KeptSteps
  <2>2. IsOf(<<>>, X, list, wanted, 0)
    BY DEF IsOf
  <2>3. IsApart(<<>>, same) /\ IsComplete(<<>>, list, wanted, same, 0)
    BY DEF IsApart, IsComplete
  <2>. QED BY <1>3, <1>4, <2>1, <2>2, <2>3
<1>5. CASE m # 0
  <2>. DEFINE k == kept(m - 1)
              x == list[m]
  <2>0. m \in 1..Len(list) /\ m - 1 \in 0..Len(list) /\ m - 1 < m /\ x \in X
    BY <1>5
  <2>1. kept(m) = Extend(k, x, wanted, same)
    BY <2>0, KeptSteps
  <2>2. Good(m - 1)
    BY <1>3, <2>0
  <2>3. /\ IsOf(k, X, list, wanted, m - 1)
        /\ IsApart(k, same)
        /\ IsComplete(k, list, wanted, same, m - 1)
    BY <2>2
  <2>4. \A j \in 1..m : j \in 1..(m - 1) \/ j = m
    BY <2>0
  <2>5. \A j \in 1..(m - 1) : j \in 1..m
    BY <2>0
  <2>. HIDE DEF kept, k
  <2>6. CASE x \in wanted /\ \A i \in DOMAIN k : <<k[i], x>> \notin same
    <3>. DEFINE more == Append(k, x)
    <3>1. kept(m) = more
      BY <2>1, <2>6 DEF Extend
    <3>2. /\ more \in Seq(X) /\ Len(k) \in Nat
          /\ DOMAIN k = 1..Len(k) /\ DOMAIN more = 1..(Len(k) + 1)
          /\ \A i \in 1..Len(k) : more[i] = k[i]
          /\ more[Len(k) + 1] = x
      BY <2>0, <2>3 DEF IsOf
    <3>. HIDE DEF more
    <3>3. /\ \A i \in DOMAIN more : i \in DOMAIN k \/ i = Len(k) + 1
          /\ \A i \in DOMAIN k : i \in DOMAIN more /\ i < Len(k) + 1
          /\ Len(k) + 1 \in DOMAIN more
      BY <3>2
    <3>4. IsOf(more, X, list, wanted, m)
      BY <2>0, <2>3, <2>5, <2>6, <3>2, <3>3 DEF IsOf
    <3>5. IsApart(more, same)
      BY <2>3, <2>6, <3>2, <3>3 DEF IsApart
    <3>6. IsComplete(more, list, wanted, same, m)
      BY <2>3, <2>4, <3>2, <3>3 DEF IsComplete
    <3>. QED BY <1>3, <3>1, <3>4, <3>5, <3>6
  <2>7. CASE ~ (x \in wanted /\ \A i \in DOMAIN k : <<k[i], x>> \notin same)
    <3>1. kept(m) = k
      BY <2>1, <2>7 DEF Extend
    <3>2. IsOf(k, X, list, wanted, m)
      BY <2>3, <2>5 DEF IsOf
    <3>3. IsComplete(k, list, wanted, same, m)
      BY <2>3, <2>4, <2>7 DEF IsComplete
    <3>. QED BY <1>3, <2>3, <3>1, <3>2, <3>3
  <2>. QED BY <2>6, <2>7
<1>. QED BY <1>4, <1>5

(* The steps only append.                                                   *)
LEMMA KeptGrows ==
    ASSUME NEW X, NEW list \in Seq(X), NEW wanted, NEW same,
           NEW m \in 0..Len(list), NEW n \in 0..Len(list), m <= n
    PROVE  Begins(Kept(list, wanted, same, m), Kept(list, wanted, same, n))
<1>. DEFINE kept(i) == Kept(list, wanted, same, i)
            B == {i \in 0..Len(list) : m <= i /\ ~ Begins(kept(m), kept(i))}
<1>1. SUFFICES ASSUME B # {} PROVE FALSE
  OBVIOUS
<1>2. \E i \in B : \A u \in B : i <= u
  <2>1. B \subseteq Nat
    OBVIOUS
  <2>. HIDE DEF B
  <2>. QED BY <1>1, <2>1, SmallestNumber
<1>3. PICK i \in 0..Len(list) : /\ m <= i /\ ~ Begins(kept(m), kept(i))
                                /\ \A u \in 0..Len(list) : u < i /\ m <= u => Begins(kept(m), kept(u))
  BY <1>2
<1>. HIDE DEF B
<1>4. kept(m) \in Seq(X) /\ kept(i) \in Seq(X)
  BY KeptIs DEF IsOf
<1>5. i # m
  <2>1. Begins(kept(m), kept(m))
    <3>. HIDE DEF kept
    <3>. QED BY <1>4 DEF Begins
  <2>. QED BY <1>3, <2>1
<1>. DEFINE k == kept(i - 1)
            x == list[i]
<1>6. i \in 1..Len(list) /\ i - 1 \in 0..Len(list) /\ i - 1 < i /\ m <= i - 1 /\ x \in X
  BY <1>3, <1>5
<1>7. kept(i) = Extend(k, x, wanted, same)
  BY <1>6, KeptSteps
<1>8. k \in Seq(X) /\ Begins(kept(m), k)
  <2>1. k \in Seq(X)
    BY <1>6, KeptIs DEF IsOf
  <2>. QED BY <1>3, <1>6, <2>1
<1>. HIDE DEF kept, k
<1>9. kept(i) = Append(k, x) \/ kept(i) = k
  BY <1>7 DEF Extend
<1>. QED BY <1>3, <1>4, <1>6, <1>8, <1>9 DEF Begins

LEMMA BeginsIsPrefix ==
    ASSUME NEW X, NEW s \in Seq(X), NEW t \in Seq(X), Begins(s, t)
    PROVE  IsPrefix(s, t)
<1>1. Len(s) \in Nat /\ Len(t) \in Nat /\ Len(s) <= Len(t)
  BY DEF Begins
<1>2. SubSeq(s, 1, Len(s)) = [i \in 1..Len(s) |-> s[i]]
  BY <1>1
<1>3. SubSeq(t, 1, Len(s)) = [i \in 1..Len(s) |-> t[i]]
  BY <1>1
<1>4. \A i \in 1..Len(s) : t[i] = s[i]
  BY DEF Begins
<1>. QED BY <1>1, <1>2, <1>3, <1>4 DEF IsPrefix

(* Two ways to choose do not differ on a list.                              *)
AgreeOn(list, wanted, wanted2, same, same2) ==
    /\ \A j \in DOMAIN list : list[j] \in wanted <=> list[j] \in wanted2
    /\ \A i, j \in DOMAIN list :
          <<list[i], list[j]>> \in same <=> <<list[i], list[j]>> \in same2

(* A longer list begins with what is kept of the shorter.                   *)
LEMMA KeptOfLonger ==
    ASSUME NEW X, NEW list \in Seq(X), NEW more \in Seq(X), Begins(list, more),
           NEW wanted, NEW wanted2, NEW same, NEW same2,
           AgreeOn(list, wanted, wanted2, same, same2), NEW n \in 0..Len(list)
    PROVE  Kept(list, wanted, same, n) = Kept(more, wanted2, same2, n)
<1>. DEFINE short(m) == Kept(list, wanted, same, m)
            long(m) == Kept(more, wanted2, same2, m)
            B == {m \in 0..Len(list) : short(m) # long(m)}
<1>1. SUFFICES ASSUME B # {} PROVE FALSE
  OBVIOUS
<1>2. \E m \in B : \A u \in B : m <= u
  <2>1. B \subseteq Nat
    OBVIOUS
  <2>. HIDE DEF B
  <2>. QED BY <1>1, <2>1, SmallestNumber
<1>3. PICK m \in 0..Len(list) : /\ short(m) # long(m)
                                /\ \A u \in 0..Len(list) : u < m => short(u) = long(u)
  BY <1>2
<1>. HIDE DEF B
<1>4. Len(list) <= Len(more) /\ \A i \in 1..Len(list) : more[i] = list[i]
  BY DEF Begins
<1>5. m # 0
  <2>1. short(0) = <<>> /\ long(0) = <<>>
    BY KeptSteps
  <2>. HIDE DEF short, long
  <2>. QED BY <1>3, <2>1
<1>. DEFINE k == short(m - 1)
            x == list[m]
<1>6. /\ m \in 1..Len(list) /\ m \in 1..Len(more) /\ m - 1 \in 0..Len(list) /\ m - 1 < m
      /\ m \in DOMAIN list /\ more[m] = x
  BY <1>4, <1>5
<1>7. short(m) = Extend(k, x, wanted, same)
  BY <1>6, KeptSteps
<1>8. long(m) = Extend(long(m - 1), more[m], wanted2, same2)
  BY <1>6, KeptSteps
<1>9. long(m - 1) = k
  BY <1>3, <1>6
<1>10. IsOf(k, X, list, wanted, m - 1)
  BY <1>6, KeptIs
<1>11. \A i \in DOMAIN k : \E j \in DOMAIN list : k[i] = list[j]
  <2>1. \A j \in 1..(m - 1) : j \in DOMAIN list
    BY <1>6
  <2>. HIDE DEF k
  <2>. QED BY <1>10, <2>1 DEF IsOf
<1>12. \A i \in DOMAIN k : <<k[i], x>> \in same <=> <<k[i], x>> \in same2
  <2>. HIDE DEF k
  <2>. QED BY <1>6, <1>11 DEF AgreeOn
<1>13. x \in wanted <=> x \in wanted2
  BY <1>6 DEF AgreeOn
<1>. HIDE DEF short, long, k, x
<1>14. Extend(k, x, wanted, same) = Extend(k, x, wanted2, same2)
  BY <1>12, <1>13 DEF Extend
<1>. QED BY <1>3, <1>6, <1>7, <1>8, <1>9, <1>14

LEMMA FirstOfEachIs ==
    ASSUME NEW X, NEW list \in Seq(X), NEW wanted, NEW same
    PROVE  LET result == FirstOfEach(list, wanted, same)
           IN  /\ IsOf(result, X, list, wanted, Len(list))
               /\ IsApart(result, same)
               /\ IsComplete(result, list, wanted, same, Len(list))
<1>1. Len(list) \in 0..Len(list)
  OBVIOUS
<1>2. FirstOfEach(list, wanted, same) = Kept(list, wanted, same, Len(list))
  BY KeptSteps
<1>. QED BY <1>1, <1>2, KeptIs

-----------------------------------------------------------------------------
(* The lists of terms.                                                      *)

LEMMA TermsStayTerms ==
    ASSUME NEW terms \in Seq(Term)
    PROVE  /\ Distinct(terms) \in Seq(Term)
           /\ ProfileFrom(terms) \in Seq(Term)
           /\ TermList(terms) \in Seq(Term)
BY FirstOfEachIs DEF IsOf, Distinct, Clean, ProfileFrom, TermList

LEMMA MergeIsTerms ==
    ASSUME NEW ours \in Seq(Term), NEW theirs \in Seq(Term)
    PROVE  MergeTerms(ours, theirs) \in Seq(Term)
<1>1. ours \o theirs \in Seq(Term)
  OBVIOUS
<1>. QED BY <1>1, TermsStayTerms DEF MergeTerms

(* No word is merged twice.                                                 *)
LEMMA DistinctIsInjective ==
    ASSUME NEW terms \in Seq(Term)
    PROVE  LET result == Distinct(terms)
           IN  IsInjective([i \in DOMAIN result |-> result[i].word])
<1>. DEFINE result == Distinct(terms)
<1>1. /\ IsOf(result, Term, terms, Range(terms), Len(terms))
      /\ IsApart(result, SameWord(terms))
  BY FirstOfEachIs DEF Distinct
<1>. HIDE DEF result
<1>2. result \in Seq(Term) /\ DOMAIN result = 1..Len(result) /\ Len(result) \in Nat
  BY <1>1 DEF IsOf
<1>3. \A i \in DOMAIN result : result[i] \in Range(terms)
  BY <1>1 DEF IsOf
<1>4. ASSUME NEW i \in DOMAIN result, NEW j \in DOMAIN result, i < j,
             result[i].word = result[j].word
      PROVE  FALSE
  <2>1. <<result[i], result[j]>> \in SameWord(terms)
    BY <1>3, <1>4 DEF SameWord
  <2>. QED BY <1>1, <1>4, <2>1 DEF IsApart
<1>5. ASSUME NEW i \in DOMAIN result, NEW j \in DOMAIN result,
             result[i].word = result[j].word
      PROVE  i = j
  <2>1. i \in Int /\ j \in Int
    BY <1>2
  <2>2. ~ (i < j) /\ ~ (j < i)
    BY <1>4, <1>5
  <2>. QED BY <2>1, <2>2
<1>6. IsInjective([i \in DOMAIN result |-> result[i].word])
  BY <1>5 DEF IsInjective
<1>. QED BY <1>6 DEF result

(* The owner's words lead, and are all there is if the draft has none.      *)
LEMMA MergeKeepsOwn ==
    ASSUME NEW ours \in Seq(Term), NEW theirs \in Seq(Term)
    PROVE  /\ IsPrefix(Distinct(ours), MergeTerms(ours, theirs))
           /\ theirs = <<>> => MergeTerms(ours, theirs) = Distinct(ours)
<1>. DEFINE all == ours \o theirs
            own(n) == Kept(ours, Range(ours), SameWord(ours), n)
            both(n) == Kept(all, Range(all), SameWord(all), n)
<1>1. /\ all \in Seq(Term) /\ Len(ours) \in Nat /\ Len(all) \in Nat
      /\ Len(ours) <= Len(all) /\ DOMAIN ours = 1..Len(ours)
      /\ \A i \in 1..Len(ours) : all[i] = ours[i] /\ i \in DOMAIN all
  OBVIOUS
<1>2. Begins(ours, all)
  BY <1>1 DEF Begins
<1>. HIDE DEF all
<1>3. \A j \in DOMAIN ours : ours[j] \in Range(ours) /\ ours[j] \in Range(all)
  BY <1>1 DEF Range
<1>4. \A i, j \in DOMAIN ours :
         <<ours[i], ours[j]>> \in SameWord(ours) <=> <<ours[i], ours[j]>> \in SameWord(all)
  BY <1>3 DEF SameWord
<1>5. Len(ours) \in 0..Len(ours) /\ Len(ours) \in 0..Len(all) /\ Len(all) \in 0..Len(all)
  BY <1>1
<1>6. own(Len(ours)) = both(Len(ours))
  <2>. DEFINE w == Range(ours)
              v == Range(all)
              same == SameWord(ours)
              same2 == SameWord(all)
              n == Len(ours)
  <2>1. AgreeOn(ours, w, v, same, same2) /\ n \in 0..Len(ours)
    BY <1>3, <1>4, <1>5 DEF AgreeOn
  <2>. HIDE DEF w, v, same, same2, n
  <2>2. Kept(ours, w, same, n) = Kept(all, v, same2, n)
    BY <1>1, <1>2, <2>1, KeptOfLonger
  <2>. QED BY <2>2 DEF w, v, same, same2, n
<1>7. Begins(both(Len(ours)), both(Len(all)))
  BY <1>1, <1>5, KeptGrows
<1>8. Distinct(ours) = own(Len(ours)) /\ MergeTerms(ours, theirs) = both(Len(all))
  <2>1. MergeTerms(ours, theirs) = Distinct(all)
    BY DEF MergeTerms, all
  <2>. QED BY <1>1, <2>1, KeptSteps DEF Distinct
<1>9. Distinct(ours) \in Seq(Term) /\ MergeTerms(ours, theirs) \in Seq(Term)
  BY TermsStayTerms, MergeIsTerms
<1>10. Begins(Distinct(ours), MergeTerms(ours, theirs))
  <2>. HIDE DEF own, both
  <2>. QED BY <1>6, <1>7, <1>8
<1>11. theirs = <<>> => all = ours
  BY DEF all
<1>. QED BY <1>9, <1>10, <1>11, BeginsIsPrefix DEF MergeTerms, all

-----------------------------------------------------------------------------
(* Counting what a list has.                                                *)

Differ(f, n) == \A i, j \in 1..n : f[i] = f[j] => i = j

LEMMA CountOfDistinct ==
    ASSUME NEW f, NEW n \in Nat, Differ(f, n)
    PROVE  IsFiniteSet({f[i] : i \in 1..n}) /\ Cardinality({f[i] : i \in 1..n}) = n
<1>. DEFINE T == {f[i] : i \in 1..n}
            g == [i \in 1..n |-> f[i]]
<1>1. g \in Bijection(1..n, T)
  BY DEF Bijection, Injection, Surjection, IsInjective, Differ
<1>2. ExistsBijection(1..n, T)
  BY <1>1 DEF ExistsBijection
<1>. HIDE DEF T
<1>3. Cardinality(T) = n /\ IsFiniteSet(T)
  BY <1>2, FS_CountingElements, FS_NatBijection
<1>. QED BY <1>3 DEF T

LEMMA CountOfList ==
    ASSUME NEW f, NEW n \in Nat
    PROVE  IsFiniteSet({f[i] : i \in 1..n}) /\ Cardinality({f[i] : i \in 1..n}) <= n
<1>. DEFINE T == {f[i] : i \in 1..n}
            g == [i \in 1..n |-> f[i]]
<1>1. g \in Surjection(1..n, T)
  BY DEF Surjection
<1>2. ExistsSurjection(1..n, T)
  BY <1>1 DEF ExistsSurjection
<1>. HIDE DEF T
<1>3. Cardinality(T) <= n /\ IsFiniteSet(T)
  BY <1>2, FS_SurjCardinalityBound, FS_NatSurjection
<1>. QED BY <1>3 DEF T

(* If wanted entries differ, what is kept does.                             *)
LEMMA KeptDiffers ==
    ASSUME NEW X, NEW list \in Seq(X), NEW wanted, NEW same,
           \A i, j \in DOMAIN list : list[i] \in wanted /\ list[i] = list[j] => i = j,
           NEW n \in 0..Len(list)
    PROVE  LET kept == Kept(list, wanted, same, n) IN Differ(kept, Len(kept))
<1>. DEFINE kept(m) == Kept(list, wanted, same, m)
            B == {m \in 0..Len(list) : ~ Differ(kept(m), Len(kept(m)))}
<1>1. SUFFICES ASSUME B # {} PROVE FALSE
  OBVIOUS
<1>2. \E m \in B : \A u \in B : m <= u
  <2>1. B \subseteq Nat
    OBVIOUS
  <2>. HIDE DEF B
  <2>. QED BY <1>1, <2>1, SmallestNumber
<1>3. PICK m \in 0..Len(list) :
          /\ ~ Differ(kept(m), Len(kept(m)))
          /\ \A u \in 0..Len(list) : u < m => Differ(kept(u), Len(kept(u)))
  BY <1>2
<1>. HIDE DEF B
<1>4. CASE m = 0
  <2>1. kept(m) = <<>>
    BY <1>4, KeptSteps
  <2>2. Differ(<<>>, Len(<<>>))
    BY DEF Differ
  <2>. QED BY <1>3, <2>1, <2>2
<1>5. CASE m # 0
  <2>. DEFINE k == kept(m - 1)
              x == list[m]
  <2>1. m \in 1..Len(list) /\ m - 1 \in 0..Len(list) /\ m - 1 < m /\ x \in X /\ m \in DOMAIN list
    BY <1>5
  <2>2. kept(m) = Extend(k, x, wanted, same)
    BY <2>1, KeptSteps
  <2>3. Differ(k, Len(k)) /\ IsOf(k, X, list, wanted, m - 1)
    BY <1>3, <2>1, KeptIs
  <2>4. \A j \in 1..(m - 1) : j \in DOMAIN list /\ j # m
    BY <2>1
  <2>. HIDE DEF kept, k
  <2>5. kept(m) # k
    BY <1>3, <2>3
  <2>6. kept(m) = Append(k, x) /\ x \in wanted
    BY <2>2, <2>5 DEF Extend
  <2>7. k \in Seq(X) /\ DOMAIN k = 1..Len(k) /\ Len(k) \in Nat
    BY <2>3 DEF IsOf
  <2>8. \A i \in 1..Len(k) : k[i] # x
    BY <2>1, <2>3, <2>4, <2>6, <2>7 DEF IsOf
  <2>. DEFINE more == Append(k, x)
  <2>9. /\ Len(more) = Len(k) + 1 /\ more[Len(k) + 1] = x
        /\ \A i \in 1..Len(k) : more[i] = k[i]
        /\ \A i \in 1..(Len(k) + 1) : i \in 1..Len(k) \/ i = Len(k) + 1
    BY <2>1, <2>7
  <2>. HIDE DEF more
  <2>10. Differ(more, Len(more))
    BY <2>3, <2>8, <2>9 DEF Differ
  <2>. QED BY <1>3, <2>6, <2>10 DEF more
<1>. QED BY <1>4, <1>5

(* Whatever is cut off, the rest is what was kept at some step.             *)
LEMMA KeptIsCut ==
    ASSUME NEW X, NEW list \in Seq(X), NEW wanted, NEW same,
           NEW p \in 0..Len(FirstOfEach(list, wanted, same))
    PROVE  \E m \in 0..Len(list) :
              Kept(list, wanted, same, m) = SubSeq(FirstOfEach(list, wanted, same), 1, p)
<1>. DEFINE kept(m) == Kept(list, wanted, same, m)
            N == Len(list)
            B == {m \in 0..N : p <= Len(kept(m))}
<1>1. FirstOfEach(list, wanted, same) = kept(N)
  BY KeptSteps
<1>2. \A m \in 0..N : kept(m) \in Seq(X) /\ Len(kept(m)) \in Nat
  <2>1. \A m \in 0..N : kept(m) \in Seq(X)
    BY KeptIs DEF IsOf
  <2>. HIDE DEF kept
  <2>. QED BY <2>1
<1>3. N \in Nat /\ N \in 0..N /\ N \in B
  <2>1. N \in Nat /\ N \in 0..N
    OBVIOUS
  <2>. QED BY <1>1, <1>2, <2>1
<1>4. \E m \in B : \A u \in B : m <= u
  <2>1. B \subseteq Nat /\ B # {}
    BY <1>3
  <2>. HIDE DEF B
  <2>. QED BY <2>1, SmallestNumber
<1>5. PICK m \in 0..N : p <= Len(kept(m)) /\ \A u \in 0..N : u < m => ~ (p <= Len(kept(u)))
  BY <1>4
<1>. HIDE DEF B
<1>6. p \in Nat
  BY <1>1, <1>2, <1>3
<1>7. Len(kept(m)) = p
  <2>1. CASE m = 0
    <3>1. kept(m) = <<>>
      BY <2>1, KeptSteps
    <3>. HIDE DEF kept
    <3>. QED BY <1>5, <1>6, <3>1
  <2>2. CASE m # 0
    <3>. DEFINE k == kept(m - 1)
    <3>1. m \in 1..N /\ m - 1 \in 0..N /\ m - 1 < m /\ list[m] \in X
      BY <1>3, <2>2
    <3>2. kept(m) = Extend(k, list[m], wanted, same)
      BY <3>1, KeptSteps
    <3>3. k \in Seq(X) /\ Len(k) \in Nat /\ ~ (p <= Len(k))
      BY <1>2, <1>5, <3>1
    <3>. HIDE DEF kept, k
    <3>4. kept(m) = k \/ kept(m) = Append(k, list[m])
      BY <3>2 DEF Extend
    <3>5. Len(kept(m)) <= Len(k) + 1
      BY <3>1, <3>3, <3>4
    <3>. QED BY <1>2, <1>5, <1>6, <3>3, <3>5
  <2>. QED BY <2>1, <2>2
<1>8. Begins(kept(m), kept(N))
  <2>1. m <= N
    BY <1>3
  <2>. QED BY <1>3, <2>1, KeptGrows
<1>9. kept(m) = SubSeq(kept(N), 1, p)
  <2>1. kept(m) \in Seq(X) /\ kept(N) \in Seq(X)
    BY <1>2, <1>3
  <2>. HIDE DEF kept
  <2>. DEFINE a == kept(m)
              b == kept(N)
  <2>2. a \in Seq(X) /\ b \in Seq(X) /\ Len(a) = p /\ Len(a) <= Len(b)
        /\ \A i \in 1..p : b[i] = a[i]
    BY <1>7, <1>8, <2>1 DEF Begins
  <2>. HIDE DEF a, b
  <2>3. SubSeq(b, 1, p) = [i \in 1..p |-> b[i]]
    BY <1>6, <2>2
  <2>4. a = [i \in 1..p |-> a[i]]
    BY <2>2
  <2>5. a = SubSeq(b, 1, p)
    BY <2>2, <2>3, <2>4
  <2>. QED BY <2>5 DEF a, b
<1>. QED BY <1>1, <1>9

-----------------------------------------------------------------------------
(* The turns.                                                               *)

Pages(links, k) == Bucket(links, Kinds[k])

LEMMA ThreeKinds ==
    /\ Len(Kinds) = 3 /\ DOMAIN Kinds = {1, 2, 3}
    /\ Kinds[1] = "about" /\ Kinds[2] = "product" /\ Kinds[3] = "collection"
<1>1. Len(Kinds) = 3 /\ Kinds[1] = "about" /\ Kinds[2] = "product" /\ Kinds[3] = "collection"
  BY DEF Kinds
<1>2. DOMAIN Kinds = 1..3
  BY DEF Kinds
<1>3. 1..3 = {1, 2, 3}
  OBVIOUS
<1>. QED BY <1>1, <1>2, <1>3

(* A bucket has the pages of its kind, each once.                           *)
LEMMA PagesAre ==
    ASSUME NEW links \in Seq(Page), NEW k \in {1, 2, 3}
    PROVE  LET pages == Pages(links, k)
           IN  /\ pages \in Seq(Page)
               /\ Differ(pages, Len(pages))
               /\ \A r \in 1..Len(pages) : pages[r] \in Worth(links, Kinds[k])
               /\ \A page \in Worth(links, Kinds[k]) : \E r \in 1..Len(pages) : pages[r] = page
<1>. DEFINE pages == Pages(links, k)
            worth == Worth(links, Kinds[k])
<1>1. /\ IsOf(pages, Page, links, worth, Len(links))
      /\ IsApart(pages, SamePage(links))
      /\ IsComplete(pages, links, worth, SamePage(links), Len(links))
  BY FirstOfEachIs DEF Pages, Bucket
<1>2. worth \subseteq Range(links)
  BY DEF Worth
<1>. HIDE DEF pages, worth
<1>3. pages \in Seq(Page) /\ DOMAIN pages = 1..Len(pages) /\ Len(pages) \in Nat
  BY <1>1 DEF IsOf
<1>4. \A r \in 1..Len(pages) : pages[r] \in worth
  BY <1>1, <1>3 DEF IsOf
<1>5. ASSUME NEW i \in 1..Len(pages), NEW j \in 1..Len(pages), pages[i] = pages[j]
      PROVE  i = j
  <2>1. <<pages[i], pages[j]>> \in SamePage(links) /\ <<pages[j], pages[i]>> \in SamePage(links)
    BY <1>2, <1>4, <1>5 DEF SamePage
  <2>2. ~ (i < j) /\ ~ (j < i)
    BY <1>1, <1>3, <2>1 DEF IsApart
  <2>. QED BY <1>3, <2>2
<1>6. ASSUME NEW page \in worth
      PROVE  \E r \in 1..Len(pages) : pages[r] = page
  <2>1. PICK j \in 1..Len(links) : links[j] = page
    BY <1>2 DEF Range
  <2>2. PICK r \in 1..Len(pages) : pages[r] = page \/ <<pages[r], page>> \in SamePage(links)
    BY <1>1, <1>3, <2>1 DEF IsComplete
  <2>3. pages[r] = page
    BY <2>2 DEF SamePage
  <2>. QED BY <2>3
<1>7. Differ(pages, Len(pages))
  BY <1>5 DEF Differ
<1>. QED BY <1>3, <1>4, <1>6, <1>7 DEF pages, worth

LEMMA HomeIsAPage == HomePage \in Page
BY DEF HomePage, Page, Paths

LEMMA ListIs ==
    ASSUME NEW X, NEW n \in Nat, NEW f, f \in [1..n -> X]
    PROVE  f \in Seq(X) /\ Len(f) = n
OBVIOUS

LEMMA LargestOfThree ==
    ASSUME NEW a \in Nat, NEW b \in Nat, NEW c \in Nat
    PROVE  LET m == Max({a, b, c}) IN m \in Nat /\ a <= m /\ b <= m /\ c <= m
<1>1. \E x \in {a, b, c} : \A y \in {a, b, c} : x >= y
  OBVIOUS
<1>. QED BY <1>1 DEF Max

Rounds(links) == Max({Len(Pages(links, k)) : k \in DOMAIN Kinds})
TurnOf(links, n) ==
    LET k == (n % Len(Kinds)) + 1
        r == (n \div Len(Kinds)) + 1
    IN  IF r <= Len(Pages(links, k)) THEN Pages(links, k)[r] ELSE HomePage
Slots(links) == [n \in 1..(Rounds(links) * Len(Kinds)) |-> TurnOf(links, n - 1)]
PagesOf(slots) == Range(slots) \ {HomePage}

LEMMA TurnsAreSlots ==
    ASSUME NEW links
    PROVE  Turns(links) = FirstOfEach(Slots(links), PagesOf(Slots(links)), {})
<1>. DEFINE bucket == [k \in DOMAIN Kinds |-> Bucket(links, Kinds[k])]
            rounds == Max({Len(bucket[k]) : k \in DOMAIN Kinds})
            turn(n) == LET k == (n % Len(Kinds)) + 1
                           r == (n \div Len(Kinds)) + 1
                       IN  IF r <= Len(bucket[k]) THEN bucket[k][r] ELSE HomePage
            turns == [n \in 1..(rounds * Len(Kinds)) |-> turn(n - 1)]
<1>1. Turns(links) = FirstOfEach(turns, Range(turns) \ {HomePage}, {})
  BY DEF Turns
<1>2. \A k \in DOMAIN Kinds : bucket[k] = Pages(links, k)
  BY DEF Pages
<1>. HIDE DEF bucket
<1>3. {Len(bucket[k]) : k \in DOMAIN Kinds} = {Len(Pages(links, k)) : k \in DOMAIN Kinds}
  BY <1>2
<1>4. rounds = Rounds(links)
  BY <1>3 DEF Rounds
<1>5. \A n \in Int : turn(n) = TurnOf(links, n)
  <2>. TAKE n \in Int
  <2>1. (n % 3) + 1 \in {1, 2, 3}
    OBVIOUS
  <2>2. (n % Len(Kinds)) + 1 \in DOMAIN Kinds
    BY <2>1, ThreeKinds
  <2>. QED BY <1>2, <2>2 DEF TurnOf
<1>6. turns = Slots(links)
  <2>. DEFINE b == rounds * Len(Kinds)
  <2>1. \A n \in 1..b : n - 1 \in Int
    <3>. HIDE DEF b
    <3>. QED OBVIOUS
  <2>. HIDE DEF turn
  <2>2. \A n \in 1..b : turn(n - 1) = TurnOf(links, n - 1)
    <3>. TAKE n \in 1..b
    <3>1. n - 1 \in Int
      BY <2>1
    <3>. QED BY <1>5, <3>1
  <2>3. b = Rounds(links) * Len(Kinds)
    BY <1>4
  <2>4. turns = [n \in 1..b |-> TurnOf(links, n - 1)]
    BY <2>2
  <2>. QED BY <2>3, <2>4 DEF Slots
<1>. HIDE DEF turns
<1>. QED BY <1>1, <1>6 DEF PagesOf

(* A slot is a turn some kind takes in some round, or passes.               *)
LEMMA SlotsAre ==
    ASSUME NEW links \in Seq(Page)
    PROVE  LET slots == Slots(links)
           IN  /\ slots \in Seq(Page)
               /\ DOMAIN slots = 1..Len(slots)
               /\ \A n \in DOMAIN slots : slots[n] # HomePage =>
                     \E k \in {1, 2, 3}, r \in Nat :
                        /\ r \in 1..Len(Pages(links, k))
                        /\ n = 3 * (r - 1) + k
                        /\ slots[n] = Pages(links, k)[r]
               /\ \A k \in {1, 2, 3}, r \in Nat, n \in DOMAIN slots :
                     r \in 1..Len(Pages(links, k)) /\ n = 3 * (r - 1) + k =>
                        slots[n] = Pages(links, k)[r] /\ slots[n] # HomePage
               /\ \A k \in {1, 2, 3}, r \in Nat :
                     r \in 1..Len(Pages(links, k)) =>
                        \E n \in DOMAIN slots : n = 3 * (r - 1) + k
<1>. DEFINE slots == Slots(links)
            N == Rounds(links) * 3
<1>1. /\ Len(Pages(links, 1)) \in Nat /\ Len(Pages(links, 2)) \in Nat
      /\ Len(Pages(links, 3)) \in Nat
  <2>1. \A k \in {1, 2, 3} : Pages(links, k) \in Seq(Page)
    BY PagesAre
  <2>. QED BY <2>1
<1>2. /\ Rounds(links) \in Nat
      /\ \A k \in {1, 2, 3} : Len(Pages(links, k)) <= Rounds(links)
  <2>1. {Len(Pages(links, k)) : k \in {1, 2, 3}}
           = {Len(Pages(links, 1)), Len(Pages(links, 2)), Len(Pages(links, 3))}
    OBVIOUS
  <2>2. Rounds(links) = Max({Len(Pages(links, 1)), Len(Pages(links, 2)), Len(Pages(links, 3))})
    BY <2>1, ThreeKinds DEF Rounds
  <2>3. ASSUME NEW a \in Nat, NEW b \in Nat, NEW c \in Nat,
               a = Len(Pages(links, 1)), b = Len(Pages(links, 2)), c = Len(Pages(links, 3))
        PROVE  /\ Rounds(links) \in Nat /\ a <= Rounds(links)
               /\ b <= Rounds(links) /\ c <= Rounds(links)
    <3>1. Rounds(links) = Max({a, b, c})
      BY <2>2, <2>3
    <3>. QED BY <3>1, LargestOfThree
  <2>4. /\ Rounds(links) \in Nat /\ Len(Pages(links, 1)) <= Rounds(links)
        /\ Len(Pages(links, 2)) <= Rounds(links) /\ Len(Pages(links, 3)) <= Rounds(links)
    BY <1>1, <2>3
  <2>. QED BY <2>4
<1>3. N \in Nat /\ slots = [n \in 1..N |-> TurnOf(links, n - 1)]
  BY <1>2, ThreeKinds DEF Slots
<1>4. HomePage \in Page
  BY HomeIsAPage
<1>5. ASSUME NEW n \in 1..N
      PROVE  LET k == ((n - 1) % 3) + 1
                 r == ((n - 1) \div 3) + 1
             IN  /\ k \in {1, 2, 3} /\ r \in Nat /\ r >= 1 /\ n = 3 * (r - 1) + k
                 /\ slots[n] = IF r <= Len(Pages(links, k)) THEN Pages(links, k)[r]
                               ELSE HomePage
  <2>1. n \in Int /\ n >= 1
    BY <1>3
  <2>2. /\ ((n - 1) % 3) + 1 \in {1, 2, 3}
        /\ ((n - 1) \div 3) + 1 \in Nat /\ ((n - 1) \div 3) + 1 >= 1
        /\ n = 3 * ((((n - 1) \div 3) + 1) - 1) + ((n - 1) % 3) + 1
    BY <2>1
  <2>3. slots[n] = TurnOf(links, n - 1)
    BY <1>3
  <2>4. TurnOf(links, n - 1) =
           IF ((n - 1) \div 3) + 1 <= Len(Pages(links, ((n - 1) % 3) + 1))
           THEN Pages(links, ((n - 1) % 3) + 1)[((n - 1) \div 3) + 1] ELSE HomePage
    BY ThreeKinds DEF TurnOf
  <2>. QED BY <2>2, <2>3, <2>4
<1>6. ASSUME NEW k \in {1, 2, 3}, NEW r \in Nat, r \in 1..Len(Pages(links, k))
      PROVE  Pages(links, k)[r] \in Page /\ Pages(links, k)[r] # HomePage
  <2>1. Pages(links, k) \in Seq(Page) /\ Pages(links, k)[r] \in Worth(links, Kinds[k])
    BY <1>6, PagesAre
  <2>2. HomePage \notin Worth(links, Kinds[k])
    BY DEF Worth
  <2>. QED BY <1>6, <2>1, <2>2
<1>7. \A n \in 1..N : slots[n] # HomePage =>
         \E k \in {1, 2, 3}, r \in Nat :
            /\ r \in 1..Len(Pages(links, k))
            /\ n = 3 * (r - 1) + k
            /\ slots[n] = Pages(links, k)[r]
  <2>. SUFFICES ASSUME NEW n \in 1..N, slots[n] # HomePage
                PROVE  \E k \in {1, 2, 3}, r \in Nat :
                          /\ r \in 1..Len(Pages(links, k))
                          /\ n = 3 * (r - 1) + k
                          /\ slots[n] = Pages(links, k)[r]
    OBVIOUS
  <2>. HIDE DEF slots
  <2>. DEFINE k == ((n - 1) % 3) + 1
              r == ((n - 1) \div 3) + 1
  <2>1. /\ k \in {1, 2, 3} /\ r \in Nat /\ r >= 1 /\ n = 3 * (r - 1) + k
        /\ slots[n] = IF r <= Len(Pages(links, k)) THEN Pages(links, k)[r] ELSE HomePage
    BY <1>5
  <2>. HIDE DEF k, r
  <2>2. r <= Len(Pages(links, k)) /\ slots[n] = Pages(links, k)[r]
    BY <2>1
  <2>3. r \in 1..Len(Pages(links, k))
    BY <1>1, <2>1, <2>2
  <2>. QED BY <2>1, <2>2, <2>3
<1>8. ASSUME NEW k \in {1, 2, 3}, NEW r \in Nat, NEW n \in 1..N,
             r \in 1..Len(Pages(links, k)), n = 3 * (r - 1) + k
      PROVE  slots[n] = Pages(links, k)[r] /\ slots[n] # HomePage
  <2>1. ((n - 1) % 3) + 1 = k /\ ((n - 1) \div 3) + 1 = r
    BY <1>8
  <2>2. slots[n] = IF r <= Len(Pages(links, k)) THEN Pages(links, k)[r] ELSE HomePage
    BY <1>5, <2>1
  <2>3. r <= Len(Pages(links, k))
    BY <1>1, <1>8
  <2>. HIDE DEF slots
  <2>. QED BY <1>6, <1>8, <2>2, <2>3
<1>9. slots \in Seq(Page) /\ DOMAIN slots = 1..N /\ Len(slots) = N
  <2>1. DOMAIN slots = 1..N /\ slots = [n \in 1..N |-> slots[n]]
    BY <1>3
  <2>. HIDE DEF slots
  <2>2. \A n \in 1..N : slots[n] \in Page
    BY <1>4, <1>6, <1>7
  <2>3. slots \in [1..N -> Page]
    BY <2>1, <2>2
  <2>. HIDE DEF N
  <2>. QED BY <1>3, <2>1, <2>3, ListIs
<1>. HIDE DEF slots, N
<1>10. /\ slots \in Seq(Page)
       /\ DOMAIN slots = 1..Len(slots)
       /\ \A n \in DOMAIN slots : slots[n] # HomePage =>
             \E k \in {1, 2, 3}, r \in Nat :
                /\ r \in 1..Len(Pages(links, k))
                /\ n = 3 * (r - 1) + k
                /\ slots[n] = Pages(links, k)[r]
  BY <1>7, <1>9
<1>11. \A k \in {1, 2, 3}, r \in Nat, n \in DOMAIN slots :
             r \in 1..Len(Pages(links, k)) /\ n = 3 * (r - 1) + k =>
                slots[n] = Pages(links, k)[r] /\ slots[n] # HomePage
  <2>. TAKE k \in {1, 2, 3}, r \in Nat, n \in DOMAIN slots
  <2>. HAVE r \in 1..Len(Pages(links, k)) /\ n = 3 * (r - 1) + k
  <2>. QED BY <1>8, <1>9
<1>12. \A k \in {1, 2, 3}, r \in Nat :
             r \in 1..Len(Pages(links, k)) => \E n \in DOMAIN slots : n = 3 * (r - 1) + k
  <2>. TAKE k \in {1, 2, 3}, r \in Nat
  <2>. HAVE r \in 1..Len(Pages(links, k))
  <2>1. 1 <= r /\ r <= Rounds(links)
    BY <1>1, <1>2
  <2>2. 3 * (r - 1) + k \in 1..N
    BY <1>2, <2>1 DEF N
  <2>. QED BY <1>9, <2>2
<1>. QED BY <1>10, <1>11, <1>12 DEF slots

(* No page takes two turns.                                                 *)
LEMMA SlotsDiffer ==
    ASSUME NEW links \in Seq(Page)
    PROVE  LET slots == Slots(links)
           IN  \A i, j \in DOMAIN slots :
                  slots[i] \in PagesOf(slots) /\ slots[i] = slots[j] => i = j
<1>. DEFINE slots == Slots(links)
<1>1. SUFFICES ASSUME NEW i \in DOMAIN slots, NEW j \in DOMAIN slots,
                      slots[i] \in PagesOf(slots), slots[i] = slots[j]
               PROVE  i = j
  OBVIOUS
<1>2. slots[i] # HomePage
  BY <1>1 DEF PagesOf
<1>3. \A n \in DOMAIN slots : slots[n] # HomePage =>
         \E k \in {1, 2, 3}, r \in Nat :
            /\ r \in 1..Len(Pages(links, k))
            /\ n = 3 * (r - 1) + k
            /\ slots[n] = Pages(links, k)[r]
  BY SlotsAre
<1>. HIDE DEF slots
<1>4. PICK k \in {1, 2, 3}, r \in Nat :
         /\ r \in 1..Len(Pages(links, k)) /\ i = 3 * (r - 1) + k
         /\ slots[i] = Pages(links, k)[r]
  BY <1>1, <1>2, <1>3
<1>5. PICK k2 \in {1, 2, 3}, r2 \in Nat :
         /\ r2 \in 1..Len(Pages(links, k2)) /\ j = 3 * (r2 - 1) + k2
         /\ slots[j] = Pages(links, k2)[r2]
  BY <1>1, <1>2, <1>3
<1>6. Classify(slots[i]) = Kinds[k] /\ Classify(slots[i]) = Kinds[k2]
  <2>1. slots[i] \in Worth(links, Kinds[k])
    BY <1>4, PagesAre
  <2>2. slots[j] \in Worth(links, Kinds[k2])
    BY <1>5, PagesAre
  <2>. QED BY <1>1, <2>1, <2>2 DEF Worth
<1>7. k = k2
  <2>1. Kinds[1] # Kinds[2] /\ Kinds[1] # Kinds[3] /\ Kinds[2] # Kinds[3]
    BY ThreeKinds
  <2>2. Kinds[k] = Kinds[k2]
    BY <1>6
  <2>. QED BY <2>1, <2>2
<1>8. Differ(Pages(links, k), Len(Pages(links, k)))
  BY PagesAre
<1>9. r = r2
  <2>. DEFINE pages == Pages(links, k)
  <2>1. pages[r] = pages[r2] /\ r \in 1..Len(pages) /\ r2 \in 1..Len(pages)
    BY <1>1, <1>4, <1>5, <1>7
  <2>. HIDE DEF pages
  <2>. QED BY <1>8, <2>1 DEF Differ, pages
<1>. QED BY <1>4, <1>5, <1>7, <1>9

(* The pages of the first m turns.                                          *)
FirstTurns(links, m) == {Slots(links)[n] : n \in 1..m} \ {HomePage}

LEMMA LesserOfTwo ==
    ASSUME NEW a \in Int, NEW b \in Int
    PROVE  LET m == Min({a, b}) IN m \in {a, b} /\ m <= a /\ m <= b
<1>1. \E x \in {a, b} : \A y \in {a, b} : x <= y
  OBVIOUS
<1>. QED BY <1>1 DEF Min

LEMMA GreaterOfTwo ==
    ASSUME NEW a \in Int, NEW b \in Int
    PROVE  LET m == Max({a, b}) IN m \in {a, b} /\ a <= m /\ b <= m
<1>1. \E x \in {a, b} : \A y \in {a, b} : x >= y
  OBVIOUS
<1>. QED BY <1>1 DEF Max

(* What is selected is the homepage and the pages of the first turns.       *)
LEMMA Selected ==
    ASSUME NEW links \in Seq(Page), NEW budget \in Nat, budget # 0
    PROVE  LET selected == SelectPages(links, budget)
           IN  /\ selected \in Seq(Page)
               /\ Len(selected) # 0 /\ Len(selected) <= budget
               /\ Differ(selected, Len(selected))
               /\ \E m \in 0..Len(Slots(links)) :
                     {selected[i] : i \in 1..Len(selected)}
                        = {HomePage} \cup FirstTurns(links, m)
<1>. DEFINE slots == Slots(links)
            wanted == PagesOf(slots)
            turns == Turns(links)
            p == Min({budget - 1, Len(turns)})
<1>1. slots \in Seq(Page) /\ DOMAIN slots = 1..Len(slots)
  BY SlotsAre
<1>2. turns = FirstOfEach(slots, wanted, {})
  BY TurnsAreSlots
<1>3. \A i, j \in DOMAIN slots : slots[i] \in wanted /\ slots[i] = slots[j] => i = j
  BY SlotsDiffer
<1>4. \A n \in 1..Len(slots) : slots[n] \in wanted <=> slots[n] # HomePage
  <2>. HIDE DEF slots
  <2>. QED BY <1>1 DEF PagesOf, Range
<1>5. FirstTurns(links, 0) = {}
  BY DEF FirstTurns
<1>. HIDE DEF slots, wanted, turns
<1>6. turns \in Seq(Page)
  BY <1>1, <1>2, FirstOfEachIs DEF IsOf
<1>7. p \in 0..Len(turns) /\ p <= budget - 1
  <2>1. budget - 1 \in Int /\ Len(turns) \in Int /\ budget - 1 >= 0 /\ Len(turns) >= 0
    BY <1>6
  <2>. DEFINE a == budget - 1
              b == Len(turns)
  <2>. HIDE DEF a, b
  <2>2. p \in {a, b} /\ p <= a /\ p <= b
    BY <2>1, LesserOfTwo DEF a, b
  <2>. HIDE DEF p
  <2>. QED BY <2>1, <2>2 DEF a, b
<1>. HIDE DEF p
<1>8. PICK m \in 0..Len(slots) : Kept(slots, wanted, {}, m) = SubSeq(turns, 1, p)
  BY <1>1, <1>2, <1>7, KeptIsCut
<1>. DEFINE kept == Kept(slots, wanted, {}, m)
            selected == <<HomePage>> \o kept
<1>9. /\ IsOf(kept, Page, slots, wanted, m)
      /\ IsComplete(kept, slots, wanted, {}, m)
  BY <1>1, KeptIs
<1>10. Differ(kept, Len(kept))
  BY <1>1, <1>3, KeptDiffers
<1>11. SelectPages(links, budget) = selected
  BY <1>8 DEF SelectPages, turns, p
<1>12. Len(kept) = p
  <2>1. Len(SubSeq(turns, 1, p)) = p
    BY <1>6, <1>7
  <2>. QED BY <1>8, <2>1
<1>. HIDE DEF kept
<1>13. kept \in Seq(Page) /\ DOMAIN kept = 1..Len(kept) /\ Len(kept) \in Nat
  BY <1>9 DEF IsOf
<1>14. /\ selected \in Seq(Page) /\ Len(selected) = Len(kept) + 1
       /\ selected[1] = HomePage
       /\ \A i \in 1..Len(kept) : selected[i + 1] = kept[i]
  BY <1>13, HomeIsAPage
<1>. HIDE DEF selected
<1>15. \A i \in 1..Len(selected) : i = 1 \/ \E j \in 1..Len(kept) : i = j + 1
  <2>. TAKE i \in 1..Len(selected)
  <2>1. i \in Int /\ 1 <= i /\ i <= Len(kept) + 1
    BY <1>13, <1>14
  <2>2. i # 1 => i - 1 \in 1..Len(kept) /\ i = (i - 1) + 1
    BY <1>13, <2>1
  <2>. QED BY <2>2
<1>16. \A i \in 1..Len(kept) : kept[i] # HomePage /\ i + 1 \in 1..Len(selected)
  <2>1. \A n \in 1..m : n \in 1..Len(slots)
    BY <1>1
  <2>2. \A i \in 1..Len(kept) : kept[i] # HomePage
    BY <1>4, <1>9, <1>13, <2>1 DEF IsOf
  <2>3. \A i \in 1..Len(kept) : i + 1 \in 1..Len(selected)
    BY <1>13, <1>14
  <2>. QED BY <2>2, <2>3
<1>17. Differ(selected, Len(selected))
  <2>. SUFFICES ASSUME NEW i \in 1..Len(selected), NEW j \in 1..Len(selected),
                       selected[i] = selected[j]
                PROVE  i = j
    BY DEF Differ
  <2>1. CASE i = 1 /\ j # 1
    BY <1>14, <1>15, <1>16, <2>1
  <2>2. CASE i # 1 /\ j = 1
    BY <1>14, <1>15, <1>16, <2>2
  <2>3. CASE i # 1 /\ j # 1
    <3>1. PICK a \in 1..Len(kept) : i = a + 1
      BY <1>15, <2>3
    <3>2. PICK b \in 1..Len(kept) : j = b + 1
      BY <1>15, <2>3
    <3>3. kept[a] = kept[b]
      BY <1>14, <3>1, <3>2
    <3>. QED BY <1>10, <3>1, <3>2, <3>3 DEF Differ
  <2>. QED BY <2>1, <2>2, <2>3
<1>18. {selected[i] : i \in 1..Len(selected)} = {HomePage} \cup FirstTurns(links, m)
  <2>1. \A n \in 1..m : n \in 1..Len(slots)
    BY <1>1
  <2>2. FirstTurns(links, m) = {slots[n] : n \in 1..m} \ {HomePage}
    BY DEF FirstTurns, slots
  <2>3. ASSUME NEW page \in FirstTurns(links, m)
        PROVE  \E i \in 1..Len(kept) : page = kept[i]
    <3>1. PICK n \in 1..m : page = slots[n] /\ slots[n] # HomePage
      BY <2>2, <2>3
    <3>2. slots[n] \in wanted
      BY <1>4, <2>1, <3>1
    <3>. QED BY <1>9, <1>13, <3>1, <3>2 DEF IsComplete
  <2>4. ASSUME NEW i \in 1..Len(kept)
        PROVE  kept[i] \in FirstTurns(links, m)
    <3>1. \E n \in 1..m : kept[i] = slots[n]
      BY <1>9, <1>13, <2>4 DEF IsOf
    <3>. QED BY <1>16, <2>2, <3>1
  <2>5. 1 \in 1..Len(selected)
    BY <1>13, <1>14
  <2>6. \A i \in 1..Len(selected) : selected[i] \in {HomePage} \cup FirstTurns(links, m)
    BY <1>14, <1>15, <2>4
  <2>7. \A page \in {HomePage} \cup FirstTurns(links, m) :
            \E i \in 1..Len(selected) : selected[i] = page
    BY <1>14, <1>16, <2>3, <2>5
  <2>. QED BY <2>6, <2>7
<1>19. Len(selected) # 0 /\ Len(selected) <= budget
  BY <1>7, <1>12, <1>13, <1>14
<1>. QED BY <1>11, <1>14, <1>17, <1>18, <1>19 DEF slots

(* The rounds in which a kind has a page.                                   *)
RoundsOf(links, m, k) == {r \in 1..Len(Pages(links, k)) : 3 * (r - 1) + k <= m}

LEMMA TurnsByKind ==
    ASSUME NEW links \in Seq(Page), NEW m \in 0..Len(Slots(links))
    PROVE  /\ \A k \in {1, 2, 3} :
                 {page \in FirstTurns(links, m) : Classify(page) = Kinds[k]}
                    = {Pages(links, k)[r] : r \in RoundsOf(links, m, k)}
           /\ \A page \in FirstTurns(links, m) : \E k \in {1, 2, 3} : Classify(page) = Kinds[k]
<1>. DEFINE slots == Slots(links)
<1>1. /\ slots \in Seq(Page) /\ DOMAIN slots = 1..Len(slots)
      /\ \A n \in DOMAIN slots : slots[n] # HomePage =>
             \E k \in {1, 2, 3}, r \in Nat :
                /\ r \in 1..Len(Pages(links, k))
                /\ n = 3 * (r - 1) + k
                /\ slots[n] = Pages(links, k)[r]
  BY SlotsAre
<1>2. \A k \in {1, 2, 3}, r \in Nat, n \in DOMAIN slots :
         r \in 1..Len(Pages(links, k)) /\ n = 3 * (r - 1) + k =>
            slots[n] = Pages(links, k)[r] /\ slots[n] # HomePage
  BY SlotsAre
<1>3. FirstTurns(links, m) = {slots[n] : n \in 1..m} \ {HomePage}
  BY DEF FirstTurns
<1>. HIDE DEF slots
<1>4. m \in Nat /\ \A n \in 1..m : n \in DOMAIN slots
  BY <1>1 DEF slots
<1>5. \A k \in {1, 2, 3}, r \in Nat :
         r \in 1..Len(Pages(links, k)) => Classify(Pages(links, k)[r]) = Kinds[k]
  BY PagesAre DEF Worth
<1>6. ASSUME NEW page \in FirstTurns(links, m)
      PROVE  \E k \in {1, 2, 3} :
                Classify(page) = Kinds[k] /\ \E r \in RoundsOf(links, m, k) : page = Pages(links, k)[r]
  <2>1. PICK n \in 1..m : page = slots[n] /\ slots[n] # HomePage
    BY <1>3, <1>6
  <2>2. PICK k \in {1, 2, 3}, r \in Nat :
           /\ r \in 1..Len(Pages(links, k)) /\ n = 3 * (r - 1) + k
           /\ slots[n] = Pages(links, k)[r]
    BY <1>1, <1>4, <2>1
  <2>3. r \in RoundsOf(links, m, k)
    BY <1>4, <2>1, <2>2 DEF RoundsOf
  <2>. QED BY <1>5, <2>1, <2>2, <2>3
<1>7. ASSUME NEW k \in {1, 2, 3}, NEW r \in RoundsOf(links, m, k)
      PROVE  Pages(links, k)[r] \in FirstTurns(links, m) /\ Classify(Pages(links, k)[r]) = Kinds[k]
  <2>1. r \in Nat /\ r >= 1 /\ r \in 1..Len(Pages(links, k)) /\ 3 * (r - 1) + k <= m
    BY <1>7 DEF RoundsOf
  <2>. DEFINE n == 3 * (r - 1) + k
  <2>2. n \in 1..m
    BY <1>4, <2>1
  <2>. HIDE DEF n
  <2>3. slots[n] = Pages(links, k)[r] /\ slots[n] # HomePage
    BY <1>2, <1>4, <2>1, <2>2 DEF n
  <2>. QED BY <1>3, <1>5, <2>1, <2>2, <2>3
<1>8. ASSUME NEW k \in {1, 2, 3}, NEW k2 \in {1, 2, 3}, Kinds[k] = Kinds[k2]
      PROVE  k = k2
  <2>1. Kinds[1] # Kinds[2] /\ Kinds[1] # Kinds[3] /\ Kinds[2] # Kinds[3]
    BY ThreeKinds
  <2>. QED BY <1>8, <2>1
<1>9. \A k \in {1, 2, 3} :
        {page \in FirstTurns(links, m) : Classify(page) = Kinds[k]}
           = {Pages(links, k)[r] : r \in RoundsOf(links, m, k)}
  <2>. TAKE k \in {1, 2, 3}
  <2>1. \A page \in FirstTurns(links, m) : Classify(page) = Kinds[k] =>
            \E r \in RoundsOf(links, m, k) : page = Pages(links, k)[r]
    BY <1>6, <1>8
  <2>. QED BY <1>7, <2>1
<1>. QED BY <1>6, <1>9

(* No kind is more than a page ahead of one that has not run out: the turns *)
(* reach its missing page before the other's second next.                   *)
LEMMA TurnsAreSpread ==
    ASSUME NEW links \in Seq(Page), NEW m \in 0..Len(Slots(links))
    PROVE  Spread({HomePage} \cup FirstTurns(links, m), links)
<1>. DEFINE of(kind) == {page \in ({HomePage} \cup FirstTurns(links, m)) \ {HomePage} :
                             Classify(page) = kind}
<1>1. HomePage \notin FirstTurns(links, m)
  BY DEF FirstTurns
<1>2. \A kind : of(kind) = {page \in FirstTurns(links, m) : Classify(page) = kind}
  BY <1>1
<1>3. of("skip") = {}
  <2>1. "skip" # Kinds[1] /\ "skip" # Kinds[2] /\ "skip" # Kinds[3]
    BY ThreeKinds
  <2>2. \A page \in FirstTurns(links, m) : \E k \in {1, 2, 3} : Classify(page) = Kinds[k]
    BY TurnsByKind
  <2>. QED BY <1>2, <2>1, <2>2
<1>4. ASSUME NEW k \in {1, 2, 3}
      PROVE  of(Kinds[k]) = {Pages(links, k)[r] : r \in RoundsOf(links, m, k)}
  BY <1>2, TurnsByKind
<1>. HIDE DEF of
<1>5. ASSUME NEW i \in {1, 2, 3}, NEW j \in {1, 2, 3}, of(Kinds[j]) # Worth(links, Kinds[j])
      PROVE  Cardinality(of(Kinds[i])) <= Cardinality(of(Kinds[j])) + 1
  <2>. DEFINE own == Pages(links, j)
              other == Pages(links, i)
              B == {r \in 1..Len(own) : 3 * (r - 1) + j > m}
  <2>1. /\ own \in Seq(Page) /\ Len(own) \in Nat /\ Differ(own, Len(own))
        /\ \A r \in 1..Len(own) : own[r] \in Worth(links, Kinds[j])
        /\ \A page \in Worth(links, Kinds[j]) : \E r \in 1..Len(own) : own[r] = page
    <3>1. /\ own \in Seq(Page) /\ Differ(own, Len(own))
          /\ \A r \in 1..Len(own) : own[r] \in Worth(links, Kinds[j])
          /\ \A page \in Worth(links, Kinds[j]) : \E r \in 1..Len(own) : own[r] = page
      BY PagesAre
    <3>. HIDE DEF own
    <3>2. Len(own) \in Nat
      BY <3>1
    <3>. QED BY <3>1, <3>2
  <2>2. other \in Seq(Page) /\ Len(other) \in Nat
    BY PagesAre
  <2>3. m \in Nat
    OBVIOUS
  <2>4. /\ RoundsOf(links, m, j) = {r \in 1..Len(own) : 3 * (r - 1) + j <= m}
        /\ RoundsOf(links, m, i) = {r \in 1..Len(other) : 3 * (r - 1) + i <= m}
    BY DEF RoundsOf
  <2>. HIDE DEF own, other
  <2>5. B # {}
    <3>1. SUFFICES ASSUME B = {} PROVE FALSE
      OBVIOUS
    <3>2. RoundsOf(links, m, j) = 1..Len(own)
      BY <2>1, <2>3, <2>4, <3>1
    <3>3. of(Kinds[j]) = {own[r] : r \in 1..Len(own)}
      BY <1>4, <3>2 DEF own
    <3>. QED BY <1>5, <2>1, <3>3
  <2>6. \E t \in B : \A u \in B : t <= u
    <3>1. B \subseteq Nat
      BY <2>1
    <3>. HIDE DEF B
    <3>. QED BY <2>5, <3>1, SmallestNumber
  <2>7. PICK t \in 1..Len(own) : 3 * (t - 1) + j > m /\ \A u \in B : t <= u
    BY <2>6
  <2>. DEFINE c == t - 1
  <2>8. c \in Nat /\ t = c + 1 /\ t <= Len(own) /\ c <= Len(own) /\ 3 * c + j > m
    BY <2>1, <2>7
  <2>9. RoundsOf(links, m, j) = 1..c
    <3>1. ASSUME NEW r \in 1..Len(own), 3 * (r - 1) + j <= m
          PROVE  r \in 1..c
      BY <2>1, <2>3, <2>8, <3>1
    <3>2. ASSUME NEW r \in 1..c
          PROVE  r \in 1..Len(own) /\ 3 * (r - 1) + j <= m
      <4>1. r \in 1..Len(own) /\ r < t
        BY <2>1, <2>8
      <4>2. r \notin B
        BY <2>1, <2>7, <2>8, <4>1
      <4>. QED BY <2>3, <4>1, <4>2
    <3>. QED BY <2>4, <3>1, <3>2
  <2>. HIDE DEF c, B
  <2>10. Differ(own, c)
    BY <2>1, <2>8 DEF Differ
  <2>11. Cardinality(of(Kinds[j])) = c
    <3>1. of(Kinds[j]) = {own[r] : r \in 1..c}
      BY <1>4, <2>9 DEF own
    <3>. QED BY <2>8, <2>10, <3>1, CountOfDistinct
  <2>. DEFINE some == {other[r] : r \in 1..(c + 1)}
  <2>12. of(Kinds[i]) \subseteq some
    <3>1. ASSUME NEW r \in RoundsOf(links, m, i)
          PROVE  r \in 1..(c + 1)
      <4>1. r \in 1..Len(other) /\ 3 * (r - 1) + i <= m
        BY <2>4
      <4>. QED BY <2>2, <2>3, <2>8, <4>1
    <3>2. of(Kinds[i]) = {other[r] : r \in RoundsOf(links, m, i)}
      BY <1>4 DEF other
    <3>. QED BY <3>1, <3>2
  <2>13. IsFiniteSet(some) /\ Cardinality(some) <= c + 1
    <3>. DEFINE d == c + 1
    <3>1. d \in Nat
      BY <2>8
    <3>. HIDE DEF d
    <3>2. IsFiniteSet({other[r] : r \in 1..d}) /\ Cardinality({other[r] : r \in 1..d}) <= d
      BY <3>1, CountOfList
    <3>. QED BY <3>2 DEF d
  <2>. HIDE DEF some
  <2>14. /\ Cardinality(of(Kinds[i])) <= Cardinality(some)
         /\ Cardinality(of(Kinds[i])) \in Nat /\ Cardinality(some) \in Nat
    BY <2>12, <2>13, FS_Subset, FS_CardinalityType
  <2>. QED BY <2>8, <2>11, <2>13, <2>14
<1>6. \A i, j \in DOMAIN Kinds :
         \/ Cardinality(of(Kinds[i])) <= Cardinality(of(Kinds[j])) + 1
         \/ of(Kinds[j]) = Worth(links, Kinds[j])
  <2>1. DOMAIN Kinds = {1, 2, 3}
    BY ThreeKinds
  <2>. QED BY <1>5, <2>1
<1>. QED BY <1>3, <1>6 DEF Spread, of

-----------------------------------------------------------------------------
(* The agent's steps.                                                       *)

(* The ceiling leaves a page budget, less the credit Map costs.             *)
LEMMA BudgetIs ==
    PageBudget(0) \in Nat /\ PageBudget(0) # 0 /\ PageBudget(0) + 1 <= MaxCredits
<1>. DEFINE a == DefaultPages
            b == MaxCredits - 1
<1>1. a \in Int /\ b \in Int /\ a > 0 /\ b > 0
  BY OnboarderAssumption
<1>2. PageBudget(0) = Min({a, b})
  BY DEF PageBudget
<1>. HIDE DEF a, b
<1>3. Min({a, b}) \in {a, b} /\ Min({a, b}) <= a /\ Min({a, b}) <= b
  BY <1>1, LesserOfTwo
<1>4. Min({a, b}) \in Nat /\ Min({a, b}) # 0 /\ Min({a, b}) <= b
  BY <1>1, <1>3
<1>. QED BY <1>2, <1>4, OnboarderAssumption DEF b

LEMMA ToReadIs ==
    ASSUME NEW links \in SiteMaps
    PROVE  LET selected == SelectPages(links, PageBudget(0))
           IN  /\ ToRead[links] = selected
               /\ selected \in Seq(Page) /\ Len(selected) # 0
<1>1. links \in Seq(Page)
  BY OnboarderAssumption
<1>. DEFINE b == PageBudget(0)
<1>2. b \in Nat /\ b # 0
  BY BudgetIs
<1>3. ToRead[links] = SelectPages(links, b)
  BY DEF ToRead
<1>. HIDE DEF b
<1>4. SelectPages(links, b) \in Seq(Page) /\ Len(SelectPages(links, b)) # 0
  BY <1>1, <1>2, Selected
<1>. QED BY <1>3, <1>4 DEF b

(* Between two pages the list splits in those tried and those to do.        *)
LEMMA PickedIs ==
    ASSUME NEW a \in AgentStates, ReadsInOrder(a)
    PROVE  LET selected == SelectPages(a.links, PageBudget(0))
           IN  /\ a.tried \cup Range(a.todo) = {selected[i] : i \in 1..Len(selected)}
               /\ Cardinality(a.tried) + Len(a.todo) = Len(selected)
               /\ Len(a.todo) # 0
<1>. DEFINE selected == SelectPages(a.links, PageBudget(0))
            n == Len(selected)
            todo == a.todo
<1>1. a.links \in Seq(Page)
  BY DEF AgentStates
<1>2. selected \in Seq(Page) /\ Differ(selected, n)
  <2>. DEFINE b == PageBudget(0)
  <2>1. b \in Nat /\ b # 0
    BY BudgetIs
  <2>. HIDE DEF b
  <2>2. SelectPages(a.links, b) \in Seq(Page)
        /\ Differ(SelectPages(a.links, b), Len(SelectPages(a.links, b)))
    BY <1>1, <2>1, Selected
  <2>. QED BY <2>2 DEF b
<1>3. PICK m \in 0..n - 1 : /\ todo = SubSeq(selected, m + 1, n)
                            /\ a.tried = {selected[i] : i \in 1..m}
  BY DEF ReadsInOrder
<1>. HIDE DEF selected, todo
<1>4. n \in Nat /\ m \in Nat /\ m < n
  BY <1>2, <1>3
<1>5. Cardinality(a.tried) = m
  <2>1. Differ(selected, m)
    BY <1>2, <1>4 DEF Differ
  <2>. QED BY <1>3, <1>4, <2>1, CountOfDistinct
<1>6. /\ Len(todo) = n - m /\ DOMAIN todo = 1..(n - m)
      /\ \A i \in 1..(n - m) : todo[i] = selected[m + i]
  BY <1>2, <1>3, <1>4
<1>. HIDE DEF n
<1>7. Range(todo) = {selected[i] : i \in (m + 1)..n}
  <2>1. \A i \in 1..(n - m) : m + i \in (m + 1)..n
    BY <1>4
  <2>2. \A j \in (m + 1)..n : j - m \in 1..(n - m) /\ j = m + (j - m)
    BY <1>4
  <2>. QED BY <1>6, <2>1, <2>2 DEF Range
<1>8. \A i \in 1..n : i \in 1..m \/ i \in (m + 1)..n
  BY <1>4
<1>9. \A i : i \in 1..m \/ i \in (m + 1)..n => i \in 1..n
  BY <1>4
<1>10. a.tried \cup Range(todo) = {selected[i] : i \in 1..n}
  BY <1>3, <1>7, <1>8, <1>9
<1>11. Cardinality(a.tried) + Len(todo) = n /\ Len(todo) # 0
  BY <1>4, <1>5, <1>6
<1>. QED BY <1>10, <1>11 DEF n, selected, todo

LEMMA PagesAreSpreadThen ==
    ASSUME Types, AgentInv
    PROVE  PagesAreSpread
<1>. SUFFICES ASSUME NEW r \in Requests, agent[r].at = "scrape"
              PROVE  /\ Spread(Picked(r), agent[r].links)
                     /\ Cardinality(Picked(r)) = Cardinality(agent[r].tried) + Len(agent[r].todo)
                     /\ 1 + Cardinality(Picked(r)) <= MaxCredits
  BY DEF PagesAreSpread
<1>. DEFINE a == agent[r]
            b == PageBudget(0)
            selected == SelectPages(a.links, b)
<1>1. a \in AgentStates /\ ReadsInOrder(a)
  BY DEF Types, AgentInv, GoodAgent
<1>2. a.links \in Seq(Page)
  BY <1>1 DEF AgentStates
<1>3. b \in Nat /\ b # 0 /\ b + 1 <= MaxCredits
  BY BudgetIs
<1>4. /\ Picked(r) = {selected[i] : i \in 1..Len(selected)}
      /\ Cardinality(a.tried) + Len(a.todo) = Len(selected)
  <2>. HIDE DEF a
  <2>1. /\ a.tried \cup Range(a.todo) = {selected[i] : i \in 1..Len(selected)}
        /\ Cardinality(a.tried) + Len(a.todo) = Len(selected)
    BY <1>1, PickedIs
  <2>. QED BY <2>1 DEF Picked, a
<1>. HIDE DEF a, b
<1>5. /\ selected \in Seq(Page) /\ Len(selected) <= b /\ Differ(selected, Len(selected))
      /\ \E m \in 0..Len(Slots(a.links)) :
            {selected[i] : i \in 1..Len(selected)} = {HomePage} \cup FirstTurns(a.links, m)
  BY <1>2, <1>3, Selected
<1>. HIDE DEF selected
<1>6. Spread(Picked(r), a.links)
  BY <1>2, <1>4, <1>5, TurnsAreSpread
<1>7. Len(selected) \in Nat
  BY <1>5
<1>8. Cardinality(Picked(r)) = Len(selected)
  BY <1>4, <1>5, <1>7, CountOfDistinct
<1>9. 1 + Cardinality(Picked(r)) <= MaxCredits
  BY <1>3, <1>5, <1>7, <1>8, OnboarderAssumption
<1>. QED BY <1>4, <1>6, <1>8, <1>9 DEF a

LEMMA IdleIs == Idle \in AgentStates /\ GoodAgent(Idle)
<1>1. <<>> \in Seq(Page) /\ <<>> \in Seq(Term) /\ {} \in SUBSET Page
  OBVIOUS
<1>. QED BY <1>1 DEF Idle, AgentStates, GoodAgent

LEMMA EndedIs ==
    ASSUME NEW how \in {"completed", "failed"}, NEW keywords \in Seq(Term)
    PROVE  Ended(how, keywords) \in AgentStates /\ GoodAgent(Ended(how, keywords))
<1>1. <<>> \in Seq(Page) /\ {} \in SUBSET Page
  OBVIOUS
<1>. QED BY <1>1 DEF Ended, Idle, AgentStates, GoodAgent

LEMMA FailedIs == Failed \in AgentStates /\ GoodAgent(Failed)
<1>1. <<>> \in Seq(Term)
  OBVIOUS
<1>. QED BY <1>1, EndedIs DEF Failed

(* One request's state is replaced.                                         *)
LEMMA AgentChanges ==
    ASSUME agent \in [Requests -> AgentStates], AgentInv, NEW s \in Requests,
           NEW a \in AgentStates, GoodAgent(a), agent' = [agent EXCEPT ![s] = a]
    PROVE  agent' \in [Requests -> AgentStates] /\ AgentInv'
<1>1. agent' \in [Requests -> AgentStates]
  OBVIOUS
<1>2. \A r \in Requests : agent'[r] = a \/ agent'[r] = agent[r]
  OBVIOUS
<1>3. \A r \in Requests : GoodAgent(agent'[r])
  BY <1>2 DEF AgentInv
<1>. QED BY <1>1, <1>3 DEF AgentInv

LEMMA StartsToRead ==
    ASSUME NEW a \in AgentStates, a.at = "map", GoodAgent(a), NEW links \in SiteMaps
    PROVE  LET b == [a EXCEPT !.at = "scrape", !.links = links, !.todo = ToRead[links]]
           IN  b \in AgentStates /\ GoodAgent(b)
<1>. DEFINE todo == ToRead[links]
            selected == SelectPages(links, PageBudget(0))
            b == [a EXCEPT !.at = "scrape", !.links = links, !.todo = todo]
<1>1. todo = selected /\ selected \in Seq(Page) /\ Len(selected) # 0 /\ links \in Seq(Page)
  BY ToReadIs, OnboarderAssumption
<1>2. a.tried = {} /\ (a.read => a.tried # {})
  BY DEF GoodAgent
<1>. HIDE DEF todo
<1>3. b \in AgentStates
  BY <1>1 DEF AgentStates
<1>4. b.at = "scrape" /\ b.links = links /\ b.todo = todo /\ b.tried = a.tried /\ b.read = a.read
  BY DEF AgentStates
<1>. HIDE DEF b, selected
<1>5. ReadsInOrder(b)
  <2>1. Len(selected) \in Nat /\ 0 \in 0..Len(selected) - 1
    BY <1>1
  <2>2. selected = SubSeq(selected, 0 + 1, Len(selected))
    BY <1>1
  <2>3. {selected[i] : i \in 1..0} = {}
    OBVIOUS
  <2>4. selected = SelectPages(b.links, PageBudget(0))
    BY <1>4 DEF selected
  <2>. QED BY <1>1, <1>2, <1>4, <2>1, <2>2, <2>3, <2>4 DEF ReadsInOrder
<1>6. b.todo # <<>>
  BY <1>1, <1>4
<1>7. GoodAgent(b)
  BY <1>2, <1>4, <1>5, <1>6 DEF GoodAgent
<1>. QED BY <1>3, <1>7 DEF b, todo

LEMMA ReadsOne ==
    ASSUME NEW a \in AgentStates, a.at = "scrape", GoodAgent(a), NEW answered \in BOOLEAN,
           NEW left, left = Tail(a.todo),
           NEW read, read = (a.read \/ answered), ~ (left = <<>> /\ ~read)
    PROVE  LET b == [a EXCEPT !.todo = left,
                              !.tried = a.tried \cup {Head(a.todo)},
                              !.read = read,
                              !.at = IF left = <<>> THEN "chat" ELSE "scrape"]
           IN  b \in AgentStates /\ GoodAgent(b)
<1>. DEFINE selected == SelectPages(a.links, PageBudget(0))
            n == Len(selected)
            page == Head(a.todo)
            at == IF left = <<>> THEN "chat" ELSE "scrape"
            tried == a.tried \cup {page}
            b == [a EXCEPT !.todo = left, !.tried = a.tried \cup {page}, !.read = read, !.at = at]
<1>1. ReadsInOrder(a) /\ a.todo # <<>> /\ a.todo \in Seq(Page) /\ a.tried \in SUBSET Page
  BY DEF GoodAgent, AgentStates
<1>2. page \in Page /\ left \in Seq(Page)
  BY <1>1
<1>3. read \in BOOLEAN /\ a.read \in BOOLEAN
  BY DEF AgentStates
<1>4. at \in {"chat", "scrape"} /\ (at = "chat" <=> left = <<>>)
  OBVIOUS
<1>5. PICK m \in 0..n - 1 : /\ a.todo = SubSeq(selected, m + 1, n)
                            /\ a.tried = {selected[i] : i \in 1..m}
  BY <1>1 DEF ReadsInOrder
<1>6. selected \in Seq(Page)
  <2>1. a.links \in Seq(Page)
    BY DEF AgentStates
  <2>. DEFINE c == PageBudget(0)
  <2>2. c \in Nat /\ c # 0
    BY BudgetIs
  <2>. HIDE DEF c
  <2>3. SelectPages(a.links, c) \in Seq(Page)
    BY <2>1, <2>2, Selected
  <2>. QED BY <2>3 DEF c
<1>. HIDE DEF at, page, selected
<1>7. tried \in SUBSET Page /\ tried # {}
  BY <1>1, <1>2
<1>8. b \in AgentStates
  BY <1>2, <1>3, <1>4, <1>7 DEF AgentStates
<1>9. /\ b.at = at /\ b.links = a.links /\ b.todo = left /\ b.tried = tried /\ b.read = read
  BY DEF AgentStates
<1>. HIDE DEF b
<1>10. n \in Nat /\ m \in Nat /\ m + 1 <= n
  BY <1>5, <1>6
<1>11. page = selected[m + 1] /\ left = SubSeq(selected, m + 2, n)
  <2>. HIDE DEF n
  <2>1. /\ Len(a.todo) = n - m /\ a.todo = [i \in 1..(n - m) |-> selected[m + i]]
    BY <1>5, <1>6, <1>10 DEF n
  <2>2. page = selected[m + 1]
    BY <1>10, <2>1 DEF page
  <2>3. left = [i \in 1..(n - m - 1) |-> selected[m + 1 + i]]
    BY <1>1, <1>10, <2>1
  <2>4. SubSeq(selected, m + 2, n) = [i \in 1..(n - m - 1) |-> selected[m + 1 + i]]
    BY <1>6, <1>10 DEF n
  <2>. QED BY <2>2, <2>3, <2>4
<1>12. tried = {selected[i] : i \in 1..(m + 1)}
  <2>1. \A i \in 1..(m + 1) : i \in 1..m \/ i = m + 1
    BY <1>10
  <2>2. \A i \in 1..m : i \in 1..(m + 1)
    BY <1>10
  <2>3. m + 1 \in 1..(m + 1)
    BY <1>10
  <2>. QED BY <1>5, <1>11, <2>1, <2>2, <2>3
<1>. HIDE DEF tried
<1>13. ASSUME left # <<>> PROVE ReadsInOrder(b)
  <2>. DEFINE k == m + 1
  <2>1. k \in 0..n - 1
    <3>1. SUFFICES ASSUME m + 1 = n PROVE FALSE
      BY <1>10
    <3>2. left = <<>>
      BY <1>6, <1>10, <1>11, <3>1
    <3>. QED BY <1>13, <3>2
  <2>2. m + 2 = k + 1
    BY <1>10
  <2>. HIDE DEF k
  <2>3. b.todo = SubSeq(selected, k + 1, n)
    BY <1>9, <1>11, <2>2
  <2>4. b.tried = {selected[i] : i \in 1..k}
    BY <1>9, <1>12 DEF k
  <2>5. selected = SelectPages(b.links, PageBudget(0))
    BY <1>9 DEF selected
  <2>. QED BY <2>1, <2>3, <2>4, <2>5 DEF ReadsInOrder
<1>14. GoodAgent(b)
  BY <1>4, <1>7, <1>9, <1>13 DEF GoodAgent
<1>. QED BY <1>8, <1>14 DEF b, at, page

LEMMA AgentSteps ==
    ASSUME agent \in [Requests -> AgentStates], AgentInv, NEW s \in Requests, AgentStep(s)
    PROVE  agent' \in [Requests -> AgentStates] /\ AgentInv'
<1>0. agent[s] \in AgentStates /\ GoodAgent(agent[s])
  BY DEF AgentInv
<1>1. CASE HandleFails(s)
  BY <1>1, FailedIs, AgentChanges DEF HandleFails
<1>2. CASE MapAnswers(s)
  <2>1. PICK links \in SiteMaps :
           agent' = [agent EXCEPT ![s] =
               IF links = <<>> THEN Failed
               ELSE [@ EXCEPT !.at = "scrape", !.links = links, !.todo = ToRead[links]]]
    BY <1>2 DEF MapAnswers
  <2>. DEFINE b == [agent[s] EXCEPT !.at = "scrape", !.links = links, !.todo = ToRead[links]]
  <2>2. b \in AgentStates /\ GoodAgent(b)
    BY <1>0, <1>2, StartsToRead DEF MapAnswers
  <2>3. agent' = [agent EXCEPT ![s] = IF links = <<>> THEN Failed ELSE b]
    BY <2>1
  <2>. HIDE DEF b
  <2>. QED BY <2>2, <2>3, FailedIs, AgentChanges
<1>3. CASE ScrapePage(s)
  <2>. DEFINE left == Tail(agent[s].todo)
  <2>1. PICK answered \in BOOLEAN :
           agent' = [agent EXCEPT ![s] =
               IF left = <<>> /\ ~(agent[s].read \/ answered)
               THEN Failed
               ELSE [@ EXCEPT !.todo = left,
                              !.tried = agent[s].tried \cup {Head(agent[s].todo)},
                              !.read = agent[s].read \/ answered,
                              !.at = IF left = <<>> THEN "chat" ELSE "scrape"]]
    BY <1>3 DEF ScrapePage
  <2>. DEFINE read == agent[s].read \/ answered
              b == [agent[s] EXCEPT !.todo = left,
                                    !.tried = agent[s].tried \cup {Head(agent[s].todo)},
                                    !.read = read,
                                    !.at = IF left = <<>> THEN "chat" ELSE "scrape"]
  <2>2. agent' = [agent EXCEPT ![s] = IF left = <<>> /\ ~read THEN Failed ELSE b]
    BY <2>1
  <2>3. ASSUME ~ (left = <<>> /\ ~read) PROVE b \in AgentStates /\ GoodAgent(b)
    <3>. DEFINE a == agent[s]
    <3>1. a \in AgentStates /\ GoodAgent(a) /\ a.at = "scrape" /\ left = Tail(a.todo)
          /\ read = (a.read \/ answered)
      BY <1>0, <1>3 DEF ScrapePage
    <3>2. b = [a EXCEPT !.todo = left,
                        !.tried = a.tried \cup {Head(a.todo)},
                        !.read = read,
                        !.at = IF left = <<>> THEN "chat" ELSE "scrape"]
      OBVIOUS
    <3>. HIDE DEF a, b, left, read
    <3>. QED BY <2>3, <3>1, <3>2, ReadsOne
  <2>. HIDE DEF b, left, read
  <2>. QED BY <2>2, <2>3, FailedIs, AgentChanges
<1>4. CASE ModelAnswers(s)
  <2>1. PICK answer \in Answers :
           agent' = [agent EXCEPT ![s] =
               IF answer = <<>> THEN Failed ELSE Ended("completed", ProfileFrom(answer))]
    BY <1>4 DEF ModelAnswers
  <2>. DEFINE b == Ended("completed", ProfileFrom(answer))
  <2>2. b \in AgentStates /\ GoodAgent(b)
    <3>1. ProfileFrom(answer) \in Seq(Term)
      BY OnboarderAssumption, TermsStayTerms
    <3>. QED BY <3>1, EndedIs
  <2>. HIDE DEF b
  <2>. QED BY <2>1, <2>2, FailedIs, AgentChanges DEF b
<1>. QED BY <1>1, <1>2, <1>3, <1>4 DEF AgentStep

-----------------------------------------------------------------------------
(* The handler's steps.                                                     *)

LEMMA TicksAre ==
    ASSUME NEW n \in Nat, n <= AgentTicks \/ n <= DatabaseTicks
    PROVE  n \in Ticks
<1>. DEFINE a == AgentTicks
            b == DatabaseTicks
<1>1. a \in Int /\ b \in Int
  BY OnboardingAssumption
<1>. HIDE DEF a, b
<1>2. Max({a, b}) \in {a, b} /\ a <= Max({a, b}) /\ b <= Max({a, b})
  BY <1>1, GreaterOfTwo
<1>3. n <= a \/ n <= b
  BY DEF a, b
<1>4. n \in 0..Max({a, b})
  BY <1>1, <1>2, <1>3
<1>. QED BY <1>4 DEF Ticks, a, b

LEMMA RequestsAre ==
    /\ Requests \subseteq Nat \ {0} /\ IsFiniteSet(Requests)
    /\ {0} \cup Requests \subseteq Nat
<1>. DEFINE n == Cardinality(Requests)
<1>1. n \in Nat /\ IsFiniteSet(Requests)
  BY OnboardingAssumption, FS_CardinalityType
<1>. HIDE DEF n
<1>2. Requests = 1..n
  BY OnboardingAssumption DEF n
<1>3. 1..n \subseteq Nat \ {0}
  BY <1>1
<1>. QED BY <1>1, <1>2, <1>3

InPool == {t \in Requests : bff[t].step \in Transaction}

Stored(t) == t \in {"committed", "unacked"}

(* The handler of s goes on with its state h and its transaction t, and     *)
(* nothing is stored by it.                                                 *)
Moves(s, h, t) ==
    /\ bff' = [bff EXCEPT ![s] = h]
    /\ tx' = [tx EXCEPT ![s] = t]
    /\ UNCHANGED <<typed, brands, profiles, stops>>

(* When that is a step the handler may take.                                *)
MayMove(s, h, t) ==
    /\ h \in Handlers
    /\ t \in TxOf(h.step) /\ t \in {"none", "open", "committed", "unacked", "aborted"}
    /\ s <= screen.of
    /\ bff[s].step \notin Ends \ {"none"}
    /\ h.step # "none"
    /\ h.step = "ask" => h.age <= AgentTicks
    /\ h.step \in {"connect"} \cup Transaction => h.age <= DatabaseTicks
    /\ h.step \in Transaction =>
          bff[s].step \in Transaction \/ Cardinality(InPool) < PoolSize
    /\ h.draft.error => h.draft.keywords = <<>>
    /\ Stored(t) <=> Stored(tx[s])
    /\ h.step = "commit" => \A p \in profiles : p.brand = s => p.drafted = ~h.draft.error

(* What the form shows of it, if the route still waits.                     *)
Shows(s, h) ==
    \/ UNCHANGED <<web, screen>>
    \/ /\ web[s].call = "waiting"
       /\ web' = [web EXCEPT ![s] = [call |-> "answered", age |-> 0]]
       /\ \E what \in {"error", "dashboard", "partial"} :
             /\ screen' = [screen EXCEPT !.shows = what]
             /\ what = "error" => h.step \in {"refused", "failed"}
             /\ what # "error" => h.step = "created"
             /\ what = "partial" => \A p \in profiles : p.brand = s => ~p.drafted

(* The agent's part of the invariant.                                       *)
AgentPart == agent \in [Requests -> AgentStates] /\ AgentInv

LEMMA PoolMoves ==
    ASSUME NEW s \in Requests, NEW f, NEW g,
           \A r \in Requests \ {s} : f[r] = g[r],
           Cardinality({r \in Requests : f[r] \in Transaction}) <= PoolSize,
           g[s] \in Transaction =>
              \/ f[s] \in Transaction
              \/ Cardinality({r \in Requests : f[r] \in Transaction}) < PoolSize
    PROVE  Cardinality({r \in Requests : g[r] \in Transaction}) <= PoolSize
<1>. DEFINE F == {r \in Requests : f[r] \in Transaction}
            G == {r \in Requests : g[r] \in Transaction}
<1>1. IsFiniteSet(Requests) /\ F \subseteq Requests /\ G \subseteq Requests
  BY RequestsAre
<1>2. IsFiniteSet(F) /\ IsFiniteSet(G)
  BY <1>1, FS_Subset
<1>3. Cardinality(F) \in Nat /\ Cardinality(G) \in Nat /\ PoolSize \in Nat
  BY <1>2, FS_CardinalityType, OnboardingAssumption
<1>4. CASE g[s] \in Transaction /\ f[s] \notin Transaction
  <2>1. G = F \cup {s} /\ s \notin F
    BY <1>4
  <2>. HIDE DEF F, G
  <2>2. Cardinality(G) = Cardinality(F) + 1
    BY <1>2, <2>1, FS_AddElement
  <2>3. Cardinality(F) < PoolSize
    BY <1>4 DEF F
  <2>4. Cardinality(G) <= PoolSize
    BY <1>3, <2>2, <2>3
  <2>. QED BY <2>4 DEF G
<1>5. CASE ~ (g[s] \in Transaction /\ f[s] \notin Transaction)
  <2>1. G \subseteq F
    BY <1>5
  <2>2. Cardinality(F) <= PoolSize
    OBVIOUS
  <2>. HIDE DEF F, G
  <2>3. Cardinality(G) <= Cardinality(F)
    BY <1>2, <2>1, FS_Subset
  <2>4. Cardinality(G) <= PoolSize
    BY <1>3, <2>2, <2>3
  <2>. QED BY <2>4 DEF G
<1>. QED BY <1>4, <1>5

LEMMA HandlerMoves ==
    ASSUME OInv, NEW s \in Requests, NEW h, NEW t, Moves(s, h, t), MayMove(s, h, t),
           Shows(s, h), AgentPart',
           \A r \in Requests \ {s} : agent'[r] = agent[r]
    PROVE  OInv'
<1>1. /\ bff' \in [Requests -> Handlers] /\ bff'[s] = h
      /\ \A r \in Requests \ {s} : bff'[r] = bff[r]
      /\ bff \in [Requests -> Handlers]
  BY DEF OInv, Types, Moves, MayMove
<1>2. /\ tx' \in [Requests -> {"none", "open", "committed", "unacked", "aborted"}]
      /\ tx'[s] = t
      /\ \A r \in Requests \ {s} : tx'[r] = tx[r]
  BY DEF OInv, Types, Moves, MayMove
<1>3. /\ screen.of \in {0} \cup Requests /\ screen'.of = screen.of
      /\ screen' \in Screens
  BY DEF OInv, Types, Screens, Shows
<1>4. /\ web' \in [Requests -> Calls]
      /\ \A r \in Requests \ {s} : web'[r] = web[r]
      /\ web'[s] = web[s] \/ web'[s].call = "answered"
  <2>1. [call |-> "answered", age |-> 0] \in Calls
    BY OnboardingAssumption DEF Calls
  <2>. QED BY <2>1 DEF OInv, Types, Shows
<1>5. Types'
  BY <1>1, <1>2, <1>3, <1>4 DEF OInv, Types, Moves, AgentPart
<1>6. AgentInv'
  BY DEF AgentPart
<1>7. AskedOnce'
  BY <1>1 DEF OInv, FlowInv, AskedOnce, MayMove
<1>8. AgesAreBounded'
  BY <1>1 DEF OInv, FlowInv, AgesAreBounded, MayMove
<1>9. Unsubmitted'
  <2>1. \A r \in Requests : r > screen.of => r # s
    <3>. DEFINE of == screen.of
    <3>1. of \in Nat /\ s <= of /\ s \in Nat
      BY <1>3, RequestsAre DEF MayMove
    <3>. HIDE DEF of
    <3>2. \A r \in Requests : r > of => r # s
      BY <3>1
    <3>. QED BY <3>2 DEF of
  <2>. QED BY <1>1, <1>2, <1>3, <1>4, <2>1 DEF OInv, FlowInv, Unsubmitted
<1>10. OneIsWaiting'
  <2>1. CASE UNCHANGED <<web, screen>>
    BY <2>1 DEF OInv, FlowInv, OneIsWaiting
  <2>2. CASE web[s].call = "waiting" /\ web'[s].call = "answered"
    BY <1>4, <2>2 DEF OInv, FlowInv, OneIsWaiting
  <2>3. web' = [web EXCEPT ![s] = [call |-> "answered", age |-> 0]] =>
            web'[s].call = "answered"
    BY DEF OInv, Types
  <2>. QED BY <2>1, <2>2, <2>3 DEF Shows
<1>11. TxFollows'
  BY <1>1, <1>2 DEF OInv, FlowInv, TxFollows, MayMove
<1>12. PoolHolds'
  <2>. DEFINE f == [r \in Requests |-> bff[r].step]
              g == [r \in Requests |-> bff'[r].step]
  <2>1. \A r \in Requests \ {s} : f[r] = g[r]
    BY <1>1
  <2>2. {r \in Requests : f[r] \in Transaction} = InPool
    BY DEF InPool
  <2>3. {r \in Requests : g[r] \in Transaction} = InPool'
    BY DEF InPool
  <2>4. Cardinality(InPool) <= PoolSize
    BY DEF OInv, FlowInv, PoolHolds, InPool
  <2>5. g[s] \in Transaction => f[s] \in Transaction \/ Cardinality(InPool) < PoolSize
    BY <1>1 DEF MayMove
  <2>. HIDE DEF f, g
  <2>6. Cardinality({r \in Requests : g[r] \in Transaction}) <= PoolSize
    BY <2>1, <2>2, <2>4, <2>5, PoolMoves
  <2>. QED BY <2>3, <2>6 DEF PoolHolds, InPool
<1>13. ScreenFollows'
  <2>1. CASE UNCHANGED <<web, screen>>
    BY <1>1, <2>1 DEF OInv, FlowInv, ScreenFollows, MayMove, Ends
  <2>2. CASE web[s].call = "waiting" /\ \E what \in {"error", "dashboard", "partial"} :
             /\ screen' = [screen EXCEPT !.shows = what]
             /\ what = "error" => h.step \in {"refused", "failed"}
             /\ what # "error" => h.step = "created"
    <3>1. s = screen.of
      BY <2>2 DEF OInv, FlowInv, OneIsWaiting
    <3>2. PICK what \in {"error", "dashboard", "partial"} :
             /\ screen' = [screen EXCEPT !.shows = what]
             /\ what = "error" => h.step \in {"refused", "failed"}
             /\ what # "error" => h.step = "created"
      BY <2>2
    <3>3. screen'.shows = what
      BY <3>2 DEF OInv, Types, Screens
    <3>. QED BY <1>1, <1>3, <3>1, <3>2, <3>3 DEF ScreenFollows
  <2>. QED BY <2>1, <2>2 DEF Shows
<1>14. RowsAreCommitted'
  <2>1. \A r \in Requests : Stored(tx'[r]) <=> Stored(tx[r])
    BY <1>2 DEF MayMove
  <2>. QED BY <2>1 DEF OInv, RowsInv, RowsAreCommitted, Moves, Stored
<1>15. DraftsAreWhole'
  BY <1>1 DEF OInv, RowsInv, DraftsAreWhole, MayMove
<1>16. ProfilesAreMerged'
  BY DEF OInv, RowsInv, ProfilesAreMerged, Moves
<1>17. DraftIsTheRows'
  <2>1. \A p \in profiles : p.brand \in Requests
    BY DEF OInv, Types, Profiles
  <2>. QED BY <1>1, <2>1 DEF OInv, RowsInv, DraftIsTheRows, MayMove, Moves
<1>18. PartialIsUndrafted'
  <2>1. CASE UNCHANGED <<web, screen>>
    BY <2>1 DEF OInv, RowsInv, PartialIsUndrafted, Moves
  <2>2. CASE web[s].call = "waiting" /\ \E what \in {"error", "dashboard", "partial"} :
             /\ screen' = [screen EXCEPT !.shows = what]
             /\ what = "partial" => \A p \in profiles : p.brand = s => ~p.drafted
    <3>1. s = screen.of
      BY <2>2 DEF OInv, FlowInv, OneIsWaiting
    <3>2. PICK what \in {"error", "dashboard", "partial"} :
             /\ screen' = [screen EXCEPT !.shows = what]
             /\ what = "partial" => \A p \in profiles : p.brand = s => ~p.drafted
      BY <2>2
    <3>3. screen'.shows = what
      BY <3>2 DEF OInv, Types, Screens
    <3>. QED BY <1>3, <3>1, <3>2, <3>3 DEF PartialIsUndrafted, Moves
  <2>. QED BY <2>1, <2>2 DEF Shows
<1>. QED
  BY <1>5, <1>6, <1>7, <1>8, <1>9, <1>10, <1>11, <1>12, <1>13, <1>14, <1>15, <1>16,
     <1>17, <1>18 DEF OInv, FlowInv, RowsInv

(* Who may have moved was submitted.                                        *)
LEMMA WasSubmitted ==
    ASSUME OInv, NEW s \in Requests,
           web[s].call # "none" \/ bff[s].step # "none"
    PROVE  s <= screen.of
<1>. DEFINE of == screen.of
<1>1. of \in Nat /\ s \in Nat
  BY RequestsAre DEF OInv, Types, Screens
<1>2. ~ (s > of)
  BY DEF OInv, FlowInv, Unsubmitted
<1>. HIDE DEF of
<1>3. s <= of
  BY <1>1, <1>2
<1>. QED BY <1>3 DEF of

(* A state of the handler with no draft.                                    *)
LEMMA HandlerIs ==
    ASSUME NEW step \in Steps
    PROVE  LET h == Handler(step)
           IN  /\ h \in Handlers /\ h.step = step /\ h.age = 0
               /\ h.draft.error /\ h.draft.keywords = <<>>
<1>1. 0 \in Ticks
  BY TicksAre, OnboardingAssumption
<1>2. <<>> \in Seq(Term)
  OBVIOUS
<1>. QED BY <1>1, <1>2 DEF Handler, NoDraft, Handlers, Drafts

(* The handler with the draft it has, at its next step.                     *)
LEMMA NextStepIs ==
    ASSUME OInv, NEW s \in Requests, NEW step \in Steps, GoTo(s, step)
    PROVE  LET h == [bff[s] EXCEPT !.step = step, !.age = 0]
           IN  /\ h \in Handlers /\ h.step = step /\ h.age = 0 /\ h.draft = bff[s].draft
               /\ h.draft.error => h.draft.keywords = <<>>
               /\ bff' = [bff EXCEPT ![s] = h]
<1>. DEFINE h == [bff[s] EXCEPT !.step = step, !.age = 0]
<1>1. bff[s] \in Handlers
  BY DEF OInv, Types
<1>2. 0 \in Ticks
  BY TicksAre, OnboardingAssumption
<1>3. h \in Handlers /\ h.step = step /\ h.age = 0 /\ h.draft = bff[s].draft
  BY <1>1, <1>2 DEF Handlers
<1>4. bff' = [bff EXCEPT ![s] = h]
  BY DEF GoTo
<1>5. h.draft.error => h.draft.keywords = <<>>
  BY <1>3 DEF OInv, RowsInv, DraftsAreWhole
<1>. QED BY <1>3, <1>4, <1>5

LEMMA AgentStays ==
    ASSUME OInv, UNCHANGED agent
    PROVE  AgentPart' /\ \A r \in Requests : agent'[r] = agent[r]
BY DEF OInv, Types, AgentPart, AgentInv

LEMMA StepsAre ==
    /\ Transaction \cup Ends \cup {"ask", "connect"} = Steps
    /\ Transaction = {"begin", "brand", "profile", "commit", "rollback"}
    /\ Ends = {"none", "created", "refused", "failed", "stopped"}
BY DEF Steps, Transaction, Ends

(* A step within the transaction, or into it.                               *)
LEMMA GoesOn ==
    ASSUME OInv, NEW s \in Requests, NEW step \in Steps, GoTo(s, step),
           NEW t \in TxOf(step), t \in {"none", "open", "committed", "unacked", "aborted"},
           tx' = [tx EXCEPT ![s] = t], Stored(t) <=> Stored(tx[s]),
           step \in {"ask", "connect"} \cup Transaction,
           bff[s].step \notin Ends \ {"none"}, s <= screen.of,
           step \in Transaction =>
              bff[s].step \in Transaction \/ Cardinality(InPool) < PoolSize,
           step = "commit" => ~ Stored(tx[s]),
           UNCHANGED <<typed, screen, web, brands, profiles, stops>>,
           AgentPart', \A r \in Requests \ {s} : agent'[r] = agent[r]
    PROVE  OInv'
<1>. DEFINE h == [bff[s] EXCEPT !.step = step, !.age = 0]
<1>1. /\ h \in Handlers /\ h.step = step /\ h.age = 0 /\ h.draft = bff[s].draft
      /\ h.draft.error => h.draft.keywords = <<>>
      /\ bff' = [bff EXCEPT ![s] = h]
  BY NextStepIs
<1>. HIDE DEF h
<1>2. Moves(s, h, t)
  BY <1>1 DEF Moves
<1>3. step # "none"
  BY StepsAre
<1>4. h.age <= AgentTicks /\ h.age <= DatabaseTicks
  BY <1>1, OnboardingAssumption
<1>5. step = "commit" => \A p \in profiles : p.brand # s
  <2>1. s \in brands <=> Stored(tx[s])
    BY DEF OInv, RowsInv, RowsAreCommitted, Stored
  <2>2. \A p \in profiles : p.brand \in brands
    BY DEF OInv, RowsInv, RowsAreCommitted
  <2>. QED BY <2>1, <2>2
<1>6. MayMove(s, h, t)
  BY <1>1, <1>3, <1>4, <1>5 DEF MayMove
<1>7. Shows(s, h)
  BY DEF Shows
<1>. QED BY <1>2, <1>6, <1>7, HandlerMoves

(* The end of a handler.                                                    *)
LEMMA GoesOut ==
    ASSUME OInv, NEW s \in Requests, NEW end \in {"created", "refused", "failed"},
           EndsAs(s, end), tx[s] \in TxOf(end),
           bff[s].step \notin Ends \ {"none"}, s <= screen.of,
           NEW what \in {"error", "dashboard", "partial"}, Shown(s, what, "answered"),
           what = "error" => end \in {"refused", "failed"},
           what # "error" => end = "created",
           what = "partial" => \A p \in profiles : p.brand = s => ~p.drafted,
           UNCHANGED <<agent, typed, tx, brands, profiles, stops>>
    PROVE  OInv'
<1>. DEFINE h == Handler(end)
            t == tx[s]
<1>1. /\ h \in Handlers /\ h.step = end /\ h.age = 0
      /\ h.draft.error /\ h.draft.keywords = <<>>
  <2>1. end \in Steps
    BY StepsAre
  <2>. QED BY <2>1, HandlerIs
<1>2. Moves(s, h, t)
  BY DEF Moves, EndsAs, OInv, Types
<1>. HIDE DEF h
<1>3. end \notin {"none", "ask", "connect", "commit"} \cup Transaction
  BY StepsAre
<1>4. t \in {"none", "open", "committed", "unacked", "aborted"}
  BY DEF OInv, Types
<1>5. MayMove(s, h, t)
  BY <1>1, <1>3, <1>4 DEF MayMove
<1>6. Shows(s, h)
  BY <1>1 DEF Shown, Shows
<1>. QED BY <1>2, <1>5, <1>6, AgentStays, HandlerMoves

LEMMA DraftMoves ==
    ASSUME OInv, NEW s \in Requests, NEW drafted \in Drafts, DraftProfile(s, drafted),
           drafted.error => drafted.keywords = <<>>
    PROVE  OInv'
<1>. DEFINE h == [Handler("connect") EXCEPT !.draft = drafted]
            t == tx[s]
<1>1. bff[s].step = "ask"
  BY DEF DraftProfile, At
<1>2. h \in Handlers /\ h.step = "connect" /\ h.age = 0 /\ h.draft = drafted
  <2>1. "connect" \in Steps /\ 0 \in Ticks
    BY StepsAre, TicksAre, OnboardingAssumption
  <2>. QED BY <2>1 DEF Handler, Handlers
<1>3. Moves(s, h, t)
  BY DEF Moves, DraftProfile, OInv, Types, tables
<1>. HIDE DEF h
<1>4. s <= screen.of
  BY <1>1, WasSubmitted
<1>5. tx[s] = "none"
  BY <1>1 DEF OInv, FlowInv, TxFollows, TxOf
<1>6. t \in TxOf("connect") /\ t \in {"none", "open", "committed", "unacked", "aborted"}
  BY <1>5 DEF TxOf
<1>7. "connect" \notin {"none", "ask", "commit"} \cup Transaction /\ "ask" \notin Ends
  BY StepsAre
<1>8. MayMove(s, h, t)
  BY <1>1, <1>2, <1>4, <1>6, <1>7, OnboardingAssumption DEF MayMove
<1>9. Shows(s, h)
  BY DEF Shows, DraftProfile
<1>10. UNCHANGED agent
  BY DEF DraftProfile
<1>. QED BY <1>3, <1>8, <1>9, <1>10, AgentStays, HandlerMoves

LEMMA TxStays ==
    ASSUME OInv, NEW s \in Requests, UNCHANGED tx
    PROVE  /\ tx' = [tx EXCEPT ![s] = tx[s]]
           /\ tx[s] \in {"none", "open", "committed", "unacked", "aborted"}
           /\ tx[s] \in TxOf(bff[s].step)
BY DEF OInv, Types, FlowInv, TxFollows

LEMMA AcceptKeeps ==
    ASSUME OInv, NEW s \in Requests, Accept(s)
    PROVE  OInv'
<1>1. bff[s].step = "none" /\ web[s].call # "none" /\ GoTo(s, "ask") /\ Asked(s)
      /\ UNCHANGED <<typed, screen, web, tx, brands, profiles, stops>>
  BY DEF Accept, At, tables
<1>2. AgentPart' /\ \A r \in Requests \ {s} : agent'[r] = agent[r]
  <2>. DEFINE a == [Idle EXCEPT !.at = "map"]
  <2>1. agent \in [Requests -> AgentStates] /\ AgentInv /\ agent[s] = Idle
    BY <1>1 DEF OInv, Types, FlowInv, AskedOnce
  <2>2. agent' = [agent EXCEPT ![s] = a]
    BY <1>1, <2>1 DEF Asked
  <2>3. a \in AgentStates
    BY IdleIs DEF AgentStates
  <2>4. GoodAgent(a)
    BY DEF GoodAgent, Idle
  <2>. HIDE DEF a
  <2>5. agent' \in [Requests -> AgentStates] /\ AgentInv'
    BY <2>1, <2>2, <2>3, <2>4, AgentChanges
  <2>. QED BY <2>1, <2>2, <2>5 DEF AgentPart
<1>3. s <= screen.of
  BY <1>1, WasSubmitted
<1>. DEFINE t == tx[s]
            step == "ask"
<1>4. /\ tx' = [tx EXCEPT ![s] = t] /\ t = "none"
      /\ t \in {"none", "open", "committed", "unacked", "aborted"}
  BY <1>1, TxStays DEF TxOf
<1>5. /\ step \in Steps /\ step \in {"ask", "connect"} \cup Transaction
      /\ step \notin Transaction /\ step # "commit" /\ GoTo(s, step)
  BY <1>1, StepsAre
<1>6. t \in TxOf(step)
  BY <1>4 DEF TxOf
<1>7. bff[s].step \notin Ends \ {"none"} /\ (Stored(t) <=> Stored(tx[s]))
  BY <1>1
<1>. HIDE DEF t, step
<1>. QED BY <1>1, <1>2, <1>3, <1>4, <1>5, <1>6, <1>7, GoesOn

LEMMA RefuseKeeps ==
    ASSUME OInv, NEW s \in Requests, Refuse(s)
    PROVE  OInv'
<1>1. /\ bff[s].step = "none" /\ web[s].call # "none" /\ EndsAs(s, "refused")
      /\ Shown(s, "error", "answered")
      /\ UNCHANGED <<agent, typed, tx, brands, profiles, stops>>
  BY DEF Refuse, At, tables
<1>2. s <= screen.of
  BY <1>1, WasSubmitted
<1>3. tx[s] \in TxOf("refused")
  BY <1>1 DEF OInv, FlowInv, TxFollows, TxOf
<1>. QED BY <1>1, <1>2, <1>3, GoesOut

LEMMA DraftedKeeps ==
    ASSUME OInv, NEW s \in Requests, Drafted(s) \/ AgentLost(s) \/ AgentTimesOut(s)
    PROVE  OInv'
<1>1. CASE Drafted(s)
  <2>. DEFINE d == [keywords |-> agent[s].keywords, error |-> FALSE]
  <2>1. agent[s].keywords \in Seq(Term)
    BY DEF OInv, Types, AgentStates
  <2>2. d \in Drafts /\ ~ d.error
    BY <2>1 DEF Drafts
  <2>3. DraftProfile(s, d)
    BY <1>1 DEF Drafted
  <2>. HIDE DEF d
  <2>. QED BY <2>2, <2>3, DraftMoves
<1>2. CASE AgentLost(s) \/ AgentTimesOut(s)
  <2>1. NoDraft \in Drafts /\ NoDraft.keywords = <<>>
    <3>1. <<>> \in Seq(Term)
      OBVIOUS
    <3>. QED BY <3>1 DEF NoDraft, Drafts
  <2>2. DraftProfile(s, NoDraft)
    BY <1>2 DEF AgentLost, AgentTimesOut
  <2>. QED BY <2>1, <2>2, DraftMoves
<1>. QED BY <1>1, <1>2

LEMMA FailsKeeps ==
    ASSUME OInv, NEW s \in Requests, ConnectFails(s) \/ ConnectTimesOut(s) \/ Rollback(s)
    PROVE  OInv'
<1>1. /\ bff[s].step \in {"connect", "rollback"} /\ EndsAs(s, "failed")
      /\ Shown(s, "error", "answered")
      /\ UNCHANGED <<agent, typed, tx, brands, profiles, stops>>
  BY DEF ConnectFails, ConnectTimesOut, Rollback, Fails, At, tables
<1>2. s <= screen.of
  BY <1>1, WasSubmitted
<1>3. tx[s] \in TxOf("failed")
  BY <1>1 DEF OInv, FlowInv, TxFollows, TxOf
<1>4. bff[s].step \notin Ends \ {"none"}
  BY <1>1, StepsAre
<1>. QED BY <1>1, <1>2, <1>3, <1>4, GoesOut

LEMMA ConnectKeeps ==
    ASSUME OInv, NEW s \in Requests, Connect(s)
    PROVE  OInv'
<1>1. /\ bff[s].step = "connect" /\ GoTo(s, "begin") /\ Cardinality(InPool) < PoolSize
      /\ UNCHANGED <<agent, typed, screen, web, tx, brands, profiles, stops>>
  BY DEF Connect, At, tables, InPool
<1>2. s <= screen.of
  BY <1>1, WasSubmitted
<1>. DEFINE t == tx[s]
            step == "begin"
<1>3. /\ tx' = [tx EXCEPT ![s] = t] /\ t \in TxOf(step)
      /\ t \in {"none", "open", "committed", "unacked", "aborted"}
  BY <1>1, TxStays DEF TxOf
<1>4. /\ step \in Steps /\ step \in {"ask", "connect"} \cup Transaction /\ step # "commit"
      /\ GoTo(s, step) /\ bff[s].step \notin Ends \ {"none"}
  BY <1>1, StepsAre
<1>5. Stored(t) <=> Stored(tx[s])
  OBVIOUS
<1>6. AgentPart' /\ \A r \in Requests \ {s} : agent'[r] = agent[r]
  BY <1>1, AgentStays
<1>. HIDE DEF t, step
<1>. QED BY <1>1, <1>2, <1>3, <1>4, <1>5, <1>6, GoesOn

LEMMA TransactionKeeps ==
    ASSUME OInv, NEW s \in Requests,
           Begin(s) \/ InsertBrand(s) \/ InsertProfile(s) \/ StatementFails(s)
    PROVE  OInv'
<1>1. /\ bff[s].step \in Transaction
      /\ UNCHANGED <<agent, typed, screen, web, brands, profiles, stops>>
  BY StepsAre DEF Begin, InsertBrand, InsertProfile, StatementFails, At, tables
<1>2. bff[s].step \notin Ends \ {"none"} /\ bff[s].step # "none"
  BY <1>1, StepsAre
<1>3. s <= screen.of
  BY <1>2, WasSubmitted
<1>4. AgentPart' /\ \A r \in Requests \ {s} : agent'[r] = agent[r]
  BY <1>1, AgentStays
<1>5. tx[s] \in TxOf(bff[s].step) /\ tx \in [Requests -> {"none", "open", "committed", "unacked", "aborted"}]
  BY DEF OInv, Types, FlowInv, TxFollows
<1>6. \E step \in {"brand", "profile", "commit", "rollback"},
         t \in {"none", "open", "committed", "unacked", "aborted"} :
         /\ GoTo(s, step) /\ tx' = [tx EXCEPT ![s] = t]
         /\ t \in TxOf(step) /\ (Stored(t) <=> Stored(tx[s]))
         /\ step = "commit" => ~ Stored(tx[s])
  <2>1. CASE Begin(s)
    <3>1. tx[s] = "none" /\ GoTo(s, "brand") /\ tx' = [tx EXCEPT ![s] = "open"]
      BY <1>5, <2>1 DEF Begin, At, TxOf
    <3>2. "open" \in TxOf("brand")
      BY DEF TxOf
    <3>. QED BY <3>1, <3>2 DEF Stored
  <2>2. CASE InsertBrand(s)
    <3>1. tx[s] = "open" /\ GoTo(s, "profile") /\ tx' = [tx EXCEPT ![s] = tx[s]]
      BY <1>5, <2>2 DEF InsertBrand, At, TxOf
    <3>2. "open" \in TxOf("profile")
      BY DEF TxOf
    <3>. QED BY <3>1, <3>2 DEF Stored
  <2>3. CASE InsertProfile(s)
    <3>1. tx[s] = "open" /\ GoTo(s, "commit") /\ tx' = [tx EXCEPT ![s] = tx[s]]
      BY <1>5, <2>3 DEF InsertProfile, At, TxOf
    <3>2. "open" \in TxOf("commit")
      BY DEF TxOf
    <3>. QED BY <3>1, <3>2 DEF Stored
  <2>4. CASE StatementFails(s)
    <3>. DEFINE t == IF tx[s] = "committed" THEN "unacked" ELSE "aborted"
    <3>1. /\ bff[s].step \in {"begin", "brand", "profile", "commit"} /\ GoTo(s, "rollback")
          /\ tx' = [tx EXCEPT ![s] = t]
      BY <2>4, StepsAre DEF StatementFails
    <3>2. tx[s] \in {"none", "open", "committed"}
      BY <1>5, <3>1 DEF TxOf
    <3>3. t \in TxOf("rollback")
      BY DEF TxOf
    <3>4. Stored(t) <=> Stored(tx[s])
      BY <3>2 DEF Stored
    <3>. QED BY <3>1, <3>3, <3>4
  <2>. QED BY <2>1, <2>2, <2>3, <2>4
<1>7. PICK step \in {"brand", "profile", "commit", "rollback"},
           t \in {"none", "open", "committed", "unacked", "aborted"} :
         /\ GoTo(s, step) /\ tx' = [tx EXCEPT ![s] = t]
         /\ t \in TxOf(step) /\ (Stored(t) <=> Stored(tx[s]))
         /\ step = "commit" => ~ Stored(tx[s])
  BY <1>6
<1>8. step \in Steps /\ step \in {"ask", "connect"} \cup Transaction
  BY StepsAre
<1>. QED BY <1>1, <1>2, <1>3, <1>4, <1>7, <1>8, GoesOn

LEMMA CreatedKeeps ==
    ASSUME OInv, NEW s \in Requests, Created(s)
    PROVE  OInv'
<1>. DEFINE what == IF bff[s].draft.error THEN "partial" ELSE "dashboard"
<1>1. /\ bff[s].step = "commit" /\ tx[s] = "committed" /\ EndsAs(s, "created")
      /\ Shown(s, what, "answered")
      /\ UNCHANGED <<agent, typed, tx, brands, profiles, stops>>
  BY DEF Created, At, tables
<1>2. s <= screen.of
  BY <1>1, WasSubmitted
<1>3. tx[s] \in TxOf("created")
  BY <1>1 DEF TxOf
<1>4. bff[s].step \notin Ends \ {"none"}
  BY <1>1, StepsAre
<1>5. what = "partial" => \A p \in profiles : p.brand = s => ~p.drafted
  BY <1>1 DEF OInv, RowsInv, DraftIsTheRows
<1>6. what \in {"error", "dashboard", "partial"} /\ what # "error"
  OBVIOUS
<1>. HIDE DEF what
<1>. QED BY <1>1, <1>2, <1>3, <1>4, <1>5, <1>6, GoesOut

LEMMA CommitKeeps ==
    ASSUME OInv, NEW s \in Requests, Commit(s)
    PROVE  OInv'
<1>. DEFINE p == ProfileToStore(s)
            draft == bff[s].draft
<1>1. /\ bff[s].step = "commit" /\ tx[s] = "open" /\ tx' = [tx EXCEPT ![s] = "committed"]
      /\ brands' = brands \cup {s} /\ profiles' = profiles \cup {p}
      /\ UNCHANGED <<agent, typed, screen, web, bff, stops>>
  BY DEF Commit, At
<1>2. /\ draft \in Drafts /\ typed[s] \in Seq(Term)
      /\ draft.error => draft.keywords = <<>>
  BY DEF OInv, Types, Handlers, RowsInv, DraftsAreWhole
<1>3. draft.keywords \in Seq(Term) /\ draft.error \in BOOLEAN
  BY <1>2 DEF Drafts
<1>4. /\ p.brand = s /\ p.keywords = MergeTerms(typed[s], draft.keywords)
      /\ p.drafted = ~draft.error
      /\ p \in Profiles
  <2>1. MergeTerms(typed[s], draft.keywords) \in Seq(Term)
    BY <1>2, <1>3, MergeIsTerms
  <2>. DEFINE drafted == ~draft.error
              keywords == MergeTerms(typed[s], draft.keywords)
  <2>2. p = [brand |-> s, keywords |-> keywords, drafted |-> drafted]
    BY DEF ProfileToStore
  <2>3. drafted \in BOOLEAN
    BY <1>3
  <2>. HIDE DEF drafted, keywords, p
  <2>4. p.brand = s /\ p.keywords = keywords /\ p.drafted = drafted
    BY <2>2
  <2>5. p \in Profiles
    BY <2>1, <2>2, <2>3 DEF Profiles, keywords
  <2>. QED BY <2>4, <2>5 DEF keywords, drafted
<1>. HIDE DEF p
<1>5. /\ tx' \in [Requests -> {"none", "open", "committed", "unacked", "aborted"}]
      /\ tx'[s] = "committed" /\ \A r \in Requests \ {s} : tx'[r] = tx[r]
  BY <1>1 DEF OInv, Types
<1>6. s <= screen.of /\ screen.of \in Nat /\ s \in Nat
  BY <1>1, WasSubmitted, RequestsAre DEF OInv, Types, Screens
<1>7. Types'
  BY <1>1, <1>4, <1>5 DEF OInv, Types
<1>8. AgentInv' /\ AskedOnce' /\ AgesAreBounded' /\ OneIsWaiting' /\ PoolHolds' /\ ScreenFollows'
  BY <1>1 DEF OInv, AgentInv, FlowInv, AskedOnce, AgesAreBounded, OneIsWaiting, PoolHolds,
              ScreenFollows
<1>9. Unsubmitted'
  <2>. DEFINE of == screen.of
  <2>1. \A r \in Requests : r > of => r # s
    <3>. HIDE DEF of
    <3>. QED BY <1>6 DEF of
  <2>. QED BY <1>1, <1>5, <2>1 DEF OInv, FlowInv, Unsubmitted
<1>10. TxFollows'
  <2>1. "committed" \in TxOf("commit")
    BY DEF TxOf
  <2>. QED BY <1>1, <1>5, <2>1 DEF OInv, FlowInv, TxFollows
<1>11. s \notin brands /\ \A q \in profiles : q.brand \in brands
  BY <1>1 DEF OInv, RowsInv, RowsAreCommitted
<1>12. RowsAreCommitted'
  <2>1. brands' = {r \in Requests : tx'[r] \in {"committed", "unacked"}}
    BY <1>1, <1>5 DEF OInv, RowsInv, RowsAreCommitted
  <2>2. brands' = {q.brand : q \in profiles'}
    BY <1>1, <1>4 DEF OInv, RowsInv, RowsAreCommitted
  <2>3. \A q, q2 \in profiles' : q.brand = q2.brand => q = q2
    BY <1>1, <1>4, <1>11 DEF OInv, RowsInv, RowsAreCommitted
  <2>. QED BY <2>1, <2>2, <2>3 DEF RowsAreCommitted
<1>13. DraftsAreWhole'
  BY <1>1 DEF OInv, RowsInv, DraftsAreWhole
<1>14. ProfilesAreMerged'
  <2>. DEFINE Merged(q) == \E words \in Seq(Term) :
                  /\ q.keywords = MergeTerms(typed[q.brand], words)
                  /\ ~q.drafted => words = <<>>
  <2>1. Merged(p)
    BY <1>2, <1>3, <1>4
  <2>2. \A q \in profiles : Merged(q)
    BY DEF OInv, RowsInv, ProfilesAreMerged
  <2>3. \A q \in profiles' : Merged(q)
    <3>. HIDE DEF Merged
    <3>. QED BY <1>1, <2>1, <2>2
  <2>. QED BY <1>1, <2>3 DEF ProfilesAreMerged
<1>15. DraftIsTheRows'
  BY <1>1, <1>4, <1>11 DEF OInv, RowsInv, DraftIsTheRows
<1>16. PartialIsUndrafted'
  <2>1. screen.shows = "partial" => screen.of # s
    BY <1>1 DEF OInv, FlowInv, ScreenFollows
  <2>. QED BY <1>1, <1>4, <2>1 DEF OInv, RowsInv, PartialIsUndrafted
<1>. QED BY <1>7, <1>8, <1>9, <1>10, <1>12, <1>13, <1>14, <1>15, <1>16 DEF OInv, FlowInv, RowsInv

LEMMA SubmitKeeps ==
    ASSUME OInv, NEW s \in Requests, Submit(s)
    PROVE  OInv'
<1>1. /\ screen.shows \in {"form", "error", "partial"} /\ s = screen.of + 1
      /\ screen' = [shows |-> "saving", of |-> s]
      /\ web' = [web EXCEPT ![s] = [call |-> "waiting", age |-> 0]]
      /\ UNCHANGED <<agent, bff, tx, brands, profiles, stops>>
  BY DEF Submit
<1>2. PICK words \in TypedLists : typed' = [typed EXCEPT ![s] = TermList(words)]
  BY DEF Submit
<1>3. TermList(words) \in Seq(Term)
  BY OnboardingAssumption, TermsStayTerms
<1>4. /\ typed' \in [Requests -> Seq(Term)]
      /\ \A r \in Requests \ {s} : typed'[r] = typed[r]
  BY <1>2, <1>3 DEF OInv, Types
<1>5. /\ web' \in [Requests -> Calls] /\ web'[s].call = "waiting"
      /\ \A r \in Requests \ {s} : web'[r] = web[r]
  <2>1. [call |-> "waiting", age |-> 0] \in Calls
    BY OnboardingAssumption DEF Calls
  <2>. QED BY <1>1, <2>1 DEF OInv, Types
<1>6. screen'.shows = "saving" /\ screen'.of = s /\ screen' \in Screens
  BY <1>1 DEF Screens
<1>. DEFINE of == screen.of
<1>7. of \in Nat /\ s \in Nat /\ s = of + 1
  BY <1>1, RequestsAre DEF OInv, Types, Screens
<1>8. s > of /\ \A r \in Requests : r > s => r > of /\ r # s
  <2>1. \A r \in Requests : r \in Nat
    BY RequestsAre
  <2>. HIDE DEF of
  <2>. QED BY <1>7, <2>1
<1>9. web[s].call = "none" /\ bff[s].step = "none" /\ tx[s] = "none"
  BY <1>8 DEF OInv, FlowInv, Unsubmitted
<1>10. Types'
  BY <1>1, <1>4, <1>5, <1>6 DEF OInv, Types
<1>11. AgentInv' /\ AskedOnce' /\ AgesAreBounded' /\ TxFollows' /\ PoolHolds'
  BY <1>1 DEF OInv, AgentInv, FlowInv, AskedOnce, AgesAreBounded, TxFollows, PoolHolds
<1>12. Unsubmitted'
  BY <1>1, <1>5, <1>6, <1>8 DEF OInv, FlowInv, Unsubmitted
<1>13. OneIsWaiting'
  <2>1. \A r \in Requests : web[r].call # "waiting"
    BY <1>1 DEF OInv, FlowInv, OneIsWaiting
  <2>. QED BY <1>5, <1>6, <2>1 DEF OneIsWaiting
<1>14. ScreenFollows' /\ PartialIsUndrafted'
  BY <1>6 DEF ScreenFollows, PartialIsUndrafted
<1>15. RowsAreCommitted' /\ DraftsAreWhole' /\ DraftIsTheRows'
  BY <1>1 DEF OInv, RowsInv, RowsAreCommitted, DraftsAreWhole, DraftIsTheRows
<1>16. ProfilesAreMerged'
  <2>1. s \notin brands
    BY <1>9 DEF OInv, RowsInv, RowsAreCommitted
  <2>2. \A p \in profiles : p.brand \in Requests /\ p.brand # s
    BY <2>1 DEF OInv, Types, Profiles, RowsInv, RowsAreCommitted
  <2>3. \A p \in profiles : typed'[p.brand] = typed[p.brand]
    BY <1>4, <2>2
  <2>. QED BY <1>1, <2>3 DEF OInv, RowsInv, ProfilesAreMerged
<1>. QED BY <1>10, <1>11, <1>12, <1>13, <1>14, <1>15, <1>16 DEF OInv, FlowInv, RowsInv

(* Both ways in which the form hears of a failure that is not the           *)
(* handler's: the route's timer and a lost connection.                      *)
WebLeaves(s, how) ==
    /\ web[s].call = "waiting"
    /\ web' = [web EXCEPT ![s] = [call |-> how, age |-> 0]]
    /\ screen' = [screen EXCEPT !.shows = "error"]
    /\ UNCHANGED <<agent, typed, bff, tx, brands, profiles, stops>>

LEMMA WebLeft ==
    ASSUME NEW s \in Requests, WebGivesUp(s) \/ WebLosesBff(s)
    PROVE  \E how \in {"gave_up", "lost"} : WebLeaves(s, how)
BY DEF WebGivesUp, WebLosesBff, Shown, WebLeaves, bffVars, tables

LEMMA WebLeavesKeeps ==
    ASSUME OInv, NEW s \in Requests, NEW how \in {"gave_up", "lost"}, WebLeaves(s, how)
    PROVE  OInv'
<1>1. /\ web[s].call = "waiting"
      /\ web' = [web EXCEPT ![s] = [call |-> how, age |-> 0]]
      /\ screen' = [screen EXCEPT !.shows = "error"]
      /\ UNCHANGED <<agent, typed, bff, tx, brands, profiles, stops>>
  BY DEF WebLeaves
<1>2. s = screen.of /\ s <= screen.of
  <2>1. s = screen.of
    BY <1>1 DEF OInv, FlowInv, OneIsWaiting
  <2>2. s <= screen.of
    BY <1>1, WasSubmitted
  <2>. QED BY <2>1, <2>2
<1>3. /\ web' \in [Requests -> Calls] /\ web'[s].call \in {"gave_up", "lost"}
      /\ \A r \in Requests \ {s} : web'[r] = web[r]
  <2>1. [call |-> how, age |-> 0] \in Calls
    BY OnboardingAssumption DEF Calls
  <2>. QED BY <1>1, <2>1 DEF OInv, Types
<1>4. screen'.shows = "error" /\ screen'.of = screen.of /\ screen' \in Screens
  BY <1>1 DEF OInv, Types, Screens
<1>5. Types'
  BY <1>1, <1>3, <1>4 DEF OInv, Types
<1>6. AgentInv' /\ AskedOnce' /\ AgesAreBounded' /\ TxFollows' /\ PoolHolds'
  BY <1>1 DEF OInv, AgentInv, FlowInv, AskedOnce, AgesAreBounded, TxFollows, PoolHolds
<1>7. Unsubmitted'
  <2>1. \A r \in Requests : r > screen.of => r # s
    <3>. DEFINE of == screen.of
    <3>1. of \in Nat /\ s = of
      BY <1>2, RequestsAre DEF OInv, Types, Screens
    <3>. HIDE DEF of
    <3>2. \A r \in Requests : r > of => r # s
      BY <3>1
    <3>. QED BY <3>2 DEF of
  <2>. QED BY <1>1, <1>3, <1>4, <2>1 DEF OInv, FlowInv, Unsubmitted
<1>8. OneIsWaiting'
  BY <1>2, <1>3 DEF OInv, FlowInv, OneIsWaiting
<1>9. ScreenFollows'
  BY <1>2, <1>3, <1>4 DEF ScreenFollows
<1>10. RowsInv'
  BY <1>1, <1>4 DEF OInv, RowsInv, RowsAreCommitted, DraftsAreWhole, ProfilesAreMerged,
                    DraftIsTheRows, PartialIsUndrafted
<1>. QED BY <1>5, <1>6, <1>7, <1>8, <1>9, <1>10 DEF OInv, FlowInv

LEMMA AgentKeeps ==
    ASSUME OInv, NEW s \in Requests, Agent(s)
    PROVE  OInv'
<1>1. /\ AgentStep(s)
      /\ UNCHANGED <<typed, screen, web, bff, tx, brands, profiles, stops>>
  BY DEF Agent, bffVars, tables
<1>2. agent' \in [Requests -> AgentStates] /\ AgentInv'
  BY <1>1, AgentSteps DEF OInv, Types
<1>3. agent[s].at # "idle" /\ \A r \in Requests \ {s} : agent'[r] = agent[r]
  BY <1>1 DEF AgentStep, HandleFails, MapAnswers, ScrapePage, ModelAnswers, OInv, Types
<1>4. AskedOnce'
  BY <1>1, <1>3 DEF OInv, FlowInv, AskedOnce, Idle
<1>5. Types'
  BY <1>1, <1>2 DEF OInv, Types
<1>6. AgesAreBounded' /\ Unsubmitted' /\ OneIsWaiting' /\ TxFollows' /\ PoolHolds' /\ ScreenFollows'
  BY <1>1 DEF OInv, FlowInv, AgesAreBounded, Unsubmitted, OneIsWaiting, TxFollows, PoolHolds,
              ScreenFollows
<1>7. RowsInv'
  BY <1>1 DEF OInv, RowsInv, RowsAreCommitted, DraftsAreWhole, ProfilesAreMerged,
              DraftIsTheRows, PartialIsUndrafted
<1>. QED BY <1>2, <1>4, <1>5, <1>6, <1>7 DEF OInv, FlowInv

LEMMA StopKeeps ==
    ASSUME OInv, Stop
    PROVE  OInv'
<1>. DEFINE hit == {s \in Requests : bff[s].step \notin Ends}
            left(t) == CASE t = "committed" -> "unacked"
                         [] t = "open" -> "aborted"
                         [] OTHER -> t
            cut == [call |-> "answered", age |-> 0]
            unheard == \E s \in hit : web[s].call = "waiting"
<1>1. /\ stops < MaxStops /\ stops' = stops + 1
      /\ bff' = [s \in Requests |-> IF s \in hit THEN Handler("stopped") ELSE bff[s]]
      /\ tx' = [s \in Requests |-> IF s \notin hit THEN tx[s] ELSE left(tx[s])]
      /\ web' = [s \in Requests |-> IF s \in hit /\ web[s].call = "waiting" THEN cut ELSE web[s]]
      /\ screen' = IF unheard THEN [screen EXCEPT !.shows = "error"] ELSE screen
      /\ UNCHANGED <<agent, typed, brands, profiles>>
  BY DEF Stop, tables
<1>2. /\ Handler("stopped") \in Handlers /\ Handler("stopped").step = "stopped"
      /\ Handler("stopped").draft.keywords = <<>>
  BY StepsAre, HandlerIs
<1>3. /\ bff' \in [Requests -> Handlers]
      /\ \A s \in hit : bff'[s] = Handler("stopped")
      /\ \A s \in Requests \ hit : bff'[s] = bff[s]
  BY <1>1, <1>2 DEF OInv, Types
<1>4. /\ tx' \in [Requests -> {"none", "open", "committed", "unacked", "aborted"}]
      /\ \A s \in hit : tx'[s] = left(tx[s])
      /\ \A s \in Requests \ hit : tx'[s] = tx[s]
  <2>1. \A s \in Requests : left(tx[s]) \in {"none", "open", "committed", "unacked", "aborted"}
    BY DEF OInv, Types
  <2>. HIDE DEF left
  <2>. QED BY <1>1, <2>1 DEF OInv, Types
<1>5. /\ web' \in [Requests -> Calls]
      /\ \A s \in Requests : web'[s] = web[s] \/ (web'[s] = cut /\ web[s].call = "waiting")
      /\ \A s \in hit : web'[s].call # "waiting"
      /\ \A s \in Requests \ hit : web'[s] = web[s]
  <2>1. cut \in Calls
    BY OnboardingAssumption DEF Calls
  <2>. QED BY <1>1, <2>1 DEF OInv, Types
<1>6. \A s \in hit : s \in Requests /\ bff[s].step \notin Ends
  OBVIOUS
<1>7. \A s \in Requests : s \notin hit => bff[s].step \in Ends
  OBVIOUS
<1>. HIDE DEF hit, cut
<1>8. /\ screen' \in Screens /\ screen'.of = screen.of
      /\ unheard => screen'.shows = "error" /\ screen.of \in hit
      /\ ~unheard => screen' = screen
  <2>1. unheard => screen.of \in hit
    BY <1>6 DEF OInv, FlowInv, OneIsWaiting
  <2>2. screen \in Screens
    BY DEF OInv, Types
  <2>. HIDE DEF unheard
  <2>. QED BY <1>1, <2>1, <2>2 DEF Screens
<1>9. Types'
  <2>1. stops' \in 0..MaxStops
    BY <1>1, OnboardingAssumption DEF OInv, Types
  <2>. QED BY <1>1, <1>3, <1>4, <1>5, <1>8, <2>1 DEF OInv, Types
<1>10. AgentInv'
  BY <1>1 DEF OInv, AgentInv
<1>11. AskedOnce'
  BY <1>1, <1>2, <1>3 DEF OInv, FlowInv, AskedOnce
<1>12. AgesAreBounded'
  <2>1. "stopped" \notin {"ask", "connect"} \cup Transaction
    BY StepsAre
  <2>. QED BY <1>2, <1>3, <2>1 DEF OInv, FlowInv, AgesAreBounded
<1>13. Unsubmitted'
  <2>1. \A s \in Requests : s > screen.of => s \notin hit
    BY <1>6, StepsAre DEF OInv, FlowInv, Unsubmitted
  <2>. QED BY <1>3, <1>4, <1>5, <1>8, <2>1 DEF OInv, FlowInv, Unsubmitted
<1>14. OneIsWaiting'
  <2>. SUFFICES ASSUME NEW s \in Requests, web'[s].call = "waiting"
                PROVE  s = screen'.of /\ screen'.shows = "saving"
    BY DEF OneIsWaiting
  <2>1. s \notin hit /\ web[s].call = "waiting"
    BY <1>5
  <2>2. s = screen.of /\ screen.shows = "saving"
    BY <2>1 DEF OInv, FlowInv, OneIsWaiting
  <2>. HIDE DEF unheard
  <2>. QED BY <1>8, <2>1, <2>2
<1>15. TxFollows'
  <2>. SUFFICES ASSUME NEW s \in Requests PROVE tx'[s] \in TxOf(bff'[s].step)
    BY DEF TxFollows
  <2>1. tx[s] \in TxOf(bff[s].step) /\ tx[s] \in {"none", "open", "committed", "unacked", "aborted"}
    BY DEF OInv, Types, FlowInv, TxFollows
  <2>2. CASE s \in hit
    <3>1. left(tx[s]) \in {"none", "unacked", "aborted"}
      BY <2>1
    <3>2. left(tx[s]) \in TxOf("stopped")
      <4>. HIDE DEF left
      <4>. QED BY <3>1 DEF TxOf
    <3>. QED BY <1>2, <1>3, <1>4, <2>2, <3>2
  <2>3. CASE s \notin hit
    BY <1>3, <1>4, <2>1, <2>3
  <2>. QED BY <2>2, <2>3
<1>16. PoolHolds'
  <2>1. InPool' \subseteq InPool
    <3>1. "stopped" \notin Transaction
      BY StepsAre
    <3>. QED BY <1>2, <1>3, <3>1 DEF InPool
  <2>2. IsFiniteSet(InPool)
    <3>1. InPool \subseteq Requests
      BY DEF InPool
    <3>. QED BY <3>1, RequestsAre, FS_Subset
  <2>3. Cardinality(InPool') <= Cardinality(InPool) /\ IsFiniteSet(InPool')
    BY <2>1, <2>2, FS_Subset
  <2>4. Cardinality(InPool) <= PoolSize
    BY DEF OInv, FlowInv, PoolHolds, InPool
  <2>5. Cardinality(InPool) \in Nat /\ Cardinality(InPool') \in Nat /\ PoolSize \in Nat
    BY <2>2, <2>3, FS_CardinalityType, OnboardingAssumption
  <2>6. Cardinality(InPool') <= PoolSize
    BY <2>3, <2>4, <2>5
  <2>. QED BY <2>6 DEF PoolHolds, InPool
<1>17. ScreenFollows'
  <2>1. CASE unheard
    <3>1. screen.of \in hit /\ screen.of \in Requests
      BY <1>6, <1>8, <2>1
    <3>2. bff'[screen.of].step = "stopped"
      BY <1>2, <1>3, <3>1
    <3>3. screen'.shows = "error"
      BY <1>8, <2>1
    <3>. QED BY <1>8, <3>1, <3>2, <3>3 DEF ScreenFollows
  <2>2. CASE ~unheard
    <3>1. screen' = screen
      BY <1>8, <2>2
    <3>2. ASSUME screen.of \in Requests, web[screen.of].call \in {"gave_up", "lost"}
          PROVE  web'[screen.of].call \in {"gave_up", "lost"}
      BY <1>5, <3>2
    <3>3. ASSUME screen.of \in Requests, bff[screen.of].step \in Ends
          PROVE  bff'[screen.of].step = bff[screen.of].step
      BY <1>3, <1>6, <3>3
    <3>. QED BY <3>1, <3>2, <3>3, StepsAre DEF OInv, FlowInv, ScreenFollows
  <2>. QED BY <2>1, <2>2
<1>18. RowsAreCommitted'
  <2>1. \A s \in Requests : tx'[s] \in {"committed", "unacked"} <=> tx[s] \in {"committed", "unacked"}
    <3>. TAKE s \in Requests
    <3>1. left(tx[s]) \in {"committed", "unacked"} <=> tx[s] \in {"committed", "unacked"}
      BY DEF OInv, Types
    <3>. HIDE DEF left
    <3>. QED BY <1>4, <3>1
  <2>. QED BY <1>1, <2>1 DEF OInv, RowsInv, RowsAreCommitted
<1>19. DraftsAreWhole'
  BY <1>2, <1>3 DEF OInv, RowsInv, DraftsAreWhole
<1>20. ProfilesAreMerged'
  BY <1>1 DEF OInv, RowsInv, ProfilesAreMerged
<1>21. DraftIsTheRows'
  <2>1. \A p \in profiles : p.brand \in Requests
    BY DEF OInv, Types, Profiles
  <2>. QED BY <1>1, <1>2, <1>3, <2>1 DEF OInv, RowsInv, DraftIsTheRows
<1>22. PartialIsUndrafted'
  <2>. HIDE DEF unheard
  <2>. QED BY <1>1, <1>8 DEF OInv, RowsInv, PartialIsUndrafted
<1>. QED
  BY <1>9, <1>10, <1>11, <1>12, <1>13, <1>14, <1>15, <1>16, <1>17, <1>18, <1>19, <1>20,
     <1>21, <1>22 DEF OInv, FlowInv, RowsInv

-----------------------------------------------------------------------------
(* The clock.                                                               *)

LEMMA TickKeeps ==
    ASSUME OInv, Tick
    PROVE  OInv'
<1>. DEFINE webAge(s) == IF web[s].call = "waiting" THEN web[s].age + 1 ELSE web[s].age
            bffAge(s) == CASE bff[s].step \in {"ask", "connect"} -> bff[s].age + 1
                           [] bff[s].step \in Transaction -> Min({bff[s].age + 1, DatabaseTicks})
                           [] OTHER -> bff[s].age
<1>1. /\ \A timer \in Timers : timer[1] < timer[2]
      /\ web' = [s \in Requests |-> [web[s] EXCEPT !.age = webAge(s)]]
      /\ bff' = [s \in Requests |-> [bff[s] EXCEPT !.age = bffAge(s)]]
      /\ UNCHANGED <<agent, typed, screen, tx, brands, profiles, stops>>
  BY DEF Tick, tables
<1>2. ASSUME NEW s \in Requests
      PROVE  /\ web[s].call = "waiting" => web[s].age < WebTicks
             /\ bff[s].step = "ask" => bff[s].age < AgentTicks
             /\ bff[s].step = "connect" => bff[s].age < DatabaseTicks
  <2>1. ASSUME web[s].call = "waiting" PROVE web[s].age < WebTicks
    <3>1. <<web[s].age, WebTicks>> \in Timers
      BY <2>1 DEF Timers
    <3>. QED BY <1>1, <3>1
  <2>2. ASSUME bff[s].step = "ask" PROVE bff[s].age < AgentTicks
    <3>1. <<bff[s].age, AgentTicks>> \in Timers
      BY <2>2 DEF Timers, At
    <3>. QED BY <1>1, <3>1
  <2>3. ASSUME bff[s].step = "connect" PROVE bff[s].age < DatabaseTicks
    <3>1. <<bff[s].age, DatabaseTicks>> \in Timers
      BY <2>3 DEF Timers, At
    <3>. QED BY <1>1, <3>1
  <2>. QED BY <2>1, <2>2, <2>3
<1>3. \A s \in Requests : web[s] \in Calls /\ bff[s] \in Handlers
  BY DEF OInv, Types
<1>4. ASSUME NEW s \in Requests
      PROVE  webAge(s) \in 0..WebTicks
  <2>1. web[s].age \in 0..WebTicks /\ WebTicks \in Nat
    BY <1>3, OnboardingAssumption DEF Calls
  <2>. QED BY <1>2, <2>1
<1>5. ASSUME NEW s \in Requests
      PROVE  /\ bffAge(s) \in Ticks
             /\ bff[s].step = "ask" => bffAge(s) <= AgentTicks
             /\ bff[s].step \in {"connect"} \cup Transaction => bffAge(s) <= DatabaseTicks
  <2>. DEFINE age == bff[s].age
              d == DatabaseTicks
  <2>1. AgentTicks \in Nat /\ d \in Nat
    BY OnboardingAssumption
  <2>2. age \in Ticks /\ age \in Nat
    <3>1. age \in Ticks
      BY <1>3 DEF Handlers
    <3>2. \A n \in Ticks : n \in Nat
      <4>. DEFINE m == Max({AgentTicks, DatabaseTicks})
      <4>1. Ticks = 0..m
        BY DEF Ticks
      <4>. HIDE DEF m
      <4>. QED BY <4>1
    <3>. QED BY <3>1, <3>2
  <2>3. CASE bff[s].step = "ask"
    <3>0. bff[s].step \notin Transaction
      BY <2>3, StepsAre
    <3>1. bffAge(s) = age + 1 /\ age < AgentTicks
      BY <1>2, <2>3, <3>0
    <3>2. age + 1 \in Nat /\ age + 1 <= AgentTicks
      BY <2>1, <2>2, <3>1
    <3>3. bff[s].step \notin {"connect"} \cup Transaction
      BY <2>3, StepsAre
    <3>. HIDE DEF bffAge, age
    <3>. QED BY <3>1, <3>2, <3>3, TicksAre
  <2>4. CASE bff[s].step = "connect"
    <3>0. bff[s].step \notin Transaction
      BY <2>4, StepsAre
    <3>1. bffAge(s) = age + 1 /\ age < d
      BY <1>2, <2>4, <3>0
    <3>2. age + 1 \in Nat /\ age + 1 <= d
      BY <2>1, <2>2, <3>1
    <3>. HIDE DEF bffAge, age
    <3>. QED BY <2>4, <3>1, <3>2, TicksAre
  <2>5. CASE bff[s].step \in Transaction
    <3>. DEFINE n == age + 1
    <3>1. bff[s].step \notin {"ask", "connect"}
      BY <2>5, StepsAre
    <3>2. bffAge(s) = Min({n, d})
      BY <2>5, <3>1
    <3>3. n \in Int /\ n >= 0
      BY <2>2
    <3>. HIDE DEF bffAge, n, d
    <3>4. Min({n, d}) \in {n, d} /\ Min({n, d}) <= d
      BY <2>1, <3>3, LesserOfTwo
    <3>5. bffAge(s) \in Nat /\ bffAge(s) <= d
      BY <2>1, <3>2, <3>3, <3>4
    <3>. QED BY <3>1, <3>5, TicksAre DEF d
  <2>6. CASE bff[s].step \notin {"ask", "connect"} \cup Transaction
    <3>1. bffAge(s) = age
      BY <2>6
    <3>. HIDE DEF bffAge, age
    <3>. QED BY <2>2, <2>6, <3>1
  <2>. QED BY <2>3, <2>4, <2>5, <2>6
<1>. HIDE DEF webAge, bffAge
<1>6. /\ web' \in [Requests -> Calls]
      /\ \A s \in Requests : web'[s].call = web[s].call
  BY <1>1, <1>3, <1>4 DEF Calls
<1>7. /\ bff' \in [Requests -> Handlers]
      /\ \A s \in Requests : /\ bff'[s].step = bff[s].step
                             /\ bff'[s].draft = bff[s].draft
                             /\ bff'[s].age = bffAge(s)
  BY <1>1, <1>3, <1>5 DEF Handlers
<1>8. Types'
  BY <1>1, <1>6, <1>7 DEF OInv, Types
<1>9. AgentInv' /\ AskedOnce'
  BY <1>1, <1>7 DEF OInv, AgentInv, FlowInv, AskedOnce
<1>10. AgesAreBounded'
  BY <1>5, <1>7 DEF AgesAreBounded
<1>11. Unsubmitted' /\ OneIsWaiting' /\ TxFollows'
  BY <1>1, <1>6, <1>7 DEF OInv, FlowInv, Unsubmitted, OneIsWaiting, TxFollows
<1>12. PoolHolds'
  <2>1. InPool' = InPool
    BY <1>7 DEF InPool
  <2>. QED BY <2>1 DEF OInv, FlowInv, PoolHolds, InPool
<1>13. ScreenFollows'
  BY <1>1, <1>6, <1>7 DEF OInv, FlowInv, ScreenFollows
<1>14. RowsInv'
  <2>1. \A p \in profiles : p.brand \in Requests
    BY DEF OInv, Types, Profiles
  <2>. QED BY <1>1, <1>7, <2>1 DEF OInv, RowsInv, RowsAreCommitted, DraftsAreWhole,
                                  ProfilesAreMerged, DraftIsTheRows, PartialIsUndrafted
<1>. QED BY <1>8, <1>9, <1>10, <1>11, <1>12, <1>13, <1>14 DEF OInv, FlowInv

-----------------------------------------------------------------------------
(* The invariant.                                                           *)

LEMMA InitOInv == Init => OInv
<1>. SUFFICES ASSUME Init PROVE OInv
  OBVIOUS
<1>1. /\ agent = [r \in Requests |-> Idle]
      /\ typed = [s \in Requests |-> <<>>]
      /\ screen = [shows |-> "form", of |-> 0]
      /\ web = [s \in Requests |-> [call |-> "none", age |-> 0]]
      /\ bff = [s \in Requests |-> Handler("none")]
      /\ tx = [s \in Requests |-> "none"]
      /\ brands = {} /\ profiles = {} /\ stops = 0
  BY DEF Init, OnboarderInit
<1>2. /\ Handler("none") \in Handlers /\ Handler("none").step = "none"
      /\ Handler("none").draft.keywords = <<>>
  BY StepsAre, HandlerIs
<1>3. Types
  <2>1. [call |-> "none", age |-> 0] \in Calls
    BY OnboardingAssumption DEF Calls
  <2>2. screen \in Screens
    BY <1>1 DEF Screens
  <2>3. <<>> \in Seq(Term) /\ 0 \in 0..MaxStops
    BY OnboardingAssumption
  <2>. QED BY <1>1, <1>2, <2>1, <2>2, <2>3, IdleIs DEF Types
<1>4. AgentInv
  BY <1>1, IdleIs DEF AgentInv
<1>5. AskedOnce /\ AgesAreBounded /\ Unsubmitted /\ OneIsWaiting
  <2>1. "none" \notin {"ask", "connect"} \cup Transaction
    BY StepsAre
  <2>. QED BY <1>1, <1>2, <2>1 DEF AskedOnce, AgesAreBounded, Unsubmitted, OneIsWaiting
<1>6. TxFollows
  BY <1>1, <1>2 DEF TxFollows, TxOf
<1>7. PoolHolds
  <2>1. {s \in Requests : bff[s].step \in Transaction} = {}
    BY <1>1, <1>2, StepsAre
  <2>2. Cardinality({s \in Requests : bff[s].step \in Transaction}) = 0
    BY <2>1, FS_EmptySet
  <2>3. 0 <= PoolSize
    BY OnboardingAssumption
  <2>. QED BY <2>2, <2>3 DEF PoolHolds
<1>8. ScreenFollows
  BY <1>1 DEF ScreenFollows
<1>9. RowsInv
  BY <1>1, <1>2 DEF RowsInv, RowsAreCommitted, DraftsAreWhole, ProfilesAreMerged,
                    DraftIsTheRows, PartialIsUndrafted
<1>. QED BY <1>3, <1>4, <1>5, <1>6, <1>7, <1>8, <1>9 DEF OInv, FlowInv

LEMMA StutterKeeps ==
    ASSUME OInv, UNCHANGED vars
    PROVE  OInv'
BY DEF vars, OInv, Types, AgentInv, FlowInv, AskedOnce, AgesAreBounded, Unsubmitted,
       OneIsWaiting, TxFollows, PoolHolds, ScreenFollows, RowsInv, RowsAreCommitted,
       DraftsAreWhole, ProfilesAreMerged, DraftIsTheRows, PartialIsUndrafted

LEMMA NextKeeps ==
    ASSUME OInv, [Next]_vars
    PROVE  OInv'
<1>1. CASE Stop
  BY <1>1, StopKeeps
<1>2. CASE Tick
  BY <1>2, TickKeeps
<1>3. CASE UNCHANGED vars
  BY <1>3, StutterKeeps
<1>4. ASSUME NEW s \in Requests,
             \/ Submit(s) \/ WebLosesBff(s) \/ Accept(s) \/ Refuse(s)
             \/ Drafted(s) \/ AgentLost(s)
             \/ Connect(s) \/ ConnectFails(s)
             \/ Begin(s) \/ InsertBrand(s) \/ InsertProfile(s)
             \/ Commit(s) \/ Created(s) \/ StatementFails(s) \/ Rollback(s)
             \/ TimesOut(s)
             \/ Agent(s)
      PROVE  OInv'
  <2>1. CASE Submit(s)
    BY <2>1, SubmitKeeps
  <2>2. CASE Accept(s)
    BY <2>2, AcceptKeeps
  <2>3. CASE Refuse(s)
    BY <2>3, RefuseKeeps
  <2>4. CASE Drafted(s) \/ AgentLost(s) \/ AgentTimesOut(s)
    BY <2>4, DraftedKeeps
  <2>5. CASE Connect(s)
    BY <2>5, ConnectKeeps
  <2>6. CASE ConnectFails(s) \/ ConnectTimesOut(s) \/ Rollback(s)
    BY <2>6, FailsKeeps
  <2>7. CASE Begin(s) \/ InsertBrand(s) \/ InsertProfile(s) \/ StatementFails(s)
    BY <2>7, TransactionKeeps
  <2>8. CASE Commit(s)
    BY <2>8, CommitKeeps
  <2>9. CASE Created(s)
    BY <2>9, CreatedKeeps
  <2>10. CASE WebGivesUp(s) \/ WebLosesBff(s)
    <3>1. PICK how \in {"gave_up", "lost"} : WebLeaves(s, how)
      BY <2>10, WebLeft
    <3>. QED BY <3>1, WebLeavesKeeps
  <2>11. CASE Agent(s)
    BY <2>11, AgentKeeps
  <2>. QED BY <1>4, <2>1, <2>2, <2>3, <2>4, <2>5, <2>6, <2>7, <2>8, <2>9, <2>10, <2>11 DEF TimesOut
<1>. QED BY <1>1, <1>2, <1>3, <1>4 DEF Next, Step

(* Every reachable state is one of the invariant's.                         *)
THEOREM Invariance == Spec => []OInv
<1>1. OInv /\ [Next]_vars => OInv'
  BY NextKeeps
<1>. QED BY InitOInv, <1>1, PTL DEF Spec

(* Every variable keeps to its type, every timer to its end, the pool to    *)
(* its size and the handler that waits for a connection has begun nothing   *)
(* (registry.ts, a2a.ts, onboarder.go).                                     *)
THEOREM TypeCorrect == Spec => []TypeOK
<1>1. OInv => TypeOK
  <2>. SUFFICES ASSUME OInv PROVE TypeOK
    OBVIOUS
  <2>1. AgentTypeOK
    BY DEF OInv, Types, AgentStates, AgentInv, GoodAgent, AgentTypeOK
  <2>2. ASSUME NEW s \in Requests
        PROVE  /\ web[s].call \in {"none", "waiting", "answered", "gave_up", "lost"}
               /\ web[s].age \in 0..WebTicks
               /\ bff[s].step \in Steps
               /\ bff[s].age \in 0..Max({AgentTicks, DatabaseTicks})
               /\ tx[s] \in {"none", "open", "committed", "unacked", "aborted"}
               /\ bff[s].step = "connect" => tx[s] = "none"
    <3>1. web[s].call \in {"none", "waiting", "answered", "gave_up", "lost"} /\ web[s].age \in 0..WebTicks
      BY DEF OInv, Types, Calls
    <3>2. bff[s].step \in Steps /\ bff[s].age \in Ticks
      BY DEF OInv, Types, Handlers
    <3>3. tx[s] \in {"none", "open", "committed", "unacked", "aborted"}
      BY DEF OInv, Types
    <3>4. bff[s].step = "connect" => tx[s] = "none"
      BY DEF OInv, FlowInv, TxFollows, TxOf
    <3>. QED BY <3>1, <3>2, <3>3, <3>4 DEF Ticks
  <2>3. /\ screen.shows \in {"form", "saving", "error", "partial", "dashboard"}
        /\ screen.of \in {0} \cup Requests
    BY DEF OInv, Types, Screens
  <2>4. Cardinality({s \in Requests : bff[s].step \in Transaction}) <= PoolSize
    BY DEF OInv, FlowInv, PoolHolds
  <2>5. brands \subseteq Requests /\ stops \in 0..MaxStops
    BY DEF OInv, Types
  <2>. QED BY <2>1, <2>2, <2>3, <2>4, <2>5 DEF TypeOK
<1>. QED BY Invariance, <1>1, PTL

(* Whatever a site's map lists, the pages bp-onboarder plans to read are    *)
(* spread over the kinds, none twice, and within the credits of one         *)
(* onboarding (selectPages, pageBudget, readSite).                          *)
THEOREM SelectionIsSpread == Spec => []PagesAreSpread
<1>1. OInv => PagesAreSpread
  BY PagesAreSpreadThen DEF OInv
<1>. QED BY Invariance, <1>1, PTL

(* A stored brand has one profile, and its owner's words lead it            *)
(* (profileToStore, mergeTerms, createBrand).                               *)
THEOREM OwnersWordsLead == Spec => []OwnersWordsComeFirst
<1>1. OInv => OwnersWordsComeFirst
  <2>. SUFFICES ASSUME OInv PROVE OwnersWordsComeFirst
    OBVIOUS
  <2>1. /\ brands = {p.brand : p \in profiles}
        /\ \A p, q \in profiles : p.brand = q.brand => p = q
    BY DEF OInv, RowsInv, RowsAreCommitted
  <2>2. ASSUME NEW p \in profiles
        PROVE  LET own == Distinct(typed[p.brand])
               IN  /\ IsPrefix(own, p.keywords)
                   /\ IsInjective([i \in DOMAIN p.keywords |-> p.keywords[i].word])
                   /\ ~p.drafted => p.keywords = own
    <3>. DEFINE ours == typed[p.brand]
    <3>1. PICK words \in Seq(Term) :
             p.keywords = MergeTerms(ours, words) /\ (~p.drafted => words = <<>>)
      BY DEF OInv, RowsInv, ProfilesAreMerged
    <3>2. ours \in Seq(Term)
      BY DEF OInv, Types, Profiles
    <3>. HIDE DEF ours
    <3>3. /\ IsPrefix(Distinct(ours), p.keywords)
          /\ ~p.drafted => p.keywords = Distinct(ours)
      BY <3>1, <3>2, MergeKeepsOwn
    <3>4. IsInjective([i \in DOMAIN p.keywords |-> p.keywords[i].word])
      <4>. DEFINE all == ours \o words
      <4>1. p.keywords = Distinct(all) /\ all \in Seq(Term)
        BY <3>1, <3>2 DEF MergeTerms
      <4>. HIDE DEF all
      <4>. QED BY <4>1, DistinctIsInjective
    <3>. QED BY <3>3, <3>4 DEF ours
  <2>. QED BY <2>1, <2>2 DEF OwnersWordsComeFirst
<1>. QED BY Invariance, <1>1, PTL

(* What the form says of the brand it sent is so (NewBrandForm.save, the    *)
(* POST route, createBrand).                                                *)
THEOREM ScreenIsTrue == Spec => []ScreenTellsTheTruth
<1>1. OInv => ScreenTellsTheTruth
  <2>. SUFFICES ASSUME OInv PROVE ScreenTellsTheTruth
    OBVIOUS
  <2>. DEFINE s == screen.of
  <2>1. ASSUME screen.shows \in {"dashboard", "partial"} PROVE s \in brands
    <3>1. s \in Requests /\ bff[s].step = "created"
      BY <2>1 DEF OInv, FlowInv, ScreenFollows
    <3>2. tx[s] = "committed"
      BY <3>1 DEF OInv, FlowInv, TxFollows, TxOf
    <3>. QED BY <3>1, <3>2 DEF OInv, RowsInv, RowsAreCommitted
  <2>2. screen.shows = "partial" => \A p \in profiles : p.brand = s => ~p.drafted
    BY DEF OInv, RowsInv, PartialIsUndrafted
  <2>3. ASSUME screen.shows = "error", s \in brands, web[s].call \notin {"gave_up", "lost"}
        PROVE  tx[s] = "unacked"
    <3>1. s \in Requests /\ bff[s].step \in {"refused", "failed", "stopped"}
      BY <2>3 DEF OInv, FlowInv, ScreenFollows
    <3>2. tx[s] \in {"none", "unacked", "aborted"}
      BY <3>1 DEF OInv, FlowInv, TxFollows, TxOf
    <3>. QED BY <2>3, <3>2 DEF OInv, RowsInv, RowsAreCommitted
  <2>. QED BY <2>1, <2>2, <2>3 DEF ScreenTellsTheTruth
<1>. QED BY Invariance, <1>1, PTL

-----------------------------------------------------------------------------
(* The registry.  An answer is the last that happens to a submission, and   *)
(* the BFF works on none that was not made.                                 *)

Over == {"created", "refused", "failed", "stopped"}
AnswersAreLast ==
    \A s \in Requests :
        /\ web[s].call = "none" => bff[s].step = "none"
        /\ web[s].call = "answered" => bff[s].step \in Over

RInv == OInv /\ AnswersAreLast

(* An entry is there if the transaction was committed.                      *)
LEMMA KeptIsStored ==
    ASSUME OInv, NEW s \in Requests
    PROVE  Registry!IsKept(s) <=> Stored(tx[s])
<1>1. s \in brands <=> Stored(tx[s])
  BY DEF OInv, RowsInv, RowsAreCommitted, Stored
<1>2. s \in brands <=> \E p \in profiles : p.brand = s
  BY DEF OInv, RowsInv, RowsAreCommitted
<1>. QED BY <1>1, <1>2 DEF Registry!IsKept

LEMMA CallsAre ==
    ASSUME OInv, NEW s \in Requests
    PROVE  web[s].call \in {"none", "waiting", "answered", "gave_up", "lost"}
BY DEF OInv, Types, Calls

(* A step that answers nobody and stores nothing.                           *)
LEMMA RegistryStutters ==
    ASSUME RInv, UNCHANGED <<typed, profiles>>,
           \A r \in Requests : web'[r].call = web[r].call,
           \A r \in Requests : web[r].call = "none" => bff'[r].step = "none",
           \A r \in Requests : bff[r].step \in Over =>
              bff'[r].step = bff[r].step /\ tx'[r] = tx[r]
    PROVE  AnswersAreLast' /\ UNCHANGED Registry!registryVars
<1>1. AnswersAreLast'
  BY DEF RInv, AnswersAreLast
<1>2. ASSUME NEW r \in Requests PROVE Told(r)' = Told(r)
  <2>1. web[r].call = "answered" => bff'[r].step = bff[r].step /\ tx'[r] = tx[r]
    BY DEF RInv, AnswersAreLast
  <2>2. web[r].call \in {"none", "waiting", "answered", "gave_up", "lost"} /\ web'[r].call = web[r].call
    BY CallsAre DEF RInv
  <2>. QED BY <2>1, <2>2 DEF Told
<1>. QED BY <1>1, <1>2 DEF Registry!registryVars

(* A step that answers the submission that waits.                           *)
LEMMA RegistryAnswers ==
    ASSUME RInv, NEW s \in Requests, UNCHANGED <<typed, profiles>>,
           web[s].call = "waiting", web'[s].call = "answered",
           bff'[s].step \in Over, tx'[s] \in TxOf(bff'[s].step),
           Stored(tx'[s]) <=> Stored(tx[s]),
           \A r \in Requests \ {s} : web'[r].call = web[r].call,
           \A r \in Requests \ {s} : web[r].call = "none" => bff'[r].step = "none",
           \A r \in Requests \ {s} : bff[r].step \in Over =>
              bff'[r].step = bff[r].step /\ tx'[r] = tx[r]
    PROVE  AnswersAreLast' /\ Registry!RegistryNext
<1>1. AnswersAreLast'
  BY DEF RInv, AnswersAreLast
<1>2. ASSUME NEW r \in Requests \ {s} PROVE Told(r)' = Told(r)
  <2>1. web[r].call = "answered" => bff'[r].step = bff[r].step /\ tx'[r] = tx[r]
    BY DEF RInv, AnswersAreLast
  <2>2. web[r].call \in {"none", "waiting", "answered", "gave_up", "lost"} /\ web'[r].call = web[r].call
    BY CallsAre DEF RInv
  <2>. QED BY <2>1, <2>2 DEF Told
<1>3. Told(s) = "waiting"
  BY DEF Told
<1>. DEFINE outcome == Told(s)'
<1>4. Registry!EndsAs(s, outcome)
  <2>1. [r \in Requests |-> Told(r)]' = [[r \in Requests |-> Told(r)] EXCEPT ![s] = outcome]
    BY <1>2
  <2>. QED BY <1>3, <2>1 DEF Registry!EndsAs
<1>5. outcome = IF bff'[s].step = "created" THEN "created"
                ELSE IF tx'[s] = "unacked" THEN "open" ELSE "refused"
  BY DEF Told
<1>. HIDE DEF outcome
<1>6. Registry!IsKept(s) <=> Stored(tx'[s])
  BY KeptIsStored DEF RInv
<1>7. CASE bff'[s].step = "created"
  <2>1. Stored(tx'[s])
    BY <1>7 DEF TxOf, Stored
  <2>2. Registry!Confirm(s)
    BY <1>4, <1>5, <1>6, <1>7, <2>1 DEF Registry!Confirm
  <2>. QED BY <1>1, <2>2 DEF Registry!RegistryNext
<1>8. CASE bff'[s].step # "created" /\ tx'[s] = "unacked"
  <2>1. Registry!LeaveOpen(s)
    BY <1>4, <1>5, <1>8 DEF Registry!LeaveOpen
  <2>. QED BY <1>1, <2>1 DEF Registry!RegistryNext
<1>9. CASE bff'[s].step # "created" /\ tx'[s] # "unacked"
  <2>1. tx'[s] \in {"none", "unacked", "aborted"}
    BY <1>9 DEF TxOf, Over
  <2>2. ~ Stored(tx'[s])
    BY <1>9, <2>1 DEF Stored
  <2>3. Registry!Refuse(s)
    BY <1>4, <1>5, <1>6, <1>9, <2>2 DEF Registry!Refuse
  <2>. QED BY <1>1, <2>3 DEF Registry!RegistryNext
<1>. QED BY <1>7, <1>8, <1>9

RegistryStep == AnswersAreLast' /\ (Registry!RegistryNext \/ UNCHANGED Registry!registryVars)

(* The handler goes on.                                                     *)
LEMMA WorkIsRegistry ==
    ASSUME RInv, NEW s \in Requests, web[s].call # "none" \/ UNCHANGED bff,
           \/ UNCHANGED <<bff, tx>>
           \/ /\ bff[s].step \notin Over
              /\ \E h : bff' = [bff EXCEPT ![s] = h]
              /\ \E t : tx' = [tx EXCEPT ![s] = t],
           UNCHANGED <<typed, profiles, web>>
    PROVE  RegistryStep
<1>1. \A r \in Requests : web[r].call = "none" => bff'[r].step = "none"
  BY DEF RInv, AnswersAreLast, OInv, Types
<1>2. \A r \in Requests : bff[r].step \in Over => bff'[r].step = bff[r].step /\ tx'[r] = tx[r]
  BY DEF OInv, Types, RInv
<1>. QED BY <1>1, <1>2, RegistryStutters DEF RegistryStep

(* The handler ends.                                                        *)
LEMMA EndIsRegistry ==
    ASSUME RInv, NEW s \in Requests, NEW end \in Over, NEW what,
           EndsAs(s, end), Shown(s, what, "answered"), web[s].call # "none",
           bff[s].step \notin Over, tx[s] \in TxOf(end), UNCHANGED <<typed, tx, profiles>>
    PROVE  RegistryStep
<1>1. /\ bff'[s].step = end
      /\ \A r \in Requests \ {s} : bff'[r] = bff[r]
  BY DEF EndsAs, Handler, RInv, OInv, Types
<1>2. \A r \in Requests \ {s} : web[r].call = "none" => bff'[r].step = "none"
  BY <1>1 DEF RInv, AnswersAreLast
<1>3. CASE web[s].call = "waiting"
  <2>1. /\ web'[s].call = "answered"
        /\ \A r \in Requests \ {s} : web'[r].call = web[r].call
    BY <1>3 DEF Shown, RInv, OInv, Types
  <2>. QED BY <1>1, <1>2, <1>3, <2>1, RegistryAnswers DEF RegistryStep
<1>4. CASE web[s].call # "waiting"
  <2>1. UNCHANGED web
    BY <1>4 DEF Shown
  <2>2. \A r \in Requests : web[r].call = "none" => bff'[r].step = "none"
    BY <1>2
  <2>3. \A r \in Requests : bff[r].step \in Over => bff'[r].step = bff[r].step
    BY <1>1
  <2>. QED BY <2>1, <2>2, <2>3, RegistryStutters DEF RegistryStep
<1>. QED BY <1>3, <1>4

LEMMA WorkedOnWasSent ==
    ASSUME RInv, NEW s \in Requests, bff[s].step # "none"
    PROVE  web[s].call # "none"
BY DEF RInv, AnswersAreLast

LEMMA HandlerIsRegistry ==
    ASSUME RInv, NEW s \in Requests,
           \/ Accept(s) \/ Refuse(s)
           \/ Drafted(s) \/ AgentLost(s) \/ AgentTimesOut(s)
           \/ Connect(s) \/ ConnectFails(s) \/ ConnectTimesOut(s)
           \/ Begin(s) \/ InsertBrand(s) \/ InsertProfile(s)
           \/ Created(s) \/ StatementFails(s) \/ Rollback(s)
           \/ Agent(s)
    PROVE  RegistryStep
<1>1. CASE Agent(s)
  <2>1. UNCHANGED <<bff, tx, typed, profiles, web>>
    BY <1>1 DEF Agent, bffVars, tables
  <2>. QED BY <2>1, WorkIsRegistry
<1>2. tx = [tx EXCEPT ![s] = tx[s]]
  BY DEF RInv, OInv, Types
<1>3. CASE \/ Accept(s) \/ Drafted(s) \/ AgentLost(s) \/ AgentTimesOut(s)
           \/ Connect(s) \/ Begin(s) \/ InsertBrand(s) \/ InsertProfile(s)
           \/ StatementFails(s)
  <2>1. /\ UNCHANGED <<typed, profiles, web>>
        /\ bff[s].step \in {"none", "ask", "connect"} \cup Transaction
        /\ bff[s].step = "none" => web[s].call # "none"
        /\ \E h : bff' = [bff EXCEPT ![s] = h]
        /\ UNCHANGED tx \/ \E t : tx' = [tx EXCEPT ![s] = t]
    <3>1. CASE Accept(s)
      BY <3>1 DEF Accept, At, GoTo, tables
    <3>2. CASE Drafted(s) \/ AgentLost(s) \/ AgentTimesOut(s)
      BY <3>2 DEF Drafted, AgentLost, AgentTimesOut, DraftProfile, At, tables
    <3>3. CASE Connect(s)
      BY <3>3 DEF Connect, At, GoTo, tables
    <3>4. CASE Begin(s) \/ InsertBrand(s) \/ InsertProfile(s)
      <4>1. bff[s].step \in Transaction /\ bff[s].step # "none"
        BY <3>4, StepsAre DEF Begin, InsertBrand, InsertProfile, At
      <4>. QED BY <3>4, <4>1 DEF Begin, InsertBrand, InsertProfile, GoTo, tables
    <3>5. CASE StatementFails(s)
      <4>1. bff[s].step \in Transaction /\ bff[s].step # "none"
        BY <3>5, StepsAre DEF StatementFails
      <4>. QED BY <3>5, <4>1 DEF StatementFails, GoTo, tables
    <3>. QED BY <1>3, <3>1, <3>2, <3>3, <3>4, <3>5
  <2>2. bff[s].step \notin Over
    BY <2>1, StepsAre DEF Over
  <2>3. web[s].call # "none"
    BY <2>1, WorkedOnWasSent
  <2>4. \E t : tx' = [tx EXCEPT ![s] = t]
    BY <1>2, <2>1
  <2>. QED BY <2>1, <2>2, <2>3, <2>4, WorkIsRegistry
<1>4. CASE Refuse(s)
  <2>1. /\ bff[s].step = "none" /\ web[s].call # "none" /\ EndsAs(s, "refused")
        /\ Shown(s, "error", "answered") /\ UNCHANGED <<typed, tx, profiles>>
    BY <1>4 DEF Refuse, At, tables
  <2>2. tx[s] \in TxOf("refused")
    BY <2>1 DEF RInv, OInv, FlowInv, TxFollows, TxOf
  <2>3. "refused" \in Over /\ bff[s].step \notin Over
    BY <2>1 DEF Over
  <2>. QED BY <2>1, <2>2, <2>3, EndIsRegistry
<1>5. CASE ConnectFails(s) \/ ConnectTimesOut(s) \/ Rollback(s)
  <2>1. /\ bff[s].step \in {"connect", "rollback"} /\ EndsAs(s, "failed")
        /\ Shown(s, "error", "answered") /\ UNCHANGED <<typed, tx, profiles>>
    BY <1>5 DEF ConnectFails, ConnectTimesOut, Rollback, Fails, At, tables
  <2>2. tx[s] \in TxOf("failed")
    BY <2>1 DEF RInv, OInv, FlowInv, TxFollows, TxOf
  <2>3. "failed" \in Over /\ bff[s].step \notin Over /\ web[s].call # "none"
    BY <2>1, WorkedOnWasSent DEF Over
  <2>. QED BY <2>1, <2>2, <2>3, EndIsRegistry
<1>6. CASE Created(s)
  <2>1. /\ bff[s].step = "commit" /\ tx[s] = "committed" /\ EndsAs(s, "created")
        /\ \E what : Shown(s, what, "answered")
        /\ UNCHANGED <<typed, tx, profiles>>
    BY <1>6 DEF Created, At, tables
  <2>2. tx[s] \in TxOf("created")
    BY <2>1 DEF TxOf
  <2>3. "created" \in Over /\ bff[s].step \notin Over /\ web[s].call # "none"
    BY <2>1, WorkedOnWasSent DEF Over
  <2>. QED BY <2>1, <2>2, <2>3, EndIsRegistry
<1>. QED BY <1>1, <1>3, <1>4, <1>5, <1>6

LEMMA SubmitIsAsk ==
    ASSUME RInv, NEW s \in Requests, Submit(s)
    PROVE  RegistryStep
<1>1. /\ s = screen.of + 1
      /\ web' = [web EXCEPT ![s] = [call |-> "waiting", age |-> 0]]
      /\ UNCHANGED <<bff, tx, profiles>>
  BY DEF Submit
<1>2. PICK words \in TypedLists : typed' = [typed EXCEPT ![s] = TermList(words)]
  BY DEF Submit
<1>3. web[s].call = "none"
  <2>. DEFINE of == screen.of
  <2>1. of \in Nat
    BY RequestsAre DEF RInv, OInv, Types, Screens
  <2>2. s > of
    <3>1. s = of + 1
      BY <1>1
    <3>. HIDE DEF of
    <3>. QED BY <2>1, <3>1
  <2>. QED BY <2>2 DEF RInv, OInv, FlowInv, Unsubmitted
<1>4. /\ web'[s].call = "waiting"
      /\ \A r \in Requests \ {s} : web'[r] = web[r]
      /\ typed'[s] = TermList(words)
      /\ \A r \in Requests \ {s} : typed'[r] = typed[r]
  BY <1>1, <1>2 DEF RInv, OInv, Types
<1>5. AnswersAreLast'
  BY <1>1, <1>4 DEF RInv, AnswersAreLast
<1>6. Told(s) = "unasked" /\ Told(s)' = "waiting"
  BY <1>3, <1>4 DEF Told
<1>7. \A r \in Requests \ {s} : Told(r)' = Told(r)
  BY <1>1, <1>4 DEF Told
<1>8. Registry!Ask(s)
  <2>. DEFINE list == TermList(words)
  <2>1. list \in {TermList(w) : w \in TypedLists}
    OBVIOUS
  <2>2. typed' = [typed EXCEPT ![s] = list]
    BY <1>2
  <2>3. [r \in Requests |-> Told(r)]' = [[r \in Requests |-> Told(r)] EXCEPT ![s] = "waiting"]
    BY <1>6, <1>7
  <2>. HIDE DEF list
  <2>. QED BY <1>1, <1>6, <2>1, <2>2, <2>3 DEF Registry!Ask
<1>. QED BY <1>5, <1>8 DEF RegistryStep, Registry!RegistryNext

LEMMA GivingUpLeavesOpen ==
    ASSUME RInv, NEW s \in Requests, NEW how \in {"gave_up", "lost"}, WebLeaves(s, how)
    PROVE  RegistryStep
<1>1. /\ web[s].call = "waiting"
      /\ web' = [web EXCEPT ![s] = [call |-> how, age |-> 0]]
      /\ UNCHANGED <<typed, bff, tx, profiles>>
  BY DEF WebLeaves
<1>2. web'[s].call \in {"gave_up", "lost"} /\ \A r \in Requests \ {s} : web'[r] = web[r]
  BY <1>1 DEF RInv, OInv, Types
<1>3. AnswersAreLast'
  BY <1>1, <1>2 DEF RInv, AnswersAreLast
<1>4. Told(s) = "waiting" /\ Told(s)' = "open" /\ \A r \in Requests \ {s} : Told(r)' = Told(r)
  BY <1>1, <1>2 DEF Told
<1>5. [r \in Requests |-> Told(r)]' = [[r \in Requests |-> Told(r)] EXCEPT ![s] = "open"]
  BY <1>4
<1>6. Registry!LeaveOpen(s)
  BY <1>1, <1>4, <1>5 DEF Registry!LeaveOpen, Registry!EndsAs
<1>. QED BY <1>3, <1>6 DEF RegistryStep, Registry!RegistryNext

LEMMA CommitStores ==
    ASSUME RInv, NEW s \in Requests, Commit(s)
    PROVE  RegistryStep
<1>. DEFINE p == ProfileToStore(s)
            draft == bff[s].draft
<1>1. /\ bff[s].step = "commit" /\ tx[s] = "open" /\ tx' = [tx EXCEPT ![s] = "committed"]
      /\ profiles' = profiles \cup {p}
      /\ UNCHANGED <<typed, web, bff>>
  BY DEF Commit, At
<1>2. /\ draft \in Drafts /\ typed[s] \in Seq(Term)
      /\ draft.error => draft.keywords = <<>>
  BY DEF RInv, OInv, Types, Handlers, RowsInv, DraftsAreWhole
<1>3. draft.keywords \in Seq(Term) /\ draft.error \in BOOLEAN
  BY <1>2 DEF Drafts
<1>4. /\ p.brand = s /\ p.keywords = MergeTerms(typed[s], draft.keywords)
      /\ ~ p.drafted => draft.keywords = <<>>
  BY <1>2, <1>3 DEF ProfileToStore
<1>. HIDE DEF p
<1>5. /\ IsPrefix(Distinct(typed[s]), p.keywords)
      /\ ~ p.drafted => p.keywords = Distinct(typed[s])
  BY <1>2, <1>3, <1>4, MergeKeepsOwn
<1>6. web[s].call \in {"waiting", "gave_up", "lost"}
  BY <1>1, CallsAre DEF RInv, AnswersAreLast, Over
<1>7. Told(s) \in {"waiting", "open"}
  BY <1>6 DEF Told
<1>8. \A r \in Requests : Told(r)' = Told(r)
  <2>. SUFFICES ASSUME NEW r \in Requests PROVE Told(r)' = Told(r)
    OBVIOUS
  <2>1. web[r].call = "answered" => tx'[r] = tx[r]
    BY <1>1, <1>6 DEF RInv, OInv, Types
  <2>. QED BY <1>1, <2>1, CallsAre DEF Told, RInv
<1>9. ~ Registry!IsKept(s)
  BY <1>1, KeptIsStored DEF RInv, Stored
<1>10. Registry!Store(s)
  <2>1. Registry!IsPrefix(Distinct(typed[s]), p.keywords)
    BY <1>5 DEF IsPrefix, Registry!IsPrefix
  <2>2. [r \in Requests |-> Told(r)]' = [r \in Requests |-> Told(r)]
    BY <1>8
  <2>3. p \in profiles' /\ p.brand = s /\ profiles' = profiles \cup {p}
    BY <1>1, <1>4
  <2>. QED BY <1>1, <1>5, <1>7, <1>9, <2>1, <2>2, <2>3 DEF Registry!Store
<1>11. AnswersAreLast'
  BY <1>1 DEF RInv, AnswersAreLast
<1>. QED BY <1>10, <1>11 DEF RegistryStep, Registry!RegistryNext

LEMMA StopIsRegistry ==
    ASSUME RInv, Stop
    PROVE  RegistryStep
<1>. DEFINE hit == {s \in Requests : bff[s].step \notin Ends}
            left(t) == CASE t = "committed" -> "unacked"
                         [] t = "open" -> "aborted"
                         [] OTHER -> t
            cut == [call |-> "answered", age |-> 0]
<1>1. /\ bff' = [s \in Requests |-> IF s \in hit THEN Handler("stopped") ELSE bff[s]]
      /\ tx' = [s \in Requests |-> IF s \notin hit THEN tx[s] ELSE left(tx[s])]
      /\ web' = [s \in Requests |-> IF s \in hit /\ web[s].call = "waiting" THEN cut ELSE web[s]]
      /\ UNCHANGED <<typed, profiles>>
  BY DEF Stop, tables
<1>2. /\ \A s \in hit : bff'[s].step = "stopped"
      /\ \A s \in Requests \ hit : bff'[s] = bff[s]
  BY <1>1 DEF Handler
<1>3. /\ \A s \in hit : tx'[s] = left(tx[s])
      /\ \A s \in Requests \ hit : tx'[s] = tx[s]
  BY <1>1
<1>4. /\ \A s \in hit : web[s].call = "waiting" => web'[s].call = "answered"
      /\ \A s \in Requests : ~ (s \in hit /\ web[s].call = "waiting") => web'[s] = web[s]
  BY <1>1
<1>5. \A s \in hit : s \in Requests /\ bff[s].step \notin Ends
  OBVIOUS
<1>6. \A r \in Requests : web[r].call = "none" => r \notin hit /\ bff'[r].step = "none"
  BY <1>2, <1>5, StepsAre DEF RInv, AnswersAreLast
<1>7. \A r \in Requests : bff[r].step \in Over =>
          bff'[r].step = bff[r].step /\ tx'[r] = tx[r]
  <2>1. Over \subseteq Ends
    BY StepsAre DEF Over
  <2>. QED BY <1>2, <1>3, <1>5, <2>1
<1>8. \A s \in Requests : Stored(tx'[s]) <=> Stored(tx[s])
  <2>. TAKE s \in Requests
  <2>1. Stored(left(tx[s])) <=> Stored(tx[s])
    BY DEF Stored, RInv, OInv, Types
  <2>. HIDE DEF left, hit
  <2>. QED BY <1>3, <2>1
<1>9. \A s \in hit : tx'[s] \in TxOf("stopped")
  <2>. SUFFICES ASSUME NEW s \in hit PROVE tx'[s] \in TxOf("stopped")
    OBVIOUS
  <2>1. tx[s] \in {"none", "open", "committed", "unacked", "aborted"}
    BY <1>5 DEF RInv, OInv, Types
  <2>2. left(tx[s]) \in {"none", "unacked", "aborted"}
    BY <2>1
  <2>. HIDE DEF left, hit
  <2>. QED BY <1>3, <2>2 DEF TxOf
<1>. HIDE DEF hit, left, cut
<1>10. CASE \E s \in hit : web[s].call = "waiting"
  <2>1. PICK s \in hit : web[s].call = "waiting"
    BY <1>10
  <2>2. \A r \in Requests \ {s} : web[r].call # "waiting"
    BY <1>5, <2>1 DEF RInv, OInv, FlowInv, OneIsWaiting
  <2>3. \A r \in Requests \ {s} : web'[r].call = web[r].call
    BY <1>4, <2>2
  <2>4. "stopped" \in Over
    BY DEF Over
  <2>5. s \in Requests /\ web'[s].call = "answered" /\ bff'[s].step = "stopped"
    BY <1>2, <1>4, <1>5, <2>1
  <2>6. bff'[s].step \in Over /\ tx'[s] \in TxOf(bff'[s].step)
    BY <1>9, <2>4, <2>5
  <2>7. \A r \in Requests \ {s} : web[r].call = "none" => bff'[r].step = "none"
    BY <1>6
  <2>8. \A r \in Requests \ {s} : bff[r].step \in Over =>
           bff'[r].step = bff[r].step /\ tx'[r] = tx[r]
    BY <1>7
  <2>9. AnswersAreLast' /\ Registry!RegistryNext
    BY <1>1, <1>8, <2>1, <2>3, <2>5, <2>6, <2>7, <2>8, RegistryAnswers
  <2>. QED BY <2>9 DEF RegistryStep
<1>11. CASE \A s \in hit : web[s].call # "waiting"
  <2>1. \A r \in Requests : web'[r].call = web[r].call
    BY <1>4, <1>11
  <2>. QED BY <1>1, <1>6, <1>7, <2>1, RegistryStutters DEF RegistryStep
<1>. QED BY <1>10, <1>11

LEMMA TickIsRegistry ==
    ASSUME RInv, Tick \/ UNCHANGED vars
    PROVE  RegistryStep
<1>1. UNCHANGED <<typed, profiles, tx>>
  BY DEF Tick, vars, tables
<1>2. \A r \in Requests : web'[r].call = web[r].call /\ bff'[r].step = bff[r].step
  <2>1. CASE Tick
    <3>1. \A r \in Requests : web[r] \in Calls /\ bff[r] \in Handlers
      BY DEF RInv, OInv, Types
    <3>. QED BY <2>1, <3>1 DEF Tick, Calls, Handlers
  <2>2. CASE UNCHANGED vars
    BY <2>2 DEF vars
  <2>. QED BY <2>1, <2>2
<1>3. \A r \in Requests : web[r].call = "none" => bff'[r].step = "none"
  BY <1>2 DEF RInv, AnswersAreLast
<1>. QED BY <1>1, <1>2, <1>3, RegistryStutters DEF RegistryStep

LEMMA NextIsRegistry ==
    ASSUME RInv, [Next]_vars
    PROVE  RegistryStep
<1>1. CASE Stop
  BY <1>1, StopIsRegistry
<1>2. CASE Tick \/ UNCHANGED vars
  BY <1>2, TickIsRegistry
<1>3. ASSUME NEW s \in Requests, Submit(s) PROVE RegistryStep
  BY <1>3, SubmitIsAsk
<1>4. ASSUME NEW s \in Requests, WebGivesUp(s) \/ WebLosesBff(s) PROVE RegistryStep
  <2>1. PICK how \in {"gave_up", "lost"} : WebLeaves(s, how)
    BY <1>4, WebLeft
  <2>. QED BY <2>1, GivingUpLeavesOpen
<1>5. ASSUME NEW s \in Requests, Commit(s) PROVE RegistryStep
  BY <1>5, CommitStores
<1>6. ASSUME NEW s \in Requests,
             \/ Accept(s) \/ Refuse(s)
             \/ Drafted(s) \/ AgentLost(s) \/ AgentTimesOut(s)
             \/ Connect(s) \/ ConnectFails(s) \/ ConnectTimesOut(s)
             \/ Begin(s) \/ InsertBrand(s) \/ InsertProfile(s)
             \/ Created(s) \/ StatementFails(s) \/ Rollback(s)
             \/ Agent(s)
      PROVE  RegistryStep
  BY <1>6, HandlerIsRegistry
<1>. QED BY <1>1, <1>2, <1>3, <1>4, <1>5, <1>6 DEF Next, Step, TimesOut

(* The tables are the registry that the form stands for: a brand is stored  *)
(* once and for good, never after it was refused, and a confirmed one was   *)
(* stored before; for any submissions, timers and stops (the POST routes,   *)
(* createBrand).                                                            *)
THEOREM Refinement == Spec => ImplementsRegistry
<1>1. Init => RInv /\ Registry!RegistryInit
  <2>. SUFFICES ASSUME Init PROVE RInv /\ Registry!RegistryInit
    OBVIOUS
  <2>1. /\ typed = [s \in Requests |-> <<>>] /\ profiles = {}
        /\ web = [s \in Requests |-> [call |-> "none", age |-> 0]]
        /\ bff = [s \in Requests |-> Handler("none")]
    BY DEF Init
  <2>2. AnswersAreLast
    BY <2>1 DEF AnswersAreLast, Handler
  <2>3. [s \in Requests |-> Told(s)] = [s \in Requests |-> "unasked"]
    BY <2>1 DEF Told
  <2>. QED BY <2>1, <2>2, <2>3, InitOInv DEF RInv, Registry!RegistryInit
<1>2. RInv /\ [Next]_vars => RInv' /\ [Registry!RegistryNext]_(Registry!registryVars)
  BY NextKeeps, NextIsRegistry DEF RInv, RegistryStep
<1>. QED BY <1>1, <1>2, PTL DEF Spec, ImplementsRegistry, Registry!RegistrySpec
=============================================================================
