--------------------------- MODULE DetectionProofs ---------------------------
(***************************************************************************)
(* Theorems about Detection.tla, for any kinds of posts, any sizes and     *)
(* number of bursts, any baseline and window, and any length of the clock. *)
(***************************************************************************)
EXTENDS Detection, SumTheorems

-----------------------------------------------------------------------------
(* The inductive invariant: a table is finite, and what its alerts promise. *)

DInv ==
    /\ TypeOK
    /\ IsFiniteSet(posts)
    /\ VolumeAlertsComeWithSpike
    /\ NoHistoryNoLiveSpike
    /\ RowsAreBacked

-----------------------------------------------------------------------------
(* Volumes.                                                                 *)

LEMMA SizesCount == \A b \in Bursts : b.size \in Nat /\ b.size >= 1
<1>1. \A b \in Bursts : b.size \in Sizes
  BY DEF Bursts
<1>2. Sizes \subseteq Nat \ {0}
  BY DetectionAssumption
<1>3. \A n \in Sizes : n \in Nat /\ n >= 1
  BY <1>2
<1>. QED BY <1>1, <1>3

LEMMA VolumeInNat ==
    ASSUME NEW g, g \subseteq Bursts, IsFiniteSet(g)
    PROVE  Volume(g) \in Nat
<1>. DEFINE f == [b \in g |-> b.size]
<1>1. \A b \in g : f[b] \in Nat
  BY SizesCount
<1>2. SumFunctionOnSet(f, g) \in Nat
  <2>. HIDE DEF f
  <2>. QED BY <1>1, SumInNat
<1>3. SumFunction(f) = SumFunctionOnSet(f, g)
  BY SumOverDomain
<1>. QED BY <1>2, <1>3 DEF Volume

(* Part of a group has no more volume.                                      *)
LEMMA VolumeGrows ==
    ASSUME NEW g, g \subseteq Bursts, IsFiniteSet(g), NEW part \in SUBSET g
    PROVE  Volume(part) <= Volume(g)
<1>. DEFINE f == [b \in g |-> b.size]
            p == [b \in part |-> b.size]
<1>1. /\ \A b \in g : f[b] \in Nat
      /\ \A b \in part : p[b] \in Nat /\ p[b] = f[b]
  BY SizesCount
<1>2. SumFunction(f) = SumFunctionOnSet(f, g) /\ SumFunction(p) = SumFunctionOnSet(p, part)
  BY SumOverDomain
<1>3. Volume(g) = SumFunctionOnSet(f, g) /\ Volume(part) = SumFunctionOnSet(p, part)
  BY <1>2 DEF Volume
<1>. HIDE DEF f, p
<1>4. IsFiniteSet(part)
  BY FS_Subset
<1>5. SumFunctionOnSet(p, part) = SumFunctionOnSet(f, part)
  BY <1>1, <1>4, SumSame
<1>6. SumFunctionOnSet(f, part) <= SumFunctionOnSet(f, g)
  BY <1>1, SumOfPart
<1>. QED BY <1>3, <1>5, <1>6

LEMMA NoPostsNoVolume == Volume({}) = 0
<1>. DEFINE f == [b \in {} |-> b.size]
<1>1. SumFunction(f) = SumFunctionOnSet(f, {})
  BY SumOverDomain
<1>. QED BY <1>1, SumOfNone DEF Volume

-----------------------------------------------------------------------------
(* Scores.                                                                  *)

(* A square of something larger is larger.                                  *)
LEMMA SquareGrows ==
    ASSUME NEW x \in Int, NEW y \in Int, 0 < x, x <= y
    PROVE  x * x <= y * y
<1>1. x * x <= x * y
  OBVIOUS
<1>2. x * y <= y * y
  OBVIOUS
<1>. QED BY <1>1, <1>2

Count(B, h) == Volume({b \in B : b.hour = h})
Squares(B) == SumFunction([h \in {b.hour : b \in B} |-> Count(B, h) * Count(B, h)])
Spread(B) == BaselineHours * Squares(B) - Volume(B) * Volume(B)
Above(v, B) == BaselineHours * v - Volume(B)

LEMMA ScoreIs ==
    ASSUME NEW k, NEW v, NEW B
    PROVE  ZAtLeast(k, v, B) <=>
              /\ Spread(B) > 0
              /\ Above(v, B) > 0
              /\ Above(v, B) * Above(v, B) >= k * k * Spread(B)
BY DEF ZAtLeast, Spread, Above, Squares, Count

LEMMA SquaresInNat ==
    ASSUME NEW B, B \subseteq Bursts, IsFiniteSet(B)
    PROVE  Squares(B) \in Nat
<1>. DEFINE H == {b.hour : b \in B}
            f == [h \in H |-> Count(B, h) * Count(B, h)]
<1>1. IsFiniteSet(H)
  <2>1. H \subseteq 1..MaxHour
    BY DEF Bursts, Hours
  <2>2. IsFiniteSet(1..MaxHour)
    BY DetectionAssumption, FS_Interval
  <2>. QED BY <2>1, <2>2, FS_Subset
<1>2. \A h \in H : Count(B, h) \in Nat
  <2>. TAKE h \in H
  <2>1. IsFiniteSet({b \in B : b.hour = h}) /\ {b \in B : b.hour = h} \subseteq Bursts
    BY FS_Subset
  <2>. QED BY <2>1, VolumeInNat DEF Count
<1>3. \A h \in H : f[h] \in Nat
  BY <1>2
<1>4. SumFunction(f) = SumFunctionOnSet(f, H)
  BY SumOverDomain
<1>5. SumFunctionOnSet(f, H) \in Nat
  <2>. HIDE DEF f, H
  <2>. QED BY <1>1, <1>3, SumInNat
<1>. QED BY <1>4, <1>5 DEF Squares

LEMMA SpreadInInt ==
    ASSUME NEW B, B \subseteq Bursts, IsFiniteSet(B)
    PROVE  Spread(B) \in Int
<1>1. Squares(B) \in Int /\ Volume(B) \in Int /\ BaselineHours \in Int
  BY SquaresInNat, VolumeInNat, DetectionAssumption
<1>. QED BY <1>1 DEF Spread

(* The score of a larger count over the same baseline is no lower.          *)
LEMMA ScoreGrows ==
    ASSUME NEW B, B \subseteq Bursts, IsFiniteSet(B), NEW k \in Nat,
           NEW v \in Nat, NEW w \in Nat, v <= w, ZAtLeast(k, v, B)
    PROVE  ZAtLeast(k, w, B)
<1>1. Volume(B) \in Nat /\ BaselineHours \in Nat
  BY VolumeInNat, DetectionAssumption
<1>2. BaselineHours * v <= BaselineHours * w
  BY <1>1
<1>3. BaselineHours * v \in Int /\ BaselineHours * w \in Int
  BY <1>1
<1>4. Above(v, B) \in Int /\ Above(w, B) \in Int /\ Above(v, B) <= Above(w, B)
  BY <1>1, <1>2, <1>3 DEF Above
<1>5. /\ Spread(B) > 0
      /\ Above(v, B) > 0
      /\ Above(v, B) * Above(v, B) >= k * k * Spread(B)
  BY ScoreIs
<1>6. Above(v, B) * Above(v, B) <= Above(w, B) * Above(w, B)
  BY <1>4, <1>5, SquareGrows
<1>7. Above(w, B) > 0
  BY <1>4, <1>5
<1>8. k * k * Spread(B) \in Int
  BY SpreadInInt
<1>9. Above(w, B) * Above(w, B) >= k * k * Spread(B)
  <2>. DEFINE p == Above(v, B) * Above(v, B)
              q == Above(w, B) * Above(w, B)
              r == k * k * Spread(B)
  <2>1. p \in Int /\ q \in Int /\ r \in Int /\ p <= q /\ p >= r
    BY <1>4, <1>5, <1>6, <1>8
  <2>. HIDE DEF p, q, r
  <2>2. q >= r
    BY <2>1
  <2>. QED BY <2>2 DEF q, r
<1>. QED BY <1>5, <1>7, <1>9, ScoreIs

(* Nothing scores over a baseline without posts.                            *)
LEMMA ScoreHasHistory ==
    ASSUME NEW k, NEW v, NEW B, ZAtLeast(k, v, B)
    PROVE  B # {}
<1>1. SUFFICES ASSUME B = {} PROVE FALSE
  OBVIOUS
<1>2. Volume(B) = 0
  BY <1>1, NoPostsNoVolume
<1>3. Squares(B) = 0
  <2>. DEFINE f == [h \in {b.hour : b \in B} |-> Count(B, h) * Count(B, h)]
  <2>1. DOMAIN f = {}
    BY <1>1
  <2>2. SumFunction(f) = 0
    <3>. HIDE DEF f
    <3>. QED BY <2>1, SumOverDomain, SumOfNone
  <2>. QED BY <2>2 DEF Squares
<1>4. BaselineHours \in Nat
  BY DetectionAssumption
<1>5. Spread(B) = 0
  BY <1>2, <1>3, <1>4 DEF Spread
<1>. QED BY <1>5, ScoreIs

(* Nor does an empty count.                                                 *)
LEMMA ScoreHasPosts ==
    ASSUME NEW B, B \subseteq Bursts, IsFiniteSet(B), NEW k, NEW v \in Nat,
           ZAtLeast(k, v, B)
    PROVE  v > 0
<1>1. SUFFICES ASSUME v = 0 PROVE FALSE
  OBVIOUS
<1>2. Volume(B) \in Nat /\ BaselineHours \in Nat
  BY VolumeInNat, DetectionAssumption
<1>3. Above(0, B) = 0 - Volume(B)
  BY <1>2 DEF Above
<1>. QED BY <1>1, <1>2, <1>3, ScoreIs

-----------------------------------------------------------------------------
(* What an evaluation raises.                                               *)

(* The group of posts an alert was raised over.                             *)
Group(seen, a) == OfHour(seen, a.source, a.hour)

(* Some rule fired over g, with the severity of the alert.                  *)
Says(a, g, B) ==
    \/ a.kind = "spike" /\ a.severity \in Spike(g, B)
    \/ a.kind = "crisis" /\ a.severity \in Crisis(g, B)
    \/ a.kind = "review_bomb" /\ a.severity \in ReviewBomb(g, B)
    \/ a.kind = "influencer_mention" /\ a.severity \in InfluencerMention(g, B)
    \/ a.kind = "competitor_move" /\ a.severity \in CompetitorMove(g, B)

LEMMA Evaluated ==
    ASSUME NEW seen, NEW e, NEW a \in Evaluate(seen, e)
    PROVE  /\ \E b \in seen : a.source = b.kind.source /\ a.hour = b.hour
           /\ a = [kind |-> a.kind, source |-> a.source, hour |-> a.hour,
                   severity |-> a.severity, at |-> e]
           /\ Says(a, Group(seen, a), Baseline(a.source, e))
<1>1. PICK b \in seen :
          LET s == b.kind.source
              h == b.hour
              g == OfHour(seen, s, h)
              B == Baseline(s, e)
          IN  \/ a \in Alert("spike", s, h, e, Spike(g, B))
              \/ a \in Alert("crisis", s, h, e, Crisis(g, B))
              \/ a \in Alert("review_bomb", s, h, e, ReviewBomb(g, B))
              \/ a \in Alert("influencer_mention", s, h, e, InfluencerMention(g, B))
              \/ a \in Alert("competitor_move", s, h, e, CompetitorMove(g, B))
  BY DEF Evaluate
<1>. DEFINE g == OfHour(seen, b.kind.source, b.hour)
            B == Baseline(b.kind.source, e)
<1>2. ASSUME NEW kind, NEW severities,
             a \in Alert(kind, b.kind.source, b.hour, e, severities)
      PROVE  /\ a.kind = kind /\ a.source = b.kind.source /\ a.hour = b.hour
             /\ a.severity \in severities
             /\ a = [kind |-> a.kind, source |-> a.source, hour |-> a.hour,
                     severity |-> a.severity, at |-> e]
  BY <1>2 DEF Alert
<1>3. CASE a \in Alert("spike", b.kind.source, b.hour, e, Spike(g, B))
  BY <1>2, <1>3 DEF Says, Group
<1>4. CASE a \in Alert("crisis", b.kind.source, b.hour, e, Crisis(g, B))
  BY <1>2, <1>4 DEF Says, Group
<1>5. CASE a \in Alert("review_bomb", b.kind.source, b.hour, e, ReviewBomb(g, B))
  BY <1>2, <1>5 DEF Says, Group
<1>6. CASE a \in Alert("influencer_mention", b.kind.source, b.hour, e,
                       InfluencerMention(g, B))
  BY <1>2, <1>6 DEF Says, Group
<1>7. CASE a \in Alert("competitor_move", b.kind.source, b.hour, e,
                       CompetitorMove(g, B))
  BY <1>2, <1>7 DEF Says, Group
<1>. QED BY <1>1, <1>3, <1>4, <1>5, <1>6, <1>7

LEMMA RaisedIsAlert ==
    ASSUME NEW seen, seen \subseteq Bursts, NEW e \in Hours, NEW a \in Evaluate(seen, e)
    PROVE  a \in Alerts /\ a.at = e
<1>1. a = [kind |-> a.kind, source |-> a.source, hour |-> a.hour,
           severity |-> a.severity, at |-> e]
  BY Evaluated
<1>2. a.source \in Sources /\ a.hour \in Hours
  <2>1. PICK b \in seen : a.source = b.kind.source /\ a.hour = b.hour
    BY Evaluated
  <2>2. b.kind \in PostKinds /\ b.hour \in Hours
    BY DEF Bursts
  <2>. QED BY <2>1, <2>2 DEF Sources
<1>3. Says(a, Group(seen, a), Baseline(a.source, e))
  BY Evaluated
<1>4. a.severity \in {"low", "medium", "high", "critical"}
  BY <1>3 DEF Says, Spike, Crisis, ReviewBomb, InfluencerMention, CompetitorMove
<1>5. a.kind \in VolumeKinds \cup {"review_bomb", "influencer_mention"}
  BY <1>3 DEF Says, VolumeKinds
<1>6. a.at = e
  BY <1>1
<1>. QED BY <1>1, <1>2, <1>4, <1>5, <1>6 DEF Alerts

(* The groups and the baseline of an execution are finite sets of bursts.   *)
LEMMA Parts ==
    ASSUME NEW seen, seen \subseteq Bursts, IsFiniteSet(seen),
           posts \subseteq Bursts, IsFiniteSet(posts), NEW a, NEW s, NEW e
    PROVE  /\ Group(seen, a) \subseteq Bursts /\ IsFiniteSet(Group(seen, a))
           /\ Baseline(s, e) \subseteq Bursts /\ IsFiniteSet(Baseline(s, e))
<1>1. Group(seen, a) \subseteq seen
  BY DEF Group, OfHour
<1>2. Baseline(s, e) \subseteq posts
  BY DEF Baseline
<1>. QED BY <1>1, <1>2, FS_Subset

(* Whatever volume rule fired, the whole group scores.                      *)
LEMMA VolumeAlertScores ==
    ASSUME NEW seen, seen \subseteq Bursts, IsFiniteSet(seen),
           posts \subseteq Bursts, IsFiniteSet(posts),
           NEW e, NEW a \in Evaluate(seen, e), a.kind \in VolumeKinds
    PROVE  ZAtLeast(3, Volume(Group(seen, a)), Baseline(a.source, e))
<1>. DEFINE g == Group(seen, a)
            B == Baseline(a.source, e)
            rivals == {b \in g : b.kind.rival}
<1>1. Says(a, g, B)
  BY Evaluated
<1>2. /\ g \subseteq Bursts /\ IsFiniteSet(g)
      /\ B \subseteq Bursts /\ IsFiniteSet(B)
  BY Parts
<1>3. CASE a.kind = "spike"
  BY <1>1, <1>3 DEF Says, Spike
<1>4. CASE a.kind = "crisis"
  BY <1>1, <1>4 DEF Says, Crisis
<1>5. CASE a.kind = "competitor_move"
  <2>1. ZAtLeast(3, Volume(rivals), B)
    BY <1>1, <1>5 DEF Says, CompetitorMove
  <2>2. rivals \in SUBSET g /\ IsFiniteSet(rivals)
    BY <1>2, FS_Subset
  <2>. HIDE DEF g, B, rivals
  <2>3. Volume(rivals) <= Volume(g)
    BY <1>2, <2>2, VolumeGrows
  <2>4. rivals \subseteq Bursts
    BY <1>2, <2>2
  <2>5. Volume(rivals) \in Nat /\ Volume(g) \in Nat
    BY <1>2, <2>2, <2>4, VolumeInNat
  <2>6. ZAtLeast(3, Volume(g), B)
    BY <1>2, <2>1, <2>3, <2>5, ScoreGrows
  <2>. QED BY <2>6 DEF g, B
<1>. QED BY <1>3, <1>4, <1>5 DEF VolumeKinds

(* So the same evaluation raises the spike of the source-hour.              *)
LEMMA SpikeIsRaised ==
    ASSUME NEW seen, seen \subseteq Bursts, IsFiniteSet(seen),
           posts \subseteq Bursts, IsFiniteSet(posts),
           NEW e, NEW a \in Evaluate(seen, e), a.kind \in VolumeKinds
    PROVE  \E c \in Evaluate(seen, e) :
              c.kind = "spike" /\ c.source = a.source /\ c.hour = a.hour
<1>. DEFINE g == Group(seen, a)
            B == Baseline(a.source, e)
<1>1. PICK b \in seen : a.source = b.kind.source /\ a.hour = b.hour
  BY Evaluated
<1>2. ZAtLeast(3, Volume(g), B)
  BY VolumeAlertScores
<1>3. PICK x : x \in Spike(g, B)
  BY <1>2 DEF Spike
<1>. DEFINE c == [kind |-> "spike", source |-> a.source, hour |-> a.hour,
                  severity |-> x, at |-> e]
<1>4. c \in Alert("spike", b.kind.source, b.hour, e,
                  Spike(OfHour(seen, b.kind.source, b.hour), Baseline(b.kind.source, e)))
  BY <1>1, <1>3 DEF Alert, Group
<1>5. c \in Evaluate(seen, e)
  BY <1>4 DEF Evaluate
<1>. QED BY <1>5

-----------------------------------------------------------------------------
(* What stands behind an alert.                                             *)

(* Backing for a group of posts.                                            *)
Backs(a, g) ==
    CASE a.kind = "spike" -> g # {}
      [] a.kind = "crisis" -> Negative(g) # {}
      [] a.kind = "review_bomb" -> Volume(Rated(g)) >= 5
      [] a.kind = "influencer_mention" ->
             \E b \in g : b.kind.loud /\ (a.severity = "high" => b.kind.negative)
      [] a.kind = "competitor_move" -> \E b \in g : b.kind.rival

LEMMA BackingIs == \A a : Backing(a) <=> Backs(a, OfHour(posts, a.source, a.hour))
BY DEF Backing, Backs

LEMMA AlertKinds ==
    \A a \in Alerts : a.kind \in {"spike", "crisis", "review_bomb",
                                  "influencer_mention", "competitor_move"}
BY DEF Alerts, VolumeKinds

(* Further posts take nothing away from it.                                 *)
LEMMA BackingGrows ==
    ASSUME NEW a \in Alerts, NEW more, more \subseteq Bursts, IsFiniteSet(more),
           NEW g \in SUBSET more, Backs(a, g)
    PROVE  Backs(a, more)
<1>0. a.kind \in {"spike", "crisis", "review_bomb", "influencer_mention",
                  "competitor_move"}
  BY AlertKinds
<1>1. CASE a.kind = "spike"
  BY <1>1 DEF Backs
<1>2. CASE a.kind = "crisis"
  BY <1>2 DEF Backs, Negative
<1>3. CASE a.kind = "review_bomb"
  <2>1. Volume(Rated(g)) >= 5
    BY <1>3 DEF Backs
  <2>2. /\ Rated(more) \subseteq Bursts /\ IsFiniteSet(Rated(more))
        /\ Rated(g) \in SUBSET Rated(more)
    BY FS_Subset DEF Rated
  <2>3. IsFiniteSet(Rated(g)) /\ Rated(g) \subseteq Bursts
    BY <2>2, FS_Subset
  <2>4. Volume(Rated(g)) <= Volume(Rated(more))
    BY <2>2, VolumeGrows
  <2>5. Volume(Rated(g)) \in Nat /\ Volume(Rated(more)) \in Nat
    BY <2>2, <2>3, VolumeInNat
  <2>6. Volume(Rated(more)) >= 5
    BY <2>1, <2>4, <2>5
  <2>. QED BY <1>3, <2>6 DEF Backs
<1>4. CASE a.kind = "influencer_mention"
  BY <1>4 DEF Backs
<1>5. CASE a.kind = "competitor_move"
  BY <1>5 DEF Backs
<1>. QED BY <1>0, <1>1, <1>2, <1>3, <1>4, <1>5

(* The group an alert is raised over stands behind it.                      *)
LEMMA RaisedIsBacked ==
    ASSUME NEW seen, seen \subseteq Bursts, IsFiniteSet(seen),
           posts \subseteq Bursts, IsFiniteSet(posts),
           NEW e \in Hours, NEW a \in Evaluate(seen, e)
    PROVE  Backs(a, Group(seen, a))
<1>. DEFINE g == Group(seen, a)
            B == Baseline(a.source, e)
<1>0. a \in Alerts /\ a.kind \in {"spike", "crisis", "review_bomb",
                                  "influencer_mention", "competitor_move"}
  BY RaisedIsAlert, AlertKinds
<1>1. Says(a, g, B)
  BY Evaluated
<1>2. /\ g \subseteq Bursts /\ IsFiniteSet(g)
      /\ B \subseteq Bursts /\ IsFiniteSet(B)
  BY Parts
<1>3. Volume(g) \in Nat
  BY <1>2, VolumeInNat
<1>4. a.kind \in VolumeKinds => Volume(g) > 0
  <2>1. SUFFICES ASSUME a.kind \in VolumeKinds PROVE Volume(g) > 0
    OBVIOUS
  <2>2. ZAtLeast(3, Volume(g), B)
    BY <2>1, VolumeAlertScores
  <2>. HIDE DEF g, B
  <2>. QED BY <1>2, <1>3, <2>2, ScoreHasPosts
<1>5. CASE a.kind = "spike"
  <2>1. Volume(g) # 0
    BY <1>3, <1>4, <1>5 DEF VolumeKinds
  <2>2. g # {}
    BY <2>1, NoPostsNoVolume
  <2>. QED BY <1>5, <2>2 DEF Backs
<1>6. CASE a.kind = "crisis"
  <2>1. ~ (10 * Volume(Negative(g)) < 6 * Volume(g))
    BY <1>1, <1>6 DEF Says, Crisis
  <2>2. Volume(g) > 0
    BY <1>4, <1>6 DEF VolumeKinds
  <2>3. Negative(g) # {}
    <3>1. SUFFICES ASSUME Negative(g) = {} PROVE FALSE
      OBVIOUS
    <3>2. Volume(Negative(g)) = 0
      BY <3>1, NoPostsNoVolume
    <3>. HIDE DEF g
    <3>. QED BY <1>3, <2>1, <2>2, <3>2
  <2>. QED BY <1>6, <2>3 DEF Backs
<1>7. CASE a.kind = "review_bomb"
  <2>. DEFINE reviews == Rated({b \in g : b.kind.source \in ReviewSources})
  <2>1. Volume(reviews) >= 5
    BY <1>1, <1>7 DEF Says, ReviewBomb
  <2>2. reviews \in SUBSET Rated(g) /\ Rated(g) \subseteq g
    BY DEF Rated
  <2>3. /\ Rated(g) \subseteq Bursts /\ IsFiniteSet(Rated(g))
        /\ reviews \subseteq Bursts /\ IsFiniteSet(reviews)
    BY <1>2, <2>2, FS_Subset
  <2>. HIDE DEF g, reviews
  <2>4. Volume(reviews) <= Volume(Rated(g))
    BY <2>2, <2>3, VolumeGrows
  <2>5. Volume(reviews) \in Nat /\ Volume(Rated(g)) \in Nat
    BY <2>3, VolumeInNat
  <2>6. Volume(Rated(g)) >= 5
    BY <2>1, <2>4, <2>5
  <2>. QED BY <1>7, <2>6 DEF Backs, g
<1>8. CASE a.kind = "influencer_mention"
  BY <1>1, <1>8 DEF Says, InfluencerMention, Backs, Negative
<1>9. CASE a.kind = "competitor_move"
  <2>. DEFINE rivals == {b \in g : b.kind.rival}
  <2>1. ZAtLeast(3, Volume(rivals), B)
    BY <1>1, <1>9 DEF Says, CompetitorMove
  <2>2. rivals \subseteq Bursts /\ IsFiniteSet(rivals)
    BY <1>2, FS_Subset
  <2>3. Volume(rivals) \in Nat
    BY <2>2, VolumeInNat
  <2>4. Volume(rivals) > 0
    <3>. HIDE DEF g, B, rivals
    <3>. QED BY <1>2, <2>1, <2>3, ScoreHasPosts
  <2>5. rivals # {}
    <3>. HIDE DEF rivals
    <3>1. Volume(rivals) # Volume({})
      BY <2>3, <2>4, NoPostsNoVolume
    <3>. QED BY <3>1
  <2>. QED BY <1>9, <2>5 DEF Backs
<1>. QED BY <1>0, <1>5, <1>6, <1>7, <1>8, <1>9

(* A volume alert of its own hour has history.                              *)
LEMMA RaisedHasHistory ==
    ASSUME NEW seen, seen \subseteq Bursts, IsFiniteSet(seen),
           posts \subseteq Bursts, IsFiniteSet(posts),
           NEW e, NEW a \in Evaluate(seen, e), a.kind \in VolumeKinds
    PROVE  \E b \in posts : b.kind.source = a.source /\ b.hour < e
<1>1. ZAtLeast(3, Volume(Group(seen, a)), Baseline(a.source, e))
  BY VolumeAlertScores
<1>2. Baseline(a.source, e) # {}
  BY <1>1, ScoreHasHistory
<1>. QED BY <1>2 DEF Baseline

-----------------------------------------------------------------------------
(* The invariant.                                                           *)

LEMMA InitDInv == Init => DInv
<1>. SUFFICES ASSUME Init PROVE DInv
  OBVIOUS
<1>1. /\ now = 1 /\ posts = {} /\ ends = {} /\ alerts = {}
  BY DEF Init
<1>2. 1 \in Hours
  BY DetectionAssumption DEF Hours
<1>3. IsFiniteSet(posts) /\ Cardinality(posts) <= MaxBursts
  BY <1>1, FS_EmptySet, DetectionAssumption
<1>. QED BY <1>1, <1>2, <1>3 DEF DInv, TypeOK, VolumeAlertsComeWithSpike,
              NoHistoryNoLiveSpike, RowsAreBacked

(* What the alerts promise stands while posts are only added.               *)
LEMMA AlertsStand ==
    ASSUME DInv, alerts' = alerts, posts \subseteq posts',
           posts' \subseteq Bursts, IsFiniteSet(posts')
    PROVE  (VolumeAlertsComeWithSpike /\ NoHistoryNoLiveSpike /\ RowsAreBacked)'
<1>1. VolumeAlertsComeWithSpike'
  BY DEF DInv, VolumeAlertsComeWithSpike
<1>2. NoHistoryNoLiveSpike'
  BY DEF DInv, NoHistoryNoLiveSpike
<1>3. ASSUME NEW a \in alerts
      PROVE  Backs(a, OfHour(posts', a.source, a.hour))
  <2>. DEFINE g == OfHour(posts, a.source, a.hour)
              more == OfHour(posts', a.source, a.hour)
  <2>1. a \in Alerts /\ Backs(a, g)
    BY BackingIs DEF DInv, TypeOK, RowsAreBacked
  <2>2. more \subseteq posts' /\ g \in SUBSET more
    BY DEF OfHour
  <2>3. more \subseteq Bursts /\ IsFiniteSet(more)
    BY <2>2, FS_Subset
  <2>. HIDE DEF g, more
  <2>4. Backs(a, more)
    BY <2>1, <2>2, <2>3, BackingGrows
  <2>. QED BY <2>4 DEF more
<1>4. (\A a : Backing(a) <=> Backs(a, OfHour(posts, a.source, a.hour)))'
  BY BackingIs, PTL
<1>5. \A a \in alerts' : Backing(a)'
  BY <1>3, <1>4
<1>6. RowsAreBacked'
  BY <1>5 DEF RowsAreBacked
<1>. QED BY <1>1, <1>2, <1>6

LEMMA TickDInv == DInv /\ Tick => DInv'
<1>. SUFFICES ASSUME DInv, Tick PROVE DInv'
  OBVIOUS
<1>1. /\ now' \in Hours /\ now <= now' /\ now \in Nat /\ now' \in Nat
      /\ UNCHANGED <<posts, ends, alerts>>
  BY DetectionAssumption DEF Tick, DInv, TypeOK, Hours
<1>2. TypeOK' /\ IsFiniteSet(posts')
  BY <1>1 DEF DInv, TypeOK
<1>3. posts' \subseteq Bursts /\ posts \subseteq posts'
  BY <1>1 DEF DInv, TypeOK
<1>. QED BY <1>1, <1>2, <1>3, AlertsStand DEF DInv

LEMMA BeginDInv == DInv /\ Begin => DInv'
<1>. SUFFICES ASSUME DInv, Begin PROVE DInv'
  OBVIOUS
<1>1. /\ ends' = ends \cup {now} /\ UNCHANGED <<now, posts, alerts>>
  BY DEF Begin
<1>2. now \in 1..now
  BY DetectionAssumption DEF DInv, TypeOK, Hours
<1>3. TypeOK' /\ IsFiniteSet(posts')
  BY <1>1, <1>2 DEF DInv, TypeOK
<1>4. posts' \subseteq Bursts /\ posts \subseteq posts'
  BY <1>1 DEF DInv, TypeOK
<1>. QED BY <1>1, <1>3, <1>4, AlertsStand DEF DInv

LEMMA CollectDInv == DInv /\ Collect => DInv'
<1>. SUFFICES ASSUME DInv, Collect PROVE DInv'
  OBVIOUS
<1>1. PICK b \in Bursts \ posts : posts' = posts \cup {b}
  BY DEF Collect
<1>2. Cardinality(posts) < MaxBursts /\ UNCHANGED <<now, ends, alerts>>
  BY DEF Collect
<1>3. IsFiniteSet(posts') /\ Cardinality(posts') = Cardinality(posts) + 1
  BY <1>1, FS_AddElement DEF DInv
<1>4. Cardinality(posts') <= MaxBursts
  <2>1. Cardinality(posts) \in Nat /\ MaxBursts \in Nat
    BY FS_CardinalityType, DetectionAssumption DEF DInv
  <2>. QED BY <1>2, <1>3, <2>1
<1>5. TypeOK'
  BY <1>1, <1>2, <1>4 DEF DInv, TypeOK
<1>6. posts' \subseteq Bursts /\ posts \subseteq posts'
  BY <1>1 DEF DInv, TypeOK
<1>. QED BY <1>2, <1>3, <1>5, <1>6, AlertsStand DEF DInv

LEMMA DetectDInv == ASSUME NEW e PROVE DInv /\ Detect(e) => DInv'
<1>. SUFFICES ASSUME DInv, Detect(e) PROVE DInv'
  OBVIOUS
<1>1. PICK seen \in SUBSET Window(e) : alerts' = Saved(Evaluate(seen, e))
  BY DEF Detect
<1>2. /\ e \in Hours /\ ends' \subseteq ends /\ UNCHANGED <<now, posts>>
      /\ posts \subseteq Bursts /\ IsFiniteSet(posts)
  BY DetectionAssumption DEF Detect, DInv, TypeOK, Hours
<1>3. seen \subseteq posts /\ seen \subseteq Bursts /\ IsFiniteSet(seen)
  <2>1. seen \subseteq posts
    BY DEF Window
  <2>. QED BY <1>2, <2>1, FS_Subset
<1>. DEFINE new == Evaluate(seen, e)
<1>4. /\ alerts \subseteq alerts'
      /\ \A a \in alerts' : a \in alerts \/ a \in new
      /\ \A a \in new : a \in alerts' \/ \E c \in alerts : SameKey(a, c)
  BY <1>1 DEF Saved
<1>5. \A a \in new : a \in Alerts /\ a.at = e
  BY <1>2, <1>3, RaisedIsAlert
<1>. HIDE DEF new
<1>6. TypeOK'
  BY <1>2, <1>4, <1>5 DEF DInv, TypeOK
<1>7. VolumeAlertsComeWithSpike'
  <2>1. ASSUME NEW a \in new, a.kind \in VolumeKinds
        PROVE  \E c \in alerts' : c.kind = "spike" /\ c.source = a.source /\ c.hour = a.hour
    <3>1. PICK c \in new : c.kind = "spike" /\ c.source = a.source /\ c.hour = a.hour
      BY <1>2, <1>3, <2>1, SpikeIsRaised DEF new
    <3>. QED BY <1>4, <3>1 DEF SameKey
  <2>. QED BY <1>4, <2>1 DEF DInv, VolumeAlertsComeWithSpike
<1>8. NoHistoryNoLiveSpike'
  <2>1. ASSUME NEW a \in new, a.kind \in VolumeKinds, a.at = a.hour
        PROVE  \E b \in posts : b.kind.source = a.source /\ b.hour < a.hour
    <3>1. a.hour = e
      BY <1>5, <2>1
    <3>. QED BY <1>2, <1>3, <2>1, <3>1, RaisedHasHistory DEF new
  <2>. QED BY <1>2, <1>4, <2>1 DEF DInv, NoHistoryNoLiveSpike
<1>9. RowsAreBacked'
  <2>1. ASSUME NEW a \in new PROVE Backs(a, OfHour(posts, a.source, a.hour))
    <3>. DEFINE g == Group(seen, a)
                more == OfHour(posts, a.source, a.hour)
    <3>1. Backs(a, g)
      BY <1>2, <1>3, RaisedIsBacked DEF new
    <3>2. g \in SUBSET more /\ more \subseteq posts
      BY <1>3 DEF Group, OfHour
    <3>3. more \subseteq Bursts /\ IsFiniteSet(more)
      BY <1>2, <3>2, FS_Subset
    <3>. HIDE DEF g, more
    <3>4. Backs(a, more)
      BY <1>5, <3>1, <3>2, <3>3, BackingGrows
    <3>. QED BY <3>4 DEF more
  <2>2. \A a \in alerts : Backs(a, OfHour(posts, a.source, a.hour))
    BY BackingIs DEF DInv, RowsAreBacked
  <2>3. \A a \in alerts' : Backs(a, OfHour(posts, a.source, a.hour))
    BY <1>4, <2>1, <2>2
  <2>4. (\A a : Backing(a) <=> Backs(a, OfHour(posts, a.source, a.hour)))'
    BY BackingIs, PTL
  <2>5. \A a \in alerts' : Backing(a)'
    BY <1>2, <2>3, <2>4
  <2>. QED BY <2>5 DEF RowsAreBacked
<1>. QED BY <1>2, <1>6, <1>7, <1>8, <1>9 DEF DInv

(* DInv holds in every reachable state.                                     *)
THEOREM Invariance == Spec => []DInv
<1>1. Init => DInv
  BY InitDInv
<1>2. DInv /\ [Next]_vars => DInv'
  <2>. SUFFICES ASSUME DInv, [Next]_vars PROVE DInv'
    OBVIOUS
  <2>1. CASE Tick
    BY <2>1, TickDInv
  <2>2. CASE Begin
    BY <2>2, BeginDInv
  <2>3. CASE Collect
    BY <2>3, CollectDInv
  <2>4. ASSUME NEW e \in ends, Detect(e) PROVE DInv'
    BY <2>4, DetectDInv
  <2>5. CASE UNCHANGED vars
    <3>1. UNCHANGED <<now, posts, ends, alerts>>
      BY <2>5 DEF vars
    <3>2. TypeOK' /\ IsFiniteSet(posts')
      BY <3>1 DEF DInv, TypeOK
    <3>3. posts' \subseteq Bursts /\ posts \subseteq posts'
      BY <3>1 DEF DInv, TypeOK
    <3>. QED BY <3>1, <3>2, <3>3, AlertsStand DEF DInv
  <2>. QED BY <2>1, <2>2, <2>3, <2>4, <2>5 DEF Next
<1>. QED BY <1>1, <1>2, PTL DEF Spec

-----------------------------------------------------------------------------
(* The theorems.                                                            *)

(* The tables keep their types, whatever the detector raises.               *)
THEOREM TypeCorrect == Spec => []TypeOK
<1>1. DInv => TypeOK
  BY DEF DInv
<1>. QED BY <1>1, Invariance, PTL

(* No crisis and no competitor's move without the spike of its source-hour: *)
(* what scores in part scores as a whole, for any counts and any baseline   *)
(* (ruleSpike, ruleCrisis, ruleCompetitorMove, SaveAlerts).                 *)
THEOREM CrisesComeWithSpikes == Spec => []VolumeAlertsComeWithSpike
<1>1. DInv => VolumeAlertsComeWithSpike
  BY DEF DInv
<1>. QED BY <1>1, Invariance, PTL

(* No volume alert in its own hour without posts of earlier hours: a        *)
(* baseline of nothing but quiet hours has no deviation                     *)
(* (ComputeBaseline, ZScore).                                               *)
THEOREM SpikesHaveHistory == Spec => []NoHistoryNoLiveSpike
<1>1. DInv => NoHistoryNoLiveSpike
  BY DEF DInv
<1>. QED BY <1>1, Invariance, PTL

(* What a row says of its source-hour is in the table, whatever part of the *)
(* window was read by the execution that came first (rules.go).             *)
THEOREM AlertsAreBacked == Spec => []RowsAreBacked
<1>1. DInv => RowsAreBacked
  BY DEF DInv
<1>. QED BY <1>1, Invariance, PTL
=============================================================================
