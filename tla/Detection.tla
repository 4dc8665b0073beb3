------------------------------ MODULE Detection ------------------------------
(***************************************************************************)
(* When an alert is raised: bp-detector's five rules                       *)
(* (agents/bp-detector/rules.go) over the window an execution reads, set   *)
(* against the baseline of the 14 days before                              *)
(* (internal/stats/baseline.go, stats.go), and the alerts table that keeps *)
(* the first sighting of a source-hour (store.go, SaveAlerts).             *)
(*                                                                         *)
(* Time is counted in hours.  Posts come in bursts: some posts of one kind *)
(* on one source in one hour.  z-scores are compared exactly: with S the   *)
(* sum and Q the sum of squares of N hourly counts,                        *)
(*     (v - mean) / std  =  (N*v - S) / sqrt(N*Q - S*S).                   *)
(***************************************************************************)
EXTENDS Integers, FiniteSets, Functions

CONSTANTS
    PostKinds,      \* [source, negative, rival, stars, loud, enriched]:
                    \* stars is 0 for no rating, loud is influencerFollowers
                    \* or more, not enriched is stored without a verdict
    ReviewSources,  \* Source.IsReviewSource
    BaselineHours,  \* baselineDays * 24
    WindowHours,    \* RunInput.WindowHours
    Sizes,          \* bound: posts in a burst
    MaxBursts,      \* bound: bursts
    MaxHour         \* bound: the clock

ASSUME DetectionAssumption ==
    /\ PostKinds \subseteq [source : STRING, negative : BOOLEAN, rival : BOOLEAN,
                            stars : 0..5, loud : BOOLEAN, enriched : BOOLEAN]
    /\ \A k \in PostKinds : k.stars # 0 => k.source \in ReviewSources
    /\ MaxHour \in Nat \ {0}
    /\ {BaselineHours, WindowHours, MaxBursts} \subseteq Nat
    /\ MaxHour < BaselineHours
    /\ Sizes \subseteq Nat \ {0}

VARIABLES
    now,    \* the hour the clock is in
    posts,  \* the bursts in the mentions table
    ends,   \* the hours in which the windows of executions at work end
    alerts  \* the alerts table

vars == <<now, posts, ends, alerts>>

Hours == 1..MaxHour
Bursts == [kind : PostKinds, hour : Hours, size : Sizes]
Sources == {k.source : k \in PostKinds}
VolumeKinds == {"spike", "crisis", "competitor_move"}
Alerts ==
    [kind : VolumeKinds \cup {"review_bomb", "influencer_mention"},
     source : Sources, hour : Hours,
     severity : {"low", "medium", "high", "critical"},
     at : Hours]  \* created_at, the hour of the window's end

TypeOK ==
    /\ now \in Hours
    /\ posts \subseteq Bursts
    /\ Cardinality(posts) <= MaxBursts
    /\ ends \subseteq 1..now
    /\ alerts \subseteq Alerts

Init ==
    /\ now = 1
    /\ posts = {}
    /\ ends = {}
    /\ alerts = {}

-----------------------------------------------------------------------------
(* Groups.  A group is a set of bursts, of one source and hour.             *)

Volume(g) == SumFunction([b \in g |-> b.size])
OfHour(B, s, h) == {b \in B : b.kind.source = s /\ b.hour = h}
Negative(g) == {b \in g : b.kind.negative}

(* ratedMean: a post without a rating is no review.                         *)
Rated(g) == {b \in g : b.kind.stars # 0}
Stars(g) == SumFunction([b \in Rated(g) |-> b.size * b.kind.stars])

-----------------------------------------------------------------------------
(* The baseline.                                                            *)

(* Mutant: the window ends at now, with the hour being measured in it.      *)
BaselineIncludingNow(s, e) == {b \in posts : b.kind.source = s /\ b.hour <= e}

(* hourlyCountsPerSource: every mention, with a verdict or not, before the  *)
(* hour of the window's end.                                                *)
Baseline(s, e) == {b \in posts : b.kind.source = s /\ b.hour < e}

(* hourlyZScore >= k for v posts.  padWithQuietHours counts a zero for      *)
(* every hour without posts; ZScore is 0, so below any k, if std is 0.      *)
ZAtLeast(k, v, B) ==
    LET count(h) == Volume({b \in B : b.hour = h})
        N == BaselineHours
        S == Volume(B)
        Q == SumFunction([h \in {b.hour : b \in B} |-> count(h) * count(h)])
        D == N * Q - S * S
        above == N * v - S
    IN  D > 0 /\ above > 0 /\ above * above >= k * k * D

-----------------------------------------------------------------------------
(* The rules: what each makes of the group g of a source and hour, for a    *)
(* baseline B.  A rule that does not fire has no severity.                  *)

Spike(g, B) ==
    IF ~ ZAtLeast(3, Volume(g), B) THEN {}
    ELSE IF ZAtLeast(5, Volume(g), B) THEN {"high"} ELSE {"medium"}

(* Mutant: a negative surge at any volume.                                  *)
CrisisAtAnyVolume(g, B) ==
    IF 10 * Volume(Negative(g)) < 6 * Volume(g) \/ g = {} THEN {}
    ELSE IF 10 * Volume(Negative(g)) >= 8 * Volume(g) THEN {"critical"} ELSE {"high"}

(* Shares of 0.6 and 0.8.                                                   *)
Crisis(g, B) ==
    IF ~ ZAtLeast(3, Volume(g), B) \/ 10 * Volume(Negative(g)) < 6 * Volume(g) THEN {}
    ELSE IF 10 * Volume(Negative(g)) >= 8 * Volume(g) THEN {"critical"} ELSE {"high"}

(* Five reviews with a mean of at most two stars.                           *)
ReviewBomb(g, B) ==
    LET reviews == Rated({b \in g : b.kind.source \in ReviewSources})
    IN  IF Volume(reviews) >= 5 /\ Stars(reviews) <= 2 * Volume(reviews)
        THEN {"high"} ELSE {}

InfluencerMention(g, B) ==
    LET influencers == {b \in g : b.kind.loud}
    IN  IF influencers = {} THEN {}
        ELSE IF Negative(influencers) # {} THEN {"high"} ELSE {"medium"}

(* Scored against the same baseline as the spike, the only one there is.    *)
CompetitorMove(g, B) ==
    IF ZAtLeast(3, Volume({b \in g : b.kind.rival}), B) THEN {"low"} ELSE {}

-----------------------------------------------------------------------------
(* Mutant: the key has the hour of the detection.                           *)
AlertByNow(kind, s, h, e, severities) ==
    {[kind |-> kind, source |-> s, hour |-> e, severity |-> x, at |-> e] :
        x \in severities}

(* newAlert: its dedupe key is kind:source:hour of the group.               *)
Alert(kind, s, h, e, severities) ==
    {[kind |-> kind, source |-> s, hour |-> h, severity |-> x, at |-> e] :
        x \in severities}

(* Evaluate: every rule over every group of groupBySourceHour.              *)
Evaluate(seen, e) ==
    UNION {LET s == b.kind.source
               h == b.hour
               g == OfHour(seen, s, h)
               B == Baseline(s, e)
           IN  Alert("spike", s, h, e, Spike(g, B))
               \cup Alert("crisis", s, h, e, Crisis(g, B))
               \cup Alert("review_bomb", s, h, e, ReviewBomb(g, B))
               \cup Alert("influencer_mention", s, h, e, InfluencerMention(g, B))
               \cup Alert("competitor_move", s, h, e, CompetitorMove(g, B)) :
           b \in seen}

SameKey(a, b) == a.kind = b.kind /\ a.source = b.source /\ a.hour = b.hour

(* SaveAlerts: ON CONFLICT (brand_id, dedupe_key) DO NOTHING.               *)
Saved(new) == alerts \cup {a \in new : \A b \in alerts : ~ SameKey(a, b)}

-----------------------------------------------------------------------------
Tick ==
    /\ now < MaxHour
    /\ now' = now + 1
    /\ UNCHANGED <<posts, ends, alerts>>

(* Mutant: the window's end is rounded up to the hour.                      *)
BeginRoundedUp ==
    /\ ends' = ends \cup {now + 1}
    /\ ends' # ends
    /\ UNCHANGED <<now, posts, alerts>>

(* An execution starts: its window ends now.  Executions with the same hour *)
(* differ in what they read, which Detect leaves open.                      *)
Begin ==
    /\ ends' = ends \cup {now}
    /\ ends' # ends
    /\ UNCHANGED <<now, posts, alerts>>

(* Some execution collects and stores a burst, of this hour or, when it is  *)
(* found late, of an earlier one; with a verdict or without.                *)
Collect ==
    /\ Cardinality(posts) < MaxBursts
    /\ \E b \in Bursts \ posts :
          /\ b.hour <= now
          /\ posts' = posts \cup {b}
    /\ UNCHANGED <<now, ends, alerts>>

(* EnrichedInWindow reads bursts with a verdict that are in the window; not *)
(* those before its first or after its last minute, nor those that were     *)
(* stored since, nor, if the read failed, what other executions stored.     *)
Window(e) == {b \in posts : b.kind.enriched /\ b.hour \in (e - WindowHours)..e}

(* The rest of an execution: what it read is evaluated against a baseline   *)
(* that is computed from the table as it is now, and saved.                 *)
Detect(e) ==
    /\ e \in ends
    /\ \E seen \in SUBSET Window(e) : alerts' = Saved(Evaluate(seen, e))
    /\ ends' = ends \ {e}
    /\ UNCHANGED <<now, posts>>

Next ==
    \/ Tick
    \/ Begin
    \/ Collect
    \/ \E e \in ends : Detect(e)

Spec == Init /\ [][Next]_vars

-----------------------------------------------------------------------------
(* Properties.                                                              *)

(* A crisis and a competitor's move are scored over part of a source-hour   *)
(* or under a further condition, against the baseline of the spike, so the  *)
(* table never has one of them without the spike of that source-hour, one   *)
(* that was raised no later, whichever executions came first.               *)
VolumeAlertsComeWithSpike ==
    \A a \in alerts : a.kind \in VolumeKinds =>
        \E b \in alerts : /\ b.kind = "spike"
                          /\ b.source = a.source /\ b.hour = a.hour

(* internal/stats/baseline.go: the window ends at the start of the hour     *)
(* containing now.  So no volume alert is raised within its own hour on a   *)
(* source that had no posts in earlier hours, however loud the hour is.     *)
NoHistoryNoLiveSpike ==
    \A a \in alerts : a.kind \in VolumeKinds /\ a.at = a.hour =>
        \E b \in posts : b.kind.source = a.source /\ b.hour < a.hour

(* What a row says of its source-hour is in the table: the row of a crisis  *)
(* has negative posts behind it, that of a review bomb five ratings, of an  *)
(* influencer a loud post, negative if it is rated high; whatever part of   *)
(* the window the execution that came first has read.                       *)
Backing(a) ==
    LET g == OfHour(posts, a.source, a.hour)
    IN  CASE a.kind = "spike" -> g # {}
          [] a.kind = "crisis" -> Negative(g) # {}
          [] a.kind = "review_bomb" -> Volume(Rated(g)) >= 5
          [] a.kind = "influencer_mention" ->
                 \E b \in g : b.kind.loud /\ (a.severity = "high" => b.kind.negative)
          [] a.kind = "competitor_move" -> \E b \in g : b.kind.rival
RowsAreBacked == \A a \in alerts : Backing(a)

=============================================================================
