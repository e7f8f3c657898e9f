------------------------------ MODULE Insights ------------------------------
(***************************************************************************)
(* What is made of numbers that were fetched: the topics of the trend feeds,  *)
(* the rivals of a client, and the brief and the report on its own posts. A  *)
(* behaviour is one sample, which does not change.                          *)
(***************************************************************************)
EXTENDS Lists

CONSTANTS Feeds,     \* what the sources return: lists of items, or Failed
          Failed,
          Name,      \* topics of items, texts of posts
          NoName,    \* an item without a name, a post without a text
          Niches,    \* sets of topics that the niche and keywords occur in
          Channels,  \* rivals' channels, each a sequence of posts
          Posts,     \* lists of a client's published posts
          TopN,      \* posts and pillars that are singled out
          GrowthParts, RateParts  \* growth and rates are counted in these parts of 1

\* rank: a hashtag's place by TikTok's own count, 0 for none.
Entry == [topic : Name \cup {NoName}, volume : Nat, rank : Nat]
RivalPost == [views : Nat, reactions : Nat]
ClientPost == [platform : STRING, text : Name \cup {NoName}, likes : Nat, impressions : Nat]

\* The parts are fine enough for every growth and rate to be a whole number of them.
\* There are such parts of any finite set of samples: a common multiple of what is divided by
\* does. They choose the unit that fractions are counted in, and leave out no sample.
ASSUME NamesAssumption == NoName \notin Name /\ Failed \notin Seq(Entry)
ASSUME PartsAssumption ==
  TopN \in Nat \ {0} /\ GrowthParts \in Nat \ {0} /\ RateParts \in Nat \ {0}
ASSUME FeedsAssumption ==
  /\ Feeds \subseteq Seq(Seq(Entry) \cup {Failed})
  /\ \A feeds \in Feeds : \A k \in DOMAIN feeds :
       feeds[k] # Failed /\ Len(feeds[k]) > 1 => GrowthParts % (Len(feeds[k]) - 1) = 0
ASSUME ChannelsAssumption ==
  /\ Channels \subseteq Seq(Seq(RivalPost))
  /\ \A channels \in Channels : \A k \in DOMAIN channels : \A p \in ToSet(channels[k]) :
       (RateParts * p.reactions) % (IF p.views > 1 THEN p.views ELSE 1) = 0
ASSUME PostsAssumption == Posts \subseteq Seq(ClientPost)

VARIABLE insight   \* what is looked at

Each(s, F(_)) == [k \in DOMAIN s |-> F(s[k])]

----------------------------------------------------------------------------
(* Trends. Scores are counted in hundredths.                                 *)

ByPosition(total, place) ==
  IF total > 1 THEN (GrowthParts * (total - place)) \div (total - 1) ELSE GrowthParts

\* TikTok's own rank goes before the position in its list.
PlaceIn(items, k) == IF items[k].rank > 0 THEN Min({items[k].rank, Len(items)}) ELSE k

\* The first is the one that rises most; what has no name is dropped, but for
\* Google's, which all go by one name.
Observations(items) ==
  LET all == [k \in DOMAIN items |-> [topic |-> items[k].topic, volume |-> items[k].volume,
                                      growth |-> ByPosition(Len(items), PlaceIn(items, k))]]
  IN AllKept(all, {o \in ToSet(all) : o.topic # NoName})

OfNiche(observations, niche) ==
  LET matched == AllKept(observations, {o \in ToSet(observations) : o.topic \in niche})
  IN IF matched # <<>> THEN matched ELSE observations

\* Mutant: the first that is said of a topic counts.
WithFirst(feed, o) ==
  IF \E k \in DOMAIN feed : feed[k].topic = o.topic THEN feed ELSE Append(feed, o)

\* A topic that is in the feed gets the larger volume and the larger growth.
WithObservation(feed, o) ==
  IF \E k \in DOMAIN feed : feed[k].topic = o.topic
  THEN [k \in DOMAIN feed |->
         IF feed[k].topic # o.topic THEN feed[k]
         ELSE [feed[k] EXCEPT !.volume = Max({@, o.volume}), !.growth = Max({@, o.growth})]]
  ELSE Append(feed, o)

MergeObservations(observations) ==
  LET merged[k \in 0 .. Len(observations)] ==
        IF k = 0 THEN <<>> ELSE WithObservation(merged[k - 1], observations[k])
  IN merged[Len(observations)]

Succeeded(feeds) == AllKept(feeds, ToSet(feeds) \ {Failed})

\* When none of the sources succeeds the sweep fails.
CombineSources(feeds, niche) ==
  LET lists == Succeeded(feeds)
      said[k \in 0 .. Len(lists)] ==
        IF k = 0 THEN <<>> ELSE said[k - 1] \o OfNiche(Observations(lists[k]), niche)
  IN MergeObservations(said[Len(lists)])

Clamp(n, low, high) == Min({high, Max({low, n})})

\* 60 for the size of the feed's largest, and 40 for a growth of two or more.
ScoreOf(o, maxVolume) ==
  LET most == 3 * GrowthParts
      momentum == Clamp(GrowthParts + o.growth, 0, most)
      raw == IF maxVolume = 0 THEN Rounded(4000 * momentum, most)
             ELSE Rounded(6000 * most * o.volume + 4000 * momentum * maxVolume, most * maxVolume)
  IN Clamp(raw, 0, 10000)

SignalsOf(observations) ==
  LET maxVolume == Max({0} \cup {o.volume : o \in ToSet(observations)})
  IN Each(observations, LAMBDA o :
       [topic |-> o.topic, volume |-> o.volume, growth |-> o.growth, score |-> ScoreOf(o, maxVolume)])

\* Mutant: topics are ranked by their size alone.
RankBySize(observations) ==
  LET signals == SignalsOf(observations)
      volumes == [k \in DOMAIN signals |-> signals[k].volume]
  IN Sorted(signals, volumes, volumes)

RankTrends(observations) ==
  LET signals == SignalsOf(observations)
  IN Sorted(signals, [k \in DOMAIN signals |-> signals[k].score], [k \in DOMAIN signals |-> signals[k].volume])

----------------------------------------------------------------------------
(* Rivals.                                                                  *)

\* How many parts of one reaction a view has led to.
RateOf(post) == (RateParts * post.reactions) \div (IF post.views > 1 THEN post.views ELSE 1)

EngagementRate(posts) ==   \* in ten-thousandths
  IF posts = <<>> THEN 0 ELSE Rounded(10000 * SumFunction(Each(posts, RateOf)), RateParts * Len(posts))

AvgViews(posts) ==
  IF posts = <<>> THEN 0 ELSE Rounded(SumFunction(Each(posts, LAMBDA p : p.views)), Len(posts))

\* Mutant: the reactions of all posts over the views of all.
MetricsPooled(name, posts) ==
  [name |-> name, rate |-> Rounded(10000 * SumFunction(Each(posts, LAMBDA p : p.reactions)),
                                   Max({SumFunction(Each(posts, LAMBDA p : p.views)), 1})),
   views |-> AvgViews(posts)]

ComputeMetrics(name, posts) ==
  [name |-> name, rate |-> EngagementRate(posts), views |-> AvgViews(posts)]

MetricsOf(rivals) == [k \in DOMAIN rivals |-> ComputeMetrics(k, rivals[k])]

RankByEngagement(metrics) ==
  Sorted(metrics, [k \in DOMAIN metrics |-> metrics[k].rate], [k \in DOMAIN metrics |-> metrics[k].views])

----------------------------------------------------------------------------
(* A client's own posts.                                                    *)

\* In thousandths. Comments and shares weigh as more likes do.
EngagementScore(post) == 1000 * post.likes + post.impressions

\* The best first.
Ranked(posts) ==
  LET scores == [k \in DOMAIN posts |-> EngagementScore(posts[k])]
  IN Sorted(posts, scores, scores)

Told(posts) == AllKept(posts, {p \in ToSet(posts) : p.text # NoName})
Top(posts) == SubSeq(posts, 1, Min({TopN, Len(posts)}))

WithText(texts, p) ==
  IF p.text = NoName \/ p.text \in ToSet(texts) \/ Len(texts) >= TopN THEN texts ELSE Append(texts, p.text)

\* Mutant: pillars are looked for among the best posts only.
TopDistinctOfBest(ranked) ==
  LET out[k \in 0 .. Len(Top(ranked))] == IF k = 0 THEN <<>> ELSE WithText(out[k - 1], ranked[k])
  IN out[Len(Top(ranked))]

TopDistinct(ranked) ==
  LET out[k \in 0 .. Len(ranked)] == IF k = 0 THEN <<>> ELSE WithText(out[k - 1], ranked[k])
  IN out[Len(ranked)]

\* Nothing is made of no posts at all.
SummarizePerformance(posts) ==
  [topPillars |-> TopDistinct(Ranked(posts)), sampleSize |-> Len(posts), highlights |-> Top(Told(Ranked(posts)))]

\* Of the posts at some places in the list.
Rollup(posts, places) ==
  [posts |-> Cardinality(places),
   likes |-> SumFunctionOnSet(Each(posts, LAMBDA p : p.likes), places),
   impressions |-> SumFunctionOnSet(Each(posts, LAMBDA p : p.impressions), places)]

\* Mutant: only posts with a text are counted on their platform.
OnPlatformTold(posts, platform) == {k \in DOMAIN posts : posts[k].platform = platform /\ posts[k].text # NoName}

OnPlatform(posts, platform) == {k \in DOMAIN posts : posts[k].platform = platform}

BuildReport(posts) ==
  LET platforms == SetToSeq({p.platform : p \in ToSet(posts)})
      rows == Each(platforms, LAMBDA a : Rollup(posts, OnPlatform(posts, a)))
      sizes == [k \in DOMAIN rows |-> rows[k].impressions]
  IN [totals |-> Rollup(posts, DOMAIN posts), byPlatform |-> Sorted(rows, sizes, sizes),
      topPosts |-> Top(Ranked(Told(posts)))]

InsightsInit ==
  insight \in [feeds : Feeds, niche : Niches] \cup [rivals : Channels] \cup [posts : Posts]

InsightsNext == UNCHANGED insight
InsightsSpec == InsightsInit /\ [][InsightsNext]_insight

----------------------------------------------------------------------------
(* Properties.                                                              *)

IsTrends == DOMAIN insight = {"feeds", "niche"}
IsRivals == DOMAIN insight = {"rivals"}
IsPosts == DOMAIN insight = {"posts"}

\* trend/google-trends.ts:75: "a sweep is never empty": where a source that
\* succeeds has a topic there is a feed, of one row for each topic, with the
\* strongest volume and growth that any of the sources gives it; and where the
\* niche is met in every source, of its topics only. (combineSources)
FeedIsStrongest ==
  IsTrends =>
    LET lists == {Observations(f) : f \in ToSet(Succeeded(insight.feeds))}
        said == UNION {ToSet(OfNiche(l, insight.niche)) : l \in lists}
        feed == CombineSources(insight.feeds, insight.niche)
    IN /\ (\E l \in lists : l # <<>>) => feed # <<>>
       /\ \A j, k \in DOMAIN feed : feed[j].topic = feed[k].topic => j = k
       /\ {o.topic : o \in ToSet(feed)} = {o.topic : o \in said}
       /\ \A o \in ToSet(feed) :
            LET same == {s \in said : s.topic = o.topic}
            IN o.volume = Max({s.volume : s \in same}) /\ o.growth = Max({s.growth : s \in same})
       /\ (\A l \in lists : \E o \in ToSet(l) : o.topic \in insight.niche) =>
            {o.topic : o \in ToSet(feed)} \subseteq insight.niche

\* A topic that is at least as large and grows at least as fast as another does
\* not rank below it, unless they are equals; scores are between 0 and 100.
\* (trend/metrics.ts)
LargerAndFasterRanksFirst ==
  IsTrends =>
    LET ranked == RankTrends(CombineSources(insight.feeds, insight.niche))
    IN \A j, k \in DOMAIN ranked :
         /\ 0 <= ranked[j].score /\ ranked[j].score <= 10000
         /\ j < k /\ ranked[k].volume >= ranked[j].volume /\ ranked[k].growth >= ranked[j].growth
              => ranked[k].score = ranked[j].score /\ ranked[k].volume = ranked[j].volume

\* Every post of one channel has led to more reactions by the view than any of the
\* other, by some ten-thousandths of a part at least.
Outdoes(better, worse, margin) ==
  /\ better # <<>> /\ worse # <<>>
  /\ \A p \in ToSet(better), q \in ToSet(worse) : 10000 * RateOf(p) >= 10000 * RateOf(q) + margin

\* However often each of them posts, a rival each of whose posts engages better than
\* any of another's, by a ten-thousandth, ranks above it. One whose posts merely engage
\* better ranks above it, or both show one rate, which is rounded before the ranking,
\* and the other is viewed no less. (competitor/metrics.ts:15-24, 58-64)
BetterPostsRankFirst ==
  IsRivals =>
    LET rivals == insight.rivals
        ranked == RankByEngagement(MetricsOf(rivals))
        Above(j, k) == \E m, n \in DOMAIN ranked : m < n /\ ranked[m].name = j /\ ranked[n].name = k
    IN \A j, k \in DOMAIN rivals :
         /\ Outdoes(rivals[j], rivals[k], RateParts) => Above(j, k)
         /\ Outdoes(rivals[j], rivals[k], 1) =>
              \/ Above(j, k)
              \/ /\ EngagementRate(rivals[j]) = EngagementRate(rivals[k])
                 /\ AvgViews(rivals[k]) >= AvgViews(rivals[j])

\* The score of the best post with a text.
BestScore(posts, t) == Max({EngagementScore(p) : p \in {q \in ToSet(posts) : q.text = t}})

\* The planner learns from the best: no pillar that is left out has a better post
\* than one that is named, and pillars are left out only where there are too many.
\* (summarizePerformance)
BriefNamesTheBest ==
  IsPosts =>
    LET named == SummarizePerformance(insight.posts).topPillars
        left == {p.text : p \in ToSet(insight.posts)} \ (ToSet(named) \cup {NoName})
    IN /\ IsInjective(named) /\ NoName \notin ToSet(named)
       /\ left # {} => Len(named) = TopN
       /\ \A t \in ToSet(named), u \in left : BestScore(insight.posts, t) >= BestScore(insight.posts, u)

\* The rows of a report add up to its totals, and no post that it leaves out did
\* better than one that it shows. (buildReport)
ReportAddsUp ==
  IsPosts =>
    LET report == BuildReport(insight.posts)
        rows == report.byPlatform
        shown == report.topPosts
        told == Told(insight.posts)
    IN /\ report.totals = [posts |-> SumFunction(Each(rows, LAMBDA r : r.posts)),
                           likes |-> SumFunction(Each(rows, LAMBDA r : r.likes)),
                           impressions |-> SumFunction(Each(rows, LAMBDA r : r.impressions))]
       /\ Len(shown) = Min({TopN, Len(told)})
       /\ \A p \in ToSet(told) \ ToSet(shown), q \in ToSet(shown) : EngagementScore(p) <= EngagementScore(q)

\* What is stronger is told first, where rounding shows it to be, and nothing that was
\* measured gets lost.
BestComesFirst ==
  FeedIsStrongest /\ LargerAndFasterRanksFirst /\ BetterPostsRankFirst
    /\ BriefNamesTheBest /\ ReportAddsUp
=============================================================================
