------------------------------ MODULE MCStudios ------------------------------
(***************************************************************************)
(* Small instances of what makes content, posts it and sums up what came of  *)
(* it. The components share no state here, so a behaviour exercises one.     *)
(***************************************************************************)
EXTENDS Studio, Publishers, Drafting, Insights, ComplianceRules, TLC

CONSTANTS t1, t2

\* Lists of at most n elements of S.
Upto(n, S) == UNION {[1 .. k -> S] : k \in 0 .. n}

\* Entries of a plan on the first days, the last and the one after, on a platform
\* that can be planned for and one that cannot, and one that is not whole.
SomeEntries ==
  Upto(4, [day : {1, 2, 60, 61}, platform : {"linkedin"}, whole : {TRUE}]
            \cup {[day |-> 1, platform |-> "x", whole |-> TRUE], [day |-> 1, platform |-> "linkedin", whole |-> FALSE]})
SomePlatforms == {<<>>, <<"x">>, <<"linkedin">>, <<"x", "linkedin">>, <<"linkedin", "youtube">>}
SomeWords == Upto(3, {1, 2, 7}) \ {<<>>}

SomeNames == {t1, t2}

\* Feeds of up to three topics, from one source or two, some with ranks of their own,
\* one of them beyond the list.
Fed(n) == Upto(n, [topic : {t1, t2}, volume : {0, 3}, rank : {0}]
                    \cup [topic : {t1, t2}, volume : {1}, rank : {1, 5}]
                    \cup {[topic |-> NoName, volume |-> 3, rank |-> 0]})
SomeFeeds == {<<f>> : f \in Fed(3)} \cup [1 .. 2 -> Fed(2) \cup {Failed}]
SomeNiches == {{}, {t1}, {t1, t2}}

\* Channels of up to two posts, with rates that are rounded to one another among them,
\* and lists of up to three posts of the client's.
SomeChannels == [1 .. 2 -> Upto(2, [views : {0, 4, 10000, 20000}, reactions : {0, 1, 2}])]
SomePosts == Upto(3, [platform : {"linkedin", "youtube"}, text : {t1, t2, NoName}, likes : {0, 1}, impressions : {0, 2000}])

TextWords == {"#ad", "#adventure", "affiliate", "secure", "cure"}
Found == [w \in TextWords |-> CASE w = "#adventure" -> {"#adventure", "#ad"}
                                [] w = "secure" -> {"secure", "cure"} [] OTHER -> {w}]
Short == [p \in {"x", "linkedin"} |-> IF p = "x" THEN 2 ELSE 4]
Few == [p \in {"x", "linkedin"} |-> IF p = "x" THEN 1 ELSE 0]

Interchangeable == Permutations(Slot)

\* What the rules are not asked about.
NoText == [platforms |-> {}, length |-> 0, hashtags |-> 0, words |-> {}]
NoRule == [enabled |-> TRUE, bannedTerms |-> {}, requireDisclosure |-> FALSE, disclosureTags |-> {"#ad"}]

VARIABLE part   \* the component that moves

\* What does not move starts in one state only.
StudiosInit ==
  /\ part \in {"studio", "publishers", "drafting", "insights", "rules"}
  /\ StudioInit /\ PublishersInit
  /\ IF part = "drafting" THEN DraftingInit ELSE draft = [none |-> 0]
  /\ IF part = "insights" THEN InsightsInit ELSE insight = [none |-> 0]
  /\ IF part = "rules" THEN RulesInit ELSE text = NoText /\ rules = NoRule

StudiosNext ==
  /\ UNCHANGED part
  /\ (part = "studio" /\ StudioNext) \/ UNCHANGED studioVars
  /\ (part = "publishers" /\ PublishersNext) \/ UNCHANGED publisherVars
  /\ DraftingNext /\ InsightsNext /\ RulesNext

StudiosSpec ==
  StudiosInit /\ [][StudiosNext]_<<part, studioVars, publisherVars, draft, insight, text, rules>>

\* Types of what is saved, logged and posted, and of what runs keep across awaits.
StudiosTypeOK == StudioTypeOK /\ PublishersTypeOK
=============================================================================
