------------------------------ MODULE Drafting ------------------------------
(***************************************************************************)
(* The arithmetic of a draft: the days and platforms of a plan, the items    *)
(* that are taken over from a model's answer, and how long each scene of a   *)
(* video is shown. A behaviour is one sample, which does not change.         *)
(***************************************************************************)
EXTENDS Lists

CONSTANTS AskedDays,   \* days a caller may ask for
          AskedFor,    \* lists of platforms a caller may ask for
          Answers,     \* arrays a model may answer
          Words,       \* words of each scene's narration, scene by scene
          AskedSeconds \* seconds of narration, or those a caller asks for

\* PlanItemSchema wants days from 1 on; wordCount is never 0, nor are there
\* scripts without scenes.
ASSUME DraftingAssumption ==
  /\ AskedDays \subseteq Int
  /\ AskedFor \subseteq Seq(STRING)
  /\ Answers \subseteq Seq([day : Int, platform : STRING, whole : BOOLEAN])
  /\ \A answer \in Answers : \A k \in DOMAIN answer : answer[k].whole => answer[k].day >= 1
  /\ Words \subseteq Seq(Nat \ {0}) \ {<<>>}
  /\ AskedSeconds \subseteq Int

VARIABLE draft   \* what is drafted, and from what

PlanPlatforms == {"linkedin", "meta_ig", "meta_fb", "youtube"}
DefaultDays == 30
MostDays == 60

\* Mutant: the calendar has no longest size.
ClampDaysBelow(n) == IF n < 1 THEN DefaultDays ELSE n

\* Nothing, or anything that is not a whole number, is 0 here.
ClampDays(n) == IF n < 1 THEN DefaultDays ELSE Min({n, MostDays})

SafePlatforms(asked) ==
  LET platforms == IF asked = <<>> THEN <<"linkedin">> ELSE asked
  IN AllKept(platforms, PlanPlatforms)

\* "whole": the entry has every field, and each is of its type.
Usable(entries, days, platforms) ==
  {e \in ToSet(entries) : e.whole /\ e.day <= days /\ e.platform \in ToSet(platforms)}

MaxItems(days, platforms) == days * Len(platforms)

\* Mutant: the limit is on the entries, not on the items.
ParsePlanPrefix(entries, days, platforms) ==
  LET first == SubSeq(entries, 1, Min({Len(entries), MaxItems(days, platforms)}))
  IN AllKept(first, Usable(entries, days, platforms))

\* An empty result is refused.
ParsePlan(entries, days, platforms) ==
  Kept(entries, Usable(entries, days, platforms), MaxItems(days, platforms))

\* Days after the start of the plan.
ScheduledAt(item) == item.day - 1

\* All times in hundredths of a second, which is what durations are rounded to.
MinClip == 200
ClampTarget(seconds) == 100 * Max({15, Min({180, seconds})})

\* Mutant: the whole runtime is shared out, and the floor comes on top of it.
AllocateTwice(words, target) ==
  LET budget == Max({target, MinClip * Len(words)})
  IN [k \in DOMAIN words |-> MinClip + Rounded(budget * words[k], SumFunction(words))]

AllocateDurations(words, target) ==
  LET floor == MinClip * Len(words)
      flexible == Max({target, floor}) - floor
  IN [k \in DOMAIN words |-> MinClip + Rounded(flexible * words[k], SumFunction(words))]

DraftingInit ==
  draft \in [plan : [days : AskedDays, platforms : AskedFor, answer : Answers]]
       \cup [video : [words : Words, seconds : AskedSeconds, narrated : BOOLEAN]]

DraftingNext == UNCHANGED draft
DraftingSpec == DraftingInit /\ [][DraftingNext]_draft

----------------------------------------------------------------------------
(* Properties.                                                              *)

IsPlan == DOMAIN draft = {"plan"}
IsVideo == DOMAIN draft = {"video"}

\* What is taken over from an answer is its first usable entries, in its order,
\* as many as there is room for: an entry that is not usable takes no other's
\* place. (parsePlan)
PlanIsFirstUsable ==
  IsPlan =>
    LET answer == draft.plan.answer
        days == ClampDays(draft.plan.days)
        platforms == SafePlatforms(draft.plan.platforms)
        items == ParsePlan(answer, days, platforms)
        usable == {k \in DOMAIN answer : answer[k] \in Usable(answer, days, platforms)}
        place(k) == Cardinality({j \in usable : j <= k})
    IN /\ Len(items) = Min({Cardinality(usable), MaxItems(days, platforms)})
       /\ \A k \in usable : place(k) <= Len(items) => items[place(k)] = answer[k]

\* However many days are asked for and whatever the model answers, the items
\* fall within the days of the plan, which are 60 at most, and on platforms that
\* were asked for and can be planned for. (generate)
PlanFits ==
  IsPlan =>
    LET days == ClampDays(draft.plan.days)
        platforms == SafePlatforms(draft.plan.platforms)
        items == ParsePlan(draft.plan.answer, days, platforms)
    IN /\ Len(items) <= MostDays * Len(platforms)
       /\ \A k \in DOMAIN items :
            /\ ScheduledAt(items[k]) \in 0 .. Min({days, MostDays}) - 1
            /\ items[k].platform \in PlanPlatforms
            /\ draft.plan.platforms # <<>> => items[k].platform \in ToSet(draft.plan.platforms)

Runtime(v) == IF v.narrated THEN 100 * v.seconds ELSE ClampTarget(v.seconds)

\* No clip is shorter than two seconds, a longer narration is never shown for a
\* shorter time, and the clips together last as long as the narration, or as
\* their floor, to within half a hundredth for each of them. (allocateDurations)
ClipsSpanNarration ==
  IsVideo =>
    LET words == draft.video.words
        target == Runtime(draft.video)
        clips == AllocateDurations(words, target)
        off == SumFunction(clips) - Max({target, MinClip * Len(words)})
    IN /\ \A k \in DOMAIN clips : clips[k] >= MinClip
       /\ \A j, k \in DOMAIN clips : words[j] <= words[k] => clips[j] <= clips[k]
       /\ 2 * off \in -Len(words) .. Len(words)

\* Whatever a model answers, the plan and the clips fit what was asked for.
DraftsFit == PlanIsFirstUsable /\ PlanFits /\ ClipsSpanNarration
=============================================================================
