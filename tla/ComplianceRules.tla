--------------------------- MODULE ComplianceRules ---------------------------
(***************************************************************************)
(* The rules of the compliance gate. What a text contains is compared as     *)
(* text is: a term is found inside of longer words too. A behaviour is one   *)
(* sample, which does not change.                                           *)
(***************************************************************************)
EXTENDS Integers, FiniteSets

CONSTANTS Platforms,     \* sets of platforms an item goes to
          CaptionLimit,  \* the longest caption of each platform
          HashtagLimit,  \* the most hashtags of each platform; 0 is no limit
          Word,          \* words a text may have
          Within,        \* the terms that are found in each word
          Signals,       \* PROMO_SIGNALS
          Terms,         \* sets of terms an agency may ban
          Disclosures    \* sets of tags that count as a disclosure

ASSUME WithinAssumption == \A w \in Word : w \in Within[w]

VARIABLES text, rules   \* the text of an item, and the agency's configuration

TextOf == [platforms : Platforms, length : {0, 2, 4}, hashtags : {0, 2}, words : SUBSET Word]
ConfigOf == [enabled : BOOLEAN, bannedTerms : Terms, requireDisclosure : BOOLEAN, disclosureTags : Disclosures]

\* The caption, hook, description and hashtags, taken together.
Corpus(c) == UNION {Within[w] : w \in c.words}

Blocking(rule) == [rule |-> rule, severity |-> "block"]
Warning(rule) == [rule |-> rule, severity |-> "warn"]

\* Mutant: a caption has to be within the limit of one of the platforms.
TooLongForAll(c) == \A p \in c.platforms : c.length > CaptionLimit[p]

TooLong(c) == \E p \in c.platforms : c.length > CaptionLimit[p]
TooManyTags(c) == \E p \in c.platforms : HashtagLimit[p] # 0 /\ c.hashtags > HashtagLimit[p]

\* Mutant: what looks promotional is let through with a warning.
DisclosureAdvised(c, r) ==
  IF Corpus(c) \cap r.disclosureTags # {} THEN {}
  ELSE IF Corpus(c) \cap Signals # {} THEN {Warning("undisclosed_promo")}
  ELSE IF r.requireDisclosure THEN {Blocking("missing_disclosure")} ELSE {}

Disclosure(c, r) ==
  IF Corpus(c) \cap r.disclosureTags # {} THEN {}
  ELSE IF r.requireDisclosure THEN {Blocking("missing_disclosure")}
  ELSE IF Corpus(c) \cap Signals # {} THEN {Warning("undisclosed_promo")} ELSE {}

Violations(c, r) ==
  (IF c.length = 0 THEN {Blocking("empty_caption")} ELSE {})
    \cup (IF TooLong(c) THEN {Blocking("caption_too_long")} ELSE {})
    \cup (IF TooManyTags(c) THEN {Blocking("too_many_hashtags")} ELSE {})
    \cup (IF Corpus(c) \cap r.bannedTerms # {} THEN {Blocking("banned_term")} ELSE {})
    \cup Disclosure(c, r)

\* Whether the gate lets the text through: warnings do not matter.
Evaluate(c, r) == ~r.enabled \/ \A v \in Violations(c, r) : v.severity # "block"

RulesInit == text \in TextOf /\ rules \in ConfigOf
RulesNext == UNCHANGED <<text, rules>>
RulesSpec == RulesInit /\ [][RulesNext]_<<text, rules>>

----------------------------------------------------------------------------
(* Properties.                                                              *)

\* r asks for no less than s does.
Stricter(r, s) ==
  /\ s.enabled => r.enabled
  /\ s.bannedTerms \subseteq r.bannedTerms
  /\ s.requireDisclosure => r.requireDisclosure
  /\ r.disclosureTags \subseteq s.disclosureTags

\* What a stricter agency lets through every laxer one does, and what passes for
\* many platforms passes for each of them: no rule makes up for another, and a
\* change of the configuration has no other effect than the one asked for.
\* (evaluate)
StricterNeverUnblocks ==
  Evaluate(text, rules) =>
    /\ \A laxer \in ConfigOf : Stricter(rules, laxer) => Evaluate(text, laxer)
    /\ \A p \in text.platforms : Evaluate([text EXCEPT !.platforms = {p}], rules)

\* Where a disclosure is required, text that looks promotional does not pass
\* with a warning. (compliance/types.ts:29: "promotional posts must carry one")
PromotionIsDisclosed ==
  rules.enabled /\ rules.requireDisclosure /\ Corpus(text) \cap Signals # {} /\ Evaluate(text, rules)
    => Corpus(text) \cap rules.disclosureTags # {}

\* No rule is weakened by another.
GateIsStrict == StricterNeverUnblocks /\ PromotionIsDisclosed
=============================================================================
