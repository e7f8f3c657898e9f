--------------------------- MODULE StudiosProofs ---------------------------
(***************************************************************************)
(* Proofs about what a client's content is made and checked by: the         *)
(* adapters' answers for their posts, the compliance rules, and the         *)
(* generators' runs.                                                        *)
(***************************************************************************)
EXTENDS MCStudios, FiniteSetTheorems, SequenceTheorems, TLAPS

----------------------------------------------------------------------------
(* Publishers.                                                              *)

\* An adapter posts with the last of its requests, and with that one only.
OrderOf(does, q) ==
  /\ Len(q) \in 0 .. 3 /\ DOMAIN q = 1 .. Len(q)
  /\ q # <<>> => Len(q) \in 1 .. 3
  /\ \A k \in DOMAIN q : q[k] = "post" => does = "publish" /\ k = Len(q)
  /\ does = "publish" => q # <<>> /\ q[Len(q)] = "post" /\ \A k \in DOMAIN q : q[k] # "name"

LEMMA AdapterSteps ==
  ASSUME NEW to \in Platform, NEW does \in {"publish", "connect", "metrics"}
  PROVE  OrderOf(does, Adapter[to][does])
<1>1. Platform = {"meta_fb", "meta_ig", "tiktok", "youtube", "pinterest", "x", "linkedin"}
  BY DEF Platform, Adapter
<1> DEFINE P(t) == Adapter[t].publish  C(t) == Adapter[t].connect  M(t) == Adapter[t].metrics
<1>2. /\ P("meta_fb") = <<"post">> /\ C("meta_fb") = <<"token", "page">> /\ M("meta_fb") = <<"numbers">>
      /\ P("meta_ig") = <<"container", "post">> /\ C("meta_ig") = <<"token", "page", "account">>
      /\ M("meta_ig") = <<"numbers">>
      /\ P("tiktok") = <<"post">> /\ C("tiktok") = <<"token", "name">> /\ M("tiktok") = <<"numbers">>
      /\ P("youtube") = <<"bytes", "session", "post">> /\ C("youtube") = <<"token", "account">>
      /\ M("youtube") = <<"numbers">>
      /\ P("pinterest") = <<"board", "post">> /\ C("pinterest") = <<"token", "account">>
      /\ M("pinterest") = <<"numbers">>
      /\ P("x") = <<"post">> /\ C("x") = <<"token", "account">> /\ M("x") = <<"numbers">>
      /\ P("linkedin") = <<"post">> /\ C("linkedin") = <<"token", "account">> /\ M("linkedin") = <<>>
  BY DEF Adapter, FacebookPublish, InstagramPublish, TikTokPublish, YouTubePublish, PinterestPublish, XPublish,
         LinkedInPublish, FacebookExchange, InstagramExchange, TikTokExchange, YouTubeExchange,
         PinterestExchange, XExchange, LinkedInExchange, MetaMetrics, TikTokMetrics, YouTubeMetrics,
         PinterestMetrics, XMetrics, LinkedInMetrics
<1>3. /\ OrderOf("publish", <<"post">>) /\ OrderOf("publish", <<"container", "post">>)
      /\ OrderOf("publish", <<"bytes", "session", "post">>) /\ OrderOf("publish", <<"board", "post">>)
  BY DEF OrderOf
<1>4. /\ OrderOf("connect", <<"token", "page">>) /\ OrderOf("connect", <<"token", "page", "account">>)
      /\ OrderOf("connect", <<"token", "name">>) /\ OrderOf("connect", <<"token", "account">>)
      /\ OrderOf("metrics", <<"numbers">>) /\ OrderOf("metrics", <<>>)
  BY DEF OrderOf
<1>5. \A t \in Platform : OrderOf("publish", P(t)) /\ OrderOf("connect", C(t)) /\ OrderOf("metrics", M(t))
  BY <1>1, <1>2, <1>3, <1>4
<1> QED
  BY <1>5

\* What a call in turn looks like, and the next one.
LEMMA CallFacts ==
  ASSUME PublishersInv
  PROVE  /\ calls \in Seq(PlatformCall) /\ Current \in 0 .. MaxCalls /\ DOMAIN calls = 1 .. Current
         /\ \A n \in DOMAIN calls : /\ calls[n] \in PlatformCall
                                    /\ OrderOf(calls[n].does, Steps(n))
                                    /\ n \in 1 .. MaxCalls
         /\ calls # <<>> => Current \in DOMAIN calls
         /\ MaxCalls \in Nat
<1>1. calls \in Seq(PlatformCall) /\ Current \in 0 .. MaxCalls /\ DOMAIN calls = 1 .. Current /\ MaxCalls \in Nat
  BY PublishersAssumption DEF PublishersInv, PublishersTypeOK, Current
<1>2. \A n \in DOMAIN calls : calls[n] \in PlatformCall /\ n \in 1 .. MaxCalls
  BY <1>1
<1>3. \A n \in DOMAIN calls : OrderOf(calls[n].does, Steps(n))
  BY <1>2, AdapterSteps DEF PlatformCall, Steps
<1>4. calls # <<>> => Current \in DOMAIN calls
  BY <1>1 DEF Current
<1> QED
  BY <1>1, <1>2, <1>3, <1>4

LEMMA RequestTypes ==
  ASSUME PublishersInv
  PROVE  /\ wire \subseteq Sent /\ things \subseteq Sent
         /\ answers \subseteq [to : Sent, is : Verdict]
         /\ Requests \subseteq Sent
  BY DEF PublishersInv, PublishersTypeOK, Requests

\* A step that asks nothing new and leaves the calls alone.
LEMMA AnswersKept ==
  ASSUME PublishersInv, UNCHANGED calls,
         wire' \subseteq wire, answers' \subseteq [to : Sent, is : Verdict],
         Requests' \subseteq Requests, things \subseteq things',
         AnswersAreOfThings'
  PROVE  PublishersInv'
<1>1. things' \subseteq Sent
  BY RequestTypes DEF Requests
<1>2. PublishersTypeOK'
  BY <1>1, RequestTypes DEF PublishersInv, PublishersTypeOK
<1>3. RequestsAreOfCalls'
  BY DEF PublishersInv, RequestsAreOfCalls, Steps
<1>4. StepsAreMade'
  BY DEF PublishersInv, StepsAreMade, Steps, Made, LastStep
<1> QED
  BY <1>2, <1>3, <1>4 DEF PublishersInv

LEMMA ProcessKept ==
  ASSUME PublishersInv, NEW r \in wire, Process(r) \/ LoseRequest(r)
  PROVE  PublishersInv'
<1>1. CASE LoseRequest(r)
  <2>1. /\ UNCHANGED <<calls, answers, things>> /\ wire' = wire \ {r}
    BY <1>1 DEF LoseRequest
  <2>2. AnswersAreOfThings' /\ Requests' \subseteq Requests
    BY <2>1 DEF PublishersInv, AnswersAreOfThings, Requests
  <2> QED
    BY <2>1, <2>2, RequestTypes, AnswersKept
<1>2. CASE Process(r)
  <2>1. PICK v \in Verdict :
          /\ answers' = answers \cup {[to |-> r, is |-> v]}
          /\ things' = IF v = "refused" THEN things ELSE things \cup {r}
    BY <1>2 DEF Process
  <2>2. wire' = wire \ {r} /\ UNCHANGED calls /\ r \in Sent
    BY <1>2, RequestTypes DEF Process
  <2>3. answers' \subseteq [to : Sent, is : Verdict]
    BY <2>1, <2>2, RequestTypes
  <2>4. Requests' \subseteq Requests
    BY <2>1, <2>2 DEF Requests
  <2>5. AnswersAreOfThings'
    BY <2>1 DEF PublishersInv, AnswersAreOfThings
  <2> QED
    BY <2>1, <2>2, <2>3, <2>4, <2>5, AnswersKept
<1> QED
  BY <1>1, <1>2

LEMMA LoseAnswerKept ==
  ASSUME PublishersInv, NEW a \in answers, LoseAnswer(a)
  PROVE  PublishersInv'
<1>1. /\ UNCHANGED <<calls, wire, things>> /\ answers' = answers \ {a}
  BY DEF LoseAnswer
<1>2. AnswersAreOfThings' /\ Requests' \subseteq Requests
  BY <1>1 DEF PublishersInv, AnswersAreOfThings, Requests
<1> QED
  BY <1>1, <1>2, RequestTypes, AnswersKept

LEMMA StartKept ==
  ASSUME PublishersInv, NEW does \in {"publish", "connect", "metrics"}, NEW to \in Platform,
         NEW media \in BOOLEAN, Start(does, to, media)
  PROVE  PublishersInv'
<1> DEFINE c == [does |-> does, to |-> to, media |-> media, step |-> 1, at |-> FirstAt(does, to, media)]
<1>1. /\ Current < MaxCalls /\ calls' = Append(calls, c) /\ UNCHANGED <<wire, answers, things>>
      /\ calls # <<>> => calls[Current].at \in Ended
  BY DEF Start
<1>2. c \in PlatformCall /\ c.at \in {"sending", "invalid", "external"}
      /\ c.does = does /\ c.to = to /\ c.step = 1
  BY DEF PlatformCall, FirstAt, Ended
<1>3. c.at = "sending" => Adapter[to][does] # <<>>
  BY DEF FirstAt, NotSupported
<1> HIDE DEF c
<1>4. /\ calls' \in Seq(PlatformCall) /\ Len(calls') = Current + 1 /\ DOMAIN calls' = 1 .. Current + 1
      /\ calls'[Current + 1] = c
      /\ \A n \in 1 .. Current : calls'[n] = calls[n]
  BY <1>1, <1>2, CallFacts DEF Current
<1>5. \A n \in DOMAIN calls : n \in DOMAIN calls' /\ calls'[n] = calls[n] /\ Steps(n)' = Steps(n) /\ n # Current + 1
  BY <1>4, CallFacts DEF Steps
<1>6. PublishersTypeOK'
  <2>1. Current + 1 \in 0 .. MaxCalls
    BY <1>1, CallFacts
  <2>2. ASSUME NEW n \in 1 .. Current + 1
        PROVE  /\ calls'[n] \in PlatformCall
               /\ n < Current + 1 => calls'[n].at \in Ended
               /\ calls'[n].at \notin Ended => calls'[n].step \in DOMAIN Adapter[calls'[n].to][calls'[n].does]
    <3>1. CASE n = Current + 1
      <4>1. Adapter[to][does] # <<>> => 1 \in DOMAIN Adapter[to][does]
        BY AdapterSteps DEF OrderOf
      <4> QED
        BY <1>2, <1>3, <1>4, <3>1, <4>1 DEF Ended
    <3>2. CASE n \in 1 .. Current
      <4>1. calls'[n] = calls[n] /\ n \in DOMAIN calls
        BY <1>4, <3>2, CallFacts
      <4>2. calls[n].at \in Ended
        <5>1. n < Current \/ n = Current
          BY <3>2, CallFacts
        <5>2. calls # <<>>
          BY <4>1
        <5> QED
          BY <1>1, <4>1, <5>1, <5>2 DEF PublishersInv, PublishersTypeOK, Current
      <4> QED
        BY <4>1, <4>2, CallFacts
    <3> QED
      BY <3>1, <3>2, CallFacts
  <2> QED
    BY <1>1, <1>4, <2>1, <2>2, RequestTypes DEF PublishersTypeOK, PlatformCall
<1>7. RequestsAreOfCalls' /\ AnswersAreOfThings'
  BY <1>1, <1>5 DEF PublishersInv, RequestsAreOfCalls, AnswersAreOfThings, Requests
<1>8. StepsAreMade'
  <2>1. ASSUME NEW n \in 1 .. Current + 1, calls'[n].does = "publish"
        PROVE  /\ \A k \in DOMAIN Steps(n)' : k < calls'[n].step => Made(n, k)'
               /\ calls'[n].at = "done" => LastStep(n)' /\ Made(n, calls[n].step)'
    <3>1. CASE n = Current + 1
      <4>1. \A k \in DOMAIN Steps(n)' : k \in Nat /\ k >= 1
        BY <1>2, <1>4, <3>1, AdapterSteps DEF Steps, OrderOf
      <4> QED
        BY <1>2, <1>4, <3>1, <4>1
    <3>2. CASE n \in 1 .. Current
      <4>1. n \in DOMAIN calls
        BY <3>2, CallFacts
      <4> QED
        BY <1>1, <1>5, <2>1, <4>1 DEF PublishersInv, StepsAreMade, Made, LastStep
    <3> QED
      BY <3>1, <3>2, CallFacts
  <2> QED
    BY <1>4, <2>1 DEF StepsAreMade
<1> QED
  BY <1>4, <1>6, <1>7, <1>8 DEF PublishersInv

\* A step of the call that is attended to, which asks for its own step at most.
LEMMA CurrentCallKept ==
  ASSUME PublishersInv, calls # <<>>, calls[Current].at \notin Ended,
         NEW c \in PlatformCall, calls' = [calls EXCEPT ![Current] = c],
         c.does = calls[Current].does, c.to = calls[Current].to,
         c.at # "invalid", c.at \notin Ended => c.step \in DOMAIN Steps(Current),
         UNCHANGED things, answers' \subseteq answers, wire' \subseteq wire \cup {Ask(1)},
         c.does = "publish" =>
           /\ \A k \in DOMAIN Steps(Current) : k < c.step => Made(Current, k)
           /\ c.at = "done" => c.step = Len(Steps(Current)) /\ Made(Current, c.step)
  PROVE  PublishersInv'
<1>1. /\ Current \in DOMAIN calls /\ DOMAIN calls' = DOMAIN calls /\ Len(calls') = Len(calls)
      /\ calls' \in Seq(PlatformCall) /\ calls'[Current] = c
      /\ \A n \in DOMAIN calls : n # Current => calls'[n] = calls[n]
  BY CallFacts DEF Current
<1>2. \A n \in DOMAIN calls : Steps(n)' = Steps(n)
  BY <1>1 DEF Steps
<1>3. Ask(1) \in Sent /\ Ask(1).try = 1 /\ Ask(1).call = Current /\ Ask(1).step \in DOMAIN Steps(Current)
  <2>1. Current \in 1 .. MaxCalls /\ calls[Current].step \in 1 .. 3
    BY <1>1, CallFacts DEF PlatformCall
  <2>2. calls[Current].step \in DOMAIN Steps(Current)
    BY <1>1 DEF PublishersInv, PublishersTypeOK, Steps
  <2> QED
    BY <2>1, <2>2 DEF Ask, Sent
<1>4. PublishersTypeOK'
  <2>1. ASSUME NEW n \in DOMAIN calls
        PROVE  /\ calls'[n] \in PlatformCall
               /\ n < Len(calls) => calls'[n].at \in Ended
               /\ calls'[n].at \notin Ended => calls'[n].step \in DOMAIN Adapter[calls'[n].to][calls'[n].does]
    <3>1. CASE n = Current
      BY <1>1, <3>1, CallFacts DEF Current, Steps
    <3>2. CASE n # Current
      BY <1>1, <3>2, CallFacts DEF PublishersInv, PublishersTypeOK
    <3> QED
      BY <3>1, <3>2
  <2>2. wire' \subseteq Sent /\ things' \subseteq Sent /\ answers' \subseteq [to : Sent, is : Verdict]
    BY <1>3, RequestTypes
  <2> QED
    BY <1>1, <2>1, <2>2, CallFacts DEF PublishersTypeOK, PlatformCall, Current
<1>5. RequestsAreOfCalls'
  <2>1. Requests' \subseteq Requests \cup {Ask(1)}
    BY DEF Requests
  <2>2. ASSUME NEW r \in Requests'
        PROVE  /\ r.try = 1 /\ r.call \in DOMAIN calls /\ r.step \in DOMAIN Steps(r.call)
               /\ calls'[r.call].at # "invalid"
    <3>1. CASE r = Ask(1)
      BY <1>1, <1>3, <3>1
    <3>2. CASE r \in Requests
      BY <1>1, <3>2 DEF PublishersInv, RequestsAreOfCalls
    <3> QED
      BY <2>1, <3>1, <3>2
  <2> QED
    BY <1>1, <1>2, <2>2 DEF RequestsAreOfCalls
<1>6. AnswersAreOfThings'
  BY DEF PublishersInv, AnswersAreOfThings
<1>7. StepsAreMade'
  <2>1. ASSUME NEW n \in DOMAIN calls, calls'[n].does = "publish"
        PROVE  /\ \A k \in DOMAIN Steps(n) : k < calls'[n].step => Made(n, k)
               /\ calls'[n].at = "done" => calls'[n].step = Len(Steps(n)) /\ Made(n, calls'[n].step)
    <3>1. CASE n = Current
      BY <1>1, <2>1, <3>1
    <3>2. CASE n # Current
      BY <1>1, <2>1, <3>2 DEF PublishersInv, StepsAreMade, LastStep
    <3> QED
      BY <3>1, <3>2
  <2>2. \A n, k : Made(n, k)' <=> Made(n, k)
    BY DEF Made
  <2> QED
    BY <1>1, <1>2, <2>1, <2>2 DEF StepsAreMade, LastStep
<1> QED
  BY <1>1, <1>4, <1>5, <1>6, <1>7 DEF PublishersInv

LEMMA MoveOnKept ==
  ASSUME PublishersInv, SendRequest \/ GiveUp
  PROVE  PublishersInv'
<1>1. calls # <<>> /\ calls[Current].at \notin Ended /\ Current \in DOMAIN calls
      /\ calls[Current] \in PlatformCall /\ UNCHANGED <<answers, things>>
  BY CallFacts DEF SendRequest, GiveUp, Attending, Ended
<1>2. PICK at \in {"waiting", "external"} : calls' = [calls EXCEPT ![Current].at = at]
  BY DEF SendRequest, GiveUp
<1> DEFINE c == [calls[Current] EXCEPT !.at = at]
<1>3. calls' = [calls EXCEPT ![Current] = c]
  BY <1>1, <1>2, CallFacts
<1>4. c \in PlatformCall /\ c.does = calls[Current].does /\ c.to = calls[Current].to /\ c.at = at
      /\ c.step = calls[Current].step
  BY <1>1 DEF PlatformCall, Ended
<1> HIDE DEF c
<1>5. wire' \subseteq wire \cup {Ask(1)}
  BY DEF SendRequest, GiveUp
<1>6. c.at # "invalid" /\ c.at # "done" /\ (c.at \notin Ended => c.step \in DOMAIN Steps(Current))
  BY <1>1, <1>4 DEF PublishersInv, PublishersTypeOK, Steps
<1>7. c.does = "publish" => \A k \in DOMAIN Steps(Current) : k < c.step => Made(Current, k)
  BY <1>1, <1>4 DEF PublishersInv, StepsAreMade
<1> QED
  BY <1>1, <1>3, <1>4, <1>5, <1>6, <1>7, CurrentCallKept

LEMMA ReceiveKept ==
  ASSUME PublishersInv, Receive
  PROVE  PublishersInv'
<1>1. PICK a \in answers :
        /\ a.to.call = Current /\ a.to.step = calls[Current].step
        /\ answers' = answers \ {a}
        /\ calls' = IF ~BodySaysIt(Current, a.is) THEN [calls EXCEPT ![Current].at = "external"]
                    ELSE IF LastStep(Current) THEN [calls EXCEPT ![Current].at = "done"]
                    ELSE [calls EXCEPT ![Current].at = "sending", ![Current].step = @ + 1]
  BY DEF Receive
<1>2. calls # <<>> /\ calls[Current].at \notin Ended /\ Current \in DOMAIN calls
      /\ calls[Current] \in PlatformCall /\ UNCHANGED <<wire, things>>
  BY CallFacts DEF Receive, Attending, Ended
<1> DEFINE i == calls[Current].step
<1>3. i \in DOMAIN Steps(Current) /\ OrderOf(calls[Current].does, Steps(Current))
  BY <1>2, CallFacts DEF PublishersInv, PublishersTypeOK, Steps
<1>4. calls[Current].does = "publish" => \A k \in DOMAIN Steps(Current) : k < i => Made(Current, k)
  BY <1>2 DEF PublishersInv, StepsAreMade
\* An answer with a good body is of a thing that was made.
<1>5. calls[Current].does = "publish" /\ BodySaysIt(Current, a.is) => Made(Current, i)
  <2>1. calls[Current].does = "publish" => ~Optional(Current)
    BY <1>3 DEF Optional, OrderOf
  <2>2. a.is # "refused" => a.to \in things
    BY <1>1 DEF PublishersInv, AnswersAreOfThings
  <2> QED
    BY <1>1, <2>1, <2>2 DEF BodySaysIt, Made
<1>6. ASSUME NEW at \in {"external", "done"}, calls' = [calls EXCEPT ![Current].at = at],
             at = "done" => LastStep(Current) /\ BodySaysIt(Current, a.is)
      PROVE  PublishersInv'
  <2> DEFINE c == [calls[Current] EXCEPT !.at = at]
  <2>1. calls' = [calls EXCEPT ![Current] = c]
    BY <1>2, <1>6, CallFacts
  <2>2. c \in PlatformCall /\ c.does = calls[Current].does /\ c.to = calls[Current].to /\ c.at = at /\ c.step = i
    BY <1>2, <1>6 DEF PlatformCall, Ended
  <2> HIDE DEF c
  <2>3. c.at # "invalid" /\ c.at \in Ended
    BY <1>6, <2>2 DEF Ended
  <2>4. c.does = "publish" => \A k \in DOMAIN Steps(Current) : k < c.step => Made(Current, k)
    BY <1>4, <2>2
  <2>5. c.does = "publish" /\ c.at = "done" => c.step = Len(Steps(Current)) /\ Made(Current, c.step)
    BY <1>5, <1>6, <2>2 DEF LastStep
  <2>6. wire' \subseteq wire \cup {Ask(1)} /\ answers' \subseteq answers /\ UNCHANGED things
    BY <1>1, <1>2
  <2> QED
    BY <1>2, <2>1, <2>2, <2>3, <2>4, <2>5, <2>6, CurrentCallKept
<1>7. ASSUME calls' = [calls EXCEPT ![Current].at = "sending", ![Current].step = @ + 1],
             ~LastStep(Current), BodySaysIt(Current, a.is)
      PROVE  PublishersInv'
  <2> DEFINE c == [calls[Current] EXCEPT !.at = "sending", !.step = i + 1]
  <2>1. calls' = [calls EXCEPT ![Current] = c]
    BY <1>2, <1>7, CallFacts
  <2>2. i \in Nat /\ i + 1 \in DOMAIN Steps(Current) /\ i + 1 \in 1 .. 3
        /\ \A k \in DOMAIN Steps(Current) : k \in Nat
    <3> DEFINE q == Steps(Current)
               n == Len(q)
    <3>1. n \in 0 .. 3 /\ DOMAIN q = 1 .. n /\ i \in DOMAIN q
      BY <1>3 DEF OrderOf
    <3>2. i # n
      BY <1>7 DEF LastStep
    <3> HIDE DEF q, n, i
    <3>3. i \in Nat /\ i + 1 \in DOMAIN q /\ i + 1 \in 1 .. 3 /\ \A k \in DOMAIN q : k \in Nat
      BY <3>1, <3>2
    <3> QED
      BY <3>3 DEF q
  <2>3. c \in PlatformCall /\ c.does = calls[Current].does /\ c.to = calls[Current].to
        /\ c.at = "sending" /\ c.step = i + 1
    <3>1. \A m \in 1 .. 3 : [calls[Current] EXCEPT !.at = "sending", !.step = m] \in PlatformCall
      BY <1>2 DEF PlatformCall
    <3> QED
      BY <1>2, <2>2, <3>1 DEF PlatformCall
  <2> HIDE DEF c
  <2>4. \A k \in DOMAIN Steps(Current) : k < c.step => k < i \/ k = i
    BY <2>2, <2>3
  <2>5. c.does = "publish" => \A k \in DOMAIN Steps(Current) : k < c.step => Made(Current, k)
    BY <1>4, <1>5, <1>7, <2>3, <2>4
  <2>6. wire' \subseteq wire \cup {Ask(1)} /\ answers' \subseteq answers /\ UNCHANGED things
    BY <1>1, <1>2
  <2>7. c.at # "invalid" /\ c.at # "done" /\ c.step \in DOMAIN Steps(Current)
    BY <2>2, <2>3
  <2> QED
    BY <1>2, <2>1, <2>3, <2>5, <2>6, <2>7, CurrentCallKept
<1> QED
  BY <1>1, <1>6, <1>7

LEMMA PublishersInitially == PublishersInit => PublishersInv
  BY PublishersAssumption
  DEF PublishersInit, PublishersInv, PublishersTypeOK, RequestsAreOfCalls, AnswersAreOfThings, StepsAreMade,
      Requests

\* What is on its way, and what came of it, belongs to a step of a call that
\* has been taken.
THEOREM PublishersInvariance == PublishersSpec => []PublishersInv
<1>1. PublishersInv /\ [PublishersNext]_publisherVars => PublishersInv'
  <2> SUFFICES ASSUME PublishersInv, [PublishersNext]_publisherVars PROVE PublishersInv'
    OBVIOUS
  <2>1. CASE UNCHANGED publisherVars
    BY <2>1, RequestTypes, AnswersKept DEF publisherVars, Requests, PublishersInv, AnswersAreOfThings
  <2>2. CASE \E to \in Platform, media \in MediaPassed : Start("publish", to, media)
    BY <2>2, PublishersAssumption, StartKept
  <2>3. CASE \E to \in Platform, does \in {"connect", "metrics"} : Start(does, to, FALSE)
    BY <2>3, StartKept
  <2> QED
    BY <2>1, <2>2, <2>3, MoveOnKept, ReceiveKept, ProcessKept, LoseAnswerKept DEF PublishersNext
<1> QED
  BY <1>1, PublishersInitially, PTL DEF PublishersSpec

\* The publish calls of the adapters: a refusal that no retry can change comes
\* before any request, a post id is of a post made for the call after all that
\* leads to it, and no call makes two.
THEOREM PublishersAreTrue == PublishersSpec => []AnswersAreTrue
<1>1. PublishersInv => AnswersAreTrue
  <2> SUFFICES ASSUME PublishersInv PROVE AnswersAreTrue
    OBVIOUS
  <2>1. FinalMeansNothingSent
    BY DEF PublishersInv, RequestsAreOfCalls, Requests, FinalMeansNothingSent
  <2>2. ASSUME NEW n \in DOMAIN calls, calls[n].at = "done", calls[n].does = "publish"
        PROVE  /\ PostsOf(n) # {}
               /\ \A k \in DOMAIN Steps(n) : \E r \in things : r.call = n /\ r.step = k
    <3> DEFINE last == Len(Steps(n))
    <3>1. /\ last \in 1 .. 3 /\ DOMAIN Steps(n) = 1 .. last /\ Steps(n)[last] = "post"
      BY <2>2, CallFacts DEF OrderOf
    <3>2. calls[n].step = last /\ Made(n, last) /\ \A k \in DOMAIN Steps(n) : k < last => Made(n, k)
      BY <2>2 DEF PublishersInv, StepsAreMade, LastStep
    <3> HIDE DEF last
    <3>3. \A k \in DOMAIN Steps(n) : Made(n, k)
      BY <3>1, <3>2
    <3> QED
      BY <3>1, <3>2, <3>3 DEF Made, PostsOf
  <2>3. ASSUME NEW n \in DOMAIN calls
        PROVE  Cardinality(PostsOf(n)) <= 1
    <3> DEFINE post == [call |-> n, step |-> Len(Steps(n)), try |-> 1]
    <3>1. \A r \in PostsOf(n) : r \in Sent /\ r.call = n /\ r.try = 1 /\ r.step = Len(Steps(n))
      <4>1. \A r \in things : r \in Sent /\ r.try = 1 /\ r.step \in DOMAIN Steps(r.call)
        BY RequestTypes DEF PublishersInv, RequestsAreOfCalls, Requests
      <4> QED
        BY <4>1, CallFacts DEF PostsOf, OrderOf
    <3>2. \A r \in PostsOf(n) : r = post
      BY <3>1 DEF Sent
    <3>3. PostsOf(n) = {} \/ PostsOf(n) = {post}
      BY <3>2
    <3>4. Cardinality(PostsOf(n)) = 0 \/ Cardinality(PostsOf(n)) = 1
      BY <3>3, FS_EmptySet, FS_Singleton
    <3> QED
      BY <3>4
  <2> QED
    BY <2>1, <2>2, <2>3 DEF AnswersAreTrue, DoneMeansMade, OnePostPerCall
<1> QED
  BY <1>1, PublishersInvariance, PTL

\* Only the last call is attended to, at one of its adapter's steps.
THEOREM PublishersTypeCorrect == PublishersSpec => []PublishersTypeOK
<1>1. PublishersInv => PublishersTypeOK
  BY DEF PublishersInv
<1> QED
  BY <1>1, PublishersInvariance, PTL

----------------------------------------------------------------------------
(* Compliance rules.                                                        *)

\* What it takes to pass: a warning is no part of it.
LEMMA PassingText ==
  ASSUME NEW c, NEW r
  PROVE  Evaluate(c, r) <=>
           \/ ~r.enabled
           \/ /\ c.length # 0 /\ ~TooLong(c) /\ ~TooManyTags(c)
              /\ Corpus(c) \cap r.bannedTerms = {}
              /\ r.requireDisclosure => Corpus(c) \cap r.disclosureTags # {}
<1>1. \A rule : Blocking(rule).severity = "block" /\ Warning(rule).severity # "block"
  BY DEF Blocking, Warning
<1>2. (\A v \in Disclosure(c, r) : v.severity # "block")
        <=> (r.requireDisclosure => Corpus(c) \cap r.disclosureTags # {})
  BY <1>1 DEF Disclosure
<1>3. (\A v \in Violations(c, r) : v.severity # "block") <=>
        /\ c.length # 0 /\ ~TooLong(c) /\ ~TooManyTags(c)
        /\ Corpus(c) \cap r.bannedTerms = {}
        /\ \A v \in Disclosure(c, r) : v.severity # "block"
  BY <1>1 DEF Violations
<1> QED
  BY <1>2, <1>3 DEF Evaluate

\* evaluate: no rule makes up for another, at whatever limits, for whatever
\* terms and tags.
THEOREM GateStaysStrict == RulesSpec => []GateIsStrict
<1>1. text \in TextOf /\ rules \in ConfigOf => GateIsStrict
  <2> SUFFICES ASSUME text \in TextOf, rules \in ConfigOf PROVE GateIsStrict
    OBVIOUS
  <2>1. ASSUME Evaluate(text, rules), NEW laxer \in ConfigOf, Stricter(rules, laxer)
        PROVE  Evaluate(text, laxer)
    BY <2>1, PassingText DEF Stricter, ConfigOf
  <2>2. ASSUME Evaluate(text, rules), NEW p \in text.platforms
        PROVE  Evaluate([text EXCEPT !.platforms = {p}], rules)
    <3> DEFINE one == [text EXCEPT !.platforms = {p}]
    <3>1. one.platforms = {p} /\ one.length = text.length /\ one.hashtags = text.hashtags
          /\ one.words = text.words
      BY DEF TextOf
    <3> HIDE DEF one
    <3>2. Corpus(one) = Corpus(text) /\ (TooLong(one) => TooLong(text)) /\ (TooManyTags(one) => TooManyTags(text))
      BY <2>2, <3>1 DEF Corpus, TooLong, TooManyTags
    <3>3. Evaluate(one, rules)
      BY <2>2, <3>1, <3>2, PassingText
    <3> QED
      BY <3>3 DEF one
  <2>3. PromotionIsDisclosed
    BY PassingText DEF PromotionIsDisclosed
  <2> QED
    BY <2>1, <2>2, <2>3 DEF GateIsStrict, StricterNeverUnblocks
<1>2. /\ RulesInit => text \in TextOf /\ rules \in ConfigOf
      /\ text \in TextOf /\ rules \in ConfigOf /\ [RulesNext]_<<text, rules>> => (text \in TextOf /\ rules \in ConfigOf)'
  BY DEF RulesInit, RulesNext
<1> QED
  BY <1>1, <1>2, PTL DEF RulesSpec

----------------------------------------------------------------------------
(* The generators: jobs, and runs.                                          *)

LEMMA JobTypes ==
  ASSUME NEW j \in Job
  PROVE  /\ NoJob \in Job /\ FreshJob \in Job
         /\ Added(j) \in Job /\ Taken(j) \in Job /\ Completed(j) \in Job /\ Stalled(j) \in Job
         /\ \A u \in BOOLEAN : j.attempts < MaxAttempts => Thrown(j, u) \in Job
<1> USE AttemptsAssumption, StallsAssumption
<1>1. NoJob \in Job /\ FreshJob \in Job
  BY DEF Job, JobState, NoJob, FreshJob
<1>2. Added(j) \in Job
  BY <1>1 DEF Added
<1>3. Taken(j) \in Job /\ Completed(j) \in Job
  BY DEF Job, JobState, Taken, Completed
<1>4. Stalled(j) \in Job
  <2>1. CASE j.stalls < MaxStalls
    <3>1. j.stalls + 1 \in 0 .. MaxStalls
      BY <2>1 DEF Job
    <3>2. Stalled(j) = [state |-> "waiting", attempts |-> j.attempts, stalls |-> j.stalls + 1]
      BY <2>1 DEF Job, Stalled
    <3> QED
      BY <3>1, <3>2 DEF Job, JobState
  <2>2. CASE ~(j.stalls < MaxStalls)
    BY <2>2 DEF Job, JobState, Stalled
  <2> QED
    BY <2>1, <2>2
<1>5. ASSUME NEW u \in BOOLEAN, j.attempts < MaxAttempts
      PROVE  Thrown(j, u) \in Job
  <2>1. j.attempts + 1 \in 0 .. MaxAttempts
    BY <1>5 DEF Job
  <2>2. \A n \in 0 .. MaxAttempts, s \in JobState :
          [j EXCEPT !.attempts = n, !.state = s] \in Job
    BY DEF Job
  <2>3. (IF u \/ LastAttempt(j) THEN "failed" ELSE "waiting") \in JobState
    BY DEF JobState
  <2> QED
    BY <2>1, <2>2, <2>3 DEF Thrown
<1> QED
  BY <1>1, <1>2, <1>3, <1>4, <1>5

\* What each step does to a job's state and counts.
LEMMA JobFields ==
  ASSUME NEW j \in Job
  PROVE  /\ Taken(j).state = "active"
         /\ Taken(j).attempts = j.attempts /\ Taken(j).stalls = j.stalls
         /\ Completed(j).state = "completed" /\ Completed(j).stalls = j.stalls
         /\ Added(j) = j \/ Added(j) = FreshJob
         /\ j.stalls < MaxStalls =>
              /\ Stalled(j).state = "waiting"
              /\ Stalled(j).attempts = j.attempts
              /\ Stalled(j).stalls = j.stalls + 1
         /\ j.stalls >= MaxStalls =>
              Stalled(j).state = "failed" /\ Stalled(j).stalls = j.stalls
         /\ \A u \in BOOLEAN :
              /\ Thrown(j, u).attempts = j.attempts + 1
              /\ Thrown(j, u).stalls = j.stalls
              /\ Thrown(j, u).state \in {"waiting", "failed"}
              /\ Thrown(j, u).state = "waiting" => j.attempts + 1 < MaxAttempts
              /\ u => Thrown(j, u).state = "failed"
  BY AttemptsAssumption, StallsAssumption
  DEF Job, Taken, Completed, Added, Stalled, Thrown, LastAttempt, FreshJob

\* A run as the type invariants have it, when b runs and j jobs have begun.
WholeRun(r, b, j) ==
  /\ r \in [does : DOMAIN Stages, no : 1 .. b, on : 0 .. b, scenes : 0 .. MaxScenes, job : 0 .. j,
            at : {"agents", "assemble", "mux", "put", "save", "ok", "error"}, live : {r.live}, todo : {r.todo}]
  /\ r.live \in [DOMAIN r.live -> {"calling", "good", "bad"}]
  /\ r.does = "video" => r.job # 0
  /\ r.at \notin {"agents", "error"} => r.live = Nobody /\ r.todo = <<>>

LEMMA StagesNamed == DOMAIN Stages = {"extract", "plan", "write", "design", "video"}
  BY DEF Stages

LEMMA NobodyEmpty == DOMAIN Nobody = {}
  BY DEF Nobody, InStage

LEMMA WholeRuns ==
  ASSUME StudioInv, NEW h \in Slot, Running(h)
  PROVE  WholeRun(run[h], begun, jobs) /\ run[h].no \in 1 .. begun
  BY DEF StudioInv, RunsAreWhole, StudioTypeOK, WholeRun

LEMMA WholeRunFields ==
  ASSUME NEW b \in 0 .. MaxRuns, NEW j \in Nat, NEW r, WholeRun(r, b, j)
  PROVE  /\ r # NotRunning
         /\ r.does \in DOMAIN Stages /\ r.no \in 1 .. b
         /\ r.on \in 0 .. MaxRuns /\ r.on \in 0 .. b /\ r.scenes \in 0 .. MaxScenes /\ r.job \in 0 .. j
         /\ r.at \in {"agents", "assemble", "mux", "put", "save", "ok", "error"}
         /\ r.at \notin {"agents", "error"} => r.live = Nobody /\ r.todo = <<>>
         /\ \A a \in DOMAIN r.live : r.live[a] \in {"calling", "good", "bad"}
<1>1. r.on \in 0 .. b /\ r.does \in DOMAIN Stages
  BY DEF WholeRun
<1>2. r.on \in 0 .. MaxRuns
  BY <1>1, StudioAssumption
<1>3. r # NotRunning
  BY <1>1, StagesNamed DEF NotRunning
<1> QED
  BY <1>1, <1>2, <1>3 DEF WholeRun

\* Type facts about the runs are facts about each of them.
RunsTyped ==
  \A h \in Slot : Running(h) =>
    /\ run[h].does \in DOMAIN Stages /\ run[h].no \in 1 .. begun
    /\ run[h].on \in 0 .. MaxRuns /\ run[h].scenes \in 0 .. MaxScenes /\ run[h].job \in 0 .. jobs
    /\ run[h].at \in {"agents", "assemble", "mux", "put", "save", "ok", "error"}
    /\ run[h].at \notin {"agents", "error"} => run[h].live = Nobody /\ run[h].todo = <<>>
    /\ \A a \in DOMAIN run[h].live : run[h].live[a] \in {"calling", "good", "bad"}
RunsFit ==
  \A h \in Slot : Running(h) =>
    /\ run[h] \in [does : DOMAIN Stages, no : 1 .. begun, on : 0 .. begun, scenes : 0 .. MaxScenes,
                   job : 0 .. jobs, at : {"agents", "assemble", "mux", "put", "save", "ok", "error"},
                   live : {run[h].live}, todo : {run[h].todo}]
    /\ run[h].live \in [DOMAIN run[h].live -> {"calling", "good", "bad"}]
    /\ run[h].does = "video" => run[h].job # 0

LEMMA RunsTypedNext ==
  ASSUME begun' \in 0 .. MaxRuns, jobs' \in Nat,
         \A h \in Slot : run'[h] = NotRunning \/ WholeRun(run'[h], begun', jobs')
  PROVE  RunsTyped' /\ RunsFit'
<1> SUFFICES ASSUME NEW h \in Slot, Running(h)'
             PROVE  /\ run'[h].does \in DOMAIN Stages /\ run'[h].no \in 1 .. begun'
                    /\ run'[h].on \in 0 .. MaxRuns /\ run'[h].scenes \in 0 .. MaxScenes /\ run'[h].job \in 0 .. jobs'
                    /\ run'[h].at \in {"agents", "assemble", "mux", "put", "save", "ok", "error"}
                    /\ run'[h].at \notin {"agents", "error"} => run'[h].live = Nobody /\ run'[h].todo = <<>>
                    /\ \A a \in DOMAIN run'[h].live : run'[h].live[a] \in {"calling", "good", "bad"}
                    /\ run'[h] \in [does : DOMAIN Stages, no : 1 .. begun', on : 0 .. begun', scenes : 0 .. MaxScenes,
                         job : 0 .. jobs', at : {"agents", "assemble", "mux", "put", "save", "ok", "error"},
                         live : {run'[h].live}, todo : {run'[h].todo}]
                    /\ run'[h].live \in [DOMAIN run'[h].live -> {"calling", "good", "bad"}]
                    /\ run'[h].does = "video" => run'[h].job # 0
  BY DEF RunsTyped, RunsFit, Stages, Nobody, InStage
<1>1. WholeRun(run'[h], begun', jobs')
  BY DEF Running, NotRunning
<1>2. /\ run'[h].does \in DOMAIN Stages /\ run'[h].no \in 1 .. begun'
      /\ run'[h].on \in 0 .. MaxRuns /\ run'[h].scenes \in 0 .. MaxScenes /\ run'[h].job \in 0 .. jobs'
      /\ run'[h].at \in {"agents", "assemble", "mux", "put", "save", "ok", "error"}
      /\ run'[h].at \notin {"agents", "error"} => run'[h].live = Nobody /\ run'[h].todo = <<>>
      /\ \A a \in DOMAIN run'[h].live : run'[h].live[a] \in {"calling", "good", "bad"}
  BY <1>1, WholeRunFields
<1> QED
  BY <1>1, <1>2 DEF WholeRun

\* The rows of other runs are left alone.
LEMMA RowsOfOthers ==
  ASSUME NEW n, log \subseteq log', \A row \in log' \ log : row.no = n
  PROVE  \A no, a : no # n => Rows(no, a)' = Rows(no, a)
  BY DEF Rows

LEMMA StagesOfOthers ==
  ASSUME NEW g \in Slot, run'[g] = run[g], \A a : Rows(run[g].no, a)' = Rows(run[g].no, a), InItsStages(run[g])
  PROVE  InItsStages(run[g])'
  BY DEF InItsStages, OnScript, OnNarration, OnStills, Filmed, InTwoStages, InOneStage, Due, StillsFrom, OnRecord

LEMMA RecordGrows ==
  ASSUME log \subseteq log'
  PROVE  /\ \A no, a : Rows(no, a) \subseteq Rows(no, a)'
         /\ \A no, A : OnRecord(no, A) => OnRecord(no, A)'
<1>1. \A no, a : Rows(no, a) \subseteq Rows(no, a)'
  BY DEF Rows
<1>2. \A no, A : OnRecord(no, A) => OnRecord(no, A)'
  BY <1>1 DEF OnRecord
<1> QED
  BY <1>1, <1>2

\* A step of a run's agents or of its assembly, or its failure to save.
AgentStep(h) ==
  /\ Running(h) /\ run[h].at # "ok"
  /\ DOMAIN run' = Slot /\ \A g \in Slot \ {h} : run'[g] = run[g]
  /\ run'[h].does = run[h].does /\ run'[h].no = run[h].no
  /\ run'[h].on = run[h].on /\ run'[h].job = run[h].job
  /\ WholeRun(run'[h], begun, jobs) /\ run'[h].at # "ok"
  /\ run'[h].at # "error" => InItsStages(run[h])'
  /\ run'[h].does = "video" /\ run'[h].at = "save" => run[h].no \in bytes'
  /\ temp' \subseteq temp \cup {run[h].no}
  /\ run[h].no \in temp' => run'[h].at = "mux" \/ (run[h].no \in temp /\ run[h].at # "mux")
  /\ bytes' = bytes \/ bytes' = bytes \cup {run[h].no}
  /\ log \subseteq log' /\ \A row \in log' \ log : row.no = run[h].no /\ row.status \in {"success", "error"}
  /\ UNCHANGED <<works, queued, dead, begun>>

LEMMA AgentStepKeeps ==
  ASSUME StudioInv, NEW h \in Slot, AgentStep(h)
  PROVE  StudioInv'
<1>0. /\ run[h].no \in 1 .. begun /\ begun \in 0 .. MaxRuns /\ jobs \in Nat
      /\ run'[h] # NotRunning /\ run[h] # NotRunning
  <2>1. begun \in 0 .. MaxRuns /\ jobs \in Nat
    BY DEF StudioInv, StudioTypeOK, RunsAreWhole
  <2> QED
    BY <2>1, WholeRuns, WholeRunFields DEF AgentStep
<1>1. /\ log \subseteq log' /\ \A row \in log' \ log : row.no = run[h].no /\ row.status \in {"success", "error"}
      /\ bytes' = bytes \/ bytes' = bytes \cup {run[h].no}
      /\ temp' \subseteq temp \cup {run[h].no}
      /\ run[h].no \in temp' => run'[h].at = "mux" \/ (run[h].no \in temp /\ run[h].at # "mux")
      /\ UNCHANGED <<profile, planned, copyOf, specOf, videos, videoJob, filming, lost, jobs, dead, begun>>
      /\ run'[h].at # "ok" /\ run[h].at # "ok" /\ Running(h)
      /\ run'[h].at # "error" => InItsStages(run[h])'
      /\ run'[h].does = "video" /\ run'[h].at = "save" => run[h].no \in bytes'
      /\ DOMAIN run' = Slot
  BY DEF AgentStep, works, queued, itsJob
<1>2. \A g \in Slot : /\ Running(g)' <=> Running(g)
                      /\ run'[g].does = run[g].does /\ run'[g].no = run[g].no
                      /\ run'[g].on = run[g].on /\ run'[g].job = run[g].job
                      /\ g # h => run'[g] = run[g]
                      /\ OnLatest(g)' <=> OnLatest(g)
  BY <1>0, <1>1 DEF Running, AgentStep, OnLatest
<1>3. \A g \in Slot : run'[g] = NotRunning \/ WholeRun(run'[g], begun', jobs')
  <2> TAKE g \in Slot
  <2>1. CASE g = h
    BY <2>1, <1>1 DEF AgentStep
  <2>2. CASE g # h
    BY <2>2, <1>1, <1>2, WholeRuns DEF Running
  <2> QED
    BY <2>1, <2>2
<1>4. \A no, a : no # run[h].no => Rows(no, a)' = Rows(no, a)
  BY <1>1, RowsOfOthers
<1>5. \A g \in Slot : Running(g) /\ g # h => run[g].no # run[h].no
  BY <1>1 DEF StudioInv, RunsAreWhole
<1>6. \A v \in videos : v.no # run[h].no
  BY <1>1 DEF StudioInv, VideosAreOver
<1>7. RunsTyped' /\ RunsFit'
  BY <1>0, <1>1, <1>3, RunsTypedNext
<1>8. (\A no, a : Rows(no, a) \subseteq Rows(no, a)') /\ (\A no, A : OnRecord(no, A) => OnRecord(no, A)')
  BY <1>1, RecordGrows
<1>a. StudioTypeOK'
  <2>1. /\ bytes' \subseteq 1 .. begun /\ temp' \subseteq 1 .. begun /\ bytes \subseteq bytes'
        /\ \A row \in log' : row.no \in 1 .. begun /\ row.status \in {"success", "error"}
        /\ \A v \in videos : v \in [no : bytes', scenes : 1 .. MaxScenes, job : 1 .. jobs]
    BY <1>0, <1>1 DEF StudioInv, StudioTypeOK
  <2> QED
    BY <2>1, <1>1, <1>7 DEF StudioInv, StudioTypeOK, RunsTyped
<1>b. RunsAreWhole'
  <2>1. \A g, k \in Slot : Running(g)' /\ Running(k)' /\ g # k => run'[g].no # run'[k].no
    BY <1>2 DEF StudioInv, RunsAreWhole
  <2>2. planned' <= begun' /\ jobs' \in Nat
    BY <1>1 DEF StudioInv, RunsAreWhole
  <2> QED
    BY <2>1, <2>2, <1>1, <1>7 DEF RunsAreWhole, RunsFit
<1>c. StagesInTurn'
  <2> SUFFICES ASSUME NEW g \in Slot, Running(g)', run'[g].at # "error"
               PROVE  InItsStages(run[g])'
    BY DEF StagesInTurn
  <2>1. CASE g = h
    BY <2>1, <1>1
  <2>2. CASE g # h
    <3>1. Running(g) /\ run'[g] = run[g] /\ InItsStages(run[g])
      BY <2>2, <1>2 DEF StudioInv, StagesInTurn
    <3>2. \A a : Rows(run[g].no, a)' = Rows(run[g].no, a)
      BY <2>2, <3>1, <1>2, <1>4, <1>5
    <3> QED
      BY <3>1, <3>2, StagesOfOthers
  <2> QED
    BY <2>1, <2>2
<1>d. VideosAreOver'
  BY <1>1, <1>2, <1>6 DEF StudioInv, VideosAreOver
<1>e. LocksAreHeld'
  BY <1>1, <1>2 DEF StudioInv, LocksAreHeld
<1>f. PlansArePast'
  BY <1>1, <1>2 DEF StudioInv, PlansArePast
<1>g. WorkIsOnRecord'
  <2>1. \A v \in videos : Rows(v.no, "image_generation")' = Rows(v.no, "image_generation")
    BY <1>4, <1>6
  <2> QED
    BY <2>1, <1>1, <1>8 DEF StudioInv, WorkIsOnRecord, Extracting, Planning, Writing, Designing
<1>h. NoTempLeft'
  <2> SUFFICES ASSUME NEW n \in temp'
               PROVE  n \in dead' \/ \E g \in Slot : Stands(g, "mux")' /\ run'[g].no = n
    BY DEF NoTempLeft
  <2>1. CASE n # run[h].no
    BY <2>1, <1>1, <1>2 DEF StudioInv, NoTempLeft, Stands
  <2>2. CASE n = run[h].no /\ run'[h].at = "mux"
    BY <2>2, <1>1, <1>2 DEF Stands
  <2>3. CASE n = run[h].no /\ run'[h].at # "mux"
    BY <2>3, <1>1, <1>5 DEF StudioInv, NoTempLeft, Stands
  <2> QED
    BY <2>1, <2>2, <2>3
<1>i. OneVideoPerJob'
  BY <1>1 DEF StudioInv, OneVideoPerJob
<1> QED
  BY <1>a, <1>b, <1>c, <1>d, <1>e, <1>f, <1>g, <1>h, <1>i DEF StudioInv

----------------------------------------------------------------------------
(* The stages of a video. *)

LEMMA FilmingTold ==
  ASSUME NEW k \in 1 .. MaxScenes
  PROVE  /\ Filming(k) # <<>>
         /\ Head(Filming(k)) = {"tts_generation"} /\ Tail(Filming(k)) = Images(k)
<1> DEFINE S == {{"tts_generation"}, {"image_generation"}}
           s == <<{"tts_generation"}>>
<1>0. k \in Nat /\ k > 0
  BY StudioAssumption
<1>1. s \in Seq(S) /\ Len(s) = 1 /\ s[1] = {"tts_generation"}
  OBVIOUS
<1>2. Images(k) \in Seq(S) /\ Len(Images(k)) = k
  BY <1>0 DEF Images
<1>3. Filming(k) = s \o Images(k)
  BY DEF Filming, Images
<1> HIDE DEF s
<1>4. /\ Filming(k) \in Seq(S) /\ Len(Filming(k)) = k + 1
      /\ \A i \in 1 .. k + 1 : Filming(k)[i] = IF i <= 1 THEN s[i] ELSE Images(k)[i - 1]
  <2>1. /\ s \o Images(k) \in Seq(S) /\ Len(s \o Images(k)) = Len(s) + Len(Images(k))
        /\ \A i \in 1 .. Len(s) + Len(Images(k)) :
             (s \o Images(k))[i] = IF i <= Len(s) THEN s[i] ELSE Images(k)[i - Len(s)]
    BY <1>1, <1>2, ConcatProperties
  <2>2. Len(s) + Len(Images(k)) = k + 1
    BY <1>0, <1>1, <1>2
  <2> QED
    BY <1>1, <1>3, <2>1, <2>2
<1>5. Filming(k) # <<>>
  BY <1>4, <1>0, EmptySeq
<1>6. Head(Filming(k)) = Filming(k)[1]
  BY <1>4, <1>5
<1>7. Head(Filming(k)) = {"tts_generation"}
  BY <1>0, <1>1, <1>4, <1>6
<1>8. /\ Tail(Filming(k)) \in Seq(S) /\ Len(Tail(Filming(k))) = k
      /\ \A i \in 1 .. k : Tail(Filming(k))[i] = Filming(k)[i + 1]
  BY <1>0, <1>4, <1>5, HeadTailProperties
<1>9. \A i \in 1 .. k : Tail(Filming(k))[i] = Images(k)[i]
  BY <1>0, <1>4, <1>8
<1> QED
  BY <1>2, <1>5, <1>7, <1>8, <1>9, SeqEqual

LEMMA ImagesTold ==
  ASSUME NEW n \in Nat
  PROVE  /\ Len(Images(n)) = n
         /\ Images(n) = <<>> <=> n = 0
         /\ n > 0 => Head(Images(n)) = {"image_generation"} /\ Tail(Images(n)) = Images(n - 1)
<1> DEFINE S == {{"image_generation"}}
<1>1. \A m \in Nat : /\ Images(m) \in Seq(S) /\ Len(Images(m)) = m
                     /\ \A i \in 1 .. m : Images(m)[i] = {"image_generation"}
  BY DEF Images
<1>2. Images(n) = <<>> <=> n = 0
  BY <1>1, EmptySeq
<1>3. ASSUME n > 0
      PROVE  Head(Images(n)) = {"image_generation"} /\ Tail(Images(n)) = Images(n - 1)
  <2>1. Images(n) # <<>>
    BY <1>2, <1>3
  <2>2. /\ Tail(Images(n)) \in Seq(S) /\ Len(Tail(Images(n))) = n - 1
        /\ \A i \in 1 .. n - 1 : Tail(Images(n))[i] = Images(n)[i + 1]
    BY <1>1, <2>1, HeadTailProperties
  <2>3. Head(Images(n)) = Images(n)[1]
    BY <1>1, <2>1
  <2>4. Head(Images(n)) = {"image_generation"}
    BY <1>1, <1>3, <2>3
  <2>5. n - 1 \in Nat
    BY <1>3
  <2>6. ASSUME NEW i \in 1 .. n - 1
        PROVE  Tail(Images(n))[i] = Images(n - 1)[i]
    <3>1. i + 1 \in 1 .. n
      BY <1>3
    <3>2. Images(n)[i + 1] = {"image_generation"} /\ Images(n - 1)[i] = {"image_generation"}
      BY <1>1, <2>5, <3>1
    <3> QED
      BY <2>2, <3>2
  <2> QED
    BY <1>1, <2>2, <2>4, <2>5, <2>6, SeqEqual
<1> QED
  BY <1>1, <1>2, <1>3

\* As many rows as numbers.
LEMMA StillsCounted ==
  ASSUME NEW no, NEW k \in Nat
  PROVE  Cardinality({Still(no, left) : left \in 0 .. k - 1}) = k
<1> DEFINE T == {Still(no, left) : left \in 0 .. k - 1}
           f == [left \in 0 .. k - 1 |-> Still(no, left)]
<1>1. f \in Bijection(0 .. k - 1, T)
  <2>1. f \in [0 .. k - 1 -> T]
    OBVIOUS
  <2>2. \A a, b \in 0 .. k - 1 : f[a] = f[b] => a = b
    BY DEF Still
  <2>3. \A t \in T : \E a \in 0 .. k - 1 : f[a] = t
    OBVIOUS
  <2> QED
    BY <2>1, <2>2, <2>3 DEF Bijection, Injection, Surjection, IsInjective
<1>2. IsFiniteSet(0 .. k - 1) /\ Cardinality(0 .. k - 1) = k
  BY FS_Interval
<1>3. ExistsBijection(0 .. k - 1, T)
  BY <1>1 DEF ExistsBijection
<1> QED
  BY <1>2, <1>3, FS_Bijection

----------------------------------------------------------------------------
(* The steps of a run. *)

\* A run that goes on with other agents, stages, place or scenes.
Moved(r, live, todo, at, scenes) ==
  [does |-> r.does, no |-> r.no, on |-> r.on, scenes |-> scenes, job |-> r.job,
   at |-> at, live |-> live, todo |-> todo]

LEMMA MovedIs ==
  ASSUME NEW b, NEW j, NEW r, WholeRun(r, b, j)
  PROVE  /\ \A live : [r EXCEPT !.live = live] = Moved(r, live, r.todo, r.at, r.scenes)
         /\ \A at : [r EXCEPT !.at = at] = Moved(r, r.live, r.todo, at, r.scenes)
<1> DEFINE D == DOMAIN Stages  N == 1 .. b  O == 0 .. b  S == 0 .. MaxScenes  J == 0 .. j
           A == {"agents", "assemble", "mux", "put", "save", "ok", "error"}  L == {r.live}  T == {r.todo}
<1>1. r \in [does : D, no : N, on : O, scenes : S, job : J, at : A, live : L, todo : T]
  BY DEF WholeRun
<1> HIDE DEF D, N, O, S, J, A, L, T
<1>2. \A live : [r EXCEPT !.live = live] = Moved(r, live, r.todo, r.at, r.scenes)
  BY <1>1 DEF Moved
<1>3. \A at : [r EXCEPT !.at = at] = Moved(r, r.live, r.todo, at, r.scenes)
  BY <1>1 DEF Moved
<1> QED
  BY <1>2, <1>3

LEMMA MovedAgain ==
  ASSUME NEW r, NEW live, NEW todo, NEW at, NEW scenes
  PROVE  /\ \A t : [Moved(r, live, todo, at, scenes) EXCEPT !.todo = t] = Moved(r, live, t, at, scenes)
         /\ \A p : [Moved(r, live, todo, at, scenes) EXCEPT !.at = p] = Moved(r, live, todo, p, scenes)
         /\ \A k : [Moved(r, live, todo, at, scenes) EXCEPT !.scenes = k] = Moved(r, live, todo, at, k)
  BY DEF Moved

LEMMA MovedFields ==
  ASSUME NEW r, NEW live, NEW todo, NEW at, NEW scenes
  PROVE  /\ Moved(r, live, todo, at, scenes).does = r.does /\ Moved(r, live, todo, at, scenes).no = r.no
         /\ Moved(r, live, todo, at, scenes).on = r.on /\ Moved(r, live, todo, at, scenes).job = r.job
         /\ Moved(r, live, todo, at, scenes).at = at /\ Moved(r, live, todo, at, scenes).live = live
         /\ Moved(r, live, todo, at, scenes).todo = todo /\ Moved(r, live, todo, at, scenes).scenes = scenes
  BY DEF Moved

IsLive(live) == live \in [DOMAIN live -> {"calling", "good", "bad"}]

LEMMA MovedWhole ==
  ASSUME NEW b, NEW j, NEW r, WholeRun(r, b, j), NEW live, IsLive(live), NEW todo,
         NEW at \in {"agents", "assemble", "mux", "put", "save", "ok", "error"}, NEW scenes \in 0 .. MaxScenes,
         at \notin {"agents", "error"} => live = Nobody /\ todo = <<>>
  PROVE  WholeRun(Moved(r, live, todo, at, scenes), b, j)
<1> DEFINE D == DOMAIN Stages
           q == Moved(r, live, todo, at, scenes)
<1>1. /\ q.does = r.does /\ q.no = r.no /\ q.on = r.on /\ q.job = r.job /\ q.at = at
      /\ q.live = live /\ q.todo = todo /\ q.scenes = scenes
  BY DEF Moved
<1>2. r.does \in D /\ r.no \in 1 .. b /\ r.on \in 0 .. b /\ r.job \in 0 .. j
  BY DEF WholeRun
<1> HIDE DEF D
<1>3. q \in [does : D, no : 1 .. b, on : 0 .. b, scenes : 0 .. MaxScenes, job : 0 .. j,
             at : {"agents", "assemble", "mux", "put", "save", "ok", "error"}, live : {live}, todo : {todo}]
  BY <1>2 DEF Moved
<1> USE DEF D
<1> HIDE DEF q
<1>4. q.live \in [DOMAIN q.live -> {"calling", "good", "bad"}]
  BY <1>1 DEF IsLive
<1>5. q.does = "video" => q.job # 0
  BY <1>1 DEF WholeRun
<1> QED
  BY <1>1, <1>3, <1>4, <1>5 DEF WholeRun, q

Place(at, live, todo) ==
  /\ at \in {"agents", "assemble", "mux", "put", "save", "error"}
  /\ at \notin {"agents", "error"} => live = Nobody /\ todo = <<>>

MovesTo(h, live, todo, at, scenes) ==
  /\ DOMAIN run' = Slot /\ \A g \in Slot \ {h} : run'[g] = run[g]
  /\ run'[h].does = run[h].does /\ run'[h].no = run[h].no
  /\ run'[h].on = run[h].on /\ run'[h].job = run[h].job
  /\ run'[h].at = at /\ run'[h].live = live /\ run'[h].todo = todo /\ run'[h].scenes = scenes
  /\ WholeRun(run'[h], begun, jobs) /\ run'[h].at # "ok"

\* What a step of a run has to show to be an AgentStep.
LEMMA Moves ==
  ASSUME StudioInv, NEW h \in Slot, Running(h), run[h].at # "ok",
         NEW live, IsLive(live), NEW todo,
         NEW at, Place(at, live, todo), NEW scenes \in 0 .. MaxScenes,
         run' = [run EXCEPT ![h] = Moved(run[h], live, todo, at, scenes)]
  PROVE  MovesTo(h, live, todo, at, scenes)
<1>1. DOMAIN run = Slot
  BY DEF StudioInv, RunsAreWhole
<1>2. WholeRun(run[h], begun, jobs)
  BY WholeRuns
<1>3. DOMAIN run' = Slot /\ (\A g \in Slot \ {h} : run'[g] = run[g])
      /\ run'[h] = Moved(run[h], live, todo, at, scenes)
  BY <1>1
<1> DEFINE q == Moved(run[h], live, todo, at, scenes)
<1>4. at \in {"agents", "assemble", "mux", "put", "save", "ok", "error"} /\ at # "ok"
      /\ (at \notin {"agents", "error"} => live = Nobody /\ todo = <<>>)
  BY DEF Place
<1>6. WholeRun(q, begun, jobs)
  BY <1>2, <1>4, MovedWhole
<1>5. /\ q.does = run[h].does /\ q.no = run[h].no
      /\ q.on = run[h].on /\ q.job = run[h].job
      /\ q.at = at /\ q.live = live
      /\ q.todo = todo /\ q.scenes = scenes
  BY MovedFields
<1> HIDE DEF q
<1> QED
  BY <1>3, <1>4, <1>5, <1>6 DEF q, MovesTo

LEMMA LiveTypes ==
  ASSUME StudioInv, NEW h \in Slot, Running(h)
  PROVE  /\ run[h].live \in [DOMAIN run[h].live -> {"calling", "good", "bad"}]
         /\ run[h].scenes \in 0 .. MaxScenes
         /\ run[h].at \in {"agents", "assemble", "mux", "put", "save", "ok", "error"}
         /\ run[h].at \notin {"agents", "error"} => run[h].live = Nobody /\ run[h].todo = <<>>
         /\ \A a \in DOMAIN run[h].live : run[h].at \in {"agents", "error"}
         /\ \A a : Without(run[h].live, a) \in [DOMAIN run[h].live \ {a} -> {"calling", "good", "bad"}]
         /\ DOMAIN run = Slot
<1>1. WholeRun(run[h], begun, jobs)
  BY WholeRuns
<1> QED
  BY <1>1, NobodyEmpty DEF WholeRun, Without, StudioInv, RunsAreWhole

LEMMA Stages1 ==
  ASSUME NEW S
  PROVE  InStage(S) \in [S -> {"calling", "good", "bad"}] /\ DOMAIN InStage(S) = S
  BY DEF InStage

\* An agent's answer is taken down, or is thrown away.
LEMMA AnswerStep ==
  ASSUME StudioInv, NEW h \in Slot, Running(h), NEW a \in DOMAIN run[h].live, NEW v \in {"good", "bad"},
         run' = [run EXCEPT ![h].live[a] = v], UNCHANGED <<works, queued, bytes, temp, log, dead, begun>>
  PROVE  AgentStep(h)
<1>0. PICK left : left = [run[h].live EXCEPT ![a] = v]
  OBVIOUS
<1>2. run' = [run EXCEPT ![h] = [run[h] EXCEPT !.live = left]]
  BY <1>0, LiveTypes
<1>3. IsLive(left) /\ DOMAIN left = DOMAIN run[h].live
  BY <1>0, LiveTypes DEF IsLive
<1>4. run[h].at \in {"agents", "error"} /\ run[h].scenes \in 0 .. MaxScenes
  BY LiveTypes
<1>p. WholeRun(run[h], begun, jobs)
  BY WholeRuns
<1>q. [run[h] EXCEPT !.live = left] = Moved(run[h], left, run[h].todo, run[h].at, run[h].scenes)
  BY <1>p, MovedIs
<1>5. run' = [run EXCEPT ![h] = Moved(run[h], left, run[h].todo, run[h].at, run[h].scenes)]
  BY <1>2, <1>q
<1>6. /\ DOMAIN run' = Slot /\ \A g \in Slot \ {h} : run'[g] = run[g]
      /\ run'[h].does = run[h].does /\ run'[h].no = run[h].no
      /\ run'[h].on = run[h].on /\ run'[h].job = run[h].job
      /\ run'[h].at = run[h].at /\ run'[h].live = left /\ run'[h].todo = run[h].todo
      /\ run'[h].scenes = run[h].scenes
      /\ WholeRun(run'[h], begun, jobs) /\ run'[h].at # "ok"
  <2>1. Place(run[h].at, left, run[h].todo) /\ run[h].at # "ok"
    BY <1>4 DEF Place
  <2>2. MovesTo(h, left, run[h].todo, run[h].at, run[h].scenes)
    BY <1>3, <1>4, <1>5, <2>1, Moves
  <2> QED
    BY <2>2 DEF MovesTo
<1>7. /\ UNCHANGED <<works, queued, dead, begun>> /\ temp' = temp /\ bytes' = bytes /\ log' = log
  OBVIOUS
<1>8. run'[h].at # "error" => InItsStages(run[h])'
  <2>1. SUFFICES ASSUME run'[h].at # "error"
                 PROVE  InItsStages(run[h])'
    OBVIOUS
  <2>2. InItsStages(run[h])
    BY <2>1, <1>6 DEF StudioInv, StagesInTurn
  <2>3. \A no, b : Rows(no, b)' = Rows(no, b)
    BY <1>7 DEF Rows
  <2> QED
    BY <2>2, <2>3, <1>3, <1>6
    DEF InItsStages, OnScript, OnNarration, OnStills, Filmed, InTwoStages, InOneStage, Due, StillsFrom, OnRecord
<1> QED
  BY <1>4, <1>6, <1>7, <1>8 DEF AgentStep

LEMMA RecordErrorStep ==
  ASSUME StudioInv, NEW h \in Slot, Running(h), NEW a \in DOMAIN run[h].live, RecordError(h, a)
  PROVE  AgentStep(h)
<1>0. PICK left : left = Without(run[h].live, a)
  OBVIOUS
<1>2. run' = [run EXCEPT ![h] = [run[h] EXCEPT !.live = left, !.at = "error"]]
  BY <1>0, LiveTypes DEF RecordError
<1>3. IsLive(left)
  BY <1>0, LiveTypes DEF IsLive, Without
<1>4. run[h].at \in {"agents", "error"} /\ run[h].scenes \in 0 .. MaxScenes
  BY LiveTypes
<1>p. WholeRun(run[h], begun, jobs)
  BY WholeRuns
<1>q. [run[h] EXCEPT !.live = left, !.at = "error"] = Moved(run[h], left, run[h].todo, "error", run[h].scenes)
  <2>1. [run[h] EXCEPT !.live = left, !.at = "error"] = [[run[h] EXCEPT !.live = left] EXCEPT !.at = "error"]
    OBVIOUS
  <2>2. [run[h] EXCEPT !.live = left] = Moved(run[h], left, run[h].todo, run[h].at, run[h].scenes)
    BY <1>p, MovedIs
  <2>3. [Moved(run[h], left, run[h].todo, run[h].at, run[h].scenes) EXCEPT !.at = "error"]
          = Moved(run[h], left, run[h].todo, "error", run[h].scenes)
    BY MovedAgain
  <2> QED
    BY <2>1, <2>2, <2>3
<1>5. run' = [run EXCEPT ![h] = Moved(run[h], left, run[h].todo, "error", run[h].scenes)]
  BY <1>2, <1>q
<1>6. /\ DOMAIN run' = Slot /\ \A g \in Slot \ {h} : run'[g] = run[g]
      /\ run'[h].does = run[h].does /\ run'[h].no = run[h].no
      /\ run'[h].on = run[h].on /\ run'[h].job = run[h].job
      /\ run'[h].at = "error"
      /\ WholeRun(run'[h], begun, jobs) /\ run'[h].at # "ok"
  <2>1. Place("error", left, run[h].todo) /\ run[h].at # "ok"
    BY <1>4 DEF Place
  <2>2. MovesTo(h, left, run[h].todo, "error", run[h].scenes)
    BY <1>3, <1>4, <1>5, <2>1, Moves
  <2> QED
    BY <2>2 DEF MovesTo
<1>7. /\ UNCHANGED <<works, queued, dead, begun>> /\ temp' = temp /\ bytes' = bytes
      /\ log \subseteq log' /\ \A row \in log' \ log : row.no = run[h].no /\ row.status \in {"success", "error"}
  BY DEF RecordError
<1> QED
  BY <1>4, <1>6, <1>7 DEF AgentStep

Advances(r, a, ahead, live, todo, at) ==
  \/ /\ r.at # "agents" \/ ~StageOver(r, a)
     /\ live = Without(r.live, a) /\ todo = r.todo /\ at = r.at
  \/ /\ r.at = "agents" /\ StageOver(r, a) /\ ahead = <<>>
     /\ live = Nobody /\ todo = <<>> /\ at = AfterAgents(r)
  \/ /\ r.at = "agents" /\ StageOver(r, a) /\ ahead # <<>>
     /\ live = InStage(Head(ahead)) /\ todo = Tail(ahead) /\ at = r.at

LEMMA AdvanceIs ==
  ASSUME NEW b, NEW j, NEW r, WholeRun(r, b, j), NEW a, NEW ahead
  PROVE  \E live, todo, at :
           Advance(r, a, ahead) = Moved(r, live, todo, at, r.scenes) /\ Advances(r, a, ahead, live, todo, at)
<1>1. CASE r.at # "agents" \/ ~StageOver(r, a)
  <2>1. Advance(r, a, ahead) = [r EXCEPT !.live = Without(r.live, a)]
    BY <1>1 DEF Advance
  <2>2. Advance(r, a, ahead) = Moved(r, Without(r.live, a), r.todo, r.at, r.scenes)
    BY <2>1, MovedIs
  <2>3. Advances(r, a, ahead, Without(r.live, a), r.todo, r.at)
    BY <1>1 DEF Advances
  <2> QED
    BY <2>2, <2>3
<1>2. CASE r.at = "agents" /\ StageOver(r, a) /\ ahead = <<>>
  <2>1. Advance(r, a, ahead) = [r EXCEPT !.live = Nobody, !.todo = <<>>, !.at = AfterAgents(r)]
    BY <1>2 DEF Advance
  <2>2. [r EXCEPT !.live = Nobody, !.todo = <<>>, !.at = AfterAgents(r)]
          = [[[r EXCEPT !.live = Nobody] EXCEPT !.todo = <<>>] EXCEPT !.at = AfterAgents(r)]
    OBVIOUS
  <2>3. [r EXCEPT !.live = Nobody] = Moved(r, Nobody, r.todo, r.at, r.scenes)
    BY MovedIs
  <2>4. [Moved(r, Nobody, r.todo, r.at, r.scenes) EXCEPT !.todo = <<>>] = Moved(r, Nobody, <<>>, r.at, r.scenes)
    BY MovedAgain
  <2>5. [Moved(r, Nobody, <<>>, r.at, r.scenes) EXCEPT !.at = AfterAgents(r)]
          = Moved(r, Nobody, <<>>, AfterAgents(r), r.scenes)
    BY MovedAgain
  <2>6. Advance(r, a, ahead) = Moved(r, Nobody, <<>>, AfterAgents(r), r.scenes)
    BY <2>1, <2>2, <2>3, <2>4, <2>5
  <2>7. Advances(r, a, ahead, Nobody, <<>>, AfterAgents(r))
    BY <1>2 DEF Advances
  <2> QED
    BY <2>6, <2>7
<1>3. CASE r.at = "agents" /\ StageOver(r, a) /\ ahead # <<>>
  <2> DEFINE L == InStage(Head(ahead))  T == Tail(ahead)
  <2>1. Advance(r, a, ahead) = [r EXCEPT !.live = L, !.todo = T]
    BY <1>3 DEF Advance
  <2>7. Advances(r, a, ahead, L, T, r.at)
    BY <1>3 DEF Advances
  <2> HIDE DEF L, T
  <2>2. [r EXCEPT !.live = L, !.todo = T] = [[r EXCEPT !.live = L] EXCEPT !.todo = T]
    OBVIOUS
  <2>3. [r EXCEPT !.live = L] = Moved(r, L, r.todo, r.at, r.scenes)
    BY MovedIs
  <2>4. [Moved(r, L, r.todo, r.at, r.scenes) EXCEPT !.todo = T] = Moved(r, L, T, r.at, r.scenes)
    BY MovedAgain
  <2>6. Advance(r, a, ahead) = Moved(r, L, T, r.at, r.scenes)
    BY <2>1, <2>2, <2>3, <2>4
  <2> QED
    BY <2>6, <2>7
<1> QED
  BY <1>1, <1>2, <1>3

Success(h, a) == [no |-> run[h].no, agent |-> a, left |-> Len(run[h].todo), status |-> "success"]

LEMMA SuccessRows ==
  ASSUME NEW h, NEW a, log' = log \cup {Success(h, a)}
  PROVE  /\ \A no, b : b # a => Rows(no, b)' = Rows(no, b)
         /\ \A no : no = run[h].no => Rows(no, a)' = Rows(no, a) \cup {Success(h, a)}
         /\ log \subseteq log' /\ \A row \in log' \ log : row.no = run[h].no /\ row.status \in {"success", "error"}
<1>1. PICK row : row = Success(h, a)
  OBVIOUS
<1>2. row.no = run[h].no /\ row.agent = a /\ row.status = "success" /\ log' = log \cup {row}
  BY <1>1 DEF Success
<1>3. \A no, b : b # a => Rows(no, b)' = Rows(no, b)
  BY <1>2 DEF Rows
<1>4. \A no : no = run[h].no => Rows(no, a)' = Rows(no, a) \cup {row}
  BY <1>2 DEF Rows
<1>5. log \subseteq log' /\ \A x \in log' \ log : x.no = run[h].no /\ x.status \in {"success", "error"}
  BY <1>2
<1> QED
  BY <1>1, <1>3, <1>4, <1>5

LEMMA RecordSuccessMoves ==
  ASSUME StudioInv, NEW h \in Slot, Running(h), NEW a \in DOMAIN run[h].live, RecordSuccess(h, a),
         log' = log \cup {Success(h, a)},
         \/ a # "video_script" /\ run' = [run EXCEPT ![h] = Advance(@, a, @.todo)]
         \/ a = "video_script" /\ \E k \in 1 .. MaxScenes :
              run' = [run EXCEPT ![h] = [Advance(@, a, Filming(k)) EXCEPT !.scenes = k]]
  PROVE  \E ahead, live, todo, at : \E scenes \in 0 .. MaxScenes :
           /\ MovesTo(h, live, todo, at, scenes) /\ Advances(run[h], a, ahead, live, todo, at)
           /\ \/ a # "video_script" /\ ahead = run[h].todo /\ scenes = run[h].scenes
              \/ a = "video_script" /\ scenes \in 1 .. MaxScenes /\ ahead = Filming(scenes)
<1>1. WholeRun(run[h], begun, jobs) /\ DOMAIN run = Slot
      /\ run[h].scenes \in 0 .. MaxScenes /\ run[h].at \in {"agents", "error"}
  BY WholeRuns, LiveTypes
<1>2. ASSUME NEW ahead, NEW live, NEW todo, NEW at, NEW scenes \in 0 .. MaxScenes,
             Advances(run[h], a, ahead, live, todo, at),
             run' = [run EXCEPT ![h] = Moved(run[h], live, todo, at, scenes)]
      PROVE  MovesTo(h, live, todo, at, scenes)
  <2>1. IsLive(live)
    BY <1>2, LiveTypes, Stages1 DEF Advances, IsLive, Nobody, Without
  <2>2. Place(at, live, todo)
    BY <1>1, <1>2 DEF Advances, Place, AfterAgents
  <2>3. run[h].at # "ok"
    BY <1>1
  <2> QED
    BY <1>2, <2>1, <2>2, <2>3, Moves
<1>3. CASE a # "video_script" /\ run' = [run EXCEPT ![h] = Advance(@, a, @.todo)]
  <2>1. PICK live, todo, at : /\ Advance(run[h], a, run[h].todo) = Moved(run[h], live, todo, at, run[h].scenes)
                              /\ Advances(run[h], a, run[h].todo, live, todo, at)
    BY <1>1, AdvanceIs
  <2>2. run' = [run EXCEPT ![h] = Moved(run[h], live, todo, at, run[h].scenes)]
    BY <1>1, <1>3, <2>1
  <2>3. MovesTo(h, live, todo, at, run[h].scenes)
    BY <1>1, <1>2, <2>1, <2>2
  <2> QED
    BY <1>1, <1>3, <2>1, <2>3
<1>4. CASE a = "video_script" /\ \E k \in 1 .. MaxScenes :
              run' = [run EXCEPT ![h] = [Advance(@, a, Filming(k)) EXCEPT !.scenes = k]]
  <2>0. PICK k \in 1 .. MaxScenes : run' = [run EXCEPT ![h] = [Advance(@, a, Filming(k)) EXCEPT !.scenes = k]]
    BY <1>4
  <2>1. PICK live, todo, at : /\ Advance(run[h], a, Filming(k)) = Moved(run[h], live, todo, at, run[h].scenes)
                              /\ Advances(run[h], a, Filming(k), live, todo, at)
    BY <1>1, AdvanceIs
  <2>2. [Moved(run[h], live, todo, at, run[h].scenes) EXCEPT !.scenes = k] = Moved(run[h], live, todo, at, k)
    BY MovedAgain
  <2>3. run' = [run EXCEPT ![h] = Moved(run[h], live, todo, at, k)]
    BY <1>1, <2>0, <2>1, <2>2
  <2>4. k \in 0 .. MaxScenes
    BY StudioAssumption
  <2>5. MovesTo(h, live, todo, at, k)
    BY <1>2, <2>1, <2>3, <2>4
  <2> QED
    BY <1>4, <2>1, <2>4, <2>5
<1> QED
  BY <1>3, <1>4

\* An agent's success takes a run through its stages.
LEMMA SuccessInOneStage ==
  ASSUME NEW h \in Slot, NEW a \in DOMAIN run[h].live, NEW ahead, NEW live, NEW todo, NEW at,
         run[h].at = "agents", run[h].does \in {"extract", "plan", "write"}, InItsStages(run[h]),
         run'[h].live = live, run'[h].todo = todo, run'[h].no = run[h].no, run'[h].does = run[h].does,
         Advances(run[h], a, ahead, live, todo, at), a # "video_script" => ahead = run[h].todo,
         log' = log \cup {Success(h, a)}
  PROVE  InItsStages(run[h])'
<1>0. PICK S : S = Stages[run[h].does][1]
  OBVIOUS
<1>1. run[h].todo = <<>> /\ Due(run[h], S)
  BY <1>0 DEF InItsStages, InOneStage
<1>2. a \in S /\ "video_script" \notin S
  BY <1>0, <1>1 DEF Due, Stages, Extracting, Planning, Writing
<1>3. ahead = <<>>
  BY <1>1, <1>2
<1>4. \A b : Rows(run[h].no, b) \subseteq Rows(run[h].no, b)' /\ Rows(run[h].no, a)' # {}
  <2>1. Rows(run[h].no, a)' = Rows(run[h].no, a) \cup {Success(h, a)}
    BY SuccessRows
  <2>2. \A b : b # a => Rows(run[h].no, b)' = Rows(run[h].no, b)
    BY SuccessRows
  <2> QED
    BY <2>1, <2>2
<1>5. Due(run[h], S)'
  <2>1. DOMAIN run'[h].live \subseteq S
    BY <1>1, <1>3, NobodyEmpty DEF Advances, Without, Due
  <2>2. ASSUME NEW b \in S
        PROVE  b \in DOMAIN run'[h].live \/ Rows(run[h].no, b)' # {}
    <3>1. CASE b = a
      BY <3>1, <1>4
    <3>2. CASE b # a /\ Rows(run[h].no, b) # {}
      BY <3>2, <1>4
    <3>3. CASE b # a /\ b \in DOMAIN run[h].live
      BY <3>3, <1>3 DEF Advances, Without, StageOver
    <3> QED
      BY <3>1, <3>2, <3>3, <1>1 DEF Due
  <2> QED
    BY <2>1, <2>2 DEF Due
<1>6. run'[h].todo = <<>>
  BY <1>1, <1>3 DEF Advances
<1> QED
  BY <1>0, <1>5, <1>6 DEF InItsStages, InOneStage

LEMMA SuccessInTwoStages ==
  ASSUME NEW h \in Slot, NEW a \in DOMAIN run[h].live, NEW ahead, NEW live, NEW todo, NEW at,
         run[h].at = "agents", run[h].does = "design", InItsStages(run[h]), run'[h].at = at,
         run'[h].live = live, run'[h].todo = todo, run'[h].no = run[h].no, run'[h].does = run[h].does,
         Advances(run[h], a, ahead, live, todo, at), a # "video_script" => ahead = run[h].todo,
         log' = log \cup {Success(h, a)}
  PROVE  InItsStages(run[h])'
<1>D. PICK D1, D2 : D1 = {"design_direction"} /\ D2 = {"design_copy", "design_color", "design_imagery"}
  OBVIOUS
<1>0. Designing[1] = D1 /\ Designing[2] = D2 /\ "video_script" \notin D1 \cup D2
  BY <1>D DEF Designing
<1>1. \/ run[h].todo = <<D2>> /\ Due(run[h], D1)
      \/ run[h].todo = <<>> /\ OnRecord(run[h].no, D1) /\ Due(run[h], D2)
  BY <1>0 DEF InItsStages, InTwoStages
<1>2. ahead = run[h].todo
  BY <1>0, <1>1 DEF Due
<1>4. \A b : Rows(run[h].no, b) \subseteq Rows(run[h].no, b)' /\ Rows(run[h].no, a)' # {}
  <2>1. Rows(run[h].no, a)' = Rows(run[h].no, a) \cup {Success(h, a)}
    BY SuccessRows
  <2>2. \A b : b # a => Rows(run[h].no, b)' = Rows(run[h].no, b)
    BY SuccessRows
  <2> QED
    BY <2>1, <2>2
<1>5. ASSUME NEW S, Due(run[h], S), live = Without(run[h].live, a) \/ (StageOver(run[h], a) /\ live = Nobody)
      PROVE  Due(run[h], S)'
  <2>1. DOMAIN run'[h].live \subseteq S
    BY <1>5, NobodyEmpty DEF Without, Due
  <2>2. ASSUME NEW b \in S
        PROVE  b \in DOMAIN run'[h].live \/ Rows(run[h].no, b)' # {}
    <3>1. CASE b = a
      BY <3>1, <1>4
    <3>2. CASE b # a /\ Rows(run[h].no, b) # {}
      BY <3>2, <1>4
    <3>3. CASE b # a /\ b \in DOMAIN run[h].live
      BY <3>3, <1>5 DEF Without, StageOver
    <3> QED
      BY <3>1, <3>2, <3>3, <1>5 DEF Due
  <2> QED
    BY <2>1, <2>2 DEF Due
<1>6. OnRecord(run[h].no, D1) => OnRecord(run[h].no, D1)'
  BY <1>4 DEF OnRecord
<1>7. CASE run[h].todo = <<D2>> /\ Due(run[h], D1) /\ (run[h].at # "agents" \/ ~StageOver(run[h], a))
  <2>1. live = Without(run[h].live, a) /\ todo = <<D2>> /\ at = "agents"
    BY <1>7 DEF Advances
  <2> QED
    BY <1>7, <2>1, <1>5, <1>0 DEF InItsStages, InTwoStages
<1>8. CASE run[h].todo = <<D2>> /\ Due(run[h], D1) /\ StageOver(run[h], a)
  <2>1. <<D2>> # <<>> /\ Head(<<D2>>) = D2 /\ Tail(<<D2>>) = <<>>
    OBVIOUS
  <2>2. live = InStage(D2) /\ todo = <<>>
    BY <1>2, <1>8, <2>1 DEF Advances
  <2>3. Due(run[h], D2)'
    BY <2>2, Stages1 DEF Due
  <2>4. OnRecord(run[h].no, D1)'
    <3>1. \A b \in D1 : b = a \/ Rows(run[h].no, b) # {}
      BY <1>8 DEF Due, StageOver
    <3> QED
      BY <3>1, <1>4 DEF OnRecord
  <2> QED
    BY <2>2, <2>3, <2>4, <1>0 DEF InItsStages, InTwoStages
<1>9. CASE run[h].todo = <<>> /\ OnRecord(run[h].no, D1) /\ Due(run[h], D2)
  <2>1. todo = <<>> /\ (live = Without(run[h].live, a) \/ (StageOver(run[h], a) /\ live = Nobody))
    BY <1>2, <1>9 DEF Advances
  <2> QED
    BY <1>9, <2>1, <1>5, <1>6, <1>0 DEF InItsStages, InTwoStages
<1> QED
  BY <1>1, <1>7, <1>8, <1>9

LEMMA SuccessOnScript ==
  ASSUME NEW h \in Slot, NEW a \in DOMAIN run[h].live, NEW ahead, NEW live, NEW todo, NEW at,
         NEW k \in 1 .. MaxScenes, OnScript(run[h]),
         run'[h].at = at, run'[h].live = live, run'[h].todo = todo, run'[h].no = run[h].no, run'[h].scenes = k,
         Advances(run[h], a, ahead, live, todo, at), ahead = Filming(k),
         log' = log \cup {Success(h, a)}
  PROVE  OnNarration(run[h])'
<1>1. /\ a = "video_script" /\ run[h].at = "agents" /\ StageOver(run[h], a) /\ run[h].scenes = 0
      /\ StillsFrom(run[h], 0)
  BY DEF OnScript, StageOver
<1>2. live = InStage({"tts_generation"}) /\ todo = Images(k) /\ at = "agents"
  BY <1>1, FilmingTold DEF Advances
<1>3. DOMAIN live = {"tts_generation"} /\ k # 0 /\ k \in Nat
  BY <1>2, Stages1
<1>4. Rows(run[h].no, "video_script")' # {}
  BY <1>1, SuccessRows
<1>5. Rows(run[h].no, "image_generation")' = Rows(run[h].no, "image_generation")
  BY <1>1, SuccessRows
<1>6. Rows(run[h].no, "image_generation") = {}
  BY <1>1 DEF StillsFrom
<1>7. {Still(run'[h].no, left) : left \in k .. k - 1} = {}
  BY <1>3
<1>8. StillsFrom(run[h], run[h].scenes)'
  BY <1>5, <1>6, <1>7 DEF StillsFrom
<1>9. OnRecord(run[h].no, {"video_script"})'
  BY <1>4 DEF OnRecord
<1> QED
  BY <1>2, <1>3, <1>8, <1>9 DEF OnNarration

LEMMA SuccessOnNarration ==
  ASSUME NEW h \in Slot, NEW a \in DOMAIN run[h].live, NEW ahead, NEW live, NEW todo, NEW at,
         OnNarration(run[h]), run[h].scenes \in 0 .. MaxScenes,
         run'[h].at = at, run'[h].live = live, run'[h].todo = todo, run'[h].no = run[h].no,
         run'[h].scenes = run[h].scenes,
         Advances(run[h], a, ahead, live, todo, at), ahead = run[h].todo,
         log' = log \cup {Success(h, a)}
  PROVE  OnStills(run[h])'
<1>0. PICK k \in Nat : k = run[h].scenes /\ k > 0
  BY StudioAssumption DEF OnNarration
<1>1. /\ a = "tts_generation" /\ run[h].at = "agents" /\ StageOver(run[h], a) /\ ahead = Images(k)
      /\ StillsFrom(run[h], k) /\ OnRecord(run[h].no, {"video_script"})
  BY <1>0 DEF OnNarration, StageOver
<1>2. live = InStage({"image_generation"}) /\ todo = Images(k - 1) /\ at = "agents"
  <2>1. k > 0 /\ k # 0
    BY <1>0
  <2>2. Images(k) # <<>> /\ Head(Images(k)) = {"image_generation"} /\ Tail(Images(k)) = Images(k - 1)
    BY <2>1, ImagesTold
  <2> QED
    BY <1>1, <2>2 DEF Advances
<1>3. DOMAIN live = {"image_generation"}
  BY <1>2, Stages1
<1>4. /\ Rows(run[h].no, "tts_generation")' # {}
      /\ \A b : b # a => Rows(run[h].no, b)' = Rows(run[h].no, b)
  BY <1>1, SuccessRows
<1>5. Rows(run[h].no, "image_generation")' = Rows(run[h].no, "image_generation")
  BY <1>1, <1>4
<1>6. StillsFrom(run[h], k)'
  BY <1>1, <1>5 DEF StillsFrom
<1>7. OnRecord(run[h].no, {"video_script", "tts_generation"})'
  <2>1. Rows(run[h].no, "video_script")' # {}
    BY <1>1, <1>4 DEF OnRecord
  <2> QED
    BY <2>1, <1>4 DEF OnRecord
<1>8. k - 1 \in 0 .. run'[h].scenes - 1 /\ (k - 1) + 1 = k
  BY <1>0
<1>9. \E n \in 0 .. run'[h].scenes - 1 : run'[h].todo = Images(n) /\ StillsFrom(run[h], n + 1)'
  BY <1>2, <1>6, <1>8
<1> QED
  BY <1>2, <1>3, <1>7, <1>9 DEF OnStills, Images

LEMMA SuccessOnStills ==
  ASSUME NEW h \in Slot, NEW a \in DOMAIN run[h].live, NEW ahead, NEW live, NEW todo, NEW at,
         OnStills(run[h]), run[h].scenes \in 0 .. MaxScenes, run[h].does = "video",
         run'[h].at = at, run'[h].live = live, run'[h].todo = todo, run'[h].no = run[h].no,
         run'[h].scenes = run[h].scenes,
         Advances(run[h], a, ahead, live, todo, at), ahead = run[h].todo,
         log' = log \cup {Success(h, a)}
  PROVE  OnStills(run[h])' \/ Filmed(run[h])'
<1>k. PICK k \in Nat : k = run[h].scenes
  BY StudioAssumption
<1>0. PICK n \in 0 .. k - 1 : run[h].todo = Images(n) /\ StillsFrom(run[h], n + 1)
  BY <1>k DEF OnStills
<1>1. /\ a = "image_generation" /\ run[h].at = "agents" /\ StageOver(run[h], a) /\ ahead = Images(n)
      /\ OnRecord(run[h].no, {"video_script", "tts_generation"})
  BY <1>k, <1>0 DEF OnStills, StageOver
<1>2. n \in Nat /\ k > 0
  BY <1>k, <1>0
<1>3. Success(h, a) = Still(run[h].no, n)
  BY <1>k, <1>0, <1>1, <1>2, ImagesTold DEF Success, Still
<1>4. Rows(run[h].no, "image_generation")' = Rows(run[h].no, "image_generation") \cup {Still(run[h].no, n)}
  BY <1>1, <1>3, SuccessRows
<1>5. StillsFrom(run[h], n)'
  <2>1. Rows(run[h].no, "image_generation") = {Still(run[h].no, left) : left \in n + 1 .. k - 1}
    BY <1>k, <1>0 DEF StillsFrom
  <2>2. n .. k - 1 = (n + 1 .. k - 1) \cup {n}
    BY <1>k, <1>0, <1>2
  <2>3. {Still(run[h].no, left) : left \in n .. k - 1}
          = {Still(run[h].no, left) : left \in n + 1 .. k - 1} \cup {Still(run[h].no, n)}
    BY <2>2
  <2> QED
    BY <2>1, <2>3, <1>k, <1>0, <1>4 DEF StillsFrom, Still
<1>6. OnRecord(run[h].no, {"video_script", "tts_generation"})'
  <2>1. \A b : b # a => Rows(run[h].no, b)' = Rows(run[h].no, b)
    BY SuccessRows
  <2> QED
    BY <2>1, <1>1 DEF OnRecord
<1>7. CASE n = 0
  <2>1. ahead = <<>>
    BY <1>1, <1>2, <1>7, ImagesTold
  <2>2. at = "assemble"
    BY <1>1, <2>1 DEF Advances, AfterAgents
  <2> QED
    BY <2>2, <1>k, <1>0, <1>2, <1>5, <1>6, <1>7 DEF Filmed
<1>8. CASE n > 0
  <2>0. Images(n) # <<>> /\ Head(Images(n)) = {"image_generation"} /\ Tail(Images(n)) = Images(n - 1)
    <3>1. n \in Nat /\ n > 0 /\ n # 0
      BY <1>2, <1>8
    <3> QED
      BY <3>1, ImagesTold
  <2>1. ahead # <<>> /\ Head(ahead) = {"image_generation"} /\ Tail(ahead) = Images(n - 1)
    BY <1>1, <2>0
  <2>2. at = "agents" /\ live = InStage({"image_generation"}) /\ todo = Images(n - 1)
    BY <1>1, <2>1 DEF Advances
  <2>3. DOMAIN live = {"image_generation"}
    BY <2>2, Stages1
  <2>4. n - 1 \in 0 .. run'[h].scenes - 1 /\ (n - 1) + 1 = n
    BY <1>k, <1>0, <1>2, <1>8
  <2>5. \E m \in 0 .. run'[h].scenes - 1 : run'[h].todo = Images(m) /\ StillsFrom(run[h], m + 1)'
    BY <2>2, <2>4, <1>5
  <2> QED
    BY <2>2, <2>3, <2>5, <1>6 DEF OnStills, Images
<1> QED
  BY <1>2, <1>7, <1>8

LEMMA SuccessOfVideo ==
  ASSUME NEW h \in Slot, NEW a \in DOMAIN run[h].live, NEW ahead, NEW live, NEW todo, NEW at,
         NEW scenes \in 0 .. MaxScenes, run[h].scenes \in 0 .. MaxScenes,
         run[h].at = "agents", run[h].does = "video", InItsStages(run[h]),
         MovesTo(h, live, todo, at, scenes), Advances(run[h], a, ahead, live, todo, at),
         \/ a # "video_script" /\ ahead = run[h].todo /\ scenes = run[h].scenes
         \/ a = "video_script" /\ scenes \in 1 .. MaxScenes /\ ahead = Filming(scenes),
         log' = log \cup {Success(h, a)}
  PROVE  InItsStages(run[h])'
<1>0. /\ run'[h].at = at /\ run'[h].live = live /\ run'[h].todo = todo /\ run'[h].no = run[h].no
      /\ run'[h].scenes = scenes /\ run'[h].does = "video"
  BY DEF MovesTo
<1>1. CASE OnScript(run[h])
  <2>1. a = "video_script"
    BY <1>1 DEF OnScript
  <2>2. OnNarration(run[h])'
    BY <2>1, <1>0, <1>1, SuccessOnScript
  <2> QED
    BY <2>2, <1>0 DEF InItsStages
<1>2. CASE OnNarration(run[h])
  <2>1. a # "video_script"
    BY <1>2 DEF OnNarration
  <2>2. OnStills(run[h])'
    BY <2>1, <1>0, <1>2, SuccessOnNarration
  <2> QED
    BY <2>2, <1>0 DEF InItsStages
<1>3. CASE OnStills(run[h])
  <2>1. a # "video_script"
    BY <1>3 DEF OnStills
  <2>2. OnStills(run[h])' \/ Filmed(run[h])'
    BY <2>1, <1>0, <1>3, SuccessOnStills
  <2> QED
    BY <2>2, <1>0 DEF InItsStages
<1> QED
  BY <1>1, <1>2, <1>3 DEF InItsStages, Filmed

LEMMA RecordSuccessStep ==
  ASSUME StudioInv, NEW h \in Slot, Running(h), NEW a \in DOMAIN run[h].live, RecordSuccess(h, a)
  PROVE  AgentStep(h)
<1>1. UNCHANGED <<works, queued, bytes, temp, dead, begun>>
  BY DEF RecordSuccess
<1>2. CASE run' = [run EXCEPT ![h].live[a] = "bad"] /\ log' = log
  BY <1>1, <1>2, AnswerStep
<1>3. CASE /\ log' = log \cup {Success(h, a)}
           /\ \/ a # "video_script" /\ run' = [run EXCEPT ![h] = Advance(@, a, @.todo)]
              \/ a = "video_script" /\ \E k \in 1 .. MaxScenes :
                   run' = [run EXCEPT ![h] = [Advance(@, a, Filming(k)) EXCEPT !.scenes = k]]
  <2>1. PICK ahead, live, todo, at : \E scenes \in 0 .. MaxScenes :
           /\ MovesTo(h, live, todo, at, scenes) /\ Advances(run[h], a, ahead, live, todo, at)
           /\ \/ a # "video_script" /\ ahead = run[h].todo /\ scenes = run[h].scenes
              \/ a = "video_script" /\ scenes \in 1 .. MaxScenes /\ ahead = Filming(scenes)
    BY <1>3, RecordSuccessMoves
  <2>2. PICK scenes \in 0 .. MaxScenes :
           /\ MovesTo(h, live, todo, at, scenes) /\ Advances(run[h], a, ahead, live, todo, at)
           /\ \/ a # "video_script" /\ ahead = run[h].todo /\ scenes = run[h].scenes
              \/ a = "video_script" /\ scenes \in 1 .. MaxScenes /\ ahead = Filming(scenes)
    BY <2>1
  <2>3. /\ WholeRun(run[h], begun, jobs) /\ run[h].at \in {"agents", "error"}
        /\ run[h].scenes \in 0 .. MaxScenes /\ run[h].does \in DOMAIN Stages
    BY WholeRuns, LiveTypes DEF WholeRun
  <2>4. run'[h].at # "error" => InItsStages(run[h])'
    <3> SUFFICES ASSUME run'[h].at # "error"
                 PROVE  InItsStages(run[h])'
      OBVIOUS
    <3>1. run[h].at = "agents"
      BY <2>2, <2>3 DEF Advances, MovesTo
    <3>2. InItsStages(run[h])
      BY <3>1 DEF StudioInv, StagesInTurn
    <3>3. /\ run'[h].live = live /\ run'[h].todo = todo /\ run'[h].no = run[h].no /\ run'[h].does = run[h].does
          /\ run'[h].at = at
      BY <2>2 DEF MovesTo
    <3>4. a # "video_script" => ahead = run[h].todo
      BY <2>2
    <3>5. CASE run[h].does = "video"
      BY <3>1, <3>2, <3>5, <2>2, <2>3, <1>3, SuccessOfVideo
    <3>6. CASE run[h].does = "design"
      BY <3>1, <3>2, <3>3, <3>4, <3>6, <2>2, <1>3, SuccessInTwoStages
    <3>7. CASE run[h].does \in {"extract", "plan", "write"}
      BY <3>1, <3>2, <3>3, <3>4, <3>7, <2>2, <1>3, SuccessInOneStage
    <3> QED
      BY <3>5, <3>6, <3>7, <2>3, StagesNamed
  <2>5. run'[h].does = "video" => run'[h].at # "save"
    BY <2>2, <2>3 DEF Advances, MovesTo, AfterAgents
  <2>6. run[h].no \in temp' => run'[h].at = "mux" \/ (run[h].no \in temp /\ run[h].at # "mux")
    BY <1>1, <2>3
  <2>7. log \subseteq log' /\ \A row \in log' \ log : row.no = run[h].no /\ row.status \in {"success", "error"}
    BY <1>3, SuccessRows
  <2>8. /\ DOMAIN run' = Slot /\ \A g \in Slot \ {h} : run'[g] = run[g]
        /\ run'[h].does = run[h].does /\ run'[h].no = run[h].no
        /\ run'[h].on = run[h].on /\ run'[h].job = run[h].job
        /\ WholeRun(run'[h], begun, jobs) /\ run'[h].at # "ok"
    BY <2>2 DEF MovesTo
  <2> QED
    BY <1>1, <2>3, <2>4, <2>5, <2>6, <2>7, <2>8 DEF AgentStep
<1> QED
  BY <1>2, <1>3 DEF RecordSuccess, Success

\* The steps of assembly, and a save that fails.
LEMMA PlaceStep ==
  ASSUME StudioInv, NEW h \in Slot, Running(h), run[h].at \notin {"agents", "error", "ok"},
         NEW at \in {"assemble", "mux", "put", "save", "error"}, run' = [run EXCEPT ![h].at = at],
         log' = log, UNCHANGED <<works, queued, dead, begun>>,
         bytes' = bytes \/ bytes' = bytes \cup {run[h].no},
         run[h].does = "video" /\ at = "save" => run[h].no \in bytes',
         temp' \subseteq temp \cup {run[h].no},
         run[h].no \in temp' => at = "mux" \/ (run[h].no \in temp /\ run[h].at # "mux")
  PROVE  AgentStep(h)
<1>1. /\ WholeRun(run[h], begun, jobs) /\ DOMAIN run = Slot /\ IsLive(run[h].live)
      /\ run[h].scenes \in 0 .. MaxScenes /\ run[h].live = Nobody /\ run[h].todo = <<>>
  BY WholeRuns, LiveTypes DEF IsLive
<1>2. [run[h] EXCEPT !.at = at] = Moved(run[h], run[h].live, run[h].todo, at, run[h].scenes)
  BY <1>1, MovedIs
<1>3. run' = [run EXCEPT ![h] = Moved(run[h], run[h].live, run[h].todo, at, run[h].scenes)]
  BY <1>1, <1>2
<1>4. Place(at, run[h].live, run[h].todo)
  BY <1>1 DEF Place
<1>5. MovesTo(h, run[h].live, run[h].todo, at, run[h].scenes)
  BY <1>1, <1>3, <1>4, Moves
<1>6. run'[h].at # "error" => InItsStages(run[h])'
  <2>1. InItsStages(run[h])
    BY DEF StudioInv, StagesInTurn
  <2>2. \A no, b : Rows(no, b)' = Rows(no, b)
    BY DEF Rows
  <2>3. at # "agents" /\ run[h].at # "agents"
    OBVIOUS
  <2> QED
    BY <2>1, <2>2, <2>3, <1>5
    DEF InItsStages, OnScript, OnNarration, OnStills, Filmed, InTwoStages, InOneStage, Due, StillsFrom,
        OnRecord, MovesTo
<1>7. /\ DOMAIN run' = Slot /\ \A g \in Slot \ {h} : run'[g] = run[g]
      /\ run'[h].does = run[h].does /\ run'[h].no = run[h].no
      /\ run'[h].on = run[h].on /\ run'[h].job = run[h].job
      /\ WholeRun(run'[h], begun, jobs) /\ run'[h].at # "ok" /\ run'[h].at = at
  BY <1>5 DEF MovesTo
<1>8. /\ run'[h].does = "video" /\ run'[h].at = "save" => run[h].no \in bytes'
      /\ run[h].no \in temp' => run'[h].at = "mux" \/ (run[h].no \in temp /\ run[h].at # "mux")
      /\ run[h].at # "ok" /\ log \subseteq log' /\ log' \ log = {}
  BY <1>7
<1> QED
  BY <1>6, <1>7, <1>8 DEF AgentStep

LEMMA AssemblySteps ==
  ASSUME StudioInv, NEW h \in Slot, MakeTemp(h) \/ Mux(h) \/ PutVideo(h)
  PROVE  AgentStep(h)
<1>1. Running(h) /\ run[h].at \notin {"agents", "error", "ok"}
  BY DEF MakeTemp, Mux, PutVideo, Stands
<1>2. ASSUME MakeTemp(h)
      PROVE  AgentStep(h)
  <2>1. /\ run' = [run EXCEPT ![h].at = "mux"] /\ log' = log /\ UNCHANGED <<works, queued, dead, begun>>
        /\ bytes' = bytes /\ temp' \subseteq temp \cup {run[h].no}
        /\ "mux" \in {"assemble", "mux", "put", "save", "error"}
    BY <1>2 DEF MakeTemp
  <2> QED
    BY <1>1, <2>1, PlaceStep
<1>3. ASSUME Mux(h)
      PROVE  AgentStep(h)
  <2>1. PICK muxed \in BOOLEAN : temp' = TempRemoved(h, muxed)
                                 /\ run' = [run EXCEPT ![h].at = IF muxed THEN "put" ELSE "error"]
    BY <1>3 DEF Mux
  <2>2. PICK at \in {"assemble", "mux", "put", "save", "error"} : at = (IF muxed THEN "put" ELSE "error")
    OBVIOUS
  <2>3. /\ run' = [run EXCEPT ![h].at = at] /\ log' = log /\ UNCHANGED <<works, queued, dead, begun>>
        /\ bytes' = bytes /\ temp' \subseteq temp \cup {run[h].no} /\ run[h].no \notin temp' /\ at # "save"
    BY <1>3, <2>1, <2>2 DEF Mux, TempRemoved
  <2> QED
    BY <1>1, <2>3, PlaceStep
<1>4. ASSUME PutVideo(h)
      PROVE  AgentStep(h)
  <2>1. PICK at \in {"assemble", "mux", "put", "save", "error"} :
                                        /\ run' = [run EXCEPT ![h].at = at]
                                        /\ bytes' = bytes \/ bytes' = bytes \cup {run[h].no}
                                        /\ at = "save" => run[h].no \in bytes'
    BY <1>4 DEF PutVideo
  <2>2. /\ log' = log /\ UNCHANGED <<works, queued, dead, begun>> /\ temp' = temp /\ run[h].at # "mux"
    BY <1>4 DEF PutVideo, Stands
  <2>3. /\ temp' \subseteq temp \cup {run[h].no}
        /\ run[h].no \in temp' => at = "mux" \/ (run[h].no \in temp /\ run[h].at # "mux")
        /\ run[h].does = "video" /\ at = "save" => run[h].no \in bytes'
    BY <2>1, <2>2
  <2>4. bytes' = bytes \/ bytes' = bytes \cup {run[h].no}
    BY <2>1
  <2> QED
    BY <1>1, <2>1, <2>2, <2>3, <2>4, PlaceStep
<1> QED
  BY <1>2, <1>3, <1>4

----------------------------------------------------------------------------
(* Saving.                                                                  *)

\* A save that fails is one of the steps above; one that does not ends its run.
LEMMA SavedRun ==
  ASSUME StudioInv, NEW h \in Slot, Stands(h, "save"), run' = [run EXCEPT ![h].at = "ok"],
         UNCHANGED <<lost, jobs, bytes, temp, log, dead, begun>>
  PROVE  /\ Running(h) /\ run[h].at = "save" /\ DOMAIN run' = Slot
         /\ \A g \in Slot : /\ Running(g)' <=> Running(g)
                            /\ run'[g].does = run[g].does /\ run'[g].no = run[g].no
                            /\ run'[g].on = run[g].on /\ run'[g].job = run[g].job
                            /\ g # h => run'[g] = run[g]
         /\ run'[h].at = "ok"
         /\ \A g \in Slot : Running(g) /\ g # h => run[g].no # run[h].no
         /\ \A v \in videos : v.no # run[h].no
         /\ run[h].no \in 1 .. begun /\ run[h].on \in 0 .. begun
         /\ begun \in 0 .. MaxRuns /\ jobs \in Nat
         /\ InItsStages(run[h]) /\ run[h].live = Nobody /\ run[h].todo = <<>>
         /\ RunsTyped' /\ RunsFit' /\ StagesInTurn' /\ NoTempLeft'
<1>0. Running(h) /\ run[h].at = "save"
  BY DEF Stands
<1>1. /\ WholeRun(run[h], begun, jobs) /\ DOMAIN run = Slot /\ IsLive(run[h].live)
      /\ run[h].scenes \in 0 .. MaxScenes /\ run[h].live = Nobody /\ run[h].todo = <<>>
      /\ begun \in 0 .. MaxRuns /\ jobs \in Nat
  BY <1>0, WholeRuns, LiveTypes DEF IsLive, StudioInv, StudioTypeOK, RunsAreWhole
<1>2. [run[h] EXCEPT !.at = "ok"] = Moved(run[h], run[h].live, run[h].todo, "ok", run[h].scenes)
  BY <1>1, MovedIs
<1> DEFINE q == Moved(run[h], run[h].live, run[h].todo, "ok", run[h].scenes)
<1>3. run' = [run EXCEPT ![h] = q]
  BY <1>1, <1>2
<1>4. WholeRun(q, begun, jobs)
  BY <1>1, MovedWhole
<1>5. /\ q.does = run[h].does /\ q.no = run[h].no /\ q.on = run[h].on /\ q.job = run[h].job
      /\ q.at = "ok" /\ q.live = run[h].live /\ q.todo = run[h].todo /\ q.scenes = run[h].scenes
  BY MovedFields
<1> HIDE DEF q
<1>6. DOMAIN run' = Slot /\ run'[h] = q /\ \A g \in Slot : g # h => run'[g] = run[g]
  BY <1>1, <1>3
<1>7. run[h] # NotRunning /\ q # NotRunning
  BY <1>1, <1>4, WholeRunFields
<1>8. \A g \in Slot : /\ Running(g)' <=> Running(g)
                      /\ run'[g].does = run[g].does /\ run'[g].no = run[g].no
                      /\ run'[g].on = run[g].on /\ run'[g].job = run[g].job
                      /\ g # h => run'[g] = run[g]
  BY <1>5, <1>6, <1>7 DEF Running
<1>9. \A g \in Slot : run'[g] = NotRunning \/ WholeRun(run'[g], begun', jobs')
  <2> TAKE g \in Slot
  <2>1. CASE g = h
    BY <2>1, <1>4, <1>6
  <2>2. CASE g # h
    BY <2>2, <1>6, WholeRuns DEF Running
  <2> QED
    BY <2>1, <2>2
<1>10. RunsTyped' /\ RunsFit'
  BY <1>1, <1>9, RunsTypedNext
<1>11. InItsStages(run[h])
  BY <1>0 DEF StudioInv, StagesInTurn
<1>12. StagesInTurn'
  <2>1. \A no, b : Rows(no, b)' = Rows(no, b)
    BY DEF Rows
  <2> SUFFICES ASSUME NEW g \in Slot, Running(g)', run'[g].at # "error"
               PROVE  InItsStages(run[g])'
    BY DEF StagesInTurn
  <2>2. CASE g # h
    <3>1. InItsStages(run[g]) /\ run'[g] = run[g]
      BY <2>2, <1>8 DEF StudioInv, StagesInTurn
    <3> QED
      BY <3>1, <2>1, StagesOfOthers
  <2>3. CASE g = h
    <3>1. /\ run'[h].does = run[h].does /\ run'[h].no = run[h].no /\ run'[h].live = run[h].live
          /\ run'[h].todo = run[h].todo /\ run'[h].scenes = run[h].scenes /\ run'[h].at = "ok"
      BY <1>5, <1>6
    <3>2. run[h].does = "video" => Filmed(run[h])
      BY <1>0, <1>11 DEF InItsStages, OnScript, OnNarration, OnStills
    <3>3. Filmed(run[h]) => Filmed(run[h])'
      BY <2>1, <3>1 DEF Filmed, StillsFrom, OnRecord
    <3>4. run[h].does = "design" => run[h].todo = <<>> /\ OnRecord(run[h].no, Designing[1]) /\ Due(run[h], Designing[2])
      BY <1>0, <1>11 DEF InItsStages, InTwoStages
    <3>5. \A A : OnRecord(run[h].no, A) => OnRecord(run[h].no, A)'
      BY <2>1, <3>1 DEF OnRecord
    <3>6. \A A : Due(run[h], A) => Due(run[h], A)'
      BY <2>1, <3>1 DEF Due
    <3>7. run[h].does = "design" => InTwoStages(run[h])'
      BY <3>1, <3>4, <3>5, <3>6 DEF InTwoStages, Designing
    <3>8. run[h].does \in {"extract", "plan", "write"} => InOneStage(run[h])'
      <4> SUFFICES ASSUME run[h].does \in {"extract", "plan", "write"}
                   PROVE  InOneStage(run[h])'
        OBVIOUS
      <4>1. PICK A : A = Stages[run[h].does][1]
        OBVIOUS
      <4>2. Due(run[h], A)' /\ run'[h].todo = <<>>
        BY <3>1, <3>6, <4>1, <1>11 DEF InItsStages, InOneStage
      <4> QED
        BY <3>1, <4>1, <4>2 DEF InOneStage
    <3> QED
      BY <2>3, <3>1, <3>2, <3>3, <3>7, <3>8 DEF InItsStages
  <2> QED
    BY <2>2, <2>3
<1>13. NoTempLeft'
  <2> SUFFICES ASSUME NEW n \in temp'
               PROVE  n \in dead' \/ \E g \in Slot : Stands(g, "mux")' /\ run'[g].no = n
    BY DEF NoTempLeft
  <2>1. CASE n \in dead
    BY <2>1
  <2>2. CASE \E g \in Slot : Stands(g, "mux") /\ run[g].no = n
    <3>1. PICK g \in Slot : Stands(g, "mux") /\ run[g].no = n
      BY <2>2
    <3>2. g # h
      BY <3>1, <1>0 DEF Stands
    <3> QED
      BY <3>1, <3>2, <1>8 DEF Stands
  <2> QED
    BY <2>1, <2>2 DEF StudioInv, NoTempLeft
<1>14. /\ \A g \in Slot : Running(g) /\ g # h => run[g].no # run[h].no
       /\ \A v \in videos : v.no # run[h].no
  BY <1>0 DEF StudioInv, RunsAreWhole, VideosAreOver
<1>15. run[h].no \in 1 .. begun /\ run[h].on \in 0 .. begun
  BY <1>1, WholeRunFields
<1> QED
  BY <1>0, <1>1, <1>5, <1>6, <1>8, <1>10, <1>11, <1>12, <1>13, <1>14, <1>15

\* What every save keeps, beside what it saves.
LEMMA SavedKept ==
  ASSUME StudioInv, NEW h \in Slot, Stands(h, "save"), run' = [run EXCEPT ![h].at = "ok"],
         UNCHANGED <<lost, jobs, bytes, temp, log, dead, begun>>,
         planned' \in 0 .. begun, profile' \in 0 .. MaxRuns, copyOf' \in 0 .. MaxRuns, specOf' \in 0 .. MaxRuns,
         videos' \subseteq [no : bytes, scenes : 1 .. MaxScenes, job : 1 .. jobs],
         \A v \in videos' \ videos : v.no = run[h].no,
         videoJob' \in Job, filming' \in 0 .. begun, filming' # 0 <=> videoJob'.state = "active"
  PROVE  StudioTypeOK' /\ RunsAreWhole' /\ VideosAreOver'
<1>1. /\ Running(h) /\ run[h].at = "save" /\ DOMAIN run' = Slot
      /\ \A g \in Slot : /\ Running(g)' <=> Running(g)
                         /\ run'[g].does = run[g].does /\ run'[g].no = run[g].no
                         /\ g # h => run'[g] = run[g]
      /\ run'[h].at = "ok"
      /\ \A g \in Slot : Running(g) /\ g # h => run[g].no # run[h].no
      /\ begun \in 0 .. MaxRuns /\ jobs \in Nat
      /\ RunsTyped' /\ RunsFit'
  BY SavedRun
<1>2. StudioTypeOK'
  <2>1. planned' \in 0 .. MaxRuns
    BY <1>1, StudioAssumption
  <2> QED
    BY <2>1, <1>1 DEF StudioInv, StudioTypeOK, RunsTyped
<1>3. RunsAreWhole'
  <2>1. planned' <= begun' /\ jobs' \in Nat
    BY <1>1
  <2>2. \A g, k \in Slot : Running(g)' /\ Running(k)' /\ g # k => run'[g].no # run'[k].no
    BY <1>1 DEF StudioInv, RunsAreWhole
  <2> QED
    BY <2>1, <2>2, <1>1 DEF RunsAreWhole, RunsFit
<1>4. VideosAreOver'
  <2>1. \A g \in Slot : Running(g)' => \A v \in videos' : v.no = run'[g].no => run'[g].at = "ok"
    BY <1>1 DEF StudioInv, VideosAreOver
  <2>2. \A g \in Slot : Running(g)' /\ run'[g].does = "video" /\ run'[g].at \in {"save", "ok"} => run'[g].no \in bytes'
    BY <1>1 DEF StudioInv, VideosAreOver
  <2> QED
    BY <2>1, <2>2 DEF VideosAreOver
<1> QED
  BY <1>2, <1>3, <1>4

LEMMA SaveFails ==
  ASSUME StudioInv, NEW h \in Slot, Stands(h, "save"), run' = [run EXCEPT ![h].at = "error"],
         UNCHANGED <<works, itsJob>>, UNCHANGED <<lost, jobs, bytes, temp, log, dead, begun>>
  PROVE  AgentStep(h)
<1>1. Running(h) /\ run[h].at \notin {"agents", "error", "ok"} /\ run[h].at # "mux"
      /\ "error" \in {"assemble", "mux", "put", "save", "error"}
  BY DEF Stands
<1>2. log' = log /\ UNCHANGED <<works, queued, dead, begun>> /\ bytes' = bytes
  BY DEF queued
<1>3. /\ temp' \subseteq temp \cup {run[h].no}
      /\ run[h].no \in temp' => "error" = "mux" \/ (run[h].no \in temp /\ run[h].at # "mux")
  BY <1>1
<1> QED
  BY <1>1, <1>2, <1>3, PlaceStep

\* Work that is saved is on record, and the rest stays there.
LEMMA SavedOnRecord ==
  ASSUME StudioInv, log' = log,
         profile' # profile => OnRecord(profile', Extracting[1]),
         planned' # planned => OnRecord(planned', Planning[1]),
         copyOf' \notin {0, copyOf} => OnRecord(copyOf', Writing[1]),
         specOf' \notin {0, specOf} => OnRecord(specOf', Designing[1] \cup Designing[2]),
         \A v \in videos' \ videos : /\ OnRecord(v.no, {"video_script", "tts_generation"})
                                     /\ Cardinality(Rows(v.no, "image_generation")) = v.scenes
  PROVE  WorkIsOnRecord'
<1>1. /\ \A no, a : Rows(no, a)' = Rows(no, a)
      /\ \A no, A : OnRecord(no, A) => OnRecord(no, A)'
  BY DEF Rows, OnRecord
<1>2. /\ profile' # 0 => OnRecord(profile', Extracting[1])
      /\ planned' # 0 => OnRecord(planned', Planning[1])
      /\ copyOf' # 0 => OnRecord(copyOf', Writing[1])
      /\ specOf' # 0 => OnRecord(specOf', Designing[1] \cup Designing[2])
      /\ \A v \in videos' : /\ OnRecord(v.no, {"video_script", "tts_generation"})
                            /\ Cardinality(Rows(v.no, "image_generation")) = v.scenes
  BY DEF StudioInv, WorkIsOnRecord
<1>3. /\ Extracting[1]' = Extracting[1] /\ Planning[1]' = Planning[1] /\ Writing[1]' = Writing[1]
      /\ (Designing[1] \cup Designing[2])' = Designing[1] \cup Designing[2]
  BY DEF Extracting, Planning, Writing, Designing
<1>4. PICK p, c, w, s, V : p = profile' /\ c = planned' /\ w = copyOf' /\ s = specOf' /\ V = videos'
  OBVIOUS
<1>5. /\ p # 0 => OnRecord(p, Extracting[1])'
      /\ c # 0 => OnRecord(c, Planning[1])'
      /\ w # 0 => OnRecord(w, Writing[1])'
      /\ s # 0 => OnRecord(s, Designing[1] \cup Designing[2])'
      /\ \A v \in V : /\ OnRecord(v.no, {"video_script", "tts_generation"})'
                      /\ Cardinality(Rows(v.no, "image_generation")') = v.scenes
  BY <1>1, <1>2, <1>4 DEF Extracting, Planning, Writing, Designing
<1> QED
  BY <1>4, <1>5 DEF WorkIsOnRecord

LEMMA OneStageOnRecord ==
  ASSUME NEW h, InItsStages(run[h]), run[h].live = Nobody
  PROVE  /\ run[h].does = "extract" => OnRecord(run[h].no, Extracting[1])
         /\ run[h].does = "plan" => OnRecord(run[h].no, Planning[1])
         /\ run[h].does = "write" => OnRecord(run[h].no, Writing[1])
<1>1. \A A : Due(run[h], A) => OnRecord(run[h].no, A)
  BY NobodyEmpty DEF Due, OnRecord
<1>2. /\ Stages["extract"] = Extracting /\ Stages["plan"] = Planning /\ Stages["write"] = Writing
  BY DEF Stages
<1> QED
  BY <1>1, <1>2 DEF InItsStages, InOneStage

LEMMA TwoStagesOnRecord ==
  ASSUME NEW h, InItsStages(run[h]), run[h].live = Nobody, run[h].at = "save", run[h].does = "design"
  PROVE  OnRecord(run[h].no, Designing[1] \cup Designing[2])
<1>1. \A A : Due(run[h], A) => OnRecord(run[h].no, A)
  BY NobodyEmpty DEF Due, OnRecord
<1>2. OnRecord(run[h].no, Designing[1]) /\ OnRecord(run[h].no, Designing[2])
  BY <1>1 DEF InItsStages, InTwoStages
<1> QED
  BY <1>2 DEF OnRecord

LEMMA FilmOnRecord ==
  ASSUME NEW h, InItsStages(run[h]), run[h].at = "save", run[h].does = "video", run[h].scenes \in Nat
  PROVE  /\ OnRecord(run[h].no, {"video_script", "tts_generation"}) /\ run[h].scenes # 0
         /\ Cardinality(Rows(run[h].no, "image_generation")) = run[h].scenes
<1>1. Filmed(run[h])
  BY DEF InItsStages, OnScript, OnNarration, OnStills
<1>2. Rows(run[h].no, "image_generation") = {Still(run[h].no, left) : left \in 0 .. run[h].scenes - 1}
  BY <1>1 DEF Filmed, StillsFrom
<1>3. Cardinality({Still(run[h].no, left) : left \in 0 .. run[h].scenes - 1}) = run[h].scenes
  <2>1. run[h].scenes \in Nat
    OBVIOUS
  <2> QED
    BY <2>1, StillsCounted, Zenon
<1> QED
  BY <1>1, <1>2, <1>3 DEF Filmed

\* Steps that leave the item and its job alone keep what is said of them.
LEMMA SaveKeepsJob ==
  ASSUME StudioInv, NEW h \in Slot, Stands(h, "save"), run' = [run EXCEPT ![h].at = "ok"],
         UNCHANGED <<lost, jobs, bytes, temp, log, dead, begun>>, UNCHANGED <<planned, videos, itsJob>>,
         profile' \in 0 .. MaxRuns, copyOf' \in 0 .. MaxRuns, specOf' \in 0 .. MaxRuns,
         WorkIsOnRecord'
  PROVE  StudioInv'
<1>1. /\ \A g \in Slot : /\ Running(g)' <=> Running(g)
                         /\ run'[g].does = run[g].does /\ run'[g].no = run[g].no
                         /\ run'[g].on = run[g].on /\ run'[g].job = run[g].job
                         /\ g # h => run'[g] = run[g]
      /\ run'[h].at = "ok" /\ StagesInTurn' /\ NoTempLeft'
  BY SavedRun
<1>2. /\ planned \in 0 .. begun /\ videoJob \in Job /\ filming \in 0 .. begun
      /\ filming # 0 <=> videoJob.state = "active"
      /\ videos \subseteq [no : bytes, scenes : 1 .. MaxScenes, job : 1 .. jobs]
  <2>1. begun \in Nat /\ planned \in Nat /\ planned <= begun
    BY StudioAssumption DEF StudioInv, StudioTypeOK, RunsAreWhole
  <2> QED
    BY <2>1 DEF StudioInv, StudioTypeOK
<1>3. StudioTypeOK' /\ RunsAreWhole' /\ VideosAreOver'
  BY <1>2, SavedKept DEF itsJob
<1>4. LocksAreHeld'
  BY <1>1 DEF StudioInv, LocksAreHeld, OnLatest, itsJob
<1>5. PlansArePast'
  BY <1>1 DEF StudioInv, PlansArePast
<1>6. OneVideoPerJob'
  BY DEF StudioInv, OneVideoPerJob
<1> QED
  BY <1>1, <1>3, <1>4, <1>5, <1>6 DEF StudioInv

LEMMA SavePlanKept ==
  ASSUME StudioInv, NEW h \in Slot, Stands(h, "save"), run' = [run EXCEPT ![h].at = "ok"],
         UNCHANGED <<lost, jobs, bytes, temp, log, dead, begun>>, run[h].does = "plan", SavePlan(h)
  PROVE  StudioInv'
<1>1. /\ \A g \in Slot : /\ Running(g)' <=> Running(g)
                         /\ run'[g].does = run[g].does /\ run'[g].no = run[g].no
                         /\ run'[g].on = run[g].on /\ run'[g].job = run[g].job
                         /\ g # h => run'[g] = run[g]
      /\ run'[h].at = "ok" /\ StagesInTurn' /\ NoTempLeft' /\ Running(h) /\ run[h].at = "save"
      /\ \A g \in Slot : Running(g) /\ g # h => run[g].no # run[h].no
      /\ run[h].no \in 1 .. begun /\ InItsStages(run[h]) /\ run[h].live = Nobody /\ begun \in 0 .. MaxRuns
  BY SavedRun
<1>2. /\ planned' = run[h].no /\ copyOf' = 0 /\ specOf' = 0 /\ videos' = {}
      /\ videoJob' = NoJob /\ filming' = 0 /\ profile' = profile
  BY DEF SavePlan
<1>3. NoJob \in Job /\ NoJob.state = "absent" /\ NoJob.attempts = 0
  BY AttemptsAssumption, StallsAssumption DEF Job, JobState, NoJob
<1>4. StudioTypeOK' /\ RunsAreWhole' /\ VideosAreOver'
  <2>1. /\ planned' \in 0 .. begun /\ profile' \in 0 .. MaxRuns /\ copyOf' \in 0 .. MaxRuns
        /\ specOf' \in 0 .. MaxRuns /\ filming' \in 0 .. begun /\ videoJob' \in Job
        /\ filming' # 0 <=> videoJob'.state = "active"
    BY <1>1, <1>2, <1>3, StudioAssumption DEF StudioInv, StudioTypeOK
  <2>2. /\ videos' \subseteq [no : bytes, scenes : 1 .. MaxScenes, job : 1 .. jobs]
        /\ \A v \in videos' \ videos : v.no = run[h].no
    BY <1>2
  <2> QED
    BY <2>1, <2>2, SavedKept
<1>5. LocksAreHeld'
  <2>1. \A g \in Slot : Running(g) => run[g].on # run[h].no
    BY <1>1 DEF StudioInv, PlansArePast
  <2>2. \A g \in Slot : Running(g)' => ~OnLatest(g)'
    BY <2>1, <1>1, <1>2 DEF OnLatest
  <2> QED
    BY <2>2, <1>2, <1>3 DEF LocksAreHeld, InFlight
<1>6. PlansArePast'
  BY <1>1, <1>2 DEF StudioInv, PlansArePast
<1>7. WorkIsOnRecord'
  <2>1. OnRecord(planned', Planning[1])
    BY <1>1, <1>2, OneStageOnRecord
  <2>2. log' = log /\ profile' = profile /\ copyOf' = 0 /\ specOf' = 0 /\ videos' = {}
    BY <1>2
  <2> QED
    BY <2>1, <2>2, SavedOnRecord
<1>8. OneVideoPerJob'
  BY <1>2 DEF OneVideoPerJob
<1> QED
  BY <1>1, <1>4, <1>5, <1>6, <1>7, <1>8 DEF StudioInv

LEMMA SaveVideoKept ==
  ASSUME StudioInv, NEW h \in Slot, Stands(h, "save"), run' = [run EXCEPT ![h].at = "ok"],
         UNCHANGED <<lost, jobs, bytes, temp, log, dead, begun>>,
         run[h].does = "video", OnLatest(h), SaveVideo(h)
  PROVE  StudioInv'
<1>1. /\ \A g \in Slot : /\ Running(g)' <=> Running(g)
                         /\ run'[g].does = run[g].does /\ run'[g].no = run[g].no
                         /\ run'[g].on = run[g].on /\ run'[g].job = run[g].job
                         /\ g # h => run'[g] = run[g]
      /\ run'[h].at = "ok" /\ StagesInTurn' /\ NoTempLeft' /\ Running(h) /\ run[h].at = "save"
      /\ \A g \in Slot : Running(g) /\ g # h => run[g].no # run[h].no
      /\ \A v \in videos : v.no # run[h].no
      /\ run[h].no \in 1 .. begun /\ InItsStages(run[h]) /\ run[h].live = Nobody /\ jobs \in Nat
  BY SavedRun
<1>2. PICK w : w = [no |-> run[h].no, scenes |-> run[h].scenes, job |-> run[h].job]
  OBVIOUS
<1>3. /\ videos' = videos \cup {w} /\ UNCHANGED <<profile, planned, copyOf, specOf, videoJob, filming>>
      /\ w.no = run[h].no /\ w.scenes = run[h].scenes /\ w.job = run[h].job
  BY <1>2 DEF SaveVideo, itsJob
<1>4. /\ run[h].no \in bytes /\ run[h].scenes \in 0 .. MaxScenes /\ run[h].scenes \in Nat
      /\ run[h].job \in 1 .. jobs
  <2>1. WholeRun(run[h], begun, jobs)
    BY <1>1, WholeRuns
  <2> QED
    BY <2>1, <1>1, StudioAssumption DEF WholeRun, StudioInv, VideosAreOver
<1>5. /\ OnRecord(run[h].no, {"video_script", "tts_generation"}) /\ run[h].scenes # 0
      /\ Cardinality(Rows(run[h].no, "image_generation")) = run[h].scenes
  BY <1>1, <1>4, FilmOnRecord
<1>6. StudioTypeOK' /\ RunsAreWhole' /\ VideosAreOver'
  <2>1. begun \in Nat /\ planned \in Nat /\ planned <= begun
    BY StudioAssumption DEF StudioInv, StudioTypeOK, RunsAreWhole
  <2>2. /\ planned' \in 0 .. begun /\ profile' \in 0 .. MaxRuns /\ copyOf' \in 0 .. MaxRuns
        /\ specOf' \in 0 .. MaxRuns /\ filming' \in 0 .. begun /\ videoJob' \in Job
        /\ filming' # 0 <=> videoJob'.state = "active"
    BY <2>1, <1>3 DEF StudioInv, StudioTypeOK
  <2>3. w \in [no : bytes, scenes : 1 .. MaxScenes, job : 1 .. jobs]
    <3>1. run[h].scenes \in 1 .. MaxScenes
      BY <1>4, <1>5
    <3> QED
      BY <3>1, <1>2, <1>4
  <2>4. /\ videos' \subseteq [no : bytes, scenes : 1 .. MaxScenes, job : 1 .. jobs]
        /\ \A v \in videos' \ videos : v.no = run[h].no
    BY <2>3, <1>3 DEF StudioInv, StudioTypeOK
  <2> QED
    BY <2>2, <2>4, SavedKept
<1>7. run[h].no \notin lost => filming = run[h].no /\ run[h].job = jobs
  BY <1>1 DEF StudioInv, LocksAreHeld
<1>8. LocksAreHeld'
  <2>1. /\ \A g \in Slot : OnLatest(g)' <=> OnLatest(g)
        /\ InFlight(videoJob)' <=> InFlight(videoJob)
    BY <1>1, <1>3 DEF OnLatest, InFlight
  <2>2. \A v \in videos' : v.no \notin lost' => filming' = v.no \/ v.job # jobs' \/ ~InFlight(videoJob)'
    BY <2>1, <1>3, <1>7 DEF StudioInv, LocksAreHeld
  <2>3. \A g \in Slot : Running(g)' /\ run'[g].does = "video" /\ OnLatest(g)' /\ run'[g].no \notin lost' =>
          filming' = run'[g].no /\ run'[g].job = jobs'
    BY <2>1, <1>1, <1>3 DEF StudioInv, LocksAreHeld
  <2>4. /\ InFlight(videoJob)' => videoJob'.attempts < MaxAttempts
        /\ videoJob'.state # "absent" => jobs' # 0
    BY <1>3 DEF StudioInv, LocksAreHeld, InFlight
  <2> QED
    BY <2>2, <2>3, <2>4 DEF LocksAreHeld
<1>9. PlansArePast'
  BY <1>1, <1>3 DEF StudioInv, PlansArePast
<1>10. WorkIsOnRecord'
  <2>1. /\ log' = log /\ profile' = profile /\ planned' = planned /\ copyOf' = copyOf /\ specOf' = specOf
        /\ \A v \in videos' \ videos : v = w
    BY <1>3
  <2>2. \A v \in videos' \ videos : /\ OnRecord(v.no, {"video_script", "tts_generation"})
                                    /\ Cardinality(Rows(v.no, "image_generation")) = v.scenes
    BY <2>1, <1>3, <1>5
  <2> QED
    BY <2>1, <2>2, SavedOnRecord
<1>11. OneVideoPerJob'
  <2>1. ASSUME NEW v \in videos, v.job = w.job, v.no \notin lost, w.no \notin lost
        PROVE  FALSE
    <3>1. filming = run[h].no /\ run[h].job = jobs /\ run[h].no # 0
      BY <2>1, <1>1, <1>3, <1>7
    <3>2. videoJob.state = "active"
      BY <3>1 DEF StudioInv, StudioTypeOK
    <3> QED
      BY <2>1, <3>1, <3>2, <1>1, <1>3 DEF StudioInv, LocksAreHeld, InFlight
  <2>2. ASSUME NEW v \in videos', NEW u \in videos', v.job = u.job, v # u
        PROVE  {v.no, u.no} \cap lost' # {}
    <3>1. CASE v \in videos /\ u \in videos
      BY <2>2, <3>1 DEF StudioInv, OneVideoPerJob
    <3>2. CASE v = w
      BY <2>1, <2>2, <3>2, <1>3
    <3>3. CASE u = w
      BY <2>1, <2>2, <3>3, <1>3
    <3> QED
      BY <3>1, <3>2, <3>3, <1>3
  <2> QED
    BY <2>2 DEF OneVideoPerJob
<1> QED
  BY <1>1, <1>6, <1>8, <1>9, <1>10, <1>11 DEF StudioInv

LEMMA SaveStep ==
  ASSUME StudioInv, NEW h \in Slot, Save(h)
  PROVE  StudioInv'
<1>1. Stands(h, "save") /\ UNCHANGED <<lost, jobs, bytes, temp, log, dead, begun>>
  BY DEF Save
<1>2. CASE run' = [run EXCEPT ![h].at = "error"] /\ UNCHANGED <<works, itsJob>>
  BY <1>1, <1>2, SaveFails, AgentStepKeeps
<1>3. ASSUME SaveWork(h), run' = [run EXCEPT ![h].at = "ok"]
      PROVE  StudioInv'
  <2>1. CASE run[h].does = "plan" /\ SavePlan(h)
    BY <1>1, <1>3, <2>1, SavePlanKept
  <2>2. CASE run[h].does = "video" /\ OnLatest(h) /\ SaveVideo(h)
    BY <1>1, <1>3, <2>2, SaveVideoKept
  <2>3. /\ InItsStages(run[h]) /\ run[h].live = Nobody /\ run[h].at = "save"
        /\ run[h].no \in 1 .. begun /\ begun \in 0 .. MaxRuns
    BY <1>1, <1>3, SavedRun
  <2>4. run[h].no \in 0 .. MaxRuns /\ {profile, planned, copyOf, specOf} \subseteq 0 .. MaxRuns
    BY <2>3, StudioAssumption DEF StudioInv, StudioTypeOK
  <2>5. CASE run[h].does = "extract" /\ SaveProfile(h)
    <3>1. /\ profile' = run[h].no /\ copyOf' = copyOf /\ specOf' = specOf
          /\ UNCHANGED <<planned, videos, itsJob>>
      BY <2>5 DEF SaveProfile
    <3>2. OnRecord(profile', Extracting[1])
      BY <2>3, <2>5, <3>1, OneStageOnRecord
    <3>3. WorkIsOnRecord'
      BY <1>1, <3>1, <3>2, SavedOnRecord
    <3> QED
      BY <1>1, <1>3, <2>4, <3>1, <3>3, SaveKeepsJob
  <2>6. CASE UNCHANGED <<works, itsJob>>
    <3>1. UNCHANGED <<profile, copyOf, specOf>> /\ UNCHANGED <<planned, videos, itsJob>>
      BY <2>6 DEF works
    <3>3. WorkIsOnRecord'
      BY <1>1, <3>1, SavedOnRecord
    <3> QED
      BY <1>1, <1>3, <2>4, <3>1, <3>3, SaveKeepsJob
  <2>7. CASE run[h].does = "write" /\ StoreCopy(h)
    <3>1. /\ copyOf' = run[h].no /\ profile' = profile /\ specOf' = specOf
          /\ UNCHANGED <<planned, videos, itsJob>>
      BY <2>7 DEF StoreCopy
    <3>2. OnRecord(copyOf', Writing[1])
      BY <2>3, <2>7, <3>1, OneStageOnRecord
    <3>3. WorkIsOnRecord'
      BY <1>1, <3>1, <3>2, SavedOnRecord
    <3> QED
      BY <1>1, <1>3, <2>4, <3>1, <3>3, SaveKeepsJob
  <2>8. CASE run[h].does = "design" /\ SaveSpec(h)
    <3>1. /\ specOf' = run[h].no /\ profile' = profile /\ copyOf' = copyOf
          /\ UNCHANGED <<planned, videos, itsJob>>
      BY <2>8 DEF SaveSpec
    <3>2. OnRecord(specOf', Designing[1] \cup Designing[2])
      BY <2>3, <2>8, <3>1, TwoStagesOnRecord
    <3>3. WorkIsOnRecord'
      BY <1>1, <3>1, <3>2, SavedOnRecord
    <3> QED
      BY <1>1, <1>3, <2>4, <3>1, <3>3, SaveKeepsJob
  <2> QED
    BY <1>3, <2>1, <2>2, <2>5, <2>6, <2>7, <2>8 DEF SaveWork
<1> QED
  BY <1>2, <1>3 DEF Save

----------------------------------------------------------------------------
(* Runs that end, begin, or are lost. *)

\* A run that is over leaves its slot.
LEMMA LeavesSlot ==
  ASSUME StudioInv, NEW h \in Slot, Running(h), run' = [run EXCEPT ![h] = NotRunning],
         run[h].at # "mux" \/ run[h].no \in dead',
         dead \subseteq dead', dead' \subseteq 1 .. begun,
         UNCHANGED <<works, lost, jobs, bytes, temp, log, begun>>,
         videoJob' \in Job, filming' \in 0 .. begun, filming' # 0 <=> videoJob'.state = "active"
  PROVE  /\ \A g \in Slot : Running(g)' <=> Running(g) /\ g # h
         /\ \A g \in Slot : g # h => run'[g] = run[g]
         /\ StudioTypeOK' /\ RunsAreWhole' /\ StagesInTurn' /\ VideosAreOver' /\ PlansArePast'
         /\ WorkIsOnRecord' /\ NoTempLeft' /\ OneVideoPerJob'
<1>1. DOMAIN run = Slot /\ begun \in 0 .. MaxRuns /\ jobs \in Nat
  BY DEF StudioInv, RunsAreWhole, StudioTypeOK
<1>2. DOMAIN run' = Slot /\ run'[h] = NotRunning /\ \A g \in Slot : g # h => run'[g] = run[g]
  BY <1>1
<1>3. \A g \in Slot : Running(g)' <=> Running(g) /\ g # h
  BY <1>2 DEF Running
<1>4. \A g \in Slot : run'[g] = NotRunning \/ WholeRun(run'[g], begun', jobs')
  BY <1>2, WholeRuns DEF Running
<1>5. RunsTyped' /\ RunsFit'
  BY <1>1, <1>4, RunsTypedNext
<1>6. /\ UNCHANGED <<profile, planned, copyOf, specOf, videos>>
      /\ \A no, a : Rows(no, a)' = Rows(no, a)
      /\ \A no, A : OnRecord(no, A) => OnRecord(no, A)'
  BY DEF works, Rows, OnRecord
<1>7. StudioTypeOK'
  BY <1>5, <1>6 DEF StudioInv, StudioTypeOK, RunsTyped
<1>8. RunsAreWhole'
  BY <1>2, <1>3, <1>5, <1>6 DEF StudioInv, RunsAreWhole, RunsFit
<1>9. StagesInTurn'
  <2> SUFFICES ASSUME NEW g \in Slot, Running(g)', run'[g].at # "error"
               PROVE  InItsStages(run[g])'
    BY DEF StagesInTurn
  <2>1. InItsStages(run[g]) /\ run'[g] = run[g]
    BY <1>2, <1>3 DEF StudioInv, StagesInTurn
  <2> QED
    BY <2>1, <1>6, StagesOfOthers
<1>10. VideosAreOver'
  BY <1>2, <1>3, <1>6 DEF StudioInv, VideosAreOver
<1>11. PlansArePast'
  BY <1>2, <1>3, <1>6 DEF StudioInv, PlansArePast
<1>12. WorkIsOnRecord'
  <2>1. profile' = profile /\ planned' = planned /\ copyOf' = copyOf /\ specOf' = specOf /\ videos' = videos
    BY <1>6
  <2> QED
    BY <2>1, SavedOnRecord
<1>13. NoTempLeft'
  <2> SUFFICES ASSUME NEW n \in temp
               PROVE  n \in dead' \/ \E g \in Slot : Stands(g, "mux")' /\ run'[g].no = n
    BY DEF NoTempLeft
  <2>1. CASE n \in dead
    BY <2>1
  <2>2. CASE \E g \in Slot : Stands(g, "mux") /\ run[g].no = n
    <3>1. PICK g \in Slot : Stands(g, "mux") /\ run[g].no = n
      BY <2>2
    <3>2. CASE g = h
      BY <3>1, <3>2 DEF Stands
    <3>3. CASE g # h
      BY <3>1, <3>3, <1>2, <1>3 DEF Stands
    <3> QED
      BY <3>2, <3>3
  <2> QED
    BY <2>1, <2>2 DEF StudioInv, NoTempLeft
<1>14. OneVideoPerJob'
  BY <1>6 DEF StudioInv, OneVideoPerJob
<1> QED
  BY <1>2, <1>3, <1>7, <1>8, <1>9, <1>10, <1>11, <1>12, <1>13, <1>14

LEMMA DieRunningStep ==
  ASSUME StudioInv, NEW h \in Slot, DieRunning(h)
  PROVE  StudioInv'
<1>1. /\ Running(h) /\ dead' = dead \cup {run[h].no} /\ run' = [run EXCEPT ![h] = NotRunning]
      /\ UNCHANGED <<works, lost, jobs, bytes, temp, log, begun>> /\ UNCHANGED <<videoJob, filming, planned, videos>>
  BY DEF DieRunning, queued, itsJob, works
<1>2. run[h].no \in 1 .. begun
  BY <1>1, WholeRuns
<1>3. /\ dead \subseteq dead' /\ dead' \subseteq 1 .. begun /\ run[h].no \in dead'
      /\ videoJob' \in Job /\ filming' \in 0 .. begun /\ (filming' # 0 <=> videoJob'.state = "active")
  BY <1>1, <1>2 DEF StudioInv, StudioTypeOK
<1>4. /\ \A g \in Slot : Running(g)' <=> Running(g) /\ g # h
      /\ \A g \in Slot : g # h => run'[g] = run[g]
      /\ StudioTypeOK' /\ RunsAreWhole' /\ StagesInTurn' /\ VideosAreOver' /\ PlansArePast'
      /\ WorkIsOnRecord' /\ NoTempLeft' /\ OneVideoPerJob'
  BY <1>1, <1>3, LeavesSlot
<1>5. LocksAreHeld'
  BY <1>1, <1>4 DEF StudioInv, LocksAreHeld, OnLatest, InFlight
<1> QED
  BY <1>4, <1>5 DEF StudioInv

LEMMA EndStep ==
  ASSUME StudioInv, NEW h \in Slot, End(h)
  PROVE  StudioInv'
<1>1. /\ Running(h) /\ run[h].at \in {"ok", "error"} /\ run' = [run EXCEPT ![h] = NotRunning]
      /\ UNCHANGED <<works, lost, jobs, bytes, temp, log, begun>> /\ UNCHANGED <<dead, planned, videos>>
      /\ SettleJob(h)
  BY DEF End, Stands, works
<1>2. run[h].no \in 1 .. begun /\ begun \in 0 .. MaxRuns
  BY <1>1, WholeRuns DEF StudioInv, StudioTypeOK
<1>3. \/ filming # run[h].no /\ UNCHANGED <<videoJob, filming>>
      \/ /\ filming = run[h].no /\ filming' = 0 /\ videoJob.state = "active"
         /\ videoJob' \in Job /\ videoJob'.state # "active"
         /\ InFlight(videoJob)' => videoJob'.attempts < MaxAttempts
         /\ run[h].at = "ok" => ~InFlight(videoJob)'
         /\ jobs # 0
  <2>1. CASE filming # run[h].no
    BY <2>1, <1>1 DEF SettleJob, itsJob
  <2>2. CASE filming = run[h].no
    <3>1. /\ filming' = 0
          /\ \/ run[h].at = "ok" /\ videoJob' = Completed(videoJob)
             \/ run[h].at # "ok" /\ videoJob' = Thrown(videoJob, FALSE)
      BY <2>2, <1>1 DEF SettleJob
    <3>2. videoJob.state = "active" /\ videoJob \in Job
      BY <2>2, <1>2 DEF StudioInv, StudioTypeOK
    <3>3. videoJob.attempts < MaxAttempts /\ jobs # 0 /\ FALSE \in BOOLEAN
      BY <3>2 DEF StudioInv, LocksAreHeld, InFlight
    <3>4. CASE videoJob' = Completed(videoJob)
      BY <3>1, <3>2, <3>3, <3>4, <2>2, JobTypes, JobFields DEF InFlight
    <3>5. CASE run[h].at # "ok" /\ videoJob' = Thrown(videoJob, FALSE)
      <4>1. /\ Thrown(videoJob, FALSE) \in Job
            /\ Thrown(videoJob, FALSE).attempts = videoJob.attempts + 1
            /\ Thrown(videoJob, FALSE).state \in {"waiting", "failed"}
            /\ Thrown(videoJob, FALSE).state = "waiting" => videoJob.attempts + 1 < MaxAttempts
        BY <3>2, <3>3, JobTypes, JobFields
      <4> QED
        BY <4>1, <3>1, <3>2, <3>3, <3>5, <2>2 DEF InFlight
    <3> QED
      BY <3>1, <3>4, <3>5
  <2> QED
    BY <2>1, <2>2
<1>4. /\ run[h].at # "mux" /\ dead \subseteq dead' /\ dead' \subseteq 1 .. begun
      /\ videoJob' \in Job /\ filming' \in 0 .. begun /\ (filming' # 0 <=> videoJob'.state = "active")
  BY <1>1, <1>2, <1>3 DEF StudioInv, StudioTypeOK
<1>5. /\ \A g \in Slot : Running(g)' <=> Running(g) /\ g # h
      /\ \A g \in Slot : g # h => run'[g] = run[g]
      /\ StudioTypeOK' /\ RunsAreWhole' /\ StagesInTurn' /\ VideosAreOver' /\ PlansArePast'
      /\ WorkIsOnRecord' /\ NoTempLeft' /\ OneVideoPerJob'
  BY <1>1, <1>4, LeavesSlot
<1>6. LocksAreHeld'
  <2>1. CASE filming # run[h].no /\ UNCHANGED <<videoJob, filming>>
    BY <2>1, <1>1, <1>5 DEF StudioInv, LocksAreHeld, OnLatest, InFlight
  <2>2. CASE /\ filming = run[h].no /\ filming' = 0 /\ videoJob.state = "active"
             /\ videoJob' \in Job /\ videoJob'.state # "active"
             /\ InFlight(videoJob)' => videoJob'.attempts < MaxAttempts
             /\ run[h].at = "ok" => ~InFlight(videoJob)'
             /\ jobs # 0
    <3>1. ASSUME NEW g \in Slot, Running(g)', run'[g].does = "video", OnLatest(g)', run'[g].no \notin lost'
          PROVE  FALSE
      <4>1. g # h /\ Running(g) /\ run'[g] = run[g] /\ OnLatest(g) /\ run[g].no \notin lost
        BY <3>1, <1>1, <1>5 DEF OnLatest
      <4>2. filming = run[g].no
        BY <3>1, <4>1 DEF StudioInv, LocksAreHeld
      <4> QED
        BY <4>1, <4>2, <2>2, <1>1 DEF StudioInv, RunsAreWhole
    <3>2. ASSUME NEW v \in videos, v.no \notin lost
          PROVE  v.job # jobs \/ ~InFlight(videoJob)'
      <4>1. CASE filming = v.no
        BY <4>1, <2>2, <1>1 DEF StudioInv, VideosAreOver
      <4>2. CASE v.job # jobs
        BY <4>2
      <4> QED
        BY <4>1, <4>2, <3>2, <2>2 DEF StudioInv, LocksAreHeld, InFlight
    <3> QED
      BY <3>1, <3>2, <2>2, <1>1 DEF LocksAreHeld
  <2> QED
    BY <2>1, <2>2, <1>3
<1> QED
  BY <1>5, <1>6 DEF StudioInv

\* Steps of the item's job alone.
LEMMA JobMoves ==
  ASSUME StudioInv, UNCHANGED <<works, bytes, temp, log, run, dead, begun>>,
         jobs' \in Nat, jobs <= jobs', lost \subseteq lost', lost' \subseteq 1 .. begun,
         videoJob' \in Job, filming' \in 0 .. begun, filming' # 0 <=> videoJob'.state = "active"
  PROVE  /\ StudioTypeOK' /\ RunsAreWhole' /\ StagesInTurn' /\ VideosAreOver' /\ PlansArePast'
         /\ WorkIsOnRecord' /\ NoTempLeft' /\ OneVideoPerJob'
<1>1. /\ UNCHANGED <<profile, planned, copyOf, specOf, videos, bytes, temp, log, run, dead, begun>>
      /\ DOMAIN run = Slot /\ begun \in 0 .. MaxRuns /\ jobs \in Nat /\ 1 .. jobs \subseteq 1 .. jobs'
      /\ 0 .. jobs \subseteq 0 .. jobs'
  BY DEF works, StudioInv, RunsAreWhole, StudioTypeOK
<1>2. \A g \in Slot : run'[g] = NotRunning \/ WholeRun(run'[g], begun', jobs')
  <2> TAKE g \in Slot
  <2>1. ASSUME Running(g)
        PROVE  WholeRun(run[g], begun, jobs')
    <3>1. WholeRun(run[g], begun, jobs)
      BY <2>1, WholeRuns
    <3>2. PICK J : J = 0 .. jobs
      OBVIOUS
    <3>3. PICK K : K = 0 .. jobs'
      OBVIOUS
    <3> QED
      BY <3>1, <3>2, <3>3, <1>1 DEF WholeRun
  <2> QED
    BY <2>1, <1>1 DEF Running
<1>3. RunsTyped' /\ RunsFit'
  BY <1>1, <1>2, RunsTypedNext
<1>4. \A no, a : Rows(no, a)' = Rows(no, a)
  BY <1>1 DEF Rows
<1>5. StudioTypeOK'
  <2>1. \A v \in videos : v \in [no : bytes', scenes : 1 .. MaxScenes, job : 1 .. jobs']
    BY <1>1 DEF StudioInv, StudioTypeOK
  <2> QED
    BY <2>1, <1>1, <1>3 DEF StudioInv, StudioTypeOK, RunsTyped
<1>6. RunsAreWhole'
  BY <1>1, <1>3 DEF StudioInv, RunsAreWhole, RunsFit, Running
<1>7. StagesInTurn'
  <2> SUFFICES ASSUME NEW g \in Slot, Running(g)', run'[g].at # "error"
               PROVE  InItsStages(run[g])'
    BY DEF StagesInTurn
  <2>1. InItsStages(run[g]) /\ run'[g] = run[g]
    BY <1>1 DEF StudioInv, StagesInTurn, Running
  <2> QED
    BY <2>1, <1>4, StagesOfOthers
<1>8. VideosAreOver' /\ PlansArePast'
  BY <1>1 DEF StudioInv, VideosAreOver, PlansArePast, Running
<1>9. WorkIsOnRecord'
  <2>1. log' = log /\ profile' = profile /\ planned' = planned /\ copyOf' = copyOf /\ specOf' = specOf /\ videos' = videos
    BY <1>1
  <2> QED
    BY <2>1, SavedOnRecord
<1>10. NoTempLeft'
  BY <1>1 DEF StudioInv, NoTempLeft, Stands, Running
<1>11. OneVideoPerJob'
  <2>1. \A v, w \in videos : v.job = w.job /\ v # w => v.no \in lost \/ w.no \in lost
    BY DEF StudioInv, OneVideoPerJob
  <2>2. \A v, w \in videos : v.job = w.job /\ v # w => v.no \in lost' \/ w.no \in lost'
    BY <2>1
  <2> QED
    BY <2>2, <1>1 DEF OneVideoPerJob
<1> QED
  BY <1>5, <1>6, <1>7, <1>8, <1>9, <1>10, <1>11

LEMMA RequestVideoStep ==
  ASSUME StudioInv, RequestVideo
  PROVE  StudioInv'
<1>1. /\ UNCHANGED <<works, bytes, temp, log, run, dead, begun>> /\ UNCHANGED <<filming, lost, planned, videos>>
      /\ videoJob \in Job /\ jobs \in Nat
      /\ filming # 0 <=> videoJob.state = "active"
      /\ filming \in 0 .. begun /\ lost \subseteq 1 .. begun /\ begun \in 0 .. MaxRuns
  BY DEF RequestVideo, works, StudioInv, StudioTypeOK, RunsAreWhole
<1>2. CASE videoJob.state # "absent"
  <2>1. videoJob' = videoJob /\ jobs' = jobs
    BY <1>2 DEF RequestVideo, Added
  <2>2. jobs <= jobs' /\ jobs' \in Nat
    BY <2>1, <1>1
  <2>3. LocksAreHeld'
    BY <1>1, <2>1 DEF StudioInv, LocksAreHeld, OnLatest, InFlight, Running
  <2> QED
    BY <1>1, <2>1, <2>2, <2>3, JobMoves DEF StudioInv
<1>3. CASE videoJob.state = "absent"
  <2>1. videoJob' = FreshJob /\ jobs' = jobs + 1
    BY <1>3 DEF RequestVideo, Added
  <2>2. /\ jobs <= jobs' /\ jobs' \in Nat /\ FreshJob \in Job /\ FreshJob.state = "waiting" /\ FreshJob.attempts = 0
        /\ jobs' # 0
    BY <1>1, <2>1, JobTypes DEF FreshJob
  <2>3. filming = 0
    BY <1>1, <1>3
  <2>4. \A g \in Slot : Running(g) => run[g].no # 0
    BY WholeRuns, <1>1
  <2>5. \A v \in videos : v.job # jobs'
    BY <1>1, <2>1 DEF StudioInv, StudioTypeOK
  <2>6. LocksAreHeld'
    BY <1>1, <2>1, <2>2, <2>3, <2>4, <2>5, AttemptsAssumption
    DEF StudioInv, LocksAreHeld, OnLatest, InFlight, Running
  <2> QED
    BY <1>1, <2>1, <2>2, <2>3, <2>6, JobMoves DEF StudioInv
<1> QED
  BY <1>2, <1>3

LEMMA ForgetVideoStep ==
  ASSUME StudioInv, ForgetVideo
  PROVE  StudioInv'
<1>1. /\ UNCHANGED <<works, bytes, temp, log, run, dead, begun>> /\ UNCHANGED <<filming, lost, jobs, planned, videos>>
      /\ videoJob \in Job /\ jobs \in Nat /\ videoJob.state \in {"completed", "failed"} /\ videoJob' = NoJob
      /\ filming = 0 /\ filming \in 0 .. begun /\ lost \subseteq 1 .. begun
  BY DEF ForgetVideo, works, StudioInv, StudioTypeOK, RunsAreWhole
<1>2. NoJob \in Job /\ NoJob.state = "absent" /\ jobs <= jobs'
  BY <1>1, JobTypes DEF NoJob
<1>3. LocksAreHeld'
  BY <1>1, <1>2 DEF StudioInv, LocksAreHeld, OnLatest, InFlight, Running
<1> QED
  BY <1>1, <1>2, <1>3, JobMoves DEF StudioInv

LEMMA LoseVideoLockStep ==
  ASSUME StudioInv, LoseVideoLock
  PROVE  StudioInv'
<1>1. /\ UNCHANGED <<works, bytes, temp, log, run, dead, begun>> /\ UNCHANGED <<jobs, planned, videos>>
      /\ videoJob \in Job /\ jobs \in Nat /\ videoJob.state = "active" /\ videoJob' = Stalled(videoJob)
      /\ filming' = 0 /\ filming \in 1 .. begun /\ lost' = lost \cup {filming} /\ begun \in 0 .. MaxRuns
      /\ lost \subseteq 1 .. begun /\ videoJob.attempts < MaxAttempts /\ jobs # 0
  BY DEF LoseVideoLock, works, StudioInv, StudioTypeOK, RunsAreWhole, LocksAreHeld, InFlight
<1>2. /\ Stalled(videoJob) \in Job /\ Stalled(videoJob).state # "active"
      /\ InFlight(Stalled(videoJob)) => Stalled(videoJob).attempts < MaxAttempts
  <2>1. Stalled(videoJob) \in Job
    BY <1>1, JobTypes
  <2>2. CASE videoJob.stalls < MaxStalls
    BY <1>1, <2>1, <2>2, JobFields
  <2>3. CASE videoJob.stalls >= MaxStalls
    BY <1>1, <2>1, <2>3, JobFields DEF InFlight
  <2> QED
    BY <1>1, <2>2, <2>3, StallsAssumption DEF Job
<1>3. jobs <= jobs' /\ jobs' \in Nat /\ lost \subseteq lost' /\ lost' \subseteq 1 .. begun /\ filming' \in 0 .. begun
  BY <1>1
<1>4. LocksAreHeld'
  BY <1>1, <1>2 DEF StudioInv, LocksAreHeld, OnLatest, InFlight, Running
<1> QED
  BY <1>1, <1>2, <1>3, <1>4, JobMoves DEF StudioInv

\* A run that begins has a number of its own, and nothing on record.
LEMMA BeginsInItsStages ==
  ASSUME NEW h \in Slot, NEW does \in DOMAIN Stages, NEW no, NEW on, NEW job,
         \A a : Rows(no, a)' = {},
         run'[h] = [does |-> does, no |-> no, on |-> on, scenes |-> 0, job |-> job, at |-> "agents",
                    live |-> InStage(Head(Stages[does])), todo |-> Tail(Stages[does])]
  PROVE  InItsStages(run[h])'
<1>1. /\ run'[h].does = does /\ run'[h].no = no /\ run'[h].scenes = 0 /\ run'[h].at = "agents"
      /\ run'[h].live = InStage(Head(Stages[does])) /\ run'[h].todo = Tail(Stages[does])
  BY DEF NotRunning
<1>2. CASE does = "video"
  <2>1. Stages["video"] = Scripting /\ Head(Scripting) = {"video_script"} /\ Tail(Scripting) = <<>>
    BY DEF Stages, Scripting
  <2>2. DOMAIN run'[h].live = {"video_script"} /\ run'[h].todo = <<>>
    BY <1>1, <1>2, <2>1, Stages1
  <2>3. 0 .. 0 - 1 = {}
    OBVIOUS
  <2>4. StillsFrom(run[h], 0)'
    BY <1>1, <2>3 DEF StillsFrom
  <2> QED
    BY <1>1, <1>2, <2>2, <2>4 DEF InItsStages, OnScript
<1>3. CASE does = "design"
  <2>1. /\ Stages["design"] = Designing /\ Head(Designing) = Designing[1]
        /\ Tail(Designing) = <<Designing[2]>>
    BY DEF Stages, Designing
  <2>2. DOMAIN run'[h].live = Designing[1] /\ run'[h].todo = <<Designing[2]>>
    BY <1>1, <1>3, <2>1, Stages1
  <2> QED
    BY <1>1, <1>3, <2>2 DEF InItsStages, InTwoStages, Due, Designing
<1>4. CASE does \in {"extract", "plan", "write"}
  <2>1. Head(Stages[does]) = Stages[does][1] /\ Tail(Stages[does]) = <<>>
    <3>1. Stages["extract"] = Extracting /\ Stages["plan"] = Planning /\ Stages["write"] = Writing
      BY DEF Stages
    <3>2. /\ Head(Extracting) = Extracting[1] /\ Tail(Extracting) = <<>>
          /\ Head(Planning) = Planning[1] /\ Tail(Planning) = <<>>
          /\ Head(Writing) = Writing[1] /\ Tail(Writing) = <<>>
      BY DEF Extracting, Planning, Writing
    <3> QED
      BY <1>4, <3>1, <3>2
  <2>2. DOMAIN run'[h].live = Stages[does][1] /\ run'[h].todo = <<>>
    BY <1>1, <2>1, Stages1
  <2>3. Due(run[h], Stages[run[h].does][1])'
    BY <1>1, <2>2 DEF Due, Stages
  <2> QED
    BY <1>1, <1>4, <2>2, <2>3 DEF InItsStages, InOneStage
<1> QED
  BY <1>2, <1>3, <1>4, StagesNamed

LEMMA BeginStep ==
  ASSUME StudioInv, NEW h \in Slot, NEW does \in DOMAIN Stages, Begin(h, does)
  PROVE  StudioInv'
<1>0. PICK no, job : no = begun + 1 /\ job = (IF does = "video" THEN jobs ELSE 0)
  OBVIOUS
<1>1. /\ ~Running(h) /\ begun < MaxRuns /\ begun' = no
      /\ run' = [run EXCEPT ![h] = [does |-> does, no |-> no, on |-> planned, scenes |-> 0, job |-> job,
                                    at |-> "agents", live |-> InStage(Head(Stages[does])),
                                    todo |-> Tail(Stages[does])]]
      /\ UNCHANGED <<profile, planned, copyOf, specOf, videos, lost, jobs, bytes, temp, log, dead>>
      /\ \/ does = "video" /\ CanFilm /\ videoJob' = Taken(videoJob) /\ filming' = no
         \/ does # "video" /\ UNCHANGED <<videoJob, filming>>
  BY <1>0 DEF Begin, works, itsJob
<1>2. /\ DOMAIN run = Slot /\ begun \in 0 .. MaxRuns /\ begun \in Nat /\ jobs \in Nat /\ planned \in 0 .. begun
      /\ videoJob \in Job /\ filming \in 0 .. begun /\ lost \subseteq 1 .. begun
      /\ filming # 0 <=> videoJob.state = "active"
      /\ \A v \in videos : v.no \in 1 .. begun
      /\ \A row \in log : row.no \in 1 .. begun
  <2>1. begun \in Nat /\ planned \in Nat /\ planned <= begun
    BY StudioAssumption DEF StudioInv, StudioTypeOK, RunsAreWhole
  <2>2. \A v \in videos : v.no \in bytes
    BY DEF StudioInv, StudioTypeOK
  <2>3. \A row \in log : row.no \in 1 .. begun
    BY DEF StudioInv, StudioTypeOK
  <2>4. bytes \subseteq 1 .. begun /\ planned \in 0 .. begun
    BY <2>1 DEF StudioInv, StudioTypeOK
  <2>5. /\ DOMAIN run = Slot /\ begun \in 0 .. MaxRuns /\ begun \in Nat /\ jobs \in Nat
        /\ videoJob \in Job /\ filming \in 0 .. begun /\ lost \subseteq 1 .. begun
        /\ filming # 0 <=> videoJob.state = "active"
    BY <2>1 DEF StudioInv, StudioTypeOK, RunsAreWhole
  <2> QED
    BY <2>2, <2>3, <2>4, <2>5
<1>3. /\ no \in 1 .. begun' /\ begun' \in 0 .. MaxRuns /\ 1 .. begun \subseteq 1 .. begun'
      /\ 0 .. begun \subseteq 0 .. begun' /\ no \notin 0 .. begun /\ no # 0 /\ no \in Nat
  BY <1>0, <1>1, <1>2, StudioAssumption
<1>4. does = "video" => jobs # 0 /\ filming = 0 /\ videoJob.state = "waiting"
  BY <1>1, <1>2 DEF CanFilm, StudioInv, LocksAreHeld
<1>5. job \in 0 .. jobs /\ (does = "video" => job = jobs /\ job # 0)
  BY <1>0, <1>2, <1>4
<1> DEFINE r == [does |-> does, no |-> no, on |-> planned, scenes |-> 0, job |-> job, at |-> "agents",
                 live |-> InStage(Head(Stages[does])), todo |-> Tail(Stages[does])]
<1>6. /\ r.does = does /\ r.no = no /\ r.on = planned /\ r.job = job /\ r.at = "agents"
      /\ r.live = InStage(Head(Stages[does]))
  OBVIOUS
<1>7. WholeRun(r, begun', jobs)
  <2>1. PICK live, todo : live = InStage(Head(Stages[does])) /\ todo = Tail(Stages[does])
    OBVIOUS
  <2>2. planned \in 0 .. begun' /\ 0 \in 0 .. MaxScenes
    BY <1>2, <1>3, StudioAssumption
  <2>3. PICK D, N, O, S, J : D = DOMAIN Stages /\ N = 1 .. begun' /\ O = 0 .. begun' /\ S = 0 .. MaxScenes /\ J = 0 .. jobs
    OBVIOUS
  <2>4. r = [does |-> does, no |-> no, on |-> planned, scenes |-> 0, job |-> job, at |-> "agents",
             live |-> live, todo |-> todo]
    BY <2>1
  <2>5. r \in [does : D, no : N, on : O, scenes : S, job : J,
               at : {"agents", "assemble", "mux", "put", "save", "ok", "error"}, live : {live}, todo : {todo}]
    BY <2>2, <2>3, <2>4, <1>3, <1>5
  <2>6. r.live = live /\ r.todo = todo
    BY <2>4
  <2>7. live \in [DOMAIN live -> {"calling", "good", "bad"}]
    BY <2>1, Stages1
  <2> HIDE DEF r
  <2> QED
    BY <2>3, <2>5, <2>6, <2>7, <1>5, <1>6 DEF WholeRun
<1> HIDE DEF r
<1>8. DOMAIN run' = Slot /\ run'[h] = r /\ \A g \in Slot : g # h => run'[g] = run[g]
  BY <1>1, <1>2 DEF r
<1>9. r # NotRunning
  BY <1>3, <1>7, <1>2, WholeRunFields
<1>10. \A g \in Slot : Running(g)' <=> Running(g) \/ g = h
  BY <1>8, <1>9 DEF Running
<1>11. \A g \in Slot : run'[g] = NotRunning \/ WholeRun(run'[g], begun', jobs')
  <2> TAKE g \in Slot
  <2>1. CASE g = h
    BY <2>1, <1>1, <1>7, <1>8
  <2>2. CASE g # h /\ Running(g)
    <3>1. WholeRun(run[g], begun, jobs)
      BY <2>2, WholeRuns
    <3>2. PICK N, O, M, P : N = 1 .. begun /\ O = 0 .. begun /\ M = 1 .. begun' /\ P = 0 .. begun'
      OBVIOUS
    <3>3. WholeRun(run[g], begun', jobs)
      BY <3>1, <3>2, <1>3 DEF WholeRun
    <3> QED
      BY <3>3, <2>2, <1>1, <1>8
  <2> QED
    BY <2>1, <2>2, <1>8 DEF Running
<1>12. RunsTyped' /\ RunsFit'
  BY <1>1, <1>2, <1>3, <1>11, RunsTypedNext
<1>13. /\ \A n, a : Rows(n, a)' = Rows(n, a)
       /\ \A a : Rows(no, a)' = {}
  <2>1. \A row \in log : row.no # no
    BY <1>2, <1>3
  <2>2. log' = log
    BY <1>1
  <2> QED
    BY <2>1, <2>2 DEF Rows
<1>14. \A g \in Slot : Running(g) => run[g].no \in 1 .. begun /\ run[g].no # no
  BY WholeRuns, <1>3
<1>15. /\ videoJob' \in Job /\ filming' \in 0 .. begun' /\ (filming' # 0 <=> videoJob'.state = "active")
       /\ videoJob'.attempts = videoJob.attempts
  <2>1. CASE does = "video"
    <3>1. /\ Taken(videoJob) \in Job /\ Taken(videoJob).state = "active"
          /\ Taken(videoJob).attempts = videoJob.attempts
      BY <1>2, JobTypes, JobFields
    <3>2. videoJob' = Taken(videoJob) /\ filming' = no
      BY <2>1, <1>1
    <3>3. filming' # 0 /\ filming' \in 0 .. begun'
      BY <3>2, <1>3
    <3> QED
      BY <3>1, <3>2, <3>3
  <2>2. CASE does # "video"
    <3>1. videoJob' = videoJob /\ filming' = filming
      BY <2>2, <1>1
    <3> QED
      BY <3>1, <1>2, <1>3
  <2> QED
    BY <2>1, <2>2
<1>a. StudioTypeOK'
  <2>1. /\ bytes' \subseteq 1 .. begun' /\ temp' \subseteq 1 .. begun' /\ dead' \cup lost' \subseteq 1 .. begun'
        /\ \A row \in log' : row.no \in 1 .. begun' /\ row.status \in {"success", "error"}
        /\ videos' \subseteq [no : bytes', scenes : 1 .. MaxScenes, job : 1 .. jobs']
        /\ {profile', planned', copyOf', specOf'} \subseteq 0 .. MaxRuns
    BY <1>1, <1>3 DEF StudioInv, StudioTypeOK
  <2> QED
    BY <2>1, <1>3, <1>12, <1>15 DEF StudioTypeOK, RunsTyped
<1>b. RunsAreWhole'
  <2>1. \A g, k \in Slot : Running(g)' /\ Running(k)' /\ g # k => run'[g].no # run'[k].no
    BY <1>6, <1>8, <1>10, <1>14 DEF StudioInv, RunsAreWhole
  <2>2. planned' <= begun' /\ jobs' \in Nat
    BY <1>1, <1>2, <1>3
  <2> QED
    BY <2>1, <2>2, <1>8, <1>12 DEF RunsAreWhole, RunsFit
<1>c. StagesInTurn'
  <2> SUFFICES ASSUME NEW g \in Slot, Running(g)', run'[g].at # "error"
               PROVE  InItsStages(run[g])'
    BY DEF StagesInTurn
  <2>1. CASE g = h
    BY <2>1, <1>8, <1>13, BeginsInItsStages DEF r
  <2>2. CASE g # h
    <3>1. InItsStages(run[g]) /\ run'[g] = run[g]
      BY <2>2, <1>8, <1>10 DEF StudioInv, StagesInTurn
    <3> QED
      BY <3>1, <1>13, StagesOfOthers
  <2> QED
    BY <2>1, <2>2
<1>d. VideosAreOver'
  <2>1. \A g \in Slot : Running(g)' => \A v \in videos' : v.no = run'[g].no => run'[g].at = "ok"
    BY <1>1, <1>2, <1>3, <1>6, <1>8, <1>10 DEF StudioInv, VideosAreOver
  <2>2. \A g \in Slot : Running(g)' /\ run'[g].does = "video" /\ run'[g].at \in {"save", "ok"} => run'[g].no \in bytes'
    BY <1>1, <1>6, <1>8, <1>10 DEF StudioInv, VideosAreOver
  <2> QED
    BY <2>1, <2>2 DEF VideosAreOver
<1>e. LocksAreHeld'
  <2>1. InFlight(videoJob)' => videoJob'.attempts < MaxAttempts
    BY <1>1, <1>4, <1>15 DEF StudioInv, LocksAreHeld, InFlight
  <2>2. videoJob'.state # "absent" => jobs' # 0
    BY <1>1, <1>4 DEF StudioInv, LocksAreHeld
  <2>3. ASSUME NEW g \in Slot, Running(g)', run'[g].does = "video", OnLatest(g)', run'[g].no \notin lost'
        PROVE  filming' = run'[g].no /\ run'[g].job = jobs'
    <3>1. CASE g = h
      BY <2>3, <3>1, <1>1, <1>5, <1>6, <1>8
    <3>2. CASE g # h
      <4>1. Running(g) /\ run'[g] = run[g] /\ OnLatest(g) /\ run[g].no \notin lost
        BY <2>3, <3>2, <1>1, <1>8, <1>10 DEF OnLatest
      <4>2. filming = run[g].no /\ run[g].job = jobs
        BY <2>3, <4>1 DEF StudioInv, LocksAreHeld
      <4>3. does # "video"
        BY <4>1, <4>2, <1>2, <1>4, <1>14
      <4> QED
        BY <4>1, <4>2, <4>3, <1>1
    <3> QED
      BY <3>1, <3>2
  <2>4. ASSUME NEW v \in videos, v.no \notin lost
        PROVE  filming' = v.no \/ v.job # jobs \/ ~InFlight(videoJob)'
    <3>1. filming = v.no \/ v.job # jobs \/ ~InFlight(videoJob)
      BY <2>4 DEF StudioInv, LocksAreHeld
    <3>2. CASE does = "video"
      BY <3>1, <3>2, <2>4, <1>2, <1>4 DEF InFlight
    <3>3. CASE does # "video"
      BY <3>1, <3>3, <1>1 DEF InFlight
    <3> QED
      BY <3>2, <3>3
  <2> QED
    BY <2>1, <2>2, <2>3, <2>4, <1>1 DEF LocksAreHeld
<1>f. PlansArePast'
  <2> SUFFICES ASSUME NEW g \in Slot, Running(g)', run'[g].does = "plan", run'[g].at # "ok"
               PROVE  planned' # run'[g].no /\ \A k \in Slot : Running(k)' => run'[k].on # run'[g].no
    BY DEF PlansArePast
  <2>1. \A k \in Slot : Running(k) => run[k].on \in 0 .. begun
    BY <1>2, WholeRuns, WholeRunFields
  <2>2. CASE g = h
    BY <2>1, <2>2, <1>1, <1>2, <1>3, <1>6, <1>8, <1>10
  <2>3. CASE g # h
    BY <2>3, <1>1, <1>6, <1>8, <1>10 DEF StudioInv, PlansArePast
  <2> QED
    BY <2>2, <2>3
<1>g. WorkIsOnRecord'
  BY <1>1, SavedOnRecord
<1>h. NoTempLeft'
  <2> SUFFICES ASSUME NEW n \in temp
               PROVE  n \in dead' \/ \E g \in Slot : Stands(g, "mux")' /\ run'[g].no = n
    BY <1>1 DEF NoTempLeft
  <2>1. CASE n \in dead
    BY <2>1, <1>1
  <2>2. CASE \E g \in Slot : Stands(g, "mux") /\ run[g].no = n
    BY <2>2, <1>1, <1>8, <1>10 DEF Stands
  <2> QED
    BY <2>1, <2>2 DEF StudioInv, NoTempLeft
<1>i. OneVideoPerJob'
  BY <1>1 DEF StudioInv, OneVideoPerJob
<1> QED
  BY <1>a, <1>b, <1>c, <1>d, <1>e, <1>f, <1>g, <1>h, <1>i DEF StudioInv

----------------------------------------------------------------------------
(* The theorems.                                                            *)

LEMMA StudioInitially == StudioInit => StudioInv
<1> SUFFICES ASSUME StudioInit
             PROVE  StudioInv
  OBVIOUS
<1>1. \A h \in Slot : ~Running(h)
  BY DEF StudioInit, Running
<1>2. NoJob \in Job /\ NoJob.state = "absent"
  BY AttemptsAssumption, StallsAssumption DEF Job, JobState, NoJob
<1>3. StudioTypeOK
  BY <1>1, <1>2, StudioAssumption DEF StudioInit, StudioTypeOK
<1>4. RunsAreWhole /\ StagesInTurn /\ VideosAreOver /\ PlansArePast /\ WorkIsOnRecord /\ NoTempLeft /\ OneVideoPerJob
  BY <1>1 DEF StudioInit, RunsAreWhole, StagesInTurn, VideosAreOver, PlansArePast, WorkIsOnRecord, NoTempLeft,
              OneVideoPerJob
<1>5. LocksAreHeld
  BY <1>1, <1>2 DEF StudioInit, LocksAreHeld, InFlight
<1> QED
  BY <1>3, <1>4, <1>5 DEF StudioInv

LEMMA StudioStutters ==
  ASSUME StudioInv, UNCHANGED studioVars
  PROVE  StudioInv'
<1>1. /\ UNCHANGED <<works, bytes, temp, log, run, dead, begun>> /\ UNCHANGED <<jobs, lost, videoJob, filming>>
      /\ UNCHANGED <<planned, videos>>
  BY DEF studioVars, works, queued, itsJob
<1>2. /\ jobs' \in Nat /\ jobs <= jobs' /\ lost \subseteq lost' /\ lost' \subseteq 1 .. begun
      /\ videoJob' \in Job /\ filming' \in 0 .. begun /\ (filming' # 0 <=> videoJob'.state = "active")
  BY <1>1 DEF StudioInv, StudioTypeOK, RunsAreWhole
<1>3. LocksAreHeld'
  BY <1>1 DEF StudioInv, LocksAreHeld, OnLatest, InFlight, Running
<1> QED
  BY <1>1, <1>2, <1>3, JobMoves DEF StudioInv

\* However runs, their agents and the item's job interleave, fail, die or lose the
\* lock, what a run has done is told by the stages it has left, and one run at a
\* time films for a job. (the generators' routes, withAudit, queue/video-queue.ts)
THEOREM StudioInvariance == StudioSpec => []StudioInv
<1>1. StudioInit => StudioInv
  BY StudioInitially
<1>2. StudioInv /\ [StudioNext]_studioVars => StudioInv'
  <2> SUFFICES ASSUME StudioInv, [StudioNext]_studioVars
               PROVE  StudioInv'
    OBVIOUS
  <2>1. ASSUME NEW h \in Slot, NEW does \in DOMAIN Stages, Begin(h, does)
        PROVE  StudioInv'
    BY <2>1, BeginStep
  <2>2. ASSUME NEW h \in Slot, Running(h), NEW a \in DOMAIN run[h].live, ModelAnswers(h, a)
        PROVE  StudioInv'
    <3>1. PICK v \in {"good", "bad"} : run' = [run EXCEPT ![h].live[a] = v]
      BY <2>2 DEF ModelAnswers
    <3>2. UNCHANGED <<works, queued, bytes, temp, log, dead, begun>>
      BY <2>2 DEF ModelAnswers
    <3> QED
      BY <2>2, <3>1, <3>2, AnswerStep, AgentStepKeeps
  <2>3. ASSUME NEW h \in Slot, Running(h), NEW a \in DOMAIN run[h].live, RecordSuccess(h, a)
        PROVE  StudioInv'
    BY <2>3, RecordSuccessStep, AgentStepKeeps
  <2>4. ASSUME NEW h \in Slot, Running(h), NEW a \in DOMAIN run[h].live, RecordError(h, a)
        PROVE  StudioInv'
    BY <2>4, RecordErrorStep, AgentStepKeeps
  <2>5. ASSUME NEW h \in Slot, MakeTemp(h) \/ Mux(h) \/ PutVideo(h)
        PROVE  StudioInv'
    BY <2>5, AssemblySteps, AgentStepKeeps
  <2>6. ASSUME NEW h \in Slot, Save(h)
        PROVE  StudioInv'
    BY <2>6, SaveStep
  <2>7. ASSUME NEW h \in Slot, End(h)
        PROVE  StudioInv'
    BY <2>7, EndStep
  <2>8. ASSUME NEW h \in Slot, DieRunning(h)
        PROVE  StudioInv'
    BY <2>8, DieRunningStep
  <2>9. CASE RequestVideo
    BY <2>9, RequestVideoStep
  <2>10. CASE ForgetVideo
    BY <2>10, ForgetVideoStep
  <2>11. CASE LoseVideoLock
    BY <2>11, LoseVideoLockStep
  <2>12. CASE UNCHANGED studioVars
    BY <2>12, StudioStutters
  <2> QED
    BY <2>1, <2>2, <2>3, <2>4, <2>5, <2>6, <2>7, <2>8, <2>9, <2>10, <2>11, <2>12 DEF StudioNext
<1> QED
  BY <1>1, <1>2, PTL DEF StudioSpec

\* Whatever is saved has the row of each agent it was made by, a still its own; and
\* only a process that died leaves a temporary directory behind. (design/index.ts:5,
\* video/ffmpeg.ts:51-99)
THEOREM StudioLeavesOnlyWork == StudioSpec => []OnlyWorkRemains
<1>1. StudioInv => OnlyWorkRemains
  BY DEF StudioInv, OnlyWorkRemains
<1> QED
  BY <1>1, StudioInvariance, PTL

\* A job that is retried makes a second video only of a run that lost its lock.
\* (queue/video-queue.ts, queue/worker.ts:273)
THEOREM StudioFilmsOnce == StudioSpec => []OneVideoPerJob
<1>1. StudioInv => OneVideoPerJob
  BY DEF StudioInv
<1> QED
  BY <1>1, StudioInvariance, PTL

\* The generators' variables keep to their types.
THEOREM StudioTypeCorrect == StudioSpec => []StudioTypeOK
<1>1. StudioInv => StudioTypeOK
  BY DEF StudioInv
<1> QED
  BY <1>1, StudioInvariance, PTL

----------------------------------------------------------------------------
(* Generators and adapters side by side.                                    *)

\* What moves beside a component leaves its variables alone.
LEMMA StudiosAreBoth == StudiosSpec => StudioSpec /\ PublishersSpec
<1>1. StudiosInit => StudioInit /\ PublishersInit
  BY DEF StudiosInit
<1> DEFINE allVars == <<part, studioVars, publisherVars, draft, insight, text, rules>>
<1>2. [StudiosNext]_allVars => [StudioNext]_studioVars
  BY DEF StudiosNext
<1>3. [StudiosNext]_allVars => [PublishersNext]_publisherVars
  BY DEF StudiosNext
<1> QED
  BY <1>1, <1>2, <1>3, PTL DEF StudiosSpec, StudioSpec, PublishersSpec

\* What generators save and log, and adapters post, has its type while both run.
THEOREM StudiosTypesHold == StudiosSpec => []StudiosTypeOK
<1>1. StudioTypeOK /\ PublishersTypeOK => StudiosTypeOK
  BY DEF StudiosTypeOK
<1> QED
  BY <1>1, StudiosAreBoth, StudioTypeCorrect, PublishersTypeCorrect, PTL
=============================================================================
