------------------------------ MODULE Publishers ------------------------------
(***************************************************************************)
(* The adapters that talk to the platforms. A call of publish, exchangeCode *)
(* or fetchMetrics is a sequence of requests; a request may be processed    *)
(* after the adapter has given up on it, or never, and its answer may be    *)
(* lost. The publish job calls again when a call failed in a way that may   *)
(* pass.                                                                    *)
(***************************************************************************)
EXTENDS Integers, Sequences, FiniteSets

CONSTANTS MaxCalls,     \* calls made, one after another
          MediaPassed   \* whether media is passed: {FALSE} is what the publish
                        \* job does, BOOLEAN all that the adapters provide for

ASSUME PublishersAssumption == MaxCalls \in Nat \ {0} /\ MediaPassed \subseteq BOOLEAN

\* What each request asks for, adapter by adapter.
FacebookPublish == <<"post">>
InstagramPublish == <<"container", "post">>
TikTokPublish == <<"post">>
YouTubePublish == <<"bytes", "session", "post">>
PinterestPublish == <<"board", "post">>
XPublish == <<"post">>
LinkedInPublish == <<"post">>

FacebookExchange == <<"token", "page">>
InstagramExchange == <<"token", "page", "account">>
TikTokExchange == <<"token", "name">>
YouTubeExchange == <<"token", "account">>
PinterestExchange == <<"token", "account">>
XExchange == <<"token", "account">>
LinkedInExchange == <<"token", "account">>

MetaMetrics == <<"numbers">>
TikTokMetrics == <<"numbers">>
YouTubeMetrics == <<"numbers">>
PinterestMetrics == <<"numbers">>
XMetrics == <<"numbers">>
LinkedInMetrics == <<>>

Adapter ==
  [meta_fb |-> [publish |-> FacebookPublish, connect |-> FacebookExchange, metrics |-> MetaMetrics],
   meta_ig |-> [publish |-> InstagramPublish, connect |-> InstagramExchange, metrics |-> MetaMetrics],
   tiktok |-> [publish |-> TikTokPublish, connect |-> TikTokExchange, metrics |-> TikTokMetrics],
   youtube |-> [publish |-> YouTubePublish, connect |-> YouTubeExchange, metrics |-> YouTubeMetrics],
   pinterest |-> [publish |-> PinterestPublish, connect |-> PinterestExchange, metrics |-> PinterestMetrics],
   x |-> [publish |-> XPublish, connect |-> XExchange, metrics |-> XMetrics],
   linkedin |-> [publish |-> LinkedInPublish, connect |-> LinkedInExchange, metrics |-> LinkedInMetrics]]

Platform == DOMAIN Adapter
NeedsMedia == {"meta_ig", "tiktok", "youtube", "pinterest"}
TakesNoMedia == {"x", "linkedin"}

VARIABLES
  calls,    \* what was called, in turn
  wire,     \* requests the platform has not processed
  answers,  \* what it answered, not yet received
  things    \* history: what it made for each request

publisherVars == <<calls, wire, answers, things>>

Ended == {"done", "invalid", "external"}
Sent == [call : 1 .. MaxCalls, step : 1 .. 3, try : 1 .. 2]
\* "refused" stands for an error status, and for an error code under status 200.
Verdict == {"good", "empty", "refused"}

PublishersTypeOK ==
  /\ Len(calls) \in 0 .. MaxCalls
  /\ \A n \in DOMAIN calls :
       /\ calls[n] \in [does : {"publish", "connect", "metrics"}, to : Platform, media : BOOLEAN,
                        step : 1 .. 3, at : {"sending", "waiting"} \cup Ended]
       /\ n < Len(calls) => calls[n].at \in Ended
       /\ calls[n].at \notin Ended => calls[n].step \in DOMAIN Adapter[calls[n].to][calls[n].does]
  /\ wire \subseteq Sent
  /\ answers \subseteq [to : Sent, is : Verdict]
  /\ things \subseteq Sent

PublishersInit == calls = <<>> /\ wire = {} /\ answers = {} /\ things = {}

Steps(n) == Adapter[calls[n].to][calls[n].does]
Current == Len(calls)
Attending(at) == calls # <<>> /\ calls[Current].at = at

\* Nothing can be posted without the media it is made of: no retry helps.
MediaMissing(does, to, media) == does = "publish" /\ to \in NeedsMedia /\ ~media

\* Not written yet: media of X and LinkedIn, metrics of LinkedIn.
NotSupported(does, to, media) ==
  \/ does = "publish" /\ to \in TakesNoMedia /\ media
  \/ Adapter[to][does] = <<>>

\* Mutant: what is not supported is tried.
FirstAtAnyway(does, to, media) ==
  IF MediaMissing(does, to, media) THEN "invalid" ELSE "sending"

FirstAt(does, to, media) ==
  IF MediaMissing(does, to, media) THEN "invalid"
  ELSE IF NotSupported(does, to, media) THEN "external" ELSE "sending"

\* Mutant: Instagram is asked for the container before the media is looked at.
StartUnchecked(does, to, media) ==
  /\ Current < MaxCalls
  /\ calls # <<>> => calls[Current].at \in Ended
  /\ LET late == does = "publish" /\ to = "meta_ig" /\ ~media
     IN /\ calls' = Append(calls, [does |-> does, to |-> to, media |-> media, step |-> 1,
                                   at |-> FirstAt(does, to, media)])
        /\ wire' = IF late THEN wire \cup {[call |-> Current + 1, step |-> 1, try |-> 1]} ELSE wire
  /\ UNCHANGED <<answers, things>>

Start(does, to, media) ==
  /\ Current < MaxCalls
  /\ calls # <<>> => calls[Current].at \in Ended
  /\ calls' = Append(calls, [does |-> does, to |-> to, media |-> media, step |-> 1,
                             at |-> FirstAt(does, to, media)])
  /\ UNCHANGED <<wire, answers, things>>

Ask(try) == [call |-> Current, step |-> calls[Current].step, try |-> try]

SendRequest ==
  /\ Attending("sending")
  /\ calls' = [calls EXCEPT ![Current].at = "waiting"]
  /\ wire' = wire \cup {Ask(1)}
  /\ UNCHANGED <<answers, things>>

\* The platform, at any time: it does what it is asked, or refuses, or the
\* request is lost. It may have done it and still not say with what id.
Process(r) ==
  /\ wire' = wire \ {r}
  /\ \E v \in Verdict :
       /\ answers' = answers \cup {[to |-> r, is |-> v]}
       /\ things' = IF v = "refused" THEN things ELSE things \cup {r}
  /\ UNCHANGED calls

LoseRequest(r) ==
  /\ wire' = wire \ {r}
  /\ UNCHANGED <<calls, answers, things>>

LoseAnswer(a) ==
  /\ answers' = answers \ {a}
  /\ UNCHANGED <<calls, wire, things>>

\* The name of a TikTok account is best effort, when TikTok answers.
Optional(n) == Steps(n)[calls[n].step] = "name"

BodySaysIt(n, v) == v = "good" \/ Optional(n)

\* Mutant: what the last but one request gives is taken for the post.
DoneEarly(n) == calls[n].step >= Len(Steps(n)) - 1

LastStep(n) == calls[n].step = Len(Steps(n))

Receive ==
  /\ Attending("waiting")
  /\ \E a \in answers :
       /\ a.to.call = Current /\ a.to.step = calls[Current].step
       /\ answers' = answers \ {a}
       /\ calls' = IF ~BodySaysIt(Current, a.is) THEN [calls EXCEPT ![Current].at = "external"]
                   ELSE IF LastStep(Current) THEN [calls EXCEPT ![Current].at = "done"]
                   ELSE [calls EXCEPT ![Current].at = "sending", ![Current].step = @ + 1]
  /\ UNCHANGED <<wire, things>>

\* Mutant: a request that times out is sent again.
SendAgain ==
  /\ Attending("waiting")
  /\ IF Ask(2) \in wire \cup things
     THEN calls' = [calls EXCEPT ![Current].at = "external"] /\ UNCHANGED wire
     ELSE wire' = wire \cup {Ask(2)} /\ UNCHANGED calls
  /\ UNCHANGED <<answers, things>>

\* The timeout, or a connection that breaks: the call fails, also when it was
\* about the name of a TikTok account.
GiveUp ==
  /\ Attending("waiting")
  /\ calls' = [calls EXCEPT ![Current].at = "external"]
  /\ UNCHANGED <<wire, answers, things>>

PublishersNext ==
  \/ \E to \in Platform, media \in MediaPassed : Start("publish", to, media)
  \/ \E to \in Platform, does \in {"connect", "metrics"} : Start(does, to, FALSE)
  \/ SendRequest \/ Receive \/ GiveUp
  \/ \E r \in wire : Process(r) \/ LoseRequest(r)
  \/ \E a \in answers : LoseAnswer(a)

PublishersSpec == PublishersInit /\ [][PublishersNext]_publisherVars

----------------------------------------------------------------------------
(* Properties.                                                              *)

PostsOf(n) == {r \in things : r.call = n /\ Steps(n)[r.step] = "post"}

\* What the job takes as final, and never tries again, leaves nothing behind: no
\* request went out that the platform could still act upon. (meta.ts:178-180,
\* tiktok.ts:126-128, youtube.ts:106-108, pinterest.ts:109-111; job.ts:111-118)
FinalMeansNothingSent ==
  \A n \in DOMAIN calls : calls[n].at = "invalid" =>
    \A r \in wire \cup things : r.call # n

\* An answer with a post id names something the platform made for this very
\* call, after every step that leads to it, whatever late answers of earlier
\* calls are still to come. (publish of each adapter)
DoneMeansMade ==
  \A n \in DOMAIN calls : calls[n].at = "done" /\ calls[n].does = "publish" =>
    /\ PostsOf(n) # {}
    /\ \A k \in DOMAIN Steps(n) : \E r \in things : r.call = n /\ r.step = k

\* A call makes one post at most, even when the platform acts on a request the
\* adapter has given up on: an adapter never asks twice. (publish of each
\* adapter; retrying is left to the queue)
OnePostPerCall == \A n \in DOMAIN calls : Cardinality(PostsOf(n)) <= 1

\* An adapter's answer says what the platform has made of the call.
AnswersAreTrue == FinalMeansNothingSent /\ DoneMeansMade /\ OnePostPerCall

----------------------------------------------------------------------------
(* The inductive invariant behind AnswersAreTrue: what is on its way, and    *)
(* what has come of it, belongs to a step of a call.                        *)

PlatformCall ==
  [does : {"publish", "connect", "metrics"}, to : Platform, media : BOOLEAN,
   step : 1 .. 3, at : {"sending", "waiting"} \cup Ended]

\* What was asked and may still come to something, or has.
Requests == wire \cup things \cup {a.to : a \in answers}

\* Each was asked once, by a call that the adapter did not refuse at once.
RequestsAreOfCalls ==
  \A r \in Requests :
    /\ r.try = 1 /\ r.call \in DOMAIN calls /\ r.step \in DOMAIN Steps(r.call)
    /\ calls[r.call].at # "invalid"

\* Only a refusal may come without the thing.
AnswersAreOfThings == \A a \in answers : a.is # "refused" => a.to \in things

Made(n, k) == \E r \in things : r.call = n /\ r.step = k

\* A call to publish has gone past no step that came to nothing.
StepsAreMade ==
  \A n \in DOMAIN calls : calls[n].does = "publish" =>
    /\ \A k \in DOMAIN Steps(n) : k < calls[n].step => Made(n, k)
    /\ calls[n].at = "done" => LastStep(n) /\ Made(n, calls[n].step)

PublishersInv ==
  /\ calls \in Seq(PlatformCall) /\ PublishersTypeOK
  /\ RequestsAreOfCalls /\ AnswersAreOfThings /\ StepsAreMade
=============================================================================
