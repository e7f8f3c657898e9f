------------------------------- MODULE Reports -------------------------------
(***************************************************************************)
(* The report digest: a repeated job mails a report of each client to its   *)
(* agency's support address, which may be edited meanwhile. A digest whose  *)
(* worker dies is run again from the start.                                 *)
(***************************************************************************)
EXTENDS Tenancy, PublishQueue, FiniteSets

CONSTANTS Address,
          NoAddress

ASSUME ReportsAssumption == NoAddress \notin Address

VARIABLES
  support,    \* each agency's supportEmail
  digestJob,  \* the job of the last heartbeat
  digest,     \* its run
  mails,      \* reports of each client that the mail endpoint accepted for it
  known       \* history: the support addresses of each agency since the run began

reportVars == <<support, digestJob, digest, mails, known>>

Target == [client : Client, to : Address]
NoDigest == [pc |-> "idle", todo |-> {}, done |-> {}]

ReportsTypeOK ==
  /\ support \in [Agency -> Address \cup {NoAddress}]
  /\ digestJob \in Job
  /\ digest \in [pc : {"idle", "targets", "mailing"}, todo : SUBSET Target, done : SUBSET Target]
  /\ digest.pc # "idle" => digestJob.state = "active"
  /\ mails \in [Client -> 0 .. 1 + MaxStalls]
  /\ known \in [Agency -> SUBSET (Address \cup {NoAddress})]

ReportsInit ==
  /\ support \in [Agency -> Address \cup {NoAddress}]
  /\ digestJob = NoJob /\ digest = NoDigest
  /\ mails = [c \in Client |-> 0]
  /\ known = [a \in Agency |-> {}]

\* PUT whitelabel: one upsert of the fields that are given.
UpdateBranding(a, address) ==
  /\ support[a] # address
  /\ support' = [support EXCEPT ![a] = address]
  /\ known' = [known EXCEPT ![a] = @ \cup {address}]
  /\ UNCHANGED <<digestJob, digest, mails>>

\* The digest is registered and its time comes; the last one is over.
Heartbeat ==
  /\ ~InFlight(digestJob)
  /\ digestJob' = FreshJob
  /\ mails' = [c \in Client |-> 0]
  /\ UNCHANGED <<support, digest, known>>

TakeDigest ==
  /\ digestJob.state = "waiting"
  /\ digestJob' = Taken(digestJob)
  /\ digest' = [NoDigest EXCEPT !.pc = "targets"]
  /\ known' = [a \in Agency |-> {support[a]}]
  /\ UNCHANGED <<support, mails>>

\* Mutant: every client, at the first address there is.
AnyTargets == {[client |-> c, to |-> support[a]] : c \in Client, a \in {b \in Agency : support[b] # NoAddress}}

DigestTargets ==
  {[client |-> c, to |-> support[AgencyOf[c]]] : c \in {d \in Client : support[AgencyOf[d]] # NoAddress}}

\* The job has no attempts option: a digest that throws is over.
ReadTargets ==
  /\ digest.pc = "targets"
  /\ \/ /\ digest' = [digest EXCEPT !.pc = "mailing", !.todo = DigestTargets]
        /\ UNCHANGED digestJob
     \/ /\ digest' = NoDigest
        /\ digestJob' = Thrown(digestJob, TRUE)
  /\ UNCHANGED <<support, mails, known>>

Mailed(t) == mails' = [mails EXCEPT ![t.client] = @ + 1]

\* Mutant: a failure ends the digest.
MailOrStop(t) ==
  \/ digest' = [digest EXCEPT !.todo = @ \ {t}, !.done = @ \cup {t}] /\ Mailed(t)
  \/ digest' = [digest EXCEPT !.todo = {}] /\ UNCHANGED mails

\* The report is built, rendered with the branding and sent; a failure of any
\* of these is logged, after the endpoint took the mail or before.
Mail(t) ==
  /\ digest' = [digest EXCEPT !.todo = @ \ {t}, !.done = @ \cup {t}]
  /\ Mailed(t) \/ UNCHANGED mails

MailTarget(t) ==
  /\ digest.pc = "mailing" /\ t \in digest.todo
  /\ Mail(t)
  /\ UNCHANGED <<support, digestJob, known>>

\* Mutant: the run goes on behind the finished job.
EndDigestEarly ==
  /\ digest.pc = "mailing"
  /\ digestJob' = Completed(digestJob)
  /\ UNCHANGED <<support, digest, mails, known>>

EndDigest ==
  /\ digest.pc = "mailing" /\ digest.todo = {}
  /\ digestJob' = Completed(digestJob)
  /\ digest' = [digest EXCEPT !.pc = "idle"]
  /\ UNCHANGED <<support, mails, known>>

DigestDies ==
  /\ digest.pc # "idle"
  /\ digest' = NoDigest
  /\ UNCHANGED <<support, digestJob, mails, known>>

\* Mutant: the stalled job is left to the next heartbeat, which never finds it over.
StallNoDigest == FALSE /\ UNCHANGED reportVars

StallDigest ==
  /\ digestJob.state = "active" /\ digest.pc = "idle"
  /\ digestJob' = Stalled(digestJob)
  /\ UNCHANGED <<support, digest, mails, known>>

DigestStep == ReadTargets \/ (\E t \in digest.todo : MailTarget(t)) \/ EndDigest

ReportsNext ==
  \/ \E a \in Agency, x \in Address \cup {NoAddress} : UpdateBranding(a, x)
  \/ Heartbeat \/ TakeDigest \/ DigestStep \/ DigestDies \/ StallDigest

\* The worker runs, a mail times out, the stalled checker runs.
ReportsFairness ==
  WF_reportVars(TakeDigest) /\ WF_reportVars(DigestStep) /\ WF_reportVars(StallDigest)

ReportsSpec == ReportsInit /\ [][ReportsNext]_reportVars /\ ReportsFairness

----------------------------------------------------------------------------
(* Properties.                                                              *)

\* A client's report goes to an address that its own agency had at some moment
\* of the digest, however addresses are edited meanwhile.
\* (prisma-stores.ts:691-712, reporting/index.ts:117-141)
ReportsStayHome ==
  \A t \in digest.done : t.to \in known[AgencyOf[t.client]]

\* A digest that ends has tried every client of every agency that kept one
\* address throughout, although the mails of others failed; and no client gets
\* more than one report, or one more for each time the digest was begun again.
\* (reporting/index.ts:117-141)
DigestReachesAll ==
  /\ digestJob.state = "completed" =>
       \A c \in Client :
         \A x \in Address : known[AgencyOf[c]] = {x} => [client |-> c, to |-> x] \in digest.done
  /\ \A c \in Client : mails[c] <= 1 + digestJob.stalls

\* A digest that is due ends. (worker.ts:355-388)
DigestEnds == [](InFlight(digestJob) => <>~InFlight(digestJob))

\* A client's report is mailed, and to nobody but its agency.
ReportsArrive == ReportsStayHome /\ DigestReachesAll

----------------------------------------------------------------------------
(* The inductive invariant behind ReportsArrive: what a digest has still to  *)
(* mail, and what it may have mailed already.                               *)

\* A digest is tried once only, whatever it throws.
DigestsAreNotRetried == InFlight(digestJob) => digestJob.attempts = 0

\* Since the run began the histories have every agency's present address.
KnownIsCurrent ==
  digest.pc # "idle" \/ digestJob.state = "completed" =>
    \A a \in Agency : support[a] \in known[a]

\* Targets are of addresses their agencies had, one for each client.
TargetsAreKnown ==
  /\ \A t \in digest.todo : t.to \in known[AgencyOf[t.client]]
  /\ \A t, u \in digest.todo : t.client = u.client => t = u
  /\ digest.pc # "mailing" => digest.todo = {}

\* Who kept an address is mailed, or will be.
NobodyIsForgotten ==
  digest.pc = "mailing" =>
    \A c \in Client, x \in Address :
      known[AgencyOf[c]] = {x} => [client |-> c, to |-> x] \in digest.todo \cup digest.done

\* Only a run that is over, or has passed a client, has mailed it once more than
\* the runs that died.
MailsAreCounted ==
  /\ digestJob.state = "waiting" \/ digest.pc = "targets" =>
       \A c \in Client : mails[c] <= digestJob.stalls
  /\ \A t \in digest.todo : mails[t.client] <= digestJob.stalls

ReportsInv ==
  /\ ReportsTypeOK /\ DigestsAreNotRetried /\ KnownIsCurrent /\ TargetsAreKnown
  /\ NobodyIsForgotten /\ MailsAreCounted /\ ReportsArrive
=============================================================================
