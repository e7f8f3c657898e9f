------------------------------- MODULE Studio -------------------------------
(***************************************************************************)
(* The generators of a client: brand profile, plan, copy, design and video. *)
(* A run is a request that asks one or more agents, stage by stage, and     *)
(* saves what they made; an agent is an audited call of a model. Runs work  *)
(* side by side on the same profile and item. A video is made by a worker,  *)
(* for the job of its item; the rest is made while a request waits. A run   *)
(* that a missing client, profile, brief or item refuses changes nothing,   *)
(* and is not shown.                                                        *)
(***************************************************************************)
EXTENDS PublishQueue, Integers, Sequences, FiniteSets

CONSTANTS Slot,       \* runs at a time
          MaxRuns,    \* runs in all
          MaxScenes   \* scenes of a script

ASSUME StudioAssumption == MaxRuns \in Nat /\ MaxScenes \in Nat \ {0}

VARIABLES
  profile,  \* the run the client's BrandProfile is from, 0 if there is none
  planned,  \* the run the latest plan's item is from
  copyOf,   \* the run the item's generated copy is from
  specOf,   \* the run the item's DesignSpec is from
  videos,   \* its video assets: their runs and jobs, and how many scenes they show
  videoJob, \* the item's job video:<agency>:<item>
  filming,  \* the run that holds its lock, 0 if none does
  bytes,    \* the runs whose mp4 is in the storage
  temp,     \* the runs whose temporary directory is on the disk
  log,      \* the audit rows, with the stages that were left
  run,      \* what each slot runs
  dead,     \* history: the runs whose process died
  lost,     \* history: the runs of a video that lost their lock
  jobs,     \* history: jobs added, which numbers them
  begun     \* history: runs begun, which numbers them

works == <<profile, planned, copyOf, specOf, videos>>
itsJob == <<videoJob, filming>>
queued == <<itsJob, lost, jobs>>
studioVars == <<works, queued, bytes, temp, log, run, dead, begun>>

Extracting == <<{"brand_voice_analysis"}>>
Planning == <<{"content_plan"}>>
Writing == <<{"copy_generation"}>>
Designing == <<{"design_direction"}, {"design_copy", "design_color", "design_imagery"}>>
Scripting == <<{"video_script"}>>
\* Narration first, then a still for each scene, one after another.
Filming(scenes) == <<{"tts_generation"}>> \o [k \in 1 .. scenes |-> {"image_generation"}]

Stages == [extract |-> Extracting, plan |-> Planning, write |-> Writing,
           design |-> Designing, video |-> Scripting]

NotRunning == [does |-> "nothing"]
Running(h) == run[h] # NotRunning

\* The agents of the stage that have not come to an end.
InStage(stage) == [a \in stage |-> "calling"]
Nobody == InStage({})

StudioTypeOK ==
  /\ {profile, planned, copyOf, specOf} \subseteq 0 .. MaxRuns
  /\ videos \subseteq [no : bytes, scenes : 1 .. MaxScenes, job : 1 .. jobs]
  /\ videoJob \in Job /\ filming \in 0 .. begun
  /\ filming # 0 <=> videoJob.state = "active"
  /\ bytes \subseteq 1 .. begun /\ temp \subseteq 1 .. begun /\ dead \cup lost \subseteq 1 .. begun
  /\ begun \in 0 .. MaxRuns
  /\ \A row \in log : row.no \in 1 .. begun /\ row.status \in {"success", "error"}
  /\ \A h \in Slot : Running(h) =>
       /\ run[h].does \in DOMAIN Stages /\ run[h].no \in 1 .. begun
       /\ run[h].on \in 0 .. MaxRuns /\ run[h].scenes \in 0 .. MaxScenes /\ run[h].job \in 0 .. jobs
       /\ run[h].at \in {"agents", "assemble", "mux", "put", "save", "ok", "error"}
       /\ run[h].at \notin {"agents", "error"} => run[h].live = Nobody /\ run[h].todo = <<>>
       /\ \A a \in DOMAIN run[h].live : run[h].live[a] \in {"calling", "good", "bad"}

StudioInit ==
  /\ profile = 0 /\ planned = 0 /\ copyOf = 0 /\ specOf = 0
  /\ videoJob = NoJob /\ filming = 0 /\ lost = {} /\ jobs = 0
  /\ videos = {} /\ bytes = {} /\ temp = {} /\ log = {} /\ dead = {}
  /\ run = [h \in Slot |-> NotRunning] /\ begun = 0

\* What a run finds before it asks anybody.
CanPlan == profile # 0
CanWrite == planned # 0
CanDesign == planned # 0
CanFilm == videoJob.state = "waiting"

\* POST video, by the item's own agency.
RequestVideo ==
  /\ planned # 0
  /\ videoJob' = Added(videoJob)
  /\ jobs' = IF videoJob.state = "absent" THEN jobs + 1 ELSE jobs
  /\ UNCHANGED <<works, filming, lost, bytes, temp, log, run, dead, begun>>

\* removeOnComplete, removeOnFail: enough later jobs have finished.
ForgetVideo ==
  /\ videoJob.state \in {"completed", "failed"}
  /\ videoJob' = NoJob
  /\ UNCHANGED <<works, filming, lost, jobs, bytes, temp, log, run, dead, begun>>

\* The lock expires: the process is dead, or did not renew it in time.
LoseVideoLock ==
  /\ videoJob.state = "active"
  /\ videoJob' = Stalled(videoJob) /\ filming' = 0
  /\ lost' = lost \cup {filming}
  /\ UNCHANGED <<works, jobs, bytes, temp, log, run, dead, begun>>

Begin(h, does) ==
  /\ ~Running(h) /\ begun < MaxRuns
  /\ does = "plan" => CanPlan
  /\ does = "write" => CanWrite
  /\ does = "design" => CanDesign
  /\ IF does = "video"
     THEN CanFilm /\ videoJob' = Taken(videoJob) /\ filming' = begun + 1
     ELSE UNCHANGED itsJob
  /\ begun' = begun + 1
  /\ run' = [run EXCEPT ![h] = [does |-> does, no |-> begun', on |-> planned, scenes |-> 0,
                                job |-> IF does = "video" THEN jobs ELSE 0,
                                at |-> "agents", live |-> InStage(Head(Stages[does])), todo |-> Tail(Stages[does])]]
  /\ UNCHANGED <<works, lost, jobs, bytes, temp, log, dead>>

\* The model answers, and the answer passes its parser and schema; or not.
ModelAnswers(h, a) ==
  /\ run[h].live[a] = "calling"
  /\ \E v \in {"good", "bad"} : run' = [run EXCEPT ![h].live[a] = v]
  /\ UNCHANGED <<works, queued, bytes, temp, log, dead, begun>>

Without(live, a) == [b \in DOMAIN live \ {a} |-> live[b]]

\* Mutant: the first agent of a stage to succeed ends it.
StageRaced(r, a) == TRUE

\* The agent that ends is the last of its stage.
StageOver(r, a) == DOMAIN r.live = {a}

AfterAgents(r) == IF r.does = "video" THEN "assemble" ELSE "save"

\* A script tells how many scenes there are to film.
Advance(r, a, todo) ==
  IF r.at # "agents" \/ ~StageOver(r, a) THEN [r EXCEPT !.live = Without(@, a)]
  ELSE IF todo = <<>> THEN [r EXCEPT !.live = Nobody, !.todo = <<>>, !.at = AfterAgents(r)]
  ELSE [r EXCEPT !.live = InStage(Head(todo)), !.todo = Tail(todo)]

\* withAudit: the row of a success that cannot be stored makes the call fail.
RecordSuccess(h, a) ==
  /\ run[h].live[a] = "good"
  /\ \/ /\ log' = log \cup {[no |-> run[h].no, agent |-> a, left |-> Len(run[h].todo), status |-> "success"]}
        /\ \/ a # "video_script" /\ run' = [run EXCEPT ![h] = Advance(@, a, @.todo)]
           \/ a = "video_script" /\ \E k \in 1 .. MaxScenes :
                run' = [run EXCEPT ![h] = [Advance(@, a, Filming(k)) EXCEPT !.scenes = k]]
     \/ run' = [run EXCEPT ![h].live[a] = "bad"] /\ UNCHANGED log
  /\ UNCHANGED <<works, queued, bytes, temp, dead, begun>>

\* The request is refused with the first agent that fails; those beside it go on.
RecordError(h, a) ==
  /\ run[h].live[a] = "bad"
  /\ \/ log' = log \cup {[no |-> run[h].no, agent |-> a, left |-> Len(run[h].todo), status |-> "error"]}
     \/ UNCHANGED log
  /\ run' = [run EXCEPT ![h].live = Without(@, a), ![h].at = "error"]
  /\ UNCHANGED <<works, queued, bytes, temp, dead, begun>>

Stands(h, at) == Running(h) /\ run[h].at = at

MakeTemp(h) ==
  /\ Stands(h, "assemble")
  /\ temp' = temp \cup {run[h].no}
  /\ run' = [run EXCEPT ![h].at = "mux"]
  /\ UNCHANGED <<works, queued, bytes, log, dead, begun>>

\* Mutant: the directory is removed where the video is read.
TempKeptOnFailure(h, muxed) == IF muxed THEN temp \ {run[h].no} ELSE temp

\* In a finally clause.
TempRemoved(h, muxed) == temp \ {run[h].no}

\* Stills, list and narration are written, ffmpeg runs, its file is read.
Mux(h) ==
  /\ Stands(h, "mux")
  /\ \E muxed \in BOOLEAN :
       /\ temp' = TempRemoved(h, muxed)
       /\ run' = [run EXCEPT ![h].at = IF muxed THEN "put" ELSE "error"]
  /\ UNCHANGED <<works, queued, bytes, log, dead, begun>>

\* Mutant: the asset is made although the storage failed.
PutOrNot(h) ==
  /\ Stands(h, "put")
  /\ run' = [run EXCEPT ![h].at = "save"]
  /\ bytes' = bytes \cup {run[h].no} \/ UNCHANGED bytes
  /\ UNCHANGED <<works, queued, temp, log, dead, begun>>

PutVideo(h) ==
  /\ Stands(h, "put")
  /\ \/ bytes' = bytes \cup {run[h].no} /\ run' = [run EXCEPT ![h].at = "save"]
     \/ run' = [run EXCEPT ![h].at = "error"] /\ UNCHANGED bytes
  /\ UNCHANGED <<works, queued, temp, log, dead, begun>>

SaveProfile(h) == profile' = run[h].no /\ UNCHANGED <<planned, copyOf, specOf, videos, itsJob>>

\* The plan with its items, in one transaction: the item is a new one.
SavePlan(h) ==
  /\ planned' = run[h].no /\ copyOf' = 0 /\ specOf' = 0 /\ videos' = {}
  /\ videoJob' = NoJob /\ filming' = 0
  /\ UNCHANGED profile

\* The item a run began with is the latest plan's, or is not followed any
\* further.
OnLatest(h) == run[h].on = planned

StoreCopy(h) == copyOf' = run[h].no /\ UNCHANGED <<profile, planned, specOf, videos, itsJob>>
SaveSpec(h) == specOf' = run[h].no /\ UNCHANGED <<profile, planned, copyOf, videos, itsJob>>
SaveVideo(h) ==
  /\ videos' = videos \cup {[no |-> run[h].no, scenes |-> run[h].scenes, job |-> run[h].job]}
  /\ UNCHANGED <<profile, planned, copyOf, specOf, itsJob>>

SaveWork(h) ==
  \/ run[h].does = "extract" /\ SaveProfile(h)
  \/ run[h].does = "plan" /\ SavePlan(h)
  \/ run[h].does \in {"write", "design", "video"} /\ ~OnLatest(h) /\ UNCHANGED <<works, itsJob>>
  \/ run[h].does = "write" /\ OnLatest(h) /\ StoreCopy(h)
  \/ run[h].does = "design" /\ OnLatest(h) /\ SaveSpec(h)
  \/ run[h].does = "video" /\ OnLatest(h) /\ SaveVideo(h)

\* Mutant: what follows the save may fail the run as well.
SaveThenThrow(h) ==
  /\ Stands(h, "save")
  /\ \E at \in {"ok", "error"} : run' = [run EXCEPT ![h].at = at]
  /\ SaveWork(h)
  /\ UNCHANGED <<lost, jobs, bytes, temp, log, dead, begun>>

Save(h) ==
  /\ Stands(h, "save")
  /\ \/ SaveWork(h) /\ run' = [run EXCEPT ![h].at = "ok"]
     \/ run' = [run EXCEPT ![h].at = "error"] /\ UNCHANGED <<works, itsJob>>
  /\ UNCHANGED <<lost, jobs, bytes, temp, log, dead, begun>>

\* The worker completes or fails the job, if the run still holds its lock.
SettleJob(h) ==
  IF filming # run[h].no THEN UNCHANGED itsJob
  ELSE /\ videoJob' = IF run[h].at = "ok" THEN Completed(videoJob) ELSE Thrown(videoJob, FALSE)
       /\ filming' = 0

\* The request was answered, and no agent is left at work.
End(h) ==
  /\ Stands(h, "ok") \/ Stands(h, "error")
  /\ run[h].live = Nobody
  /\ SettleJob(h)
  /\ run' = [run EXCEPT ![h] = NotRunning]
  /\ UNCHANGED <<works, lost, jobs, bytes, temp, log, dead, begun>>

\* The process dies: the agents' models may have been asked, nothing is told.
DieRunning(h) ==
  /\ Running(h)
  /\ dead' = dead \cup {run[h].no}
  /\ run' = [run EXCEPT ![h] = NotRunning]
  /\ UNCHANGED <<works, queued, bytes, temp, log, begun>>

StudioNext ==
  \/ \E h \in Slot :
    \/ \E does \in DOMAIN Stages : Begin(h, does)
    \/ Running(h) /\ \E a \in DOMAIN run[h].live :
         ModelAnswers(h, a) \/ RecordSuccess(h, a) \/ RecordError(h, a)
    \/ MakeTemp(h) \/ Mux(h) \/ PutVideo(h) \/ Save(h) \/ End(h)
    \/ DieRunning(h)
  \/ RequestVideo \/ ForgetVideo \/ LoseVideoLock

StudioSpec == StudioInit /\ [][StudioNext]_studioVars

----------------------------------------------------------------------------
(* Properties.                                                              *)

Rows(no, agent) == {row \in log : row.no = no /\ row.agent = agent /\ row.status = "success"}
OnRecord(no, agents) == \A a \in agents : Rows(no, a) # {}

\* design/index.ts:5: "the design's full provenance is the four rows it writes";
\* and so it is with everything that is saved: each agent it was made by has its
\* row, a still its own, however runs and agents interleave, fail or die.
WorkIsOnRecord ==
  /\ profile # 0 => OnRecord(profile, Extracting[1])
  /\ planned # 0 => OnRecord(planned, Planning[1])
  /\ copyOf # 0 => OnRecord(copyOf, Writing[1])
  /\ specOf # 0 => OnRecord(specOf, Designing[1] \cup Designing[2])
  /\ \A v \in videos : /\ OnRecord(v.no, {"video_script", "tts_generation"})
                        /\ Cardinality(Rows(v.no, "image_generation")) = v.scenes

\* A job makes one video, however often it is tried: a second one only comes of a
\* run that lost its lock and whose process, dead or alive, had got as far as its
\* asset. (queue/video-queue.ts, queue/worker.ts:273; video/index.ts: the asset
\* is the last step, and under a new id each time)
OneVideoPerJob ==
  \A v, w \in videos : v.job = w.job /\ v # w => {v.no, w.no} \cap lost # {}

\* A temporary directory is that of a video being assembled, or was left by a
\* process that died. (video/ffmpeg.ts:51-99)
NoTempLeft ==
  \A n \in temp : n \in dead \/ \E h \in Slot : Stands(h, "mux") /\ run[h].no = n

\* What runs leave behind, however they end, is recorded work and nothing else.
OnlyWorkRemains == WorkIsOnRecord /\ NoTempLeft

----------------------------------------------------------------------------
(* The inductive invariant behind OnlyWorkRemains and OneVideoPerJob: what a *)
(* run has done is told by the stages it has left, and only one run at a     *)
(* time holds the lock of the item's job.                                   *)

Images(n) == [k \in 1 .. n |-> {"image_generation"}]
Still(no, left) == [no |-> no, agent |-> "image_generation", left |-> left, status |-> "success"]

\* Runs and jobs are numbered as they begin.
RunsAreWhole ==
  /\ DOMAIN run = Slot
  /\ \A h \in Slot : Running(h) =>
       /\ run[h] \in [does : DOMAIN Stages, no : 1 .. begun, on : 0 .. begun, scenes : 0 .. MaxScenes,
                      job : 0 .. jobs, at : {"agents", "assemble", "mux", "put", "save", "ok", "error"},
                      live : {run[h].live}, todo : {run[h].todo}]
       /\ run[h].live \in [DOMAIN run[h].live -> {"calling", "good", "bad"}]
       /\ run[h].does = "video" => run[h].job # 0
  /\ \A g, h \in Slot : Running(g) /\ Running(h) /\ g # h => run[g].no # run[h].no
  /\ planned <= begun /\ jobs \in Nat

\* The agents of a stage are at work, or their rows are there.
Due(r, agents) == DOMAIN r.live \subseteq agents /\ \A a \in agents : a \in DOMAIN r.live \/ Rows(r.no, a) # {}
InOneStage(r) == r.todo = <<>> /\ Due(r, Stages[r.does][1])
InTwoStages(r) ==
  \/ r.at = "agents" /\ r.todo = <<Designing[2]>> /\ Due(r, Designing[1])
  \/ r.todo = <<>> /\ OnRecord(r.no, Designing[1]) /\ Due(r, Designing[2])
\* The rows of a run's stills have the numbers from n up to its scenes.
StillsFrom(r, n) == Rows(r.no, "image_generation") = {Still(r.no, left) : left \in n .. r.scenes - 1}
OnScript(r) ==
  r.at = "agents" /\ r.scenes = 0 /\ DOMAIN r.live = {"video_script"} /\ r.todo = <<>> /\ StillsFrom(r, 0)
OnNarration(r) ==
  /\ r.at = "agents" /\ r.scenes # 0 /\ DOMAIN r.live = {"tts_generation"} /\ r.todo = Images(r.scenes)
  /\ OnRecord(r.no, {"video_script"}) /\ StillsFrom(r, r.scenes)
OnStills(r) ==
  /\ r.at = "agents" /\ DOMAIN r.live = {"image_generation"}
  /\ OnRecord(r.no, {"video_script", "tts_generation"})
  /\ \E n \in 0 .. r.scenes - 1 : r.todo = Images(n) /\ StillsFrom(r, n + 1)
Filmed(r) ==
  /\ r.at # "agents" /\ r.scenes # 0
  /\ OnRecord(r.no, {"video_script", "tts_generation"}) /\ StillsFrom(r, 0)
InItsStages(r) ==
  /\ r.does = "video" => OnScript(r) \/ OnNarration(r) \/ OnStills(r) \/ Filmed(r)
  /\ r.does = "design" => InTwoStages(r)
  /\ r.does \in {"extract", "plan", "write"} => InOneStage(r)

StagesInTurn == \A h \in Slot : Running(h) /\ run[h].at # "error" => InItsStages(run[h])

\* A run that has its asset is over; its bytes came first.
VideosAreOver ==
  /\ \A h \in Slot : Running(h) => \A v \in videos : v.no = run[h].no => run[h].at = "ok"
  /\ \A h \in Slot : Running(h) /\ run[h].does = "video" /\ run[h].at \in {"save", "ok"} => run[h].no \in bytes

\* A run of the item's job has its lock, or has lost it; and a job that has its
\* video is not tried again, unless the run had lost it.
LocksAreHeld ==
  /\ InFlight(videoJob) => videoJob.attempts < MaxAttempts
  /\ videoJob.state # "absent" => jobs # 0
  /\ \A h \in Slot : Running(h) /\ run[h].does = "video" /\ OnLatest(h) /\ run[h].no \notin lost =>
       filming = run[h].no /\ run[h].job = jobs
  /\ \A v \in videos : v.no \notin lost => filming = v.no \/ v.job # jobs \/ ~InFlight(videoJob)

\* No run began on a plan that is still to be saved.
PlansArePast ==
  \A h \in Slot : Running(h) /\ run[h].does = "plan" /\ run[h].at # "ok" =>
    /\ planned # run[h].no
    /\ \A g \in Slot : Running(g) => run[g].on # run[h].no

StudioInv ==
  /\ StudioTypeOK /\ RunsAreWhole /\ StagesInTurn /\ VideosAreOver /\ LocksAreHeld /\ PlansArePast
  /\ WorkIsOnRecord /\ NoTempLeft /\ OneVideoPerJob
=============================================================================
