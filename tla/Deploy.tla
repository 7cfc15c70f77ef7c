------------------------------- MODULE Deploy -------------------------------
(***************************************************************************)
(* deploy/quickstart.sh and what it sets going: the download of the model, *)
(* the container of deploy/docker-compose.yml and the wait for its server. *)
(*                                                                         *)
(* The model directory holds files; each is absent (0) or of the revision  *)
(* it was last changed in.  Revision 2 (v1.1.0) changed config.json in     *)
(* place and added the INT4 lm_head; the body stayed.  The repository,     *)
(* huggingface-cli, the Docker daemon and the server are external, and so  *)
(* is the user, who may pull by hand and stop and start the service as the *)
(* release notes and deploy/README.md say.                                 *)
(***************************************************************************)
EXTENDS Integers

CONSTANTS
  MaxPolls,    \* 60 in the script
  MaxStarts,   \* bound on the starts of the script
  MaxFaults,   \* bound on crashes and freezes of the server
  ByHand       \* whether the user also pulls by hand

ASSUME DeployAssumption ==
  MaxPolls \in Nat \ {0} /\ MaxStarts \in Nat /\ MaxFaults \in Nat /\ ByHand \in BOOLEAN

VARIABLES
  hub,         \* the revision that a pull gets
  disk,        \* the files in ./model
  pulls,       \* for each puller the revision it is pulling, or 0
  left,        \* for each puller the files it has yet to look at
  cut,         \* history: the newest revision of which a pull was cut, and none of
               \* it or of a later one has ended since; 0 for none
  script,      \* where quickstart.sh is, or how it ended
  code,        \* what curl got last, 0 for no HTTP answer
  polls, starts,
  container,   \* the state of the container
  server,      \* what its process has read of the model
  faults

model == <<hub, disk, pulls, left, cut>>
client == <<script, code, polls, starts>>
service == <<container, server, faults>>
vars == <<model, client, service>>

Files == {"config", "body", "lmhead"}
Pullers == {"script", "hand"}
Needs(r) == IF r = 2 THEN Files ELSE Files \ {"lmhead"}

\* The revision that file f of revision r was last changed in.
Content(f, r) == IF f = "body" THEN 1 ELSE r

\* Whether the files of revision r are there.
Whole(r) == \A f \in Needs(r) : disk[f] # 0

Pulling == \E p \in Pullers : pulls[p] # 0

-----------------------------------------------------------------------------
(* huggingface-cli download --local-dir ./model: a pull is of the revision *)
(* that the hub has when it starts.  It goes through the files of that      *)
(* revision in any order, leaves alone those that are up to date and moves  *)
(* each of the others in place as a whole.  Two pulls may be under way at   *)
(* once, and a release may come out in the middle of one.                   *)

\* Puller p begins with revision r.
Begin(p, r) ==
  /\ pulls' = [pulls EXCEPT ![p] = r]
  /\ left' = [left EXCEPT ![p] = Needs(r)]

\* Puller p is done, in one way or the other, and the script goes to place next.
Leave(p, next) ==
  /\ pulls' = [pulls EXCEPT ![p] = 0]
  /\ left' = [left EXCEPT ![p] = {}]
  /\ script' = IF p = "script" THEN next ELSE script
  /\ UNCHANGED <<hub, disk, code, polls, starts>> /\ UNCHANGED service

PullFile(p, f) ==
  /\ pulls[p] # 0 /\ f \in left[p]
  /\ disk' = [disk EXCEPT ![f] = Content(f, pulls[p])]
  /\ left' = [left EXCEPT ![p] = @ \ {f}]
  /\ UNCHANGED <<hub, pulls, cut>> /\ UNCHANGED client /\ UNCHANGED service

\* Mutant: the download goes on in the background.
PullEndsAtOnce(p) ==
  /\ pulls[p] # 0
  /\ cut' = IF cut <= pulls[p] THEN 0 ELSE cut
  /\ Leave(p, "composing")

PullEnds(p) ==
  /\ pulls[p] # 0 /\ left[p] = {}
  /\ cut' = IF cut <= pulls[p] THEN 0 ELSE cut
  /\ Leave(p, "composing")

\* The network fails, the disk is full or the user interrupts: the files that
\* were moved in place stay, and set -e ends the script.
PullIsCut(p) ==
  /\ pulls[p] # 0
  /\ cut' = IF cut <= pulls[p] THEN pulls[p] ELSE cut
  /\ Leave(p, "failed")

\* Mutant: the revision that was current when the card was written is pulled.
PullFirstRevision ==
  /\ ByHand /\ pulls["hand"] = 0
  /\ Begin("hand", 1)
  /\ UNCHANGED <<hub, disk, cut>> /\ UNCHANGED client /\ UNCHANGED service

PullByHand ==
  /\ ByHand /\ pulls["hand"] = 0
  /\ Begin("hand", hub)
  /\ UNCHANGED <<hub, disk, cut>> /\ UNCHANGED client /\ UNCHANGED service

\* A new revision, at any moment.
Publish ==
  /\ hub = 1
  /\ hub' = 2
  /\ UNCHANGED <<disk, pulls, left, cut>> /\ UNCHANGED client /\ UNCHANGED service

-----------------------------------------------------------------------------
(* The script.                                                             *)

Busy == {"testing", "downloading", "composing", "polling", "reporting"}
Ended == {"ready", "starting", "failed"}

StartScript ==
  /\ script \in Ended \cup {"none"} /\ starts < MaxStarts
  /\ script' = "testing"
  /\ code' = 0 /\ polls' = 0 /\ starts' = starts + 1
  /\ UNCHANGED model /\ UNCHANGED service

\* [ ! -f model/config.json ]
TestForModel ==
  /\ script = "testing"
  /\ IF disk["config"] = 0
     THEN script' = "downloading" /\ Begin("script", hub)
     ELSE script' = "composing" /\ UNCHANGED <<pulls, left>>
  /\ UNCHANGED <<hub, disk, cut, code, polls, starts>> /\ UNCHANGED service

\* docker compose up -d: a container that exists is left alone, because neither
\* its configuration nor its image has changed.
Up ==
  /\ IF container = "none" THEN container' = "created" ELSE UNCHANGED container
  /\ UNCHANGED <<server, faults>>

Compose ==
  /\ script = "composing"
  /\ Up
  /\ script' = "polling"
  /\ UNCHANGED <<code, polls, starts>> /\ UNCHANGED model

\* The build fails, or the user interrupts.
Interrupt ==
  /\ script \in {"composing", "polling"}
  /\ script' = "failed"
  /\ UNCHANGED <<code, polls, starts>> /\ UNCHANGED model /\ UNCHANGED service

\* Mutant: until the server answers.
PollOn ==
  /\ script = "polling" /\ container # "frozen"
  /\ code' = IF container = "serving" THEN 200 ELSE 0
  /\ polls' = (polls + 1) % MaxPolls
  /\ script' = IF code' = 200 THEN "reporting" ELSE "polling"
  /\ UNCHANGED starts /\ UNCHANGED model /\ UNCHANGED service

\* One round of the loop.  curl has no timeout: a server that takes the
\* connection and does not answer holds the script.
Poll ==
  /\ script = "polling" /\ container # "frozen"
  /\ code' = IF container = "serving" THEN 200 ELSE 0
  /\ polls' = polls + 1
  /\ script' = IF code' = 200 \/ polls' = MaxPolls THEN "reporting" ELSE "polling"
  /\ UNCHANGED starts /\ UNCHANGED model /\ UNCHANGED service

Report ==
  /\ script = "reporting"
  /\ script' = IF code = 200 THEN "ready" ELSE "starting"
  /\ UNCHANGED <<code, polls, starts>> /\ UNCHANGED model /\ UNCHANGED service

-----------------------------------------------------------------------------
(* The container, the daemon that runs it and the user who stops it.       *)

\* A process that has read no more than config.json, of revision r.
ReadOnly(r) == [config |-> r, whole |-> TRUE, disturbed |-> FALSE]
Nothing == ReadOnly(0)

\* The server begins with config.json, which says what it reads next.
ReadConfig ==
  /\ container = "created"
  /\ IF disk["config"] = 0
     THEN container' = "exited" /\ UNCHANGED server
     ELSE /\ container' = "loading"
          /\ server' = ReadOnly(disk["config"])
  /\ UNCHANGED faults /\ UNCHANGED model /\ UNCHANGED client

\* With a file missing the server gives up, or it comes up without those weights.
ReadWeights ==
  /\ container = "loading"
  /\ \/ /\ container' = "serving"
        /\ server' = [config |-> server.config, whole |-> Whole(server.config),
                      disturbed |-> cut # 0 \/ Pulling]
     \/ /\ ~ Whole(server.config)
        /\ container' = "exited" /\ server' = Nothing
  /\ UNCHANGED faults /\ UNCHANGED model /\ UNCHANGED client

Crash ==
  /\ container \in {"loading", "serving"} /\ faults < MaxFaults
  /\ container' = "exited" /\ server' = Nothing /\ faults' = faults + 1
  /\ UNCHANGED model /\ UNCHANGED client

\* The card hangs: the process stays and answers no more.
Freeze ==
  /\ container = "serving" /\ faults < MaxFaults
  /\ container' = "frozen" /\ faults' = faults + 1
  /\ UNCHANGED server /\ UNCHANGED model /\ UNCHANGED client

\* Mutant: restart: on-failure:1, a second crash leaves the service down.
RestartOnce ==
  /\ container = "exited" /\ faults < 2
  /\ container' = "created"
  /\ UNCHANGED <<server, faults>> /\ UNCHANGED model /\ UNCHANGED client

\* restart: unless-stopped
Restart ==
  /\ container = "exited"
  /\ container' = "created"
  /\ UNCHANGED <<server, faults>> /\ UNCHANGED model /\ UNCHANGED client

\* docker compose down
Down ==
  /\ container # "none"
  /\ container' = "none" /\ server' = Nothing
  /\ UNCHANGED faults /\ UNCHANGED model /\ UNCHANGED client

UpByHand ==
  /\ container = "none"
  /\ Up
  /\ UNCHANGED model /\ UNCHANGED client

-----------------------------------------------------------------------------

Init ==
  /\ hub \in {1, 2}
  /\ disk = [f \in Files |-> 0]
  /\ pulls = [p \in Pullers |-> 0]
  /\ left = [p \in Pullers |-> {}]
  /\ cut = 0
  /\ script = "none"
  /\ code = 0 /\ polls = 0 /\ starts = 0 /\ faults = 0
  /\ container = "none"
  /\ server = Nothing

ScriptStep == TestForModel \/ Compose \/ Poll \/ Report
PullStep(p) == PullEnds(p) \/ PullIsCut(p) \/ \E f \in Files : PullFile(p, f)
DaemonStep == ReadConfig \/ ReadWeights \/ Restart

Next ==
  \/ ScriptStep
  \/ \E p \in Pullers : PullStep(p)
  \/ DaemonStep
  \/ StartScript \/ Interrupt \/ PullByHand \/ Publish \/ Down \/ UpByHand
  \/ Crash \/ Freeze

Spec == Init /\ [][Next]_vars

\* The script goes on, a pull ends one way or the other, and the daemon starts,
\* and starts again, a container that nobody has stopped.  The user, the publisher
\* and the faults are not fair.
FairSpec ==
  /\ Spec
  /\ WF_vars(ScriptStep)
  /\ \A p \in Pullers : WF_vars(PullStep(p))
  /\ WF_vars(DaemonStep)

-----------------------------------------------------------------------------
(* Properties.                                                             *)

\* The script starts the service with a whole model only, unless a pull was cut and
\* not made up for, or one by hand is under way: quickstart.sh:6 tests for one file,
\* which a pull may bring first.
StartsWithWhole == script = "composing" /\ cut = 0 /\ ~ Pulling => Whole(disk["config"])

\* A server that came up without some of its weights had read them while a pull was
\* under way, or after one that was cut and not made up for; no other interleaving of
\* the script, the daemon's restarts, releases in the middle of a pull, two pulls of
\* different revisions and the user leads to one, and so "Ready!" (quickstart.sh:25)
\* is otherwise said of a whole model.
PartialIsExplained == ~ server.whole => server.disturbed

Serving(r) == container = "serving" /\ server.config = r

\* The model is pulled in place (quickstart.sh:8-10), so a pull of revision 1 that
\* was slow may put its config.json over that of revision 2, and the next start of
\* the container goes back.  Nothing else undoes an upgrade: from a moment at which
\* revision 2 is served and in the directory, and no pull of revision 1 is under way
\* any more, no crash, restart, new pull or new start of the script serves
\* revision 1 again.
NeverBack ==
  [](Serving(2) /\ disk["config"] = 2 /\ (\A p \in Pullers : pulls[p] # 1)
       => [](~ Serving(1)))

\* The script ends, whatever becomes of the download and the server, as long as the
\* server does not hang while it is asked (quickstart.sh:17-21).
ScriptEnds == script \in Busy ~> script \in Ended \/ container = "frozen"

\* A container that finds a whole model at its start is brought up, again after each
\* crash and also after the script gave up waiting, with that revision or the next
\* (docker-compose.yml:22); or the user stops it, or pulls another revision.
ComesUp ==
  \A r \in {1, 2} :
    (container \in {"created", "exited"} /\ disk["config"] = r /\ Whole(r)) ~>
      (Serving(r) \/ Serving(2) \/ container \in {"none", "frozen"} \/ disk["config"] # r)

\* What the header of the script says (quickstart.sh:2): it downloads the model and
\* starts the server, so the model is there when it starts it.
DownloadsThenStarts == script = "composing" => Whole(disk["config"])
=============================================================================
