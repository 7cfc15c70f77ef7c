---------------------------- MODULE DeployProofs ----------------------------
(***************************************************************************)
(* What Deploy promises for any number of polls, starts and faults, with   *)
(* two pulls at once and a release at any moment.  The argument is about   *)
(* the files: they are only ever added, a pull of revision r puts all of   *)
(* r's there before it ends, and a config.json of revision r can only have *)
(* come with a pull of r.  So whoever finds config.json of r without r's   *)
(* other files finds that pull under way, or cut and not made up for.      *)
(***************************************************************************)
EXTENDS Deploy, TLAPS

TypeOK ==
  /\ hub \in {1, 2}
  /\ disk \in [Files -> 0 .. 2]
  /\ pulls \in [Pullers -> 0 .. 2]
  /\ left \in [Pullers -> SUBSET Files]
  /\ cut \in 0 .. 2
  /\ server \in [config : 0 .. 2, whole : BOOLEAN, disturbed : BOOLEAN]

\* What a pull has looked at is there.
LookedAtIsThere ==
  \A p \in Pullers : pulls[p] # 0 =>
    \A f \in Needs(pulls[p]) \ left[p] : disk[f] # 0

\* The directory or the server has a config.json of revision r.
Seen(r) == disk["config"] = r \/ server.config = r

\* A pull of r or of a later revision is under way, or was cut for good.
Excused(r) == cut >= r \/ \E p \in Pullers : pulls[p] >= r

SeenIsWhole == \A r \in {1, 2} : Seen(r) => Whole(r) \/ Excused(r)

\* Who goes on to start the service, or has read config.json, has seen the file.
ConfigSeen ==
  /\ script = "composing" => disk["config"] # 0
  /\ container = "loading" => server.config # 0

\* The script pulls only where it says so.
ScriptPulls == script # "downloading" => pulls["script"] = 0

\* Nothing is newer than what was published.
NoneNewer == disk["config"] <= hub /\ \A p \in Pullers : pulls[p] <= hub

IInv ==
  /\ TypeOK /\ LookedAtIsThere /\ SeenIsWhole /\ ConfigSeen /\ ScriptPulls
  /\ NoneNewer /\ PartialIsExplained

\* From the moment at which revision 2 is served and in the directory, and no pull
\* of revision 1 is under way.
Upgraded ==
  /\ disk["config"] = 2
  /\ \A p \in Pullers : pulls[p] # 1
  /\ container \in {"loading", "serving", "frozen"} => server.config = 2

-----------------------------------------------------------------------------

\* A directory that is whole for a revision is whole for the ones before.
LEMMA WholeForEarlier ==
  ASSUME NEW r \in 1 .. 2, NEW q \in 1 .. 2, q <= r, Whole(r)
  PROVE  Whole(q)
BY DEF Whole, Needs, Files

\* A server that has read nothing, or config.json only, is not without weights.
LEMMA NothingRead ==
  ASSUME NEW c \in 0 .. 2
  PROVE  /\ ReadOnly(c) \in [config : 0 .. 2, whole : BOOLEAN, disturbed : BOOLEAN]
         /\ ReadOnly(c).config = c /\ ReadOnly(c).whole
<1>1. TRUE \in BOOLEAN /\ FALSE \in BOOLEAN
  OBVIOUS
<1>2. QED
  BY <1>1 DEF ReadOnly

LEMMA InitIsGood == Init => IInv
<1> SUFFICES ASSUME Init PROVE IInv
  OBVIOUS
<1> USE DEF Init
<1>1. /\ server \in [config : 0 .. 2, whole : BOOLEAN, disturbed : BOOLEAN]
      /\ server.config = 0 /\ server.whole
  BY NothingRead DEF Nothing
<1>2. disk \in [Files -> 0 .. 2] /\ disk["config"] = 0
  BY DEF Files
<1>3. TypeOK
  BY <1>1, <1>2 DEF TypeOK
<1>4. LookedAtIsThere /\ SeenIsWhole
  BY <1>1, <1>2 DEF LookedAtIsThere, SeenIsWhole, Seen
<1>5. ConfigSeen /\ ScriptPulls /\ NoneNewer /\ PartialIsExplained
  BY <1>1, <1>2 DEF ConfigSeen, ScriptPulls, NoneNewer, PartialIsExplained, Pullers
<1>6. QED
  BY <1>3, <1>4, <1>5 DEF IInv

\* A pull moves a file of its revision in place; none goes away.
LEMMA PullFileKeeps ==
  ASSUME IInv, NEW p \in Pullers, NEW f \in Files, PullFile(p, f)
  PROVE  IInv'
<1> USE DEF PullFile, client, service
<1>1. pulls[p] \in 1 .. 2 /\ pulls[p] <= hub /\ hub \in {1, 2}
  BY DEF IInv, TypeOK, NoneNewer
<1>2. Content(f, pulls[p]) \in 1 .. 2 /\ (f = "config" => Content(f, pulls[p]) = pulls[p])
  BY <1>1 DEF Content
<1>3. /\ disk' \in [Files -> 0 .. 2]
      /\ disk'["config"] \in {disk["config"], pulls[p]}
      /\ disk'[f] # 0
      /\ \A g \in Files : disk[g] # 0 => disk'[g] # 0
  BY <1>1, <1>2 DEF IInv, TypeOK, Files
<1>4. TypeOK'
  BY <1>3 DEF IInv, TypeOK
<1>5. LookedAtIsThere'
  <2> SUFFICES ASSUME NEW q \in Pullers, pulls[q] # 0,
                      NEW g \in Needs(pulls[q]), g \notin left'[q]
               PROVE  disk'[g] # 0
    BY DEF LookedAtIsThere
  <2>1. g \in Files
    BY DEF Needs
  <2>2. g = f \/ g \notin left[q]
    BY DEF IInv, TypeOK
  <2>3. QED
    BY <1>3, <2>1, <2>2 DEF IInv, LookedAtIsThere
<1>6. SeenIsWhole'
  <2> SUFFICES ASSUME NEW r \in {1, 2}, Seen(r)'
               PROVE  Whole(r)' \/ Excused(r)'
    BY DEF SeenIsWhole
  <2>1. Excused(r)' = Excused(r) /\ (Whole(r) => Whole(r)')
    BY <1>3 DEF Excused, Whole, Needs, Files
  <2>2. Seen(r) \/ r = pulls[p]
    BY <1>3 DEF Seen
  <2>3. r = pulls[p] => Excused(r)
    BY <1>1 DEF Excused
  <2>4. QED
    BY <2>1, <2>2, <2>3 DEF IInv, SeenIsWhole
<1>7. ConfigSeen' /\ ScriptPulls' /\ PartialIsExplained'
  BY <1>1, <1>3 DEF IInv, ConfigSeen, ScriptPulls, PartialIsExplained
<1>8. NoneNewer'
  BY <1>1, <1>3 DEF IInv, NoneNewer
<1>9. QED
  BY <1>4, <1>5, <1>6, <1>7, <1>8 DEF IInv

\* A pull that ends has brought all files of its revision.
LEMMA PullEndsKeeps ==
  ASSUME IInv, NEW p \in Pullers, PullEnds(p)
  PROVE  IInv'
<1> USE DEF PullEnds, Leave, service
<1>1. /\ pulls[p] \in 1 .. 2 /\ cut \in 0 .. 2 /\ disk["config"] \in 0 .. 2
      /\ pulls' = [pulls EXCEPT ![p] = 0]
  BY DEF IInv, TypeOK, Files
<1>2. Whole(pulls[p]) /\ disk["config"] # 0
  BY <1>1 DEF IInv, LookedAtIsThere, Whole, Needs, Files
<1>3. TypeOK'
  BY <1>1 DEF IInv, TypeOK, Pullers
<1>4. LookedAtIsThere'
  BY <1>1 DEF IInv, TypeOK, LookedAtIsThere
<1>5. SeenIsWhole'
  <2> SUFFICES ASSUME NEW r \in {1, 2}, Seen(r)'
               PROVE  Whole(r)' \/ Excused(r)'
    BY DEF SeenIsWhole
  <2>1. Seen(r) /\ Whole(r)' = Whole(r)
    BY DEF Seen, Whole
  <2>2. CASE r <= pulls[p]
    BY <1>1, <1>2, <2>1, <2>2, WholeForEarlier
  <2>3. CASE pulls[p] < r
    <3>1. cut >= r => cut' >= r
      BY <1>1, <2>3
    <3>2. \A q \in Pullers : pulls[q] >= r => pulls'[q] >= r
      BY <1>1, <2>3 DEF IInv, TypeOK
    <3>3. QED
      BY <2>1, <3>1, <3>2 DEF IInv, SeenIsWhole, Excused
  <2>4. QED
    BY <1>1, <2>2, <2>3
<1>6. ConfigSeen' /\ ScriptPulls' /\ PartialIsExplained'
  BY <1>2 DEF IInv, TypeOK, ConfigSeen, ScriptPulls, PartialIsExplained, Pullers
<1>7. NoneNewer'
  BY DEF IInv, TypeOK, NoneNewer
<1>8. QED
  BY <1>3, <1>4, <1>5, <1>6, <1>7 DEF IInv

\* A pull that is cut is remembered.
LEMMA PullIsCutKeeps ==
  ASSUME IInv, NEW p \in Pullers, PullIsCut(p)
  PROVE  IInv'
<1> USE DEF PullIsCut, Leave, service
<1>1. /\ pulls[p] \in 1 .. 2 /\ cut \in 0 .. 2
      /\ pulls' = [pulls EXCEPT ![p] = 0]
  BY DEF IInv, TypeOK
<1>2. TypeOK'
  BY <1>1 DEF IInv, TypeOK, Pullers
<1>3. LookedAtIsThere'
  BY <1>1 DEF IInv, TypeOK, LookedAtIsThere
<1>4. SeenIsWhole'
  <2> SUFFICES ASSUME NEW r \in {1, 2}, Seen(r)'
               PROVE  Whole(r)' \/ Excused(r)'
    BY DEF SeenIsWhole
  <2>1. Seen(r) /\ Whole(r)' = Whole(r)
    BY DEF Seen, Whole
  <2>2. cut >= r \/ pulls[p] >= r => cut' >= r
    BY <1>1
  <2>3. \A q \in Pullers : q # p => pulls'[q] = pulls[q]
    BY DEF IInv, TypeOK
  <2>4. QED
    BY <2>1, <2>2, <2>3 DEF IInv, SeenIsWhole, Excused
<1>5. ConfigSeen' /\ ScriptPulls' /\ PartialIsExplained' /\ NoneNewer'
  BY DEF IInv, TypeOK, ConfigSeen, ScriptPulls, PartialIsExplained, NoneNewer, Pullers
<1>6. QED
  BY <1>2, <1>3, <1>4, <1>5 DEF IInv

\* A pull begins with nothing looked at.
LEMMA BeginKeeps ==
  ASSUME IInv, NEW p \in Pullers, pulls[p] = 0, Begin(p, hub),
         UNCHANGED <<hub, disk, cut, server>>
  PROVE  TypeOK' /\ LookedAtIsThere' /\ SeenIsWhole' /\ NoneNewer' /\ pulls'[p] = hub
<1> USE DEF Begin
<1>1. pulls'[p] = hub /\ left'[p] = Needs(hub) /\ hub \in {1, 2}
  BY DEF IInv, TypeOK
<1>2. \A q \in Pullers : q # p => pulls'[q] = pulls[q] /\ left'[q] = left[q]
  BY DEF IInv, TypeOK
<1>3. TypeOK'
  BY <1>1 DEF IInv, TypeOK, Needs
<1>4. LookedAtIsThere'
  BY <1>1, <1>2 DEF IInv, LookedAtIsThere
<1>5. SeenIsWhole'
  <2> SUFFICES ASSUME NEW r \in {1, 2}, Seen(r)'
               PROVE  Whole(r)' \/ Excused(r)'
    BY DEF SeenIsWhole
  <2>1. Seen(r) /\ Whole(r)' = Whole(r)
    BY DEF Seen, Whole
  <2>2. \A q \in Pullers : pulls[q] >= r => q # p
    OBVIOUS
  <2>3. QED
    BY <1>2, <2>1, <2>2 DEF IInv, SeenIsWhole, Excused
<1>6. NoneNewer'
  BY <1>1, <1>2 DEF IInv, NoneNewer
<1>7. QED
  BY <1>1, <1>3, <1>4, <1>5, <1>6

\* A release, and a pull by hand.
LEMMA UserKeeps ==
  ASSUME IInv, Publish \/ PullByHand
  PROVE  IInv'
<1>1. CASE Publish
  <2> USE <1>1 DEF Publish, client, service
  <2>1. TypeOK' /\ LookedAtIsThere' /\ ConfigSeen' /\ ScriptPulls' /\ PartialIsExplained'
    BY DEF IInv, TypeOK, LookedAtIsThere, ConfigSeen, ScriptPulls, PartialIsExplained
  <2>2. SeenIsWhole'
    BY DEF IInv, SeenIsWhole, Seen, Whole, Excused
  <2>3. NoneNewer'
    BY DEF IInv, TypeOK, NoneNewer, Files
  <2>4. QED
    BY <2>1, <2>2, <2>3 DEF IInv
<1>2. CASE PullByHand
  <2> USE <1>2 DEF PullByHand, client, service
  <2>1. TypeOK' /\ LookedAtIsThere' /\ SeenIsWhole' /\ NoneNewer'
    BY BeginKeeps DEF Pullers
  <2>2. ConfigSeen' /\ ScriptPulls' /\ PartialIsExplained'
    BY DEF IInv, TypeOK, ConfigSeen, ScriptPulls, PartialIsExplained, Begin, Pullers
  <2>3. QED
    BY <2>1, <2>2 DEF IInv
<1>3. QED
  BY <1>1, <1>2

\* The script does not touch the directory; it goes on to compose when it has seen
\* config.json.  When it tests for the model it has no pull under way.
LEMMA ScriptKeeps ==
  ASSUME IInv, ScriptStep \/ StartScript \/ Interrupt
  PROVE  IInv'
<1>1. CASE TestForModel
  <2> USE <1>1 DEF TestForModel, service
  <2>1. CASE disk["config"] = 0
    <3>1. Begin("script", hub) /\ UNCHANGED <<hub, disk, cut, server>>
      BY <2>1
    <3>2. TypeOK' /\ LookedAtIsThere' /\ SeenIsWhole' /\ NoneNewer'
      <4>1. pulls["script"] = 0
        BY DEF IInv, ScriptPulls
      <4>2. QED
        BY <3>1, <4>1, BeginKeeps DEF Pullers
    <3>3. ConfigSeen' /\ ScriptPulls' /\ PartialIsExplained'
      BY <2>1 DEF IInv, ConfigSeen, ScriptPulls, PartialIsExplained
    <3>4. QED
      BY <3>2, <3>3 DEF IInv
  <2>2. CASE disk["config"] # 0
    <3>1. UNCHANGED model /\ UNCHANGED service /\ script' = "composing"
      BY <2>2 DEF model
    <3>2. TypeOK' /\ LookedAtIsThere' /\ ConfigSeen' /\ ScriptPulls' /\ NoneNewer'
          /\ PartialIsExplained'
      BY <2>2, <3>1 DEF model, IInv, TypeOK, LookedAtIsThere, ConfigSeen, ScriptPulls,
         NoneNewer, PartialIsExplained
    <3>3. SeenIsWhole'
      BY <3>1 DEF model, IInv, SeenIsWhole, Seen, Whole, Excused
    <3>4. QED
      BY <3>2, <3>3 DEF IInv
  <2>3. QED
    BY <2>1, <2>2
<1>2. CASE Compose \/ Poll \/ Report \/ StartScript \/ Interrupt
  <2>1. UNCHANGED <<hub, disk, pulls, left, cut, server>>
    BY <1>2 DEF Compose, Up, Poll, Report, StartScript, Interrupt, model, service
  <2>2. /\ script' # "composing" /\ script # "downloading"
        /\ container' = "loading" => container = "loading"
    BY <1>2 DEF Compose, Up, Poll, Report, StartScript, Interrupt, service, Ended
  <2>3. SeenIsWhole'
    BY <2>1 DEF IInv, SeenIsWhole, Seen, Whole, Excused
  <2>4. QED
    BY <2>1, <2>2, <2>3 DEF IInv, TypeOK, LookedAtIsThere, ConfigSeen, ScriptPulls,
       NoneNewer, PartialIsExplained
<1>3. QED
  BY <1>1, <1>2 DEF ScriptStep

\* The container reads what is in the directory: a server without some weights read
\* them while a pull of its revision was under way, or after one that was cut.
LEMMA ServiceKeeps ==
  ASSUME IInv, DaemonStep \/ Down \/ UpByHand \/ Crash \/ Freeze
  PROVE  IInv'
<1>1. UNCHANGED <<hub, disk, pulls, left, cut, script>>
  BY DEF DaemonStep, ReadConfig, ReadWeights, Restart, Down, UpByHand, Crash, Freeze,
         model, client
<1>2. LookedAtIsThere' /\ ScriptPulls' /\ NoneNewer'
  BY <1>1 DEF IInv, LookedAtIsThere, ScriptPulls, NoneNewer
\* It is enough to know what the process has read, and when.
<1>3. ASSUME server' \in [config : 0 .. 2, whole : BOOLEAN, disturbed : BOOLEAN],
             server'.config \in {0, disk["config"], server.config},
             container' = "loading" => server'.config # 0,
             ~ server'.whole => server'.disturbed
      PROVE  IInv'
  <2>1. TypeOK' /\ ConfigSeen' /\ PartialIsExplained'
    BY <1>1, <1>3 DEF IInv, TypeOK, ConfigSeen, PartialIsExplained
  <2>2. ASSUME NEW r \in {1, 2}, Seen(r)'
        PROVE  Whole(r)' \/ Excused(r)'
    <3>1. Seen(r)
      BY <1>1, <1>3, <2>2 DEF Seen
    <3>2. QED
      BY <1>1, <3>1 DEF IInv, SeenIsWhole, Whole, Excused
  <2>3. QED
    BY <1>2, <2>1, <2>2 DEF IInv, SeenIsWhole
<1>4. CASE ReadConfig
  <2>1. disk["config"] \in 0 .. 2
    BY DEF IInv, TypeOK, Files
  <2>2. CASE disk["config"] = 0
    BY <1>3, <1>4, <2>2 DEF ReadConfig, IInv, TypeOK, PartialIsExplained
  <2>3. CASE disk["config"] # 0
    <3>1. /\ server' \in [config : 0 .. 2, whole : BOOLEAN, disturbed : BOOLEAN]
          /\ server'.config = disk["config"] /\ server'.whole
      BY <1>4, <2>1, <2>3, NothingRead DEF ReadConfig
    <3>2. QED
      BY <1>3, <2>3, <3>1
  <2>4. QED
    BY <2>2, <2>3
<1>5. CASE ReadWeights
  <2>1. server.config \in {1, 2}
    BY <1>5 DEF ReadWeights, IInv, TypeOK, ConfigSeen
  <2>2. ~ Whole(server.config) => cut # 0 \/ Pulling
    <3>1. ~ Whole(server.config) => Excused(server.config)
      BY <2>1 DEF IInv, SeenIsWhole, Seen
    <3>2. Excused(server.config) => cut # 0 \/ Pulling
      BY <2>1 DEF Excused, Pulling, IInv, TypeOK
    <3>3. QED
      BY <3>1, <3>2
  <2>3. CASE container' = "serving"
    <3>1. server' = [config |-> server.config, whole |-> Whole(server.config),
                     disturbed |-> cut # 0 \/ Pulling]
      BY <1>5, <2>3 DEF ReadWeights
    <3>2. Whole(server.config) \in BOOLEAN /\ (cut # 0 \/ Pulling) \in BOOLEAN
      BY DEF Whole, Pulling
    <3>3. /\ server' \in [config : 0 .. 2, whole : BOOLEAN, disturbed : BOOLEAN]
          /\ server'.config = server.config
      BY <2>1, <3>1, <3>2
    <3>4. ~ server'.whole => server'.disturbed
      BY <2>2, <3>1
    <3>5. QED
      BY <1>3, <2>3, <3>3, <3>4
  <2>4. CASE container' = "exited" /\ server' = Nothing
    <3>1. /\ server' \in [config : 0 .. 2, whole : BOOLEAN, disturbed : BOOLEAN]
          /\ server'.config = 0 /\ server'.whole
      BY <2>4, NothingRead DEF Nothing
    <3>2. QED
      BY <1>3, <2>4, <3>1
  <2>5. QED
    BY <1>5, <2>3, <2>4 DEF ReadWeights
<1>6. CASE Restart \/ UpByHand \/ Freeze
  <2>1. UNCHANGED server /\ container' # "loading"
    BY <1>6 DEF Restart, UpByHand, Up, Freeze
  <2>2. QED
    BY <1>3, <2>1 DEF IInv, TypeOK, PartialIsExplained
<1>7. CASE Down \/ Crash
  <2>1. server' = Nothing /\ container' # "loading"
    BY <1>7 DEF Down, Crash
  <2>2. /\ server' \in [config : 0 .. 2, whole : BOOLEAN, disturbed : BOOLEAN]
        /\ server'.config = 0 /\ server'.whole
    BY <2>1, NothingRead DEF Nothing
  <2>3. QED
    BY <1>3, <2>1, <2>2
<1>8. QED
  BY <1>4, <1>5, <1>6, <1>7 DEF DaemonStep

LEMMA StepKeeps == IInv /\ [Next]_vars => IInv'
<1> SUFFICES ASSUME IInv, [Next]_vars PROVE IInv'
  OBVIOUS
<1>1. CASE UNCHANGED vars
  <2>1. UNCHANGED <<hub, disk, pulls, left, cut, script, container, server>>
    BY <1>1 DEF vars, model, client, service
  <2>2. SeenIsWhole'
    BY <2>1 DEF IInv, SeenIsWhole, Seen, Whole, Excused
  <2>3. QED
    BY <2>1, <2>2 DEF IInv, TypeOK, LookedAtIsThere, ConfigSeen, ScriptPulls, NoneNewer,
       PartialIsExplained
<1>2. CASE \E p \in Pullers : PullStep(p)
  <2>1. PICK p \in Pullers : PullStep(p)
    BY <1>2
  <2>2. CASE PullEnds(p)
    BY <2>2, PullEndsKeeps
  <2>3. CASE PullIsCut(p)
    BY <2>3, PullIsCutKeeps
  <2>4. CASE \E f \in Files : PullFile(p, f)
    BY <2>4, PullFileKeeps
  <2>5. QED
    BY <2>1, <2>2, <2>3, <2>4 DEF PullStep
<1>3. CASE Publish \/ PullByHand
  BY <1>3, UserKeeps
<1>4. CASE ScriptStep \/ StartScript \/ Interrupt
  BY <1>4, ScriptKeeps
<1>5. CASE DaemonStep \/ Down \/ UpByHand \/ Crash \/ Freeze
  BY <1>5, ServiceKeeps
<1>6. QED
  BY <1>1, <1>2, <1>3, <1>4, <1>5 DEF Next

\* The invariant of the deployment holds in every reachable state.
THEOREM InvariantHolds == Spec => []IInv
BY InitIsGood, StepKeeps, PTL DEF Spec

\* The script starts the service with a whole model, unless a pull was cut and not
\* made up for, or one is under way.
THEOREM StartsWithWholeHolds == Spec => []StartsWithWhole
<1>1. IInv => StartsWithWhole
  <2> SUFFICES ASSUME IInv, script = "composing", cut = 0, ~ Pulling
               PROVE  Whole(disk["config"])
    BY DEF StartsWithWhole
  <2>1. disk["config"] \in {1, 2}
    BY DEF IInv, TypeOK, ConfigSeen, Files
  <2>2. ~ Excused(disk["config"])
    BY <2>1 DEF Excused, Pulling, IInv, TypeOK
  <2>3. QED
    BY <2>1, <2>2 DEF IInv, SeenIsWhole, Seen
<1>2. QED
  BY InvariantHolds, <1>1, PTL

\* Only a pull, under way or cut and not made up for, explains a server without all
\* its weights.
THEOREM PartialIsExplainedHolds == Spec => []PartialIsExplained
<1>1. IInv => PartialIsExplained
  BY DEF IInv
<1>2. QED
  BY InvariantHolds, <1>1, PTL

-----------------------------------------------------------------------------

\* No step undoes the upgrade once the last pull of revision 1 is over.
LEMMA UpgradedStays == IInv /\ Upgraded /\ [Next]_vars => Upgraded'
<1> SUFFICES ASSUME IInv, Upgraded, [Next]_vars PROVE Upgraded'
  OBVIOUS
<1>1. hub = 2
  BY DEF IInv, TypeOK, NoneNewer, Upgraded
<1>2. CASE UNCHANGED vars
  BY <1>2 DEF vars, model, service, Upgraded
<1>3. CASE \E p \in Pullers : PullStep(p)
  <2>1. PICK p \in Pullers : PullStep(p)
    BY <1>3
  <2>2. UNCHANGED <<container, server>> /\ pulls' \in {pulls, [pulls EXCEPT ![p] = 0]}
    BY <2>1 DEF PullStep, PullEnds, PullIsCut, Leave, PullFile, service
  <2>3. disk'["config"] = 2
    <3>1. CASE PullEnds(p) \/ PullIsCut(p)
      BY <3>1 DEF PullEnds, PullIsCut, Leave, Upgraded
    <3>2. CASE \E f \in Files : PullFile(p, f)
      <4>1. PICK f \in Files : PullFile(p, f)
        BY <3>2
      <4>2. pulls[p] = 2
        BY <4>1 DEF PullFile, IInv, TypeOK, Upgraded
      <4>3. QED
        BY <4>1, <4>2 DEF PullFile, IInv, TypeOK, Content, Files, Upgraded
    <3>3. QED
      BY <2>1, <3>1, <3>2 DEF PullStep
  <2>4. QED
    BY <2>2, <2>3 DEF IInv, TypeOK, Upgraded
<1>4. CASE Publish \/ PullByHand \/ ScriptStep \/ StartScript \/ Interrupt
  <2>1. /\ UNCHANGED <<disk, server>> /\ (container' = container \/ container' = "created")
        /\ \/ pulls' = pulls
           \/ \E p \in Pullers : pulls' = [pulls EXCEPT ![p] = hub]
    BY <1>4 DEF Publish, PullByHand, ScriptStep, TestForModel, Begin, Compose, Up, Poll,
       Report, StartScript, Interrupt, model, service, Pullers
  <2>2. QED
    BY <1>1, <2>1 DEF IInv, TypeOK, Upgraded
<1>5. CASE DaemonStep \/ Down \/ UpByHand \/ Crash \/ Freeze
  <2>1. UNCHANGED <<disk, pulls>>
    BY <1>5 DEF DaemonStep, ReadConfig, ReadWeights, Restart, Down, UpByHand, Crash, Freeze,
       model
  <2>2. CASE ReadConfig
    BY <2>1, <2>2 DEF ReadConfig, ReadOnly, Upgraded
  <2>3. CASE ReadWeights
    BY <2>1, <2>3 DEF ReadWeights, Upgraded
  <2>4. CASE Restart \/ Down \/ UpByHand \/ Crash
    BY <2>1, <2>4 DEF Restart, Down, UpByHand, Up, Crash, Upgraded
  <2>5. CASE Freeze
    BY <2>1, <2>5 DEF Freeze, Upgraded
  <2>6. QED
    BY <1>5, <2>2, <2>3, <2>4, <2>5 DEF DaemonStep
<1>6. QED
  BY <1>2, <1>3, <1>4, <1>5 DEF Next

\* Only a pull of revision 1 that was begun before the release and is still under way
\* brings revision 1 back once revision 2 is in the directory and served.
THEOREM NeverBackHolds == Spec => NeverBack
<1> DEFINE Reached == Serving(2) /\ disk["config"] = 2 /\ \A p \in Pullers : pulls[p] # 1
<1>1. Reached => Upgraded
  BY DEF Serving, Upgraded
<1>2. Upgraded => ~ Serving(1)
  BY DEF Serving, Upgraded
<1>3. QED
  BY InvariantHolds, UpgradedStays, <1>1, <1>2, PTL DEF Spec, NeverBack
=============================================================================
