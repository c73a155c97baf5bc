---------------------------- MODULE StartupProofs ----------------------------
(***************************************************************************)
(* Proofs about Startup: each run's middleware and handler behave as Update  *)
(* and Persist say, for any number of runs, releases and ticks, and so keep   *)
(* what is proved of the state file (PersistProofs) and of the executable.    *)
(***************************************************************************)
EXTENDS Startup, PersistProofs

(* The handler's steps are Persist's; the middleware leaves its state alone. *)
THEOREM HandlersPersist == StartupSpec => PersistSpec
<1>1. StartupInit => PersistInit
  BY DEF StartupInit
<1>2. [StartupNext]_startupVars => [PersistNext]_persistVars
  BY DEF StartupNext, startupVars, Handler, Middleware, PowerLost, PersistNext
<1> QED
  BY <1>1, <1>2, PTL DEF StartupSpec, PersistSpec

(* The middleware's steps are Update's; the handler leaves its state alone. *)
THEOREM MiddlewareUpdates == StartupSpec => UpdateSpec
<1>1. StartupInit => UpdateInit
  BY DEF StartupInit
<1>2. [StartupNext]_startupVars => [UpdateNext]_updateVars
  BY StartupAssumption DEF StartupAssumption, StartupNext, startupVars, Handler, Middleware,
     PowerLost, UpdateNext
<1> QED
  BY <1>1, <1>2, PTL DEF StartupSpec, UpdateSpec

-----------------------------------------------------------------------------
(* The executable. *)

(* A replacement is of a published release, has been verified before it is   *)
(* extracted, and is on disk before it is renamed.                           *)
Replacement(place, j) ==
    /\ place \in {"verify", "extract", "sync", "rename"} => j.tag \in Releases /\ j.tag <= latest
    /\ place \in {"extract", "sync", "rename"} => j.intact
    /\ place = "sync" => j.data = "volatile"
    /\ place = "rename" => j.data = "whole"

(* Unless another run has recorded a check since, the stamp is the time of   *)
(* the run's own check once it has recorded it, until it checks again.        *)
Stamped(place, j) ==
    /\ place = "new" => j.checked = NoTime
    /\ place \in {"record", "recording"} => j.checked \in {NoTime, j.at}
    /\ place \in {"fetch", "verify", "extract", "sync", "rename", "restart", "check"} =>
         j.checked \in {NoTime, stamp}

UpdateInv ==
    /\ UpdateTypeOK
    /\ ExecutableWhole
    /\ \A r \in Runs : Replacement(upc[r], job[r]) /\ Stamped(upc[r], job[r])

LEMMA UpdateInitial == UpdateInit => UpdateInv
<1> SUFFICES ASSUME UpdateInit PROVE UpdateInv
  OBVIOUS
<1> USE UpdateAssumption DEF UpdateAssumption, UpdateInit, Releases, NoTime
<1>1. NoJob \in Jobs
  BY DEF NoJob, Jobs, Data, NoRelease
<1>2. UpdateTypeOK
  BY <1>1 DEF UpdateTypeOK, Data
<1>3. ExecutableWhole
  BY DEF ExecutableWhole
<1>4. \A r \in Runs : Replacement(upc[r], job[r]) /\ Stamped(upc[r], job[r])
  BY DEF Replacement, Stamped, NoJob
<1> QED
  BY <1>2, <1>3, <1>4 DEF UpdateInv

(* A step of a run that changes its own place and job alone. *)
LEMMA OwnStep ==
  ASSUME UpdateInv, NEW r \in Runs,
         NEW place \in {"check", "record", "recording", "fetch", "verify", "extract", "sync",
                        "rename", "restart", "command", "over"},
         NEW j \in Jobs, Replacement(place, j), Stamped(place, j),
         upc' = [upc EXCEPT ![r] = place], job' = [job EXCEPT ![r] = j],
         UNCHANGED <<exe, exeDisk, stamp, outside>>
  PROVE  UpdateInv'
<1> USE DEF UpdateInv, outside
<1>1. \A q \in Runs : \/ q = r /\ upc'[q] = place /\ job'[q] = j
                      \/ q # r /\ upc'[q] = upc[q] /\ job'[q] = job[q]
  BY DEF UpdateTypeOK
<1>2. \A q \in Runs : Replacement(upc[q], job[q])' /\ Stamped(upc[q], job[q])'
  BY <1>1 DEF Replacement, Stamped
<1>3. UpdateTypeOK'
  BY <1>1 DEF UpdateTypeOK, Replacement
<1> QED
  BY <1>2, <1>3 DEF ExecutableWhole

LEMMA NoJobType == NoJob \in Jobs
  BY UpdateAssumption DEF UpdateAssumption, NoJob, Jobs, Data, NoRelease, NoTime

(* A run leaves the update, whatever it was doing.                           *)
LEMMA LeaveStep ==
  ASSUME UpdateInv, NEW r \in Runs, NEW place, Leaves(r, place),
         UNCHANGED <<exe, exeDisk, stamp, outside>>
  PROVE  UpdateInv'
  BY OwnStep, NoJobType DEF Leaves, Moves, Replacement, Stamped

(* A run that writes the stamp takes the others' checks off it.              *)
LEMMA RecordStep ==
  ASSUME UpdateInv, NEW r \in Runs, NEW place \in {"recording", "fetch"},
         NEW time \in 0..MaxTime, Recorded(r, time),
         upc[r] \in {"record", "recording"}, upc' = [upc EXCEPT ![r] = place],
         place = "fetch" => time = job[r].at,
         UNCHANGED <<exe, exeDisk, outside>>
  PROVE  UpdateInv'
<1> USE DEF UpdateInv, outside
<1>1. /\ upc'[r] = place /\ job'[r] = job[r]
      /\ \A q \in Runs \ {r} : upc'[q] = upc[q] /\ job'[q] = [job[q] EXCEPT !.checked = NoTime]
  BY DEF UpdateTypeOK, Recorded
<1>2. \A q \in Runs \ {r} :
        /\ job'[q] \in Jobs /\ job'[q].tag = job[q].tag /\ job'[q].intact = job[q].intact
        /\ job'[q].data = job[q].data /\ job'[q].checked = NoTime
  <2> SUFFICES ASSUME NEW q \in Runs \ {r}
               PROVE  /\ job'[q] \in Jobs /\ job'[q].tag = job[q].tag /\ job'[q].intact = job[q].intact
                      /\ job'[q].data = job[q].data /\ job'[q].checked = NoTime
    OBVIOUS
  <2>1. job[q] \in Jobs /\ NoTime \in 0..MaxTime
    BY UpdateAssumption DEF UpdateAssumption, UpdateTypeOK, NoTime
  <2> QED
    BY <1>1, <2>1 DEF Jobs
<1>3. Replacement(upc[r], job[r])' /\ Stamped(upc[r], job[r])'
  BY <1>1 DEF Replacement, Stamped, Recorded
<1>4. \A q \in Runs \ {r} : Replacement(upc[q], job[q])' /\ Stamped(upc[q], job[q])'
  BY <1>1, <1>2 DEF Replacement, Stamped
<1>5. job' \in [Runs -> Jobs] /\ upc' \in [Runs -> {"new", "check", "record", "recording", "fetch",
          "verify", "extract", "sync", "rename", "restart", "command", "over"}]
  <2>1. job' = [q \in Runs |-> job'[q]]
    BY DEF Recorded
  <2>2. \A q \in Runs : job'[q] \in Jobs
    BY <1>1, <1>2 DEF UpdateTypeOK
  <2>3. job' \in [Runs -> Jobs]
    BY <2>1, <2>2
  <2> QED
    BY <2>3 DEF UpdateTypeOK
<1>6. UpdateTypeOK'
  <2>1. stamp' \in 0..MaxTime /\ UNCHANGED <<exe, exeDisk, now, latest, mislabelled>>
    BY DEF Recorded
  <2>2. \A q \in Runs : upc'[q] \in {"sync", "rename"} => job'[q].data # "part" /\ job'[q].intact
    BY <1>1, <1>2 DEF UpdateTypeOK
  <2> QED
    BY <1>5, <2>1, <2>2 DEF UpdateTypeOK
<1> QED
  BY <1>3, <1>4, <1>6 DEF ExecutableWhole

(* A step of one run.  *)
LEMMA InvocationStep ==
  ASSUME UpdateInv, NEW r \in Runs, Invocation(r)
  PROVE  UpdateInv'
<1> USE DEF Moves
<1>0. job[r] \in Jobs /\ job \in [Runs -> Jobs] /\ Replacement(upc[r], job[r]) /\ Stamped(upc[r], job[r])
  BY DEF UpdateInv, UpdateTypeOK
<1>1. CASE Begin(r)
  <2> DEFINE version == IF exe.tag \in mislabelled THEN NoRelease ELSE exe.tag
  <2>1. version \in 0..MaxRelease
    BY UpdateAssumption DEF UpdateAssumption, UpdateInv, UpdateTypeOK, Releases, NoRelease
  <2> HIDE DEF version
  <2>2. CASE upc[r] \in {"new", "restart"} /\ upc' = [upc EXCEPT ![r] = "check"]
             /\ job' = [job EXCEPT ![r] = [job[r] EXCEPT !.ver = version]]
    <3> DEFINE j == [job[r] EXCEPT !.ver = version]
    <3>1. j \in Jobs /\ Replacement("check", j) /\ Stamped("check", j)
      BY <1>0, <2>1, <2>2 DEF Jobs, Replacement, Stamped
    <3> QED
      BY <1>1, <2>2, <3>1, OwnStep DEF Begin
  <2>3. CASE upc[r] = "new" /\ upc' = [upc EXCEPT ![r] = "command"] /\ UNCHANGED job
    <3>1. job' = [job EXCEPT ![r] = job[r]]
      BY <1>0, <2>3
    <3>2. Replacement("command", job[r]) /\ Stamped("command", job[r])
      BY DEF Replacement, Stamped
    <3> QED
      BY <1>0, <1>1, <2>3, <3>1, <3>2, OwnStep DEF Begin
  <2>4. CASE upc[r] = "new" /\ upc' = [upc EXCEPT ![r] = "fetch"]
             /\ job' = [job EXCEPT ![r] = [job[r] EXCEPT !.ver = version, !.explicit = TRUE]]
    <3> DEFINE j == [job[r] EXCEPT !.ver = version, !.explicit = TRUE]
    <3>1. j \in Jobs /\ Replacement("fetch", j) /\ Stamped("fetch", j)
      BY <1>0, <2>1, <2>4 DEF Jobs, Replacement, Stamped
    <3> QED
      BY <1>1, <2>4, <3>1, OwnStep DEF Begin
  <2> QED
    BY <1>0, <1>1, <2>2, <2>3, <2>4 DEF Begin, version
<1>2. CASE CheckDue(r)
  <2>1. CASE Due
    <3> DEFINE j == [job[r] EXCEPT !.at = now, !.checked = now]
    <3>1. upc' = [upc EXCEPT ![r] = "record"] /\ job' = [job EXCEPT ![r] = j]
      BY <1>0, <1>2, <2>1 DEF CheckDue
    <3>2. j \in Jobs /\ Replacement("record", j) /\ Stamped("record", j)
      <4>1. now \in 0..MaxTime
        BY UpdateAssumption DEF UpdateAssumption, UpdateInv, UpdateTypeOK
      <4>2. j \in Jobs /\ j.at = now /\ j.checked = now
        BY <1>0, <4>1 DEF Jobs
      <4> QED
        BY <4>2 DEF Replacement, Stamped
    <3> QED
      BY <1>2, <3>1, <3>2, OwnStep DEF CheckDue
  <2>2. CASE ~Due
    BY <1>2, <2>2, LeaveStep DEF CheckDue
  <2> QED
    BY <2>1, <2>2
<1>3. CASE Truncate(r)
  <2>1. CASE Moves(r, "record", "recording") /\ Recorded(r, NoTime)
    <3>1. NoTime \in 0..MaxTime
      BY UpdateAssumption DEF UpdateAssumption, NoTime
    <3>2. UNCHANGED <<exe, exeDisk, outside>>
      BY <1>3 DEF Truncate
    <3> QED
      BY <2>1, <3>1, <3>2, RecordStep
  <2>2. CASE Leaves(r, "record") /\ UNCHANGED stamp
    BY <1>3, <2>2, LeaveStep DEF Truncate
  <2> QED
    BY <1>3, <2>1, <2>2 DEF Truncate
<1>4. CASE Record(r)
  <2>1. CASE Moves(r, "recording", "fetch") /\ Recorded(r, job[r].at)
    <3>1. job[r].at \in 0..MaxTime
      BY <1>0 DEF Jobs
    <3> QED
      BY <1>4, <2>1, <3>1, RecordStep DEF Record
  <2>2. CASE Leaves(r, "recording") /\ UNCHANGED stamp
    BY <1>4, <2>2, LeaveStep DEF Record
  <2> QED
    BY <1>4, <2>1, <2>2 DEF Record
<1>5. CASE Fetch(r)
  <2>1. ASSUME NEW good \in BOOLEAN, Moves(r, "fetch", "verify"),
               job' = [job EXCEPT ![r].tag = latest, ![r].intact = good]
        PROVE  UpdateInv'
    <3> DEFINE j == [job[r] EXCEPT !.tag = latest, !.intact = good]
    <3>1. upc' = [upc EXCEPT ![r] = "verify"] /\ job' = [job EXCEPT ![r] = j]
      BY <1>0, <2>1
    <3>2. j \in Jobs /\ Replacement("verify", j) /\ Stamped("verify", j)
      <4>1. latest \in Releases /\ latest \in 0..MaxRelease /\ latest <= latest
        BY UpdateAssumption DEF UpdateAssumption, UpdateInv, UpdateTypeOK, Releases
      <4>2. j \in Jobs
        BY <1>0, <4>1 DEF Jobs
      <4>3. j.tag = latest /\ j.checked = job[r].checked
        BY <1>0 DEF Jobs
      <4> QED
        BY <1>0, <2>1, <4>1, <4>2, <4>3 DEF Replacement, Stamped
    <3> QED
      BY <1>5, <3>1, <3>2, OwnStep DEF Fetch
  <2>2. CASE Leaves(r, "fetch")
    BY <1>5, <2>2, LeaveStep DEF Fetch
  <2> QED
    BY <1>5, <2>1, <2>2 DEF Fetch
<1>6. CASE Verify(r)
  <2>1. job' = [job EXCEPT ![r] = job[r]]
    BY <1>0, <1>6 DEF Verify
  <2>2. Replacement("extract", job[r]) /\ Stamped("extract", job[r])
    BY <1>0, <1>6 DEF Verify, Replacement, Stamped
  <2> QED
    BY <1>0, <1>6, <2>1, <2>2, OwnStep DEF Verify
<1>7. CASE Extract(r)
  <2> DEFINE j == [job[r] EXCEPT !.data = "volatile"]
  <2>1. /\ upc' = [upc EXCEPT ![r] = "sync"] /\ job' = [job EXCEPT ![r] = j]
        /\ UNCHANGED <<exe, exeDisk, stamp, outside>>
    BY <1>0, <1>7 DEF Extract, Replacement
  <2>2. j \in Jobs /\ Replacement("sync", j) /\ Stamped("sync", j)
    BY <1>0, <1>7 DEF Extract, Jobs, Data, Replacement, Stamped
  <2> QED
    BY <2>1, <2>2, OwnStep
<1>8. CASE SyncReplacement(r)
  <2> DEFINE j == [job[r] EXCEPT !.data = "whole"]
  <2>1. /\ upc' = [upc EXCEPT ![r] = "rename"] /\ job' = [job EXCEPT ![r] = j]
        /\ UNCHANGED <<exe, exeDisk, stamp, outside>>
    BY <1>0, <1>8 DEF SyncReplacement, Replacement
  <2>2. j \in Jobs /\ Replacement("rename", j) /\ Stamped("rename", j)
    BY <1>0, <1>8 DEF SyncReplacement, Jobs, Data, Replacement, Stamped
  <2> QED
    BY <2>1, <2>2, OwnStep
<1>9. CASE Replace(r)
  <2>1. exe' = [tag |-> job[r].tag, data |-> "whole"] /\ upc[r] = "rename"
        /\ UNCHANGED <<exeDisk, stamp, outside>>
    BY <1>0, <1>9 DEF Replace, Replacement, Leaves
  <2>2. exe' \in [tag : Releases, data : Data] /\ exe'.data = "whole" /\ exe'.tag <= latest
    BY <1>0, <2>1 DEF Replacement, Data
  <2>3. PICK place \in {"restart", "command", "over"}, j \in Jobs :
           /\ upc' = [upc EXCEPT ![r] = place] /\ job' = [job EXCEPT ![r] = j]
           /\ j.checked \in {NoTime, job[r].checked}
    <3>1. CASE job[r].explicit
      <4>1. NoJob.checked = NoTime
        BY DEF NoJob
      <4> QED
        BY <1>9, <3>1, <4>1, NoJobType DEF Replace, Leaves
    <3>2. CASE ~job[r].explicit
      <4> DEFINE j == [NoJob EXCEPT !.checked = job[r].checked]
      <4>1. j \in Jobs /\ j.checked = job[r].checked
        BY <1>0, NoJobType DEF Jobs
      <4> QED
        BY <1>9, <3>2, <4>1 DEF Replace
    <3> QED
      BY <3>1, <3>2
  <2>4. \A q \in Runs : \/ q = r /\ upc'[q] = place /\ job'[q] = j
                        \/ q # r /\ upc'[q] = upc[q] /\ job'[q] = job[q]
    BY <2>3 DEF UpdateInv, UpdateTypeOK
  <2>5. \A q \in Runs : Replacement(upc[q], job[q])' /\ Stamped(upc[q], job[q])'
    <3>1. Replacement(place, j) /\ Stamped(place, j)
      BY <1>0, <2>1, <2>3 DEF Replacement, Stamped
    <3> QED
      BY <2>1, <2>4, <3>1 DEF UpdateInv, Replacement, Stamped, outside
  <2>6. UpdateTypeOK'
    BY <2>1, <2>2, <2>3, <2>4 DEF UpdateInv, UpdateTypeOK, outside
  <2> QED
    BY <2>1, <2>2, <2>5, <2>6 DEF UpdateInv, ExecutableWhole, outside
<1>10. CASE UpdateFails(r)
  BY <1>10, LeaveStep DEF UpdateFails
<1>11. CASE Killed(r)
  BY <1>11, OwnStep, NoJobType DEF Killed, Replacement, Stamped
<1> QED
  BY <1>1, <1>2, <1>3, <1>4, <1>5, <1>6, <1>7, <1>8, <1>9, <1>10, <1>11 DEF Invocation

LEMMA UpdateStep == UpdateInv /\ [UpdateNext]_updateVars => UpdateInv'
<1> SUFFICES ASSUME UpdateInv, [UpdateNext]_updateVars PROVE UpdateInv'
  OBVIOUS
<1> USE UpdateAssumption DEF UpdateAssumption, UpdateInv, UpdateTypeOK, ExecutableWhole, outside
<1>1. CASE Publish \/ TimePasses
  <2>1. latest' \in Releases /\ latest <= latest' /\ now' \in 1..MaxTime
        /\ UNCHANGED <<upc, job, exe, exeDisk, stamp, mislabelled>>
    BY <1>1 DEF Publish, TimePasses, Releases
  <2>2. \A r \in Runs : Replacement(upc[r], job[r])' /\ Stamped(upc[r], job[r])'
    BY <2>1 DEF Replacement, Stamped, Releases
  <2> QED
    BY <2>1, <2>2 DEF Releases
<1>2. CASE ExeWrittenBack
  BY <1>2 DEF ExeWrittenBack, Replacement, Stamped
<1>3. CASE UpdatePowerFails
  <2>1. exe' = exeDisk /\ exeDisk' = exeDisk /\ stamp' \in 0..MaxTime /\ UNCHANGED outside
    BY <1>3 DEF UpdatePowerFails, NoTime
  <2>2. \A r \in Runs : job'[r] = NoJob /\ upc'[r] \in {"new", "over"}
    BY <1>3 DEF UpdatePowerFails
  <2>3. \A r \in Runs : Replacement(upc[r], job[r])' /\ Stamped(upc[r], job[r])'
    BY <2>2 DEF Replacement, Stamped, NoJob
  <2>4. upc' \in [Runs -> {"new", "over"}] /\ job' \in [Runs -> Jobs]
    BY <1>3, NoJobType DEF UpdatePowerFails
  <2> QED
    BY <2>1, <2>2, <2>3, <2>4
<1>4. CASE UNCHANGED updateVars
  BY <1>4 DEF updateVars, Replacement, Stamped
<1> QED
  BY <1>1, <1>2, <1>3, <1>4, InvocationStep DEF UpdateNext

LEMMA UpdateInvariant == UpdateSpec => []UpdateInv
  BY UpdateInitial, UpdateStep, PTL DEF UpdateSpec

(* Every reachable state is one of the code's variables, for any number of   *)
(* runs, releases and ticks; a replacement that is about to be renamed was    *)
(* written whole and verified.                                              *)
THEOREM UpdateTypes == StartupSpec => []UpdateTypeOK
<1>1. UpdateInv => UpdateTypeOK
  BY DEF UpdateInv
<1> QED
  BY <1>1, MiddlewareUpdates, UpdateInvariant, PTL

(* However many runs update at once, and whichever step of them fails, is     *)
(* killed or loses power, the executable's name stands for a whole published  *)
(* release (updateExecutable).                                              *)
THEOREM ExecutableStaysWhole == StartupSpec => []ExecutableWhole
<1>1. UpdateInv => ExecutableWhole
  BY DEF UpdateInv
<1> QED
  BY <1>1, MiddlewareUpdates, UpdateInvariant, PTL

(* A run finds a check due again only when its period has passed, or another  *)
(* run has overwritten its stamp (autoUpdateDue, recordAutoUpdateCheck).      *)
THEOREM NoLoop == StartupSpec => NoRestartLoop
<1>1. ASSUME UpdateInv, [UpdateNext]_updateVars, NEW r \in Runs,
             upc[r] = "check", upc'[r] = "record"
      PROVE  job[r].checked = NoTime \/ now >= job[r].checked + Period
  <2>1. job[r].checked \in {NoTime, stamp}
    BY <1>1 DEF UpdateInv, Stamped
  <2>2. CheckDue(r)
    <3>1. ASSUME NEW q \in Runs, Invocation(q), q # r PROVE FALSE
      <4>1. upc'[r] = upc[r]
        BY <1>1, <3>1 DEF Invocation, Begin, CheckDue, Truncate, Record, Fetch, Verify, Extract,
           SyncReplacement, Replace, UpdateFails, Killed, Moves, Leaves, UpdateInv, UpdateTypeOK
      <4> QED
        BY <1>1, <4>1
    <3>2. ASSUME Invocation(r), ~CheckDue(r) PROVE FALSE
      <4> USE DEF UpdateInv, UpdateTypeOK, Moves, Leaves
      <4>1. CASE Begin(r)
        BY <1>1, <4>1 DEF Begin
      <4>2. CASE Truncate(r) \/ Record(r) \/ Fetch(r) \/ Verify(r) \/ Extract(r)
        BY <1>1, <4>2 DEF Truncate, Record, Fetch, Verify, Extract
      <4>3. CASE SyncReplacement(r) \/ Replace(r) \/ UpdateFails(r) \/ Killed(r)
        BY <1>1, <4>3 DEF SyncReplacement, Replace, UpdateFails, Killed
      <4> QED
        BY <3>2, <4>1, <4>2, <4>3 DEF Invocation
    <3>3. CASE Publish \/ TimePasses \/ ExeWrittenBack \/ UpdatePowerFails \/ UNCHANGED updateVars
      BY <1>1, <3>3 DEF Publish, TimePasses, ExeWrittenBack, UpdatePowerFails, updateVars
    <3> QED
      BY <1>1, <3>1, <3>2, <3>3 DEF UpdateNext
  <2>3. Due
    BY <1>1, <2>2 DEF CheckDue, Leaves, Moves, UpdateInv, UpdateTypeOK
  <2> QED
    BY <2>1, <2>3 DEF Due
<1>2. UpdateInv /\ [UpdateNext]_updateVars =>
        [\A r \in Runs : upc[r] = "check" /\ upc'[r] = "record" =>
            job[r].checked = NoTime \/ now >= job[r].checked + Period]_updateVars
  BY <1>1
<1> QED
  BY <1>2, MiddlewareUpdates, UpdateInvariant, PTL DEF UpdateSpec, NoRestartLoop

-----------------------------------------------------------------------------
(* The state file, with the middleware before every handler. *)

(* Runs that pass the middleware first still agree on one identity, keep      *)
(* printed keys, never store half an identity, and implement the abstract     *)
(* store.                                                                   *)
THEOREM IdentityAfterUpdate ==
  StartupSpec => [](PersistTypeOK /\ OneIdentity /\ KeySurvives /\ NeverHalf) /\ StoreAtomically
  BY HandlersPersist, PersistTypes, SameIdentity, PrintedKeySurvives, StoredWhole, OneStepStore, PTL
=============================================================================
