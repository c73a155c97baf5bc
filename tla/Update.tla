-------------------------------- MODULE Update --------------------------------
(***************************************************************************)
(* Updating the executable (cmd/tsok/update.go).  A command checks for a new *)
(* release once in a period, installs it and starts over with it; tsok       *)
(* update always checks.  Runs share the stamp of the last check and the      *)
(* executable without a lock; each may fail or be killed at any step, and     *)
(* the machine may lose power.                                              *)
(*                                                                         *)
(* External: the network, which may deliver a damaged archive; the file      *)
(* system, which keeps a name and a file's data volatile until they are       *)
(* synced or written back; the releases, of which some may report a version   *)
(* that is not their tag.                                                   *)
(***************************************************************************)
EXTENDS Naturals

CONSTANTS
    Runs,          \* invocations of tsok
    MaxRelease,    \* releases are 1..MaxRelease, in the order of publication
    Period,        \* autoUpdatePeriod, in ticks of the clock
    MaxTime        \* the clock runs from 1 to MaxTime

ASSUME UpdateAssumption ==
    /\ MaxRelease \in Nat \ {0} /\ Period \in Nat \ {0} /\ MaxTime \in Nat \ {0}

Releases == 1..MaxRelease
NoRelease == 0
NoTime == 0
(* An executable's data: being written, written but not on disk, whole and on *)
(* disk, or not what was released.                                          *)
Data == {"part", "volatile", "whole", "bad"}

(* What a run knows: whether it is tsok update, the version it reports, the    *)
(* release it installs, whether its archive is what was released, the data of  *)
(* its replacement, the time to record, and (history) the time it last checked *)
(* unless another run has recorded a check since.                           *)
Jobs == [explicit : BOOLEAN, ver : 0..MaxRelease, tag : 0..MaxRelease, intact : BOOLEAN,
         data : Data, at : 0..MaxTime, checked : 0..MaxTime]
NoJob == [explicit |-> FALSE, ver |-> NoRelease, tag |-> NoRelease, intact |-> TRUE,
          data |-> "part", at |-> NoTime, checked |-> NoTime]

VARIABLES
    upc,           \* [Runs -> place in the command]
    job,           \* [Runs -> Jobs]
    exe, exeDisk,  \* [tag, data] the executable's name stands for, now and on disk
    stamp,         \* the time of the last check; NoTime when it cannot be read
    now, latest,   \* the clock; the latest release
    mislabelled    \* releases that report another version than their tag

outside == <<now, latest, mislabelled>>
updateVars == <<upc, job, exe, exeDisk, stamp, outside>>

UpdateTypeOK ==
    /\ upc \in [Runs -> {"new", "check", "record", "recording", "fetch", "verify", "extract",
                         "sync", "rename", "restart", "command", "over"}]
    /\ job \in [Runs -> Jobs]
    /\ {exe, exeDisk} \subseteq [tag : Releases, data : Data]
    /\ stamp \in 0..MaxTime /\ now \in 1..MaxTime
    /\ latest \in Releases /\ mislabelled \subseteq Releases
    /\ \A r \in Runs : upc[r] \in {"sync", "rename"} => job[r].data # "part" /\ job[r].intact

UpdateInit ==
    /\ upc = [r \in Runs |-> "new"] /\ job = [r \in Runs |-> NoJob]
    /\ exe = [tag |-> 1, data |-> "whole"] /\ exeDisk = exe
    /\ stamp \in {NoTime, 1} /\ now = 1
    /\ latest \in Releases /\ mislabelled \in {{}, {MaxRelease}}

Moves(r, from, to) == upc[r] = from /\ upc' = [upc EXCEPT ![r] = to]
(* The update is over, failed or not needed, and so is tsok update; any other  *)
(* command runs.                                                            *)
Leaves(r, from) ==
    /\ Moves(r, from, IF job[r].explicit THEN "over" ELSE "command")
    /\ job' = [job EXCEPT ![r] = NoJob]

-----------------------------------------------------------------------------
(* autoUpdateMiddleware, runAutoUpdate *)

(* The executable's name is run: by a user, or by restartCurrentExecutable.  *)
(* TSOK_NO_AUTO_UPDATE may be set.                                          *)
Begin(r) ==
    LET version == IF exe.tag \in mislabelled THEN NoRelease ELSE exe.tag
    IN  /\ exe.data \in {"volatile", "whole"}
        /\ \/ /\ Moves(r, "new", "check") \/ Moves(r, "restart", "check")
              /\ job' = [job EXCEPT ![r].ver = version]
           \/ Moves(r, "new", "command") /\ UNCHANGED job
           \/ /\ Moves(r, "new", "fetch")
              /\ job' = [job EXCEPT ![r].ver = version, ![r].explicit = TRUE]
    /\ UNCHANGED <<exe, exeDisk, stamp, outside>>

(* autoUpdateDue: a stamp that cannot be read is due. *)
Due == stamp = NoTime \/ now >= stamp + Period

CheckDue(r) ==
    /\ IF Due THEN /\ Moves(r, "check", "record")
                   /\ job' = [job EXCEPT ![r].at = now, ![r].checked = now]
              ELSE Leaves(r, "check")
    /\ UNCHANGED <<exe, exeDisk, stamp, outside>>

(* recordAutoUpdateCheck truncates the stamp and then writes it; a failure   *)
(* means no update.                                                         *)
Recorded(r, time) ==
    /\ stamp' = time
    /\ job' = [q \in Runs |-> IF q = r THEN job[q] ELSE [job[q] EXCEPT !.checked = NoTime]]

Truncate(r) ==
    /\ \/ Moves(r, "record", "recording") /\ Recorded(r, NoTime)
       \/ Leaves(r, "record") /\ UNCHANGED stamp
    /\ UNCHANGED <<exe, exeDisk, outside>>

RecordNothing(r) ==    \* mutant: the stamp stays as it was truncated
    /\ Moves(r, "recording", "fetch")
    /\ UNCHANGED <<job, exe, exeDisk, stamp, outside>>

Record(r) ==
    /\ \/ Moves(r, "recording", "fetch") /\ Recorded(r, job[r].at)
       \/ Leaves(r, "recording") /\ UNCHANGED stamp
    /\ UNCHANGED <<exe, exeDisk, outside>>

-----------------------------------------------------------------------------
(* updateExecutable *)

(* fetchRelease and the downloads.  Nothing to do when the version is equal. *)
Fetch(r) ==
    /\ IF job[r].ver = latest
          THEN Leaves(r, "fetch")
          ELSE /\ Moves(r, "fetch", "verify")
               /\ \E good \in BOOLEAN :
                     job' = [job EXCEPT ![r].tag = latest, ![r].intact = good]
    /\ UNCHANGED <<exe, exeDisk, stamp, outside>>

VerifyNothing(r) ==    \* mutant: the archive is not compared with its checksum
    /\ Moves(r, "verify", "extract")
    /\ UNCHANGED <<job, exe, exeDisk, stamp, outside>>

Verify(r) ==
    /\ job[r].intact
    /\ Moves(r, "verify", "extract")
    /\ UNCHANGED <<job, exe, exeDisk, stamp, outside>>

Extract(r) ==
    /\ Moves(r, "extract", "sync")
    /\ job' = [job EXCEPT ![r].data = IF job[r].intact THEN "volatile" ELSE "bad"]
    /\ UNCHANGED <<exe, exeDisk, stamp, outside>>

SyncNothing(r) ==      \* mutant: renamed before it is on disk
    /\ Moves(r, "sync", "rename")
    /\ UNCHANGED <<job, exe, exeDisk, stamp, outside>>

SyncReplacement(r) ==
    /\ Moves(r, "sync", "rename")
    /\ job' = [job EXCEPT ![r].data = IF @ = "volatile" THEN "whole" ELSE @]
    /\ UNCHANGED <<exe, exeDisk, stamp, outside>>

Replace(r) ==
    /\ exe' = [tag |-> job[r].tag, data |-> job[r].data]
    /\ IF job[r].explicit
          THEN Leaves(r, "rename")
          ELSE /\ Moves(r, "rename", "restart")
               /\ job' = [job EXCEPT ![r] = [NoJob EXCEPT !.checked = job[r].checked]]
    /\ UNCHANGED <<exeDisk, stamp, outside>>

(* Any step may fail, by the network, a missing asset, the timeout of an       *)
(* automatic update; temporary files are removed.                           *)
UpdateFails(r) ==
    /\ \E place \in {"fetch", "verify", "extract", "sync", "rename"} : Leaves(r, place)
    /\ UNCHANGED <<exe, exeDisk, stamp, outside>>

(* The process is killed before its handler runs, or cannot start over. *)
Killed(r) ==
    /\ upc[r] \notin {"new", "command", "over"}
    /\ upc' = [upc EXCEPT ![r] = "over"] /\ job' = [job EXCEPT ![r] = NoJob]
    /\ UNCHANGED <<exe, exeDisk, stamp, outside>>

Invocation(r) ==
    \/ Begin(r) \/ CheckDue(r) \/ Truncate(r) \/ Record(r) \/ Fetch(r) \/ Verify(r)
    \/ Extract(r) \/ SyncReplacement(r) \/ Replace(r) \/ UpdateFails(r) \/ Killed(r)

-----------------------------------------------------------------------------
(* External. *)

Publish ==
    /\ latest < MaxRelease /\ latest' = latest + 1
    /\ UNCHANGED <<upc, job, exe, exeDisk, stamp, now, mislabelled>>

TimePasses ==
    /\ now < MaxTime /\ now' = now + 1
    /\ UNCHANGED <<upc, job, exe, exeDisk, stamp, latest, mislabelled>>

ExeWrittenBack ==
    /\ exeDisk # exe /\ exeDisk' = exe
    /\ UNCHANGED <<upc, job, exe, stamp, outside>>

(* The stamp, never synced, may be lost; so may an executable's data. *)
UpdatePowerFails ==
    /\ \E d \in IF exeDisk.data = "volatile" THEN {"volatile", "bad"} ELSE {exeDisk.data} :
          exe' = [exeDisk EXCEPT !.data = d]
    /\ exeDisk' = exe'
    /\ stamp' \in {stamp, NoTime}
    /\ upc' = [r \in Runs |-> IF upc[r] = "new" THEN "new" ELSE "over"]
    /\ job' = [r \in Runs |-> NoJob]
    /\ UNCHANGED outside

UpdateNext ==
    \/ \E r \in Runs : Invocation(r)
    \/ Publish \/ TimePasses \/ ExeWrittenBack \/ UpdatePowerFails

UpdateSpec == UpdateInit /\ [][UpdateNext]_updateVars

-----------------------------------------------------------------------------
(* What the executable's name stands for is a whole published release at      *)
(* every moment, on disk as well: whoever is killed, whatever the network      *)
(* delivers, and when the power fails (updateExecutable verifies before it    *)
(* extracts and syncs before it renames).                                   *)
ExecutableWhole ==
    \A e \in {exe, exeDisk} : e.data = "whole" /\ e.tag <= latest

(* A command that starts over after an update does not check again within     *)
(* the period, even when the release it installed reports another version:    *)
(* no restart loop, unless other runs overwrite its stamp (runAutoUpdate       *)
(* records the check before it updates).                                    *)
NoRestartLoop ==
    [][\A r \in Runs : upc[r] = "check" /\ upc'[r] = "record" =>
           job[r].checked = NoTime \/ now >= job[r].checked + Period]_updateVars
=============================================================================
