------------------------------- MODULE Persist -------------------------------
(***************************************************************************)
(* The persistent identity of tsok serve (cmd/tsok/persist.go and its use   *)
(* in cmd/tsok/serve.go).  Several runs of tsok serve share one state file  *)
(* without a lock; each may fail or be killed at any step, and the machine  *)
(* may lose power.                                                          *)
(*                                                                         *)
(* The file system is external: an entry of a directory and the contents of *)
(* a file are volatile until they are synced or written back, and a power   *)
(* loss leaves what was durable.  Run p's temporary file is named p, like   *)
(* the fresh identity p writes to it; leftover temporary files are left     *)
(* out, and so is who may read the file.                                    *)
(***************************************************************************)
CONSTANTS
    Starters,      \* runs of tsok serve
    Old,           \* the identity an earlier run has left
    None           \* not an identity

ASSUME PersistAssumption == Old \notin Starters /\ None \notin Starters \cup {Old}

Identities == Starters \cup {Old}

VARIABLES
    ppc,           \* [Starters -> place in the handler of tsok serve]
    rotate,        \* runs given --rotate-auth-key
    id,            \* [Starters -> the identity found or generated, or None]
    entry,         \* the file the state path names, or None
    diskEntry,     \* the same on disk
    content,       \* [Identities -> "none", "empty", "full" or "bad"]
    synced,        \* files whose contents are on disk
    printed,       \* history: identities the runs that stored them have printed
    replaced       \* history: identities a rotation has replaced

fileVars == <<entry, diskEntry, content, synced>>
history == <<printed, replaced>>
persistVars == <<ppc, rotate, id, fileVars, history>>

Places == {"idle", "lstat", "open", "read", "create", "write", "sync", "publish", "remove",
           "syncdir", "serving", "ended"}

(* Types; a run past the check for a missing file has an identity. *)
PersistTypeOK ==
    /\ ppc \in [Starters -> Places]
    /\ rotate \subseteq Starters
    /\ id \in [Starters -> Identities \cup {None}]
    /\ entry \in Identities \cup {None} /\ diskEntry \in Identities \cup {None}
    /\ content \in [Identities -> {"none", "empty", "full", "bad"}]
    /\ synced \subseteq Identities
    /\ printed \subseteq Starters /\ replaced \subseteq Identities
    /\ \A p \in Starters : ppc[p] \in {"open", "read", "serving"} => id[p] # None

(* The path names nothing or what an earlier run, or somebody else, left. *)
PersistInit ==
    /\ ppc = [p \in Starters |-> "idle"]
    /\ rotate = {}
    /\ id = [p \in Starters |-> None]
    /\ entry \in {Old, None} /\ diskEntry = entry
    /\ \E left \in {"full", "bad"} :
          content = [i \in Identities |-> IF i = Old THEN left ELSE "none"]
    /\ synced = {Old}
    /\ printed = {} /\ replaced = {}

Goes(p, from, to) == ppc[p] = from /\ ppc' = [ppc EXCEPT ![p] = to]

-----------------------------------------------------------------------------
(* tsok serve with a state file *)

Start(p) ==
    /\ \/ Goes(p, "idle", "lstat") /\ UNCHANGED rotate
       \/ Goes(p, "idle", "create") /\ rotate' = rotate \cup {p}
    /\ UNCHANGED <<id, fileVars, history>>

LstatOpens(p) ==    \* mutant: a missing file is not told from one there is
    /\ Goes(p, "lstat", "open")
    /\ id' = [id EXCEPT ![p] = entry]
    /\ UNCHANGED <<rotate, fileVars, history>>

(* loadPersistedAuthState: without a file the host starts with a fresh       *)
(* identity.                                                                *)
Lstat(p) ==
    /\ IF entry = None THEN Goes(p, "lstat", "create") ELSE Goes(p, "lstat", "open")
    /\ id' = [id EXCEPT ![p] = entry]
    /\ UNCHANGED <<rotate, fileVars, history>>

(* The file opened must be the one inspected. *)
Open(p) ==
    /\ IF entry = id[p] THEN Goes(p, "open", "read") ELSE Goes(p, "open", "ended")
    /\ UNCHANGED <<rotate, id, fileVars, history>>

(* An identity that does not decode ends the run. *)
Read(p) ==
    /\ ppc[p] = "read"
    /\ IF content[id[p]] = "full" THEN Goes(p, "read", "serving") ELSE Goes(p, "read", "ended")
    /\ UNCHANGED <<rotate, id, fileVars, history>>

(* savePersistedAuthState: a temporary file beside the state file, *)
CreateTemp(p) ==
    /\ Goes(p, "create", "write")
    /\ id' = [id EXCEPT ![p] = p]
    /\ content' = [content EXCEPT ![p] = "empty"]
    /\ UNCHANGED <<rotate, entry, diskEntry, synced, history>>

Write(p) ==
    /\ Goes(p, "write", "sync")
    /\ content' = [content EXCEPT ![p] = "full"]
    /\ UNCHANGED <<rotate, id, entry, diskEntry, synced, history>>

SyncLater(p) ==    \* mutant: the file is published before it is synced
    /\ Goes(p, "sync", "publish")
    /\ UNCHANGED <<rotate, id, fileVars, history>>

Sync(p) ==
    /\ Goes(p, "sync", "publish")
    /\ synced' = synced \cup {p}
    /\ UNCHANGED <<rotate, id, entry, diskEntry, content, history>>

(* renamed over the state file when replacing, *)
Rename(p) ==
    /\ p \in rotate
    /\ Goes(p, "publish", "syncdir")
    /\ entry' = p
    /\ replaced' = replaced \cup ({entry} \ {None})
    /\ UNCHANGED <<rotate, id, diskEntry, content, synced, printed>>

LinkOver(p) ==    \* mutant: an existing file is replaced
    /\ p \notin rotate
    /\ Goes(p, "publish", "remove") /\ entry' = p
    /\ UNCHANGED <<rotate, id, diskEntry, content, synced, history>>

LinkIgnoringExists(p) ==    \* mutant: a lost race to create it is not an error
    /\ p \notin rotate
    /\ Goes(p, "publish", "remove")
    /\ entry' = IF entry = None THEN p ELSE entry
    /\ UNCHANGED <<rotate, id, diskEntry, content, synced, history>>

(* and otherwise linked under its name, which fails when there is one, *)
Link(p) ==
    /\ p \notin rotate
    /\ IF entry = None THEN Goes(p, "publish", "remove") /\ entry' = p
                       ELSE Goes(p, "publish", "ended") /\ UNCHANGED entry
    /\ UNCHANGED <<rotate, id, diskEntry, content, synced, history>>

RemoveTemp(p) ==
    /\ Goes(p, "remove", "syncdir")
    /\ UNCHANGED <<rotate, id, fileVars, history>>

ServeUnsynced(p) ==    \* mutant: the directory is not synced
    /\ Goes(p, "syncdir", "serving")
    /\ printed' = printed \cup {p}
    /\ UNCHANGED <<rotate, id, fileVars, replaced>>

(* and the directory is synced; only then is the key printed. *)
SyncDir(p) ==
    /\ Goes(p, "syncdir", "serving")
    /\ diskEntry' = entry
    /\ printed' = printed \cup {p}
    /\ UNCHANGED <<rotate, id, entry, content, synced, replaced>>

(* The run fails at a step, is killed, or stops serving. *)
End(p) ==
    /\ ppc[p] \notin {"idle", "ended"}
    /\ ppc' = [ppc EXCEPT ![p] = "ended"]
    /\ UNCHANGED <<rotate, id, fileVars, history>>

Run(p) == \/ Start(p) \/ Lstat(p) \/ Open(p) \/ Read(p)
          \/ CreateTemp(p) \/ Write(p) \/ Sync(p) \/ Rename(p) \/ Link(p)
          \/ RemoveTemp(p) \/ SyncDir(p) \/ End(p)

-----------------------------------------------------------------------------
(* External: the file system. *)

WriteBack ==
    /\ diskEntry # entry
    /\ diskEntry' = entry
    /\ UNCHANGED <<ppc, rotate, id, entry, content, synced, history>>

(* Contents that were not synced may be lost. *)
PowerFails ==
    /\ entry' = diskEntry
    /\ \E lost \in SUBSET {i \in Identities \ synced : content[i] # "none"} :
          content' = [i \in Identities |-> IF i \in lost THEN "bad" ELSE content[i]]
    /\ ppc' = [p \in Starters |-> IF ppc[p] = "idle" THEN "idle" ELSE "ended"]
    /\ UNCHANGED <<rotate, id, diskEntry, synced, history>>

PersistNext == (\E p \in Starters : Run(p)) \/ WriteBack \/ PowerFails

PersistSpec == PersistInit /\ [][PersistNext]_persistVars

-----------------------------------------------------------------------------
(* A run's key is usable by name from the step that made it so. *)
Holds(p) ==
    IF ppc[p] \in {"read", "remove", "syncdir", "serving"} THEN id[p] ELSE None

(* The state file is one register that runs create, adopt and replace        *)
(* atomically, whatever steps of others come between theirs                  *)
(* (savePersistedAuthState, loadPersistedAuthState).                        *)
Store == INSTANCE IdentityStore WITH stored <- entry,
                                     holds <- [p \in Starters |-> Holds(p)]

StoreAtomically == Store!StoreSpec

(* Runs that serve at the same time serve the same identity, unless one was  *)
(* asked to replace it: neither a lost race to create it nor an invalid      *)
(* state file makes a run serve a key of its own (Link, decoding).           *)
OneIdentity ==
    replaced = {} => \A p, q \in Starters :
        ppc[p] = "serving" /\ ppc[q] = "serving" => id[p] = id[q]

(* A key printed by the run that stored it is what the state file holds ever *)
(* after, power losses included, unless a rotation has replaced it: it is    *)
(* whole and its name is on disk before it is printed (temporary.Sync,       *)
(* directory.Sync, and the order of saving and printing in serve).           *)
KeySurvives == \A i \in printed : (entry = i /\ content[i] = "full") \/ i \in replaced

(* What runs put under the state path is never half an identity, not even    *)
(* after a power loss.                                                      *)
NeverHalf == \A i \in {entry, diskEntry} \cap Starters : content[i] = "full"
=============================================================================
