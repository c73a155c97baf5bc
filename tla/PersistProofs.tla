---------------------------- MODULE PersistProofs ----------------------------
(***************************************************************************)
(* Proofs about the stored identity of Persist, for any number of starters. *)
(***************************************************************************)
EXTENDS Persist, TLAPS

Saving == {"write", "sync", "publish", "remove", "syncdir"}
Stored == {"remove", "syncdir", "serving", "ended"}

(* A run's own file is named by nothing before it is whole and on disk, and  *)
(* what was printed is on disk by name too.                                 *)
PersistInv ==
    /\ PersistTypeOK
    /\ \A p \in Starters : ppc[p] \in Saving => id[p] = p
    /\ \A p \in Starters : ppc[p] \in {"remove", "syncdir"} => entry = p \/ p \in replaced
    /\ \A p \in Starters : ppc[p] = "sync" => content[p] = "full"
    /\ \A p \in Starters :
          ppc[p] \in {"publish", "remove", "syncdir"} => content[p] = "full" /\ p \in synced
    /\ \A p \in Starters :
          p \in {entry, diskEntry} \cup printed =>
              ppc[p] \in Stored /\ content[p] = "full" /\ p \in synced
    /\ \A i \in printed : (entry = i /\ diskEntry = i) \/ i \in replaced

(* Until a rotation, what a run goes by is what the state file holds.        *)
HoldsStored ==
    replaced = {} => \A p \in Starters : Holds(p) # None => Holds(p) = entry

LEMMA PersistInitial == PersistInit => PersistInv /\ HoldsStored
<1> SUFFICES ASSUME PersistInit PROVE PersistInv /\ HoldsStored
  OBVIOUS
<1>1. PersistTypeOK
  BY PersistAssumption DEF PersistInit, PersistTypeOK, Identities, Places
<1> QED
  BY <1>1, PersistAssumption
  DEF PersistInit, PersistInv, HoldsStored, Holds, Saving, Stored

LEMMA PersistStep == PersistInv /\ [PersistNext]_persistVars => PersistInv'
<1> SUFFICES ASSUME PersistInv, [PersistNext]_persistVars PROVE PersistInv'
  OBVIOUS
<1> USE PersistAssumption
  DEF PersistInv, PersistTypeOK, Identities, Places, Goes, fileVars, history, Saving, Stored
<1>1. ASSUME NEW p \in Starters, Start(p) PROVE PersistInv'
  BY <1>1 DEF Start
<1>2. ASSUME NEW p \in Starters, Lstat(p) PROVE PersistInv'
  BY <1>2 DEF Lstat
<1>3. ASSUME NEW p \in Starters, Open(p) PROVE PersistInv'
  BY <1>3 DEF Open
<1>4. ASSUME NEW p \in Starters, Read(p) PROVE PersistInv'
  BY <1>4 DEF Read
<1>5. ASSUME NEW p \in Starters, CreateTemp(p) PROVE PersistInv'
  BY <1>5 DEF CreateTemp
<1>6. ASSUME NEW p \in Starters, Write(p) PROVE PersistInv'
  BY <1>6 DEF Write
<1>7. ASSUME NEW p \in Starters, Sync(p) PROVE PersistInv'
  BY <1>7 DEF Sync
<1>8. ASSUME NEW p \in Starters, Rename(p) PROVE PersistInv'
  BY <1>8 DEF Rename
<1>9. ASSUME NEW p \in Starters, Link(p) PROVE PersistInv'
  BY <1>9 DEF Link
<1>10. ASSUME NEW p \in Starters, RemoveTemp(p) PROVE PersistInv'
  BY <1>10 DEF RemoveTemp
<1>11. ASSUME NEW p \in Starters, SyncDir(p) PROVE PersistInv'
  BY <1>11 DEF SyncDir
<1>12. ASSUME NEW p \in Starters, End(p) PROVE PersistInv'
  BY <1>12 DEF End
<1>13. CASE WriteBack
  BY <1>13 DEF WriteBack
<1>14. CASE PowerFails
  BY <1>14 DEF PowerFails
<1>15. CASE UNCHANGED persistVars
  BY <1>15 DEF persistVars
<1> QED
  BY <1>1, <1>2, <1>3, <1>4, <1>5, <1>6, <1>7, <1>8, <1>9, <1>10, <1>11, <1>12,
     <1>13, <1>14, <1>15 DEF PersistNext, Run

(* Every reachable state is one the code's variables can be in, for any     *)
(* number of starters.                                                      *)
THEOREM PersistTypes == PersistSpec => []PersistTypeOK
<1>1. PersistInv => PersistTypeOK
  BY DEF PersistInv
<1> QED
  BY PersistInitial, PersistStep, <1>1, PTL DEF PersistSpec

LEMMA HoldsStoredStep ==
  PersistInv /\ HoldsStored /\ [PersistNext]_persistVars => HoldsStored'
<1> SUFFICES ASSUME PersistInv, HoldsStored, [PersistNext]_persistVars, replaced' = {},
                    NEW q \in Starters, Holds(q)' # None
             PROVE  Holds(q)' = entry'
  BY DEF HoldsStored
<1> USE PersistAssumption
  DEF PersistInv, PersistTypeOK, Identities, Places, Goes, fileVars, history, Saving, HoldsStored, Holds
<1>1. ASSUME NEW p \in Starters, Start(p) PROVE Holds(q)' = entry'
  BY <1>1 DEF Start
<1>2. ASSUME NEW p \in Starters, Lstat(p) PROVE Holds(q)' = entry'
  BY <1>2 DEF Lstat
<1>3. ASSUME NEW p \in Starters, Open(p) PROVE Holds(q)' = entry'
  BY <1>3 DEF Open
<1>4. ASSUME NEW p \in Starters, Read(p) PROVE Holds(q)' = entry'
  BY <1>4 DEF Read
<1>5. ASSUME NEW p \in Starters, CreateTemp(p) PROVE Holds(q)' = entry'
  BY <1>5 DEF CreateTemp
<1>6. ASSUME NEW p \in Starters, Write(p) PROVE Holds(q)' = entry'
  BY <1>6 DEF Write
<1>7. ASSUME NEW p \in Starters, Sync(p) PROVE Holds(q)' = entry'
  BY <1>7 DEF Sync
<1>8. ASSUME NEW p \in Starters, Rename(p) PROVE Holds(q)' = entry'
  BY <1>8 DEF Rename
<1>9. ASSUME NEW p \in Starters, Link(p) PROVE Holds(q)' = entry'
  BY <1>9 DEF Link
<1>10. ASSUME NEW p \in Starters, RemoveTemp(p) PROVE Holds(q)' = entry'
  BY <1>10 DEF RemoveTemp
<1>11. ASSUME NEW p \in Starters, SyncDir(p) PROVE Holds(q)' = entry'
  BY <1>11 DEF SyncDir
<1>12. ASSUME NEW p \in Starters, End(p) PROVE Holds(q)' = entry'
  BY <1>12 DEF End
<1>13. CASE WriteBack
  BY <1>13 DEF WriteBack
<1>14. CASE PowerFails
  BY <1>14 DEF PowerFails
<1>15. CASE UNCHANGED persistVars
  BY <1>15 DEF persistVars
<1> QED
  BY <1>1, <1>2, <1>3, <1>4, <1>5, <1>6, <1>7, <1>8, <1>9, <1>10, <1>11, <1>12,
     <1>13, <1>14, <1>15 DEF PersistNext, Run

(* Runs that serve at the same time serve the same identity, however many    *)
(* raced to create it, unless one was asked to replace it                    *)
(* (savePersistedAuthState).                                                *)
THEOREM SameIdentity == PersistSpec => []OneIdentity
<1>1. PersistInv /\ HoldsStored => OneIdentity
  BY DEF PersistInv, PersistTypeOK, HoldsStored, Holds, OneIdentity
<1> QED
  BY PersistInitial, PersistStep, HoldsStoredStep, <1>1, PTL DEF PersistSpec

(* A printed key stays the stored one through crashes, until it is replaced  *)
(* (directory.Sync before printing).                                        *)
THEOREM PrintedKeySurvives == PersistSpec => []KeySurvives
<1>1. PersistInv => KeySurvives
  BY DEF PersistInv, PersistTypeOK, KeySurvives
<1> QED
  BY PersistInitial, PersistStep, <1>1, PTL DEF PersistSpec

(* What a run stores is whole from the step that names it, power losses       *)
(* included (temporary.Sync before os.Link and os.Rename).                  *)
THEOREM StoredWhole == PersistSpec => []NeverHalf
<1>1. PersistInv => NeverHalf
  BY DEF PersistInv, PersistTypeOK, NeverHalf
<1> QED
  BY PersistInitial, PersistStep, <1>1, PTL DEF PersistSpec

(* What a run goes by after a step of its own; no other run's changes.       *)
LEMMA HeldOne ==
  ASSUME PersistTypeOK, NEW p \in Starters,
         \A q \in Starters \ {p} : ppc'[q] = ppc[q] /\ id'[q] = id[q]
  PROVE  [q \in Starters |-> Holds(q)]' = [[q \in Starters |-> Holds(q)] EXCEPT ![p] = Holds(p)']
  BY DEF Holds

LEMMA StoreInitial == PersistInit => Store!StoreInit
  BY DEF PersistInit, Store!StoreInit, Holds

(* Opening the file adopts the identity, the link creates it, the rename     *)
(* replaces it; every other step of a run changes nothing or ends its use.   *)
LEMMA StoreStep ==
  PersistInv /\ PersistInv' /\ [PersistNext]_persistVars => [Store!StoreNext]_Store!storeVars
<1> SUFFICES ASSUME PersistInv, PersistInv', [PersistNext]_persistVars
             PROVE  [Store!StoreNext]_Store!storeVars
  OBVIOUS
<1> USE PersistAssumption
  DEF PersistInv, PersistTypeOK, Identities, Goes, fileVars, history, Saving
<1>1. ASSUME NEW p \in Starters, Start(p) PROVE [Store!StoreNext]_Store!storeVars
  <2>1. [q \in Starters |-> Holds(q)]' = [[q \in Starters |-> Holds(q)] EXCEPT ![p] = Holds(p)']
    BY <1>1, HeldOne DEF Start
  <2>2. UNCHANGED Store!storeVars
    BY <2>1, <1>1 DEF Start, Holds, Store!storeVars
  <2> QED
    BY <2>2 DEF Store!StoreNext
<1>2. ASSUME NEW p \in Starters, Lstat(p) PROVE [Store!StoreNext]_Store!storeVars
  <2>1. [q \in Starters |-> Holds(q)]' = [[q \in Starters |-> Holds(q)] EXCEPT ![p] = Holds(p)']
    BY <1>2, HeldOne DEF Lstat
  <2>2. UNCHANGED Store!storeVars
    BY <2>1, <1>2 DEF Lstat, Holds, Store!storeVars
  <2> QED
    BY <2>2 DEF Store!StoreNext
<1>3. ASSUME NEW p \in Starters, Open(p) PROVE [Store!StoreNext]_Store!storeVars
  <2>1. [q \in Starters |-> Holds(q)]' = [[q \in Starters |-> Holds(q)] EXCEPT ![p] = Holds(p)']
    BY <1>3, HeldOne DEF Open
  <2>2. CASE entry = id[p]
    <3>1. Holds(p)' = entry /\ entry # None
      BY <2>2, <1>3 DEF Open, Holds
    <3>2. Store!AdoptIdentity(p)
      BY <2>1, <3>1, <1>3 DEF Open, Store!AdoptIdentity
    <3> QED
      BY <3>2 DEF Store!StoreNext
  <2>3. CASE entry # id[p]
    <3>1. Holds(p)' = None
      BY <2>3, <1>3 DEF Open, Holds
    <3>2. Store!Drop(p)
      BY <2>1, <3>1, <1>3 DEF Open, Store!Drop
    <3> QED
      BY <3>2 DEF Store!StoreNext
  <2> QED
    BY <2>2, <2>3
<1>4. ASSUME NEW p \in Starters, Read(p) PROVE [Store!StoreNext]_Store!storeVars
  <2>1. [q \in Starters |-> Holds(q)]' = [[q \in Starters |-> Holds(q)] EXCEPT ![p] = Holds(p)']
    BY <1>4, HeldOne DEF Read
  <2>2. CASE Holds(p)' = None
    <3>1. Store!Drop(p)
      BY <2>1, <2>2, <1>4 DEF Read, Store!Drop
    <3> QED
      BY <3>1 DEF Store!StoreNext
  <2>3. CASE Holds(p)' # None
    <3>1. Holds(p)' = Holds(p)
      BY <2>3, <1>4 DEF Read, Holds
    <3>2. UNCHANGED [q \in Starters |-> Holds(q)]
      BY <2>1, <3>1
    <3> QED
      BY <3>2, <1>4 DEF Read, Store!storeVars
  <2> QED
    BY <2>2, <2>3
<1>5. ASSUME NEW p \in Starters, CreateTemp(p) PROVE [Store!StoreNext]_Store!storeVars
  <2>1. [q \in Starters |-> Holds(q)]' = [[q \in Starters |-> Holds(q)] EXCEPT ![p] = Holds(p)']
    BY <1>5, HeldOne DEF CreateTemp
  <2>2. UNCHANGED Store!storeVars
    BY <2>1, <1>5 DEF CreateTemp, Holds, Store!storeVars
  <2> QED
    BY <2>2 DEF Store!StoreNext
<1>6. ASSUME NEW p \in Starters, Write(p) PROVE [Store!StoreNext]_Store!storeVars
  <2>1. [q \in Starters |-> Holds(q)]' = [[q \in Starters |-> Holds(q)] EXCEPT ![p] = Holds(p)']
    BY <1>6, HeldOne DEF Write
  <2>2. UNCHANGED Store!storeVars
    BY <2>1, <1>6 DEF Write, Holds, Store!storeVars
  <2> QED
    BY <2>2 DEF Store!StoreNext
<1>7. ASSUME NEW p \in Starters, Sync(p) PROVE [Store!StoreNext]_Store!storeVars
  <2>1. [q \in Starters |-> Holds(q)]' = [[q \in Starters |-> Holds(q)] EXCEPT ![p] = Holds(p)']
    BY <1>7, HeldOne DEF Sync
  <2>2. UNCHANGED Store!storeVars
    BY <2>1, <1>7 DEF Sync, Holds, Store!storeVars
  <2> QED
    BY <2>2 DEF Store!StoreNext
<1>8. ASSUME NEW p \in Starters, Rename(p) PROVE [Store!StoreNext]_Store!storeVars
  <2>1. [q \in Starters |-> Holds(q)]' = [[q \in Starters |-> Holds(q)] EXCEPT ![p] = Holds(p)']
    BY <1>8, HeldOne DEF Rename
  <2>2. Store!RotateIdentity(p)
    BY <2>1, <1>8 DEF Rename, Holds, Store!RotateIdentity
  <2> QED
    BY <2>2 DEF Store!StoreNext
<1>9. ASSUME NEW p \in Starters, Link(p) PROVE [Store!StoreNext]_Store!storeVars
  <2>1. [q \in Starters |-> Holds(q)]' = [[q \in Starters |-> Holds(q)] EXCEPT ![p] = Holds(p)']
    BY <1>9, HeldOne DEF Link
  <2>2. CASE entry = None
    <3>1. Holds(p)' = p /\ entry' = p
      BY <2>2, <1>9 DEF Link, Holds
    <3>2. Store!CreateIdentity(p)
      BY <2>1, <2>2, <3>1, <1>9 DEF Link, Store!CreateIdentity
    <3> QED
      BY <3>2 DEF Store!StoreNext
  <2>3. CASE entry # None
    <3>1. Holds(p)' = None /\ entry' = entry
      BY <2>3, <1>9 DEF Link, Holds
    <3>2. Store!Drop(p)
      BY <2>1, <3>1, <1>9 DEF Link, Store!Drop
    <3> QED
      BY <3>2 DEF Store!StoreNext
  <2> QED
    BY <2>2, <2>3
<1>10. ASSUME NEW p \in Starters, RemoveTemp(p) PROVE [Store!StoreNext]_Store!storeVars
  <2>1. [q \in Starters |-> Holds(q)]' = [[q \in Starters |-> Holds(q)] EXCEPT ![p] = Holds(p)']
    BY <1>10, HeldOne DEF RemoveTemp
  <2>2. UNCHANGED Store!storeVars
    BY <2>1, <1>10 DEF RemoveTemp, Holds, Store!storeVars
  <2> QED
    BY <2>2 DEF Store!StoreNext
<1>11. ASSUME NEW p \in Starters, SyncDir(p) PROVE [Store!StoreNext]_Store!storeVars
  <2>1. [q \in Starters |-> Holds(q)]' = [[q \in Starters |-> Holds(q)] EXCEPT ![p] = Holds(p)']
    BY <1>11, HeldOne DEF SyncDir
  <2>2. Store!PrintIdentity(p)
    BY <2>1, <1>11 DEF SyncDir, Holds, Store!PrintIdentity
  <2> QED
    BY <2>2 DEF Store!StoreNext
<1>12. ASSUME NEW p \in Starters, End(p) PROVE [Store!StoreNext]_Store!storeVars
  <2>1. [q \in Starters |-> Holds(q)]' = [[q \in Starters |-> Holds(q)] EXCEPT ![p] = Holds(p)']
    BY <1>12, HeldOne DEF End
  <2>2. Store!Drop(p)
    BY <2>1, <1>12 DEF End, Holds, Store!Drop
  <2> QED
    BY <2>2 DEF Store!StoreNext
<1>13. CASE WriteBack
  BY <1>13 DEF WriteBack, Holds, Store!storeVars
<1>14. CASE PowerFails
  <2>1. Store!PowerLoss
    BY <1>14 DEF PowerFails, Holds, Store!PowerLoss
  <2> QED
    BY <2>1 DEF Store!StoreNext
<1>15. CASE UNCHANGED persistVars
  BY <1>15 DEF persistVars, Holds, Store!storeVars
<1> QED
  BY <1>1, <1>2, <1>3, <1>4, <1>5, <1>6, <1>7, <1>8, <1>9, <1>10, <1>11, <1>12,
     <1>13, <1>14, <1>15 DEF PersistNext, Run

(* However the steps of several runs interleave and wherever they stop, the  *)
(* state file behaves as one identity that is created, adopted, replaced and *)
(* printed in single steps (loadPersistedAuthState, savePersistedAuthState). *)
THEOREM OneStepStore == PersistSpec => StoreAtomically
<1>1. PersistSpec => Store!StoreInit
  BY StoreInitial, PTL DEF PersistSpec
<1> QED
  BY <1>1, PersistInitial, PersistStep, StoreStep, PTL
  DEF PersistSpec, StoreAtomically, Store!StoreSpec
=============================================================================
