---------------------------- MODULE IdentityStore ----------------------------
(***************************************************************************)
(* What tsok serve --persist promises (README.md, "Persistent auth keys"):  *)
(* one stored identity that starters create when there is none, adopt, or   *)
(* replace when asked to.  Each takes one step, whatever the others do.     *)
(***************************************************************************)
CONSTANTS
    Starters,      \* runs of tsok serve; a fresh identity is named by its run
    Old,           \* the identity an earlier run has left
    None           \* no identity

VARIABLES
    stored,        \* the stored identity
    holds,         \* [Starters -> the identity a run goes by]
    printed,       \* identities the runs that stored them have printed
    replaced       \* identities a rotation has replaced

storeVars == <<stored, holds, printed, replaced>>

StoreInit ==
    /\ stored \in {Old, None}
    /\ holds = [p \in Starters |-> None]
    /\ printed = {} /\ replaced = {}

CreateIdentity(p) ==
    /\ stored = None /\ stored' = p
    /\ holds' = [holds EXCEPT ![p] = p]
    /\ UNCHANGED <<printed, replaced>>

AdoptIdentity(p) ==
    /\ stored # None
    /\ holds' = [holds EXCEPT ![p] = stored]
    /\ UNCHANGED <<stored, printed, replaced>>

RotateIdentity(p) ==
    /\ stored' = p
    /\ holds' = [holds EXCEPT ![p] = p]
    /\ replaced' = replaced \cup ({stored} \ {None})
    /\ UNCHANGED printed

Drop(p) ==
    /\ holds' = [holds EXCEPT ![p] = None]
    /\ UNCHANGED <<stored, printed, replaced>>

(* A run prints the identity it has stored. *)
PrintIdentity(p) ==
    /\ holds[p] = p /\ printed' = printed \cup {p}
    /\ UNCHANGED <<stored, holds, replaced>>

(* A power loss ends every run and may take the last changes back, but not *)
(* an identity that was printed.                                          *)
PowerLoss ==
    /\ stored' \in Starters \cup {Old, None}
    /\ \A i \in printed : stored' = i \/ i \in replaced
    /\ holds' = [p \in Starters |-> None]
    /\ UNCHANGED <<printed, replaced>>

StoreNext ==
    \/ \E p \in Starters : \/ CreateIdentity(p) \/ AdoptIdentity(p)
                           \/ RotateIdentity(p) \/ PrintIdentity(p) \/ Drop(p)
    \/ PowerLoss

StoreSpec == StoreInit /\ [][StoreNext]_storeVars
=============================================================================
