---------------------------- MODULE DurableValue ----------------------------
(***************************************************************************)
(* What a persistent parameter promises: the values it takes form one      *)
(* history, numbered by the writes; storage follows that history and never *)
(* goes back along it; a write that storage was given ahead of memory is   *)
(* the next one that memory takes; and a restart resumes from what storage *)
(* holds.  `now' is the value in memory, `kept' the value in storage, each *)
(* with its number.                                                        *)
(***************************************************************************)
EXTENDS Naturals

CONSTANTS Names, Vals
VARIABLES now, kept

Entry == [num : Nat, val : Vals]

Init == now \in [Names -> Entry] /\ kept = now

(* A write of some names, one transaction                                  *)
Write ==
    /\ \A n \in Names :
           \/ now'[n] = now[n]
           \/ /\ now'[n].num = now[n].num + 1
              /\ kept[n].num > now[n].num => now'[n] = kept[n]
    /\ UNCHANGED kept

(* Storage catches up with some names, or is given the write to come.      *)
Keep ==
    /\ \A n \in Names :
           \/ kept'[n] = kept[n]
           \/ /\ kept'[n].num \in (kept[n].num + 1)..(now[n].num + 1)
              /\ kept'[n].num = now[n].num => kept'[n] = now[n]
    /\ UNCHANGED now

(* Power is lost: memory is read back from storage.                        *)
Restart == now' = kept /\ UNCHANGED kept

Next == Write \/ Keep \/ Restart

Spec == Init /\ [][Next]_<<now, kept>>
=============================================================================
