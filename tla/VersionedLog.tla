---------------------------- MODULE VersionedLog ----------------------------
(***************************************************************************)
(* What the kernel promises to the readers of one session: a log whose     *)
(* entries are never changed or removed, whose versions reach every number *)
(* up to the latest one, and a session row that announces only versions a  *)
(* reader can find in the log.  Two writers that race may insert the same  *)
(* version, and may announce an older version after a newer one.           *)
(***************************************************************************)
EXTENDS Naturals, Sequences, FiniteSetsExt

VARIABLES
    entries,   \* the state version of every logged event, in insertion order
    announced  \* the state version on the session row

Latest == Max({entries[i] : i \in DOMAIN entries})

Init ==
    /\ entries = <<1>>
    /\ announced = 1

Insert ==
    /\ \E v \in 1..(Latest + 1) : entries' = Append(entries, v)
    /\ UNCHANGED announced

Announce ==
    /\ \E i \in DOMAIN entries : announced' = entries[i]
    /\ UNCHANGED entries

Spec == Init /\ [][Insert \/ Announce]_<<entries, announced>>
=============================================================================
