-------------------------- MODULE AppendOnlyLedger --------------------------
(***************************************************************************)
(* What every ledger of the lab promises, whichever file format carries it *)
(* ("append-only", "immutable", "first-write-wins"): an entry is never     *)
(* dropped or altered, a key is written once, and only admissible entries  *)
(* ever enter.  The concrete ledgers implement this specification:         *)
(* ShadowCollector (the prediction CSV), ScoreHarvester (the scored CSV),  *)
(* LiveSupervisor (the same CSV, from its session), ProspectiveLedger      *)
(* (ledger.jsonl and scores.jsonl).                                        *)
(***************************************************************************)
CONSTANTS Key(_),         \* the columns the writer deduplicates on
          Admissible(_)   \* what a writer is allowed to put in the ledger

VARIABLE entries

\* No two entries of S are filed under one key.
KeysUnique(S) == \A a, b \in S : Key(a) = Key(b) => a = b

Init == /\ KeysUnique(entries)
        /\ \A e \in entries : Admissible(e)

\* A writer adds entries under fresh keys and keeps everything it found.
Extend == /\ entries \subseteq entries'
          /\ KeysUnique(entries')
          /\ \A e \in entries' \ entries : Admissible(e)

Spec == Init /\ [][Extend]_entries

-----------------------------------------------------------------------------
(* What a reader of the ledger relies on: one entry per key, all of them   *)
(* admissible (ledger.py and the drop_duplicates of the CSV writers).      *)
LedgerSound == /\ KeysUnique(entries)
               /\ \A e \in entries : Admissible(e)
=============================================================================
