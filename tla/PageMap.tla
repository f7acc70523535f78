------------------------------- MODULE PageMap -------------------------------
(***************************************************************************)
(* What Mapper::map promises (src/mm/paging.rs): a page is mapped to       *)
(* a frame with its leaf flags, in place of what it was mapped to, and no  *)
(* other page's mapping changes; or an error is returned and none does.    *)
(***************************************************************************)
CONSTANTS Pages, Frames, LeafFlagSets

VARIABLES
  mapping,    \* the leaf entry of each page, as the set of its bits
  reply       \* what the last call returned

vars == <<mapping, reply>>

Errors == {"FrameAllocationFailed", "TranslationFailed"}

Init ==
  /\ mapping = [p \in Pages |-> {}]
  /\ reply = "none"

MapPage(page, frame, leaf) ==
  /\ mapping' = [mapping EXCEPT ![page] = frame \cup leaf]
  /\ reply' = "ok"

MapFails ==
  /\ reply' \in Errors
  /\ UNCHANGED mapping

\* An address out of range.
Panics == reply' = "panic" /\ UNCHANGED mapping

Next ==
  \/ \E page \in Pages, frame \in Frames, leaf \in LeafFlagSets : MapPage(page, frame, leaf)
  \/ MapFails
  \/ Panics

Spec == Init /\ [][Next]_vars
==============================================================================
