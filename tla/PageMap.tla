------------------------------- MODULE PageMap -------------------------------
(***************************************************************************)
(* What an address-translation table promises (spec.md 4.2), without its   *)
(* two levels: a partial map from virtual pages to physical frames.        *)
(* map(v, p) makes v translate to p's frame, unmap(v) makes v untranslated.*)
(***************************************************************************)
CONSTANTS
  VPages,     \* virtual page numbers
  PFrames,    \* physical frame numbers
  BootMap,    \* the translation after paging_init
  Unmapped    \* the value of an untranslated page

VARIABLE pageMap

Init == pageMap = BootMap

Map(v, f) == pageMap' = [pageMap EXCEPT ![v] = f]

Unmap(v) == pageMap' = [pageMap EXCEPT ![v] = Unmapped]

Next ==
  \/ \E v \in VPages, f \in PFrames : Map(v, f)
  \/ \E v \in VPages : Unmap(v)

Spec == Init /\ [][Next]_pageMap
=============================================================================
