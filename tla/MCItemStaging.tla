--------------------------- MODULE MCItemStaging ---------------------------
(* Two operators at one item: a change from one mask to another, a third    *)
(* one nobody reviewed.                                                     *)
EXTENDS ItemStaging

CONSTANTS mage, rogue, every

ThreeMasks == {mage, rogue, every}
============================================================================
