-------------------------------- MODULE Beams --------------------------------
(***************************************************************************)
(* The beams of a batch entry, for BeamAdvance and BeamKv.                 *)
(***************************************************************************)
EXTENDS Integers

CONSTANT BM   \* beam width

WidthAssumption == BM \in Nat \ {0}

Beam == 0 .. BM-1
=============================================================================
