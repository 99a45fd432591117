--------------------------- MODULE MCFirmwareUpdate ---------------------------
(***************************************************************************)
(* Instances of FirmwareUpdate whose images are interchangeable: none of   *)
(* them is named by the specification.  For safety properties only.        *)
(***************************************************************************)
EXTENDS FirmwareUpdate, TLC

ImageSymmetry == Permutations(Images)

===============================================================================
