------------------------------ MODULE MCConfigApp ------------------------------
(***************************************************************************)
(* Instances of ConfigApp for TLC.  Two callsigns, one of them also in     *)
(* two spellings that are not canonical, and no callsign at all; or, for   *)
(* instances with two devices, in their canonical spelling only.           *)
(***************************************************************************)
EXTENDS ConfigApp

MCCallsigns == {"", "G4ABC", "g4abc ", "G4ABC ", "M0XYZ"}

MCUpper == [c \in MCCallsigns |-> IF c = "g4abc " THEN "G4ABC " ELSE c]

MCCanonical ==
    [c \in MCCallsigns |-> IF c \in {"g4abc ", "G4ABC "} THEN "G4ABC" ELSE c]

MCCanonicalCallsigns == {"", "G4ABC", "M0XYZ"}

MCIdentity == [c \in MCCanonicalCallsigns |-> c]
===============================================================================
