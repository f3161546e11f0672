------------------------------ MODULE MCDevice ------------------------------
(***************************************************************************)
(* Values for model-checking Device: rates below, in and above the range;  *)
(* directories with spaces and with names that look like an escaped space. *)
(***************************************************************************)
EXTENDS Device

MCRates == {-1, 0, 3}

MCCharacters == {32, Backslash, 48, 52}
=============================================================================
