------------------------------ MODULE MCSerial ------------------------------
(***************************************************************************)
(* FIFOs of two bytes, shorter than the longest message, so that a byte    *)
(* written too early is lost; up to three messages.                        *)
(***************************************************************************)
EXTENDS SerialProps

SmallMessages == {<<>>, <<65>>, <<66, 67, 68, 69>>}
SmallFirmware == {<<>>, <<70>>, <<71, 72>>}
=============================================================================
