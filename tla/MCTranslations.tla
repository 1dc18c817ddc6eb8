--------------------------- MODULE MCTranslations ---------------------------
(* Two translations of different lengths, for TLC. *)
EXTENDS Translations

CONSTANTS one, two
BytesOf == [t \in {one, two} |-> IF t = one THEN 2 ELSE 6]
=============================================================================
