-------------------------------- MODULE MC_Text --------------------------------
(* Text with the characters of a number that spells a number: 0x30 is a zero. *)
EXTENDS Text

Digits == {48, 120, 51, 55, 56}
NoPayloads == {}
================================================================================
