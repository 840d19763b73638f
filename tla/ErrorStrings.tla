---------------------------- MODULE ErrorStrings ----------------------------
(***************************************************************************)
(* delta_error_as_string, which main prints the error of a check with, and *)
(* detools_error_as_string, which it hands some codes to.  A text is       *)
(* represented by the code it is the text of.                              *)
(***************************************************************************)
EXTENDS Integers

DetoolsErrors == (1 .. 5) \cup (8 .. 11) \cup (18 .. 25) \cup {27}
DeltaErrors == 28 .. 37

UnknownError == 0

Positive(error) == IF error < 0 THEN -error ELSE error

TextAmong(errors, error) == IF error \in errors THEN error ELSE UnknownError

detools_error_as_string(error) == TextAmong(DetoolsErrors, Positive(error))

(* The codes of detools are told apart before the sign is removed.         *)
delta_error_as_string(error) ==
  IF error < 28 THEN detools_error_as_string(error)
  ELSE TextAmong(DeltaErrors, Positive(error))

=============================================================================
