------------------------------ MODULE JsValues ------------------------------
(***************************************************************************)
(* The values null and NaN of JavaScript, for the panels of the page.      *)
(***************************************************************************)
EXTENDS Integers

CONSTANTS Null, NaN

ASSUME NoNumber == Null \notin Int /\ NaN \notin Int
=============================================================================
