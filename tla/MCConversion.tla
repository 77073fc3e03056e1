----------------------------- MODULE MCConversion -----------------------------
(***************************************************************************)
(* The conversion of a BOM with the tables of the model classes.           *)
(***************************************************************************)
EXTENDS Conversion, ModelFields
===============================================================================
