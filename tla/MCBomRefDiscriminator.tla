------------------------ MODULE MCBomRefDiscriminator ------------------------
(* Three BomRef objects, two strings, iterables of up to three references:  *)
(* one object named twice beside another, a clash of two given values, and  *)
(* a missing value next to both.                                            *)
EXTENDS BomRefDiscriminator
=============================================================================
