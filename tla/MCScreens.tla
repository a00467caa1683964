---- MODULE MCScreens ----
(* Module Screens as TLC checks it; Screens.cfg bounds it.                 *)
EXTENDS Screens
====
