---------------------------- MODULE MCClipboard -----------------------------
(***************************************************************************)
(* Clipboard with three texts: one each end may start with or copy, and a  *)
(* third to tell a new copy from an echo.                                  *)
(***************************************************************************)
EXTENDS Clipboard

CONSTANTS t1, t2, t3

ThreeTexts == {t1, t2, t3}
=============================================================================
