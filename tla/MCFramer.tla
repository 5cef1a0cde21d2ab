----------------------------- MODULE MCFramer -----------------------------
(***************************************************************************)
(* Framer, with a separator of two bytes and one that overlaps itself.     *)
(***************************************************************************)
EXTENDS Framer

CONSTANTS x, cr, lf

TwoSeparators == {<<cr, lf>>, <<cr, cr>>}
CRLF == {<<cr, lf>>}
=============================================================================
