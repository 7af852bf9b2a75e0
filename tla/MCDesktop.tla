------------------------------ MODULE MCDesktop ------------------------------
(* A small desktop.                                                         *)
EXTENDS Desktop

MCButtons == << "left", "right" >>
=============================================================================
