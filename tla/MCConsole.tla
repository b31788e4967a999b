------------------------------- MODULE MCConsole -------------------------------
(***************************************************************************)
(* A small Console for TLC.  The buffer holds as many bytes as take two    *)
(* digits to count, and a user can type more.  One window has no row, of   *)
(* the other Windows tells no size.                                        *)
(***************************************************************************)
EXTENDS Console

MCTexts == <<<<3, 0>>, <<1>>>>

MCWindows == {<<0, 5>>, << >>}

MCDefaultSize == <<3, 7>>
=============================================================================
