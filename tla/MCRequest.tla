----------------------------- MODULE MCRequest -----------------------------
(***************************************************************************)
(* Small requests for TLC: words of one or two characters, and values that *)
(* are written each in its way.                                            *)
(***************************************************************************)
EXTENDS Request

OneModule   == {<<"a">>}
ShortCodes  == {<<"a", "4">>, <<"a", "under", ".">>}
TwoNames    == {<<"a">>, <<"B">>}
OfEachClass == {"4", "B", "a", "R", ".", "space", "=", "quote", "#", "*"}
EachFormat  == {<<>>, <<"4">>, <<"a", "space">>, <<"space", "a">>, <<"*">>}
=============================================================================
