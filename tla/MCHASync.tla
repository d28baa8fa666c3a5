------------------------------ MODULE MCHASync ------------------------------
(* Instances of HASync for TLC.                                              *)
EXTENDS HASync

CONSTANTS tick, push

\* A domain and a name below it, in any of four edits.
MCNames == {<<"org">>, <<"a", "org">>}
MCTyped == <<MCNames, MCNames, MCNames, MCNames>>

\* A domain, with one dot before it and with two: "..org" is saved as ".org"
\* and imported as "org".  Three edits, the last of them a toggle.
MCDotted == {<<"org">>, <<"", "org">>, <<"", "", "org">>}
MCDottedTyped == <<MCDotted, {<<"org">>}, {}>>
=============================================================================
