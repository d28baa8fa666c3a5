--------------------------- MODULE MCEventHistory ---------------------------
(* Instance of EventHistory for TLC.                                         *)
EXTENDS EventHistory

\* "05Z" and "05.5Z".
MCFractions == {<< >>, <<5>>}

MCOffsets == {-1, 1}

\* A zone to the east of UTC, and after the change to the west of it.
MCZone == [sec \in 0..MaxSec |-> IF sec < 2 THEN 1 ELSE -1]
=============================================================================
