-------------------------------- MODULE MCRtc -------------------------------
(***************************************************************************)
(* Rtc for TLC, from times at which every field moves, the digits of BCD   *)
(* carry, and the twelve hours begin again.                                *)
(***************************************************************************)
EXTENDS Rtc

Moments == {<<59, 59, 23, 31, 12, 21>>,    \* a new year
            <<59, 59, 11, 28, 2, 24>>,     \* noon, of a leap year's day
            <<59, 59, 23, 29, 2, 24>>,     \* the day after it
            <<58, 9, 9, 9, 9, 99>>,
            <<59, 59, 0, 9, 10, 30>>,
            <<59, 59, 12, 1, 1, 19>>}      \* read as 2119

=============================================================================
