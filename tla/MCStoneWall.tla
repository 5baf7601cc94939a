---------------------------- MODULE MCStoneWall ----------------------------
(* Parameter sets for the runs of StoneWall.                               *)
EXTENDS StoneWall

CONSTANT Offsets   \* transfers of a rank in a segment

Even == [r \in Ranks |-> Offsets]

\* The shares of -z on a shared file differ.
Uneven == [r \in Ranks |-> IF r = 0 THEN Offsets ELSE 1]

WearOut == [wearOut |-> TRUE, collective |-> FALSE, prefill |-> FALSE,
            minTime |-> "none", shift |-> 1 % N, offsets |-> Even]

\* What -D, -l, -C, -c and minTimeDuration up to the deadline may be together.
Usual == {WearOut,
          [WearOut EXCEPT !.minTime = "short"],
          [WearOut EXCEPT !.collective = TRUE],
          [WearOut EXCEPT !.offsets = Uneven, !.shift = 0],
          [WearOut EXCEPT !.wearOut = FALSE, !.shift = 0],
          [WearOut EXCEPT !.wearOut = FALSE, !.shift = 0, !.minTime = "short"]}

\* minTimeDuration above the deadline, where InOrder does not hold.
LongMinimum == {[WearOut EXCEPT !.minTime = "long"]}

\* --random-prefill, where CollectivesMatch does not hold.
Prefill == {[WearOut EXCEPT !.prefill = TRUE, !.shift = 0]}
=============================================================================
