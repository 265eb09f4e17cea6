------------------------------ MODULE MCRatings ------------------------------
(***************************************************************************)
(* Ratings for TLC.  The thresholds are those of the code's formula, 32    *)
(* points and an expectation of 1 / (1 + 10^(lead / 400)).  In ratings.cfg *)
(* one of the two users has the name of an empty seat.                     *)
(***************************************************************************)
EXTENDS Ratings

MCThresholds ==
  {-596, -470, -394, -338, -292, -254, -221, -190, -162, -136, -112, -88, -65, -43, -21, 0,
   22, 44, 66, 89, 113, 137, 163, 191, 222, 255, 293, 339, 395, 471, 597}
=============================================================================
