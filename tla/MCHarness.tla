------------------------------ MODULE MCHarness ------------------------------
(***************************************************************************)
(* ReplayHarness in every mode, with three conversations of two turns and  *)
(* two workers, or a schedule that rises and falls.                        *)
(***************************************************************************)
EXTENDS ReplayHarness

RiseAndFall == << <<1, 1>>, <<2, 1>>, <<0, 1>> >>
=============================================================================
