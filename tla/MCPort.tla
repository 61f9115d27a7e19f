------------------------------- MODULE MCPort -------------------------------
(***************************************************************************)
(* Cameras in two networks whose leading digits are the same.              *)
(***************************************************************************)
EXTENDS PortAssignment

SharedDigits == {<<1, 30>>, <<10, 30>>, <<10, 54>>, <<1, 54>>}

==============================================================================
