------------------------------ MODULE MCPromotion ------------------------------
(***************************************************************************)
(* Promotion with three works, of which one may be unlabelled and one      *)
(* ambiguous.                                                              *)
(***************************************************************************)
EXTENDS Promotion

SmallLabellings ==
    {<<{}, {"major"}, {"patch"}>>, <<{"minor"}, {}, {"minor"}>>,
     <<{"patch"}, {"minor", "major"}, {}>>}

MinorLabellings == {<<{"minor"}, {"minor"}>>}
================================================================================
