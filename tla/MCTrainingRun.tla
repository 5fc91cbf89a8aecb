--------------------------- MODULE MCTrainingRun ---------------------------
(***************************************************************************)
(* Small data sets for the training run: records that match the external   *)
(* evaluation state by exact text (twice, under two ids), by normalised    *)
(* text and by similarity, one that matches an internal development set    *)
(* only, one whose instructions have the text of an evaluation state, and  *)
(* one too short to compare.                                               *)
(***************************************************************************)
EXTENDS TrainingRun

MCNormal(t) == IF t = "Refund me!" THEN "refund me" ELSE t
MCShort == {"ok"}
MCSimilar == {<<"refund me", "refund me now">>, <<"refund me", "please refund me">>}

Rec(id, state, instructions) ==
  [id |-> id, state |-> state, instructions |-> instructions, internal |-> FALSE]
Dev(id, state) ==
  [id |-> id, state |-> state, instructions |-> "is it", internal |-> TRUE]

Exam == {Rec("e1", "refund me", "is it"), Rec("e2", "ok", "is it"),
         Rec("e3", "where is it", "is it"), Dev("d1", "late parcel")}

MCDataSets ==
  {[train |-> {Rec("r1", "refund me", "route"), Rec("r2", "refund me", "route"),
               Rec("r3", "late parcel", "route")},
    calib |-> {Rec("c1", "broken", "route")}, eval |-> Exam],
   [train |-> {Rec("r1", "refund me", "route"), Rec("r4", "Refund me!", "route")},
    calib |-> {Rec("c1", "broken", "route")}, eval |-> Exam],
   [train |-> {Rec("r5", "refund me now", "route"),
               Rec("r6", "please refund me", "route"), Rec("r7", "ok", "route")},
    calib |-> {Rec("c1", "broken", "route")}, eval |-> Exam],
   [train |-> {Rec("r8", "broken", "refund me"), Rec("r3", "late parcel", "route")},
    calib |-> {Rec("c2", "refund me", "route")}, eval |-> Exam]}
=============================================================================
