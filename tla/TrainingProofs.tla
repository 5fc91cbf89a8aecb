--------------------------- MODULE TrainingProofs ---------------------------
(***************************************************************************)
(* What a training run guarantees, for any data: a PASS of the last scan   *)
(* is true of the weights, no copy of an evaluation state is trained on    *)
(* after a completed first scan, and a run that ends leaves a whole        *)
(* artifact whose two files belong together.                               *)
(***************************************************************************)
EXTENDS TrainingRun, TLAPS

(* A scan that passes on some records passes on part of them: no text of   *)
(* theirs equals an evaluation state once both are normalised.             *)
LEMMA ScanClean ==
  ASSUME NEW part, NEW recs, NEW eval, part \subseteq recs, Verdict(recs, eval)
  PROVE  Clean(part, eval)
<1> SUFFICES ASSUME NEW e \in ExternalStates(eval), NEW t \in TextUnits(part),
                    Normal(Text(e)) = Normal(Text(t))
             PROVE  FALSE
  BY DEF Clean
<1>1. t \in TextUnits(recs)
  BY DEF TextUnits
<1>2. t \in SameNormal(e, TextUnits(recs))
  BY <1>1 DEF SameNormal
<1>3. Exact(e, TextUnits(recs)) = {} /\ Normalised(e, TextUnits(recs)) = {}
  BY DEF Verdict
<1> QED
  BY <1>2, <1>3 DEF Normalised

(* The exclusion list names every copy of an evaluation state.             *)
LEMMA ExactExcluded ==
  ASSUME NEW train, NEW calib, NEW eval
  PROVE  NoExactMatch(Kept(train, ExcludeIds(train \cup calib, eval)), eval)
<1> DEFINE all == train \cup calib
           ids == ExcludeIds(all, eval)
<1> SUFFICES ASSUME NEW e \in ExternalStates(eval),
                    NEW t \in TextUnits(Kept(train, ids)), Text(e) = Text(t)
             PROVE  FALSE
  BY DEF NoExactMatch
<1>1. t.rec \in Kept(train, ids)
  BY DEF TextUnits
<1>2. t.rec.id \notin ids
  BY <1>1 DEF Kept
<1>3. t \in TextUnits(all)
  BY DEF TextUnits, Kept
<1>4. t \in Exact(e, TextUnits(all))
  BY <1>3 DEF Exact
<1>5. t.rec.id \in ids
  BY <1>4 DEF ExcludeIds
<1> QED
  BY <1>2, <1>5

(* The ids a scan lists are ids of the records it scanned.                 *)
LEMMA ExcludedAreScanned ==
  ASSUME NEW d \in DataSets
  PROVE  ExcludeIds(d.train \cup d.calib, d.eval) \in SUBSET {r.id : r \in Records}
<1> DEFINE all == d.train \cup d.calib
<1>1. all \subseteq Records
  BY DEF Records
<1>2. \A e : Exact(e, TextUnits(all)) \cup Normalised(e, TextUnits(all))
               \cup Near(e, TextUnits(all)) \subseteq TextUnits(all)
  BY DEF Exact, Normalised, SameNormal, Near
<1>3. \A t \in TextUnits(all) : t.rec \in all
  BY DEF TextUnits
<1>4. ASSUME NEW i \in ExcludeIds(all, d.eval)
      PROVE  i \in {r.id : r \in Records}
  <2>1. PICK e \in ExternalStates(d.eval) :
          \E t \in Exact(e, TextUnits(all)) \cup Normalised(e, TextUnits(all))
                     \cup Near(e, TextUnits(all)) : i = t.rec.id
    BY <1>4 DEF ExcludeIds
  <2>2. PICK t \in TextUnits(all) : i = t.rec.id
    BY <2>1, <1>2
  <2> QED
    BY <2>2, <1>3, <1>1
<1> QED
  BY <1>4

-----------------------------------------------------------------------------
Fitted == {"default", "calibrate", "calibration", "use", "rescan", "report", "done"}

(* The inductive invariant: what each file holds by the time the script    *)
(* has got past its command, in terms of the data of this run.             *)
RunInv ==
  /\ data \in DataSets
  /\ DOMAIN file = Files
  /\ "prescan" \in ended => pc \notin {"prescan", "exclusions"}
  /\ "rescan" \in ended => pc \in Resting \cup {"bootstrap", "uncalibrated"}
  /\ ("prescan" \in ended /\ pc \in Fitted \cup {"train", "weights"}) =>
       file["exclusions"] = ExcludeIds(data.train \cup data.calib, data.eval)
  /\ pc \in Fitted =>
       file["weights"] =
         [trained |-> Kept(data.train, IdsToTrainWithout(file["exclusions"]))]
  /\ pc \in {"use", "rescan", "report", "done"} =>
       file["calibration"] = [of |-> file["weights"], calibrated |-> data.calib]
  /\ pc \in {"rescan", "report", "done"} =>
       file["used"] =
         Kept(data.train \cup data.calib, IdsToTrainWithout(file["exclusions"]))
  /\ (pc = "done" /\ "rescan" \in ended) =>
       file["report"] = [pass |-> Verdict(file["used"], data.eval)]

LEMMA RunInit == Init => RunInv
BY DEF Init, RunInv, Resting, Fitted

LEMMA RunStep == RunInv /\ [Next]_vars => RunInv'
<1> SUFFICES ASSUME RunInv, [Next]_vars PROVE RunInv'
  OBVIOUS
<1> USE DEF RunInv, Resting, Fitted, Files
<1>1. CASE StartRun
  BY <1>1 DEF StartRun
<1>2. CASE Prescan
  BY <1>2 DEF Prescan, Truncates
<1>3. CASE WriteExclusions
  BY <1>3 DEF WriteExclusions
<1>4. CASE PrescanFails
  BY <1>4 DEF PrescanFails
<1>5. CASE Train
  BY <1>5 DEF Train, Truncates
<1>6. CASE WriteWeights
  BY <1>6 DEF WriteWeights
<1>7. CASE WriteDefault
  BY <1>7 DEF WriteDefault
<1>8. CASE Calibrate
  BY <1>8 DEF Calibrate, Truncates
<1>9. CASE WriteCalibration
  BY <1>9 DEF WriteCalibration
<1>10. CASE ListUsed
  BY <1>10 DEF ListUsed
<1>11. CASE Rescan
  BY <1>11 DEF Rescan, Truncates
<1>12. CASE WriteReport
  BY <1>12 DEF WriteReport
<1>13. CASE RescanFails
  BY <1>13 DEF RescanFails
<1>14. CASE Abort
  BY <1>14 DEF Abort
<1>15. CASE ExportBootstrap
  BY <1>15 DEF ExportBootstrap
<1>16. CASE ExportWeights
  BY <1>16 DEF ExportWeights
<1>17. CASE ExportCalibration
  BY <1>17 DEF ExportCalibration
<1>18. CASE UNCHANGED vars
  BY <1>18 DEF vars
<1> QED
  BY <1>1, <1>2, <1>3, <1>4, <1>5, <1>6, <1>7, <1>8, <1>9, <1>10, <1>11, <1>12,
     <1>13, <1>14, <1>15, <1>16, <1>17, <1>18 DEF Next

(* RunInv holds of every training run.                                     *)
THEOREM RunInvariant == Spec => []RunInv
BY RunInit, RunStep, PTL DEF Spec

(* A PASS of the last scan is true of the weights: what they were fitted   *)
(* on is part of what was scanned, because `train` and the list of the     *)
(* data used leave out the same ids, also those of a stale or torn list.   *)
THEOREM PassIsTrue == Spec => []PassMeansClean
<1>1. RunInv => PassMeansClean
  <2> SUFFICES ASSUME RunInv, pc = "done", "rescan" \in ended, Passed
               PROVE  Clean(file["weights"].trained, data.eval)
    BY DEF PassMeansClean
  <2> DEFINE ids == IdsToTrainWithout(file["exclusions"])
  <2>1. file["weights"].trained = Kept(data.train, ids)
    BY DEF RunInv, Fitted
  <2>2. file["used"] = Kept(data.train \cup data.calib, ids)
    BY DEF RunInv
  <2>3. Verdict(file["used"], data.eval)
    BY DEF RunInv, Passed
  <2>4. file["weights"].trained \subseteq file["used"]
    BY <2>1, <2>2 DEF Kept
  <2> QED
    BY <2>3, <2>4, ScanClean
<1> QED
  BY <1>1, RunInvariant, PTL

(* After a first scan that ended, no copy of an evaluation state is among  *)
(* the records the weights were fitted on.                                 *)
THEOREM CopiesLeftOut == Spec => []NoExactTrained
<1>1. RunInv => NoExactTrained
  <2> SUFFICES ASSUME RunInv, "prescan" \in ended,
                      pc \in {"calibrate", "use", "rescan", "done"}
               PROVE  NoExactMatch(file["weights"].trained, data.eval)
    BY DEF NoExactTrained
  <2> DEFINE ids == ExcludeIds(data.train \cup data.calib, data.eval)
  <2>1. data \in DataSets /\ file["exclusions"] = ids
    BY DEF RunInv, Fitted
  <2>2. ids \notin Absent
    BY <2>1, ExcludedAreScanned, ContentAssumption DEF Absent
  <2>3. file["weights"].trained = Kept(data.train, ids)
    BY <2>1, <2>2 DEF RunInv, Fitted, IdsToTrainWithout
  <2> QED
    BY <2>3, ExactExcluded
<1> QED
  BY <1>1, RunInvariant, PTL

(* A run that ends leaves two whole files, the calibration fitted to the   *)
(* weights beside it, and both readers take them as they are.              *)
THEOREM RunLeavesArtifact == Spec => []RunYieldsArtifact
<1>1. RunInv => RunYieldsArtifact
  <2> SUFFICES ASSUME RunInv, pc = "done"
               PROVE  /\ Loadable
                      /\ Embedded = LoadDir
                      /\ LoadDir.calibration # Default
                      /\ LoadDir.calibration.of = LoadDir.weights
    BY DEF RunYieldsArtifact
  <2> DEFINE kept == Kept(data.train, IdsToTrainWithout(file["exclusions"]))
  <2>1. /\ data \in DataSets
        /\ file["weights"] = [trained |-> kept]
        /\ file["calibration"] = [of |-> file["weights"], calibrated |-> data.calib]
    BY DEF RunInv, Fitted
  <2>2. kept \subseteq Records
    BY <2>1 DEF Kept, Records
  <2>3. file["weights"] \in [trained : SUBSET Records]
    BY <2>1, <2>2
  <2>4. /\ file["weights"] \notin {Missing, Torn}
        /\ file["calibration"] \notin {Missing, Torn, Default}
    BY <2>1, <2>3, ContentAssumption
  <2>5. file["calibration"].of = file["weights"]
    BY <2>1
  <2> QED
    BY <2>4, <2>5 DEF Loadable, Embedded, LoadDir, Absent
<1> QED
  BY <1>1, RunInvariant, PTL

-----------------------------------------------------------------------------
(* Types.  The calibration's own needs RunInv: `calibrate` is reached only *)
(* with weights that this run has fitted.                                  *)
LEMMA KeptAreRecords ==
  ASSUME NEW d \in DataSets, NEW ids
  PROVE  /\ Kept(d.train, ids) \in SUBSET Records
         /\ Kept(d.train \cup d.calib, ids) \in SUBSET Records
         /\ d.calib \in SUBSET Records
  BY DEF Kept, Records

LEMMA TypeInit == Init => TrainingTypeOK
  BY DEF Init, TrainingTypeOK, Files, Absent, Stages, Resting

LEMMA TypeStep == RunInv /\ TrainingTypeOK /\ [Next]_vars => TrainingTypeOK'
<1> SUFFICES ASSUME RunInv, TrainingTypeOK, [Next]_vars PROVE TrainingTypeOK'
  OBVIOUS
<1> USE DEF TrainingTypeOK, Resting, Stages, Files, Absent
<1>1. CASE StartRun
  BY <1>1 DEF StartRun
<1>2. CASE Prescan
  BY <1>2 DEF Prescan, Truncates
<1>3. CASE WriteExclusions
  BY <1>3, ExcludedAreScanned DEF WriteExclusions
<1>4. CASE PrescanFails
  BY <1>4 DEF PrescanFails
<1>5. CASE Train
  BY <1>5 DEF Train, Truncates
<1>6. CASE WriteWeights
  <2> DEFINE fitted == [trained |-> Kept(data.train, IdsToTrainWithout(file["exclusions"]))]
  <2>1. WeightsOK(fitted)
    BY KeptAreRecords DEF WeightsOK
  <2> QED
    BY <1>6, <2>1 DEF WriteWeights, fitted
<1>7. CASE WriteDefault
  BY <1>7 DEF WriteDefault
<1>8. CASE Calibrate
  BY <1>8 DEF Calibrate, Truncates
<1>9. CASE WriteCalibration
  <2>1. WeightsOK(file["weights"]) /\ data.calib \in SUBSET Records
    BY <1>9, KeptAreRecords DEF WriteCalibration, RunInv, Fitted, WeightsOK
  <2> QED
    BY <1>9, <2>1 DEF WriteCalibration
<1>10. CASE ListUsed
  BY <1>10, KeptAreRecords DEF ListUsed
<1>11. CASE Rescan
  BY <1>11 DEF Rescan, Truncates
<1>12. CASE WriteReport
  BY <1>12 DEF WriteReport, Verdict
<1>13. CASE RescanFails
  BY <1>13 DEF RescanFails
<1>14. CASE Abort
  BY <1>14 DEF Abort
<1>15. CASE ExportBootstrap
  BY <1>15 DEF ExportBootstrap
<1>16. CASE ExportWeights
  BY <1>16 DEF ExportWeights, WeightsOK
<1>17. CASE ExportCalibration
  BY <1>17 DEF ExportCalibration
<1>18. CASE UNCHANGED vars
  BY <1>18 DEF vars
<1> QED
  BY <1>1, <1>2, <1>3, <1>4, <1>5, <1>6, <1>7, <1>8, <1>9, <1>10, <1>11, <1>12,
     <1>13, <1>14, <1>15, <1>16, <1>17, <1>18 DEF Next

(* Every file holds, at every point of a run, something of its own kind, a *)
(* torn write or nothing, and the file being written is torn.              *)
THEOREM TrainingTypes == Spec => []TrainingTypeOK
  BY TypeInit, TypeStep, RunInvariant, PTL DEF Spec
=============================================================================
