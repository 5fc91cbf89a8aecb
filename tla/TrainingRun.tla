---------------------------- MODULE TrainingRun ----------------------------
(***************************************************************************)
(* The training run of scripts/train.sh and the files it leaves: scan the  *)
(* data against the evaluation sets, fit the weights without the listed    *)
(* records, calibrate, list the data used and scan that.  Each command     *)
(* writes its file in place (std::fs::write: truncate, then write), so a   *)
(* run that is killed, or a write that fails, leaves a torn file for the   *)
(* next run, for the server and for the next build.  One run at a time.    *)
(***************************************************************************)
EXTENDS Leakage

CONSTANTS
  DataSets,    \* the data a run may find: [train, calib, eval] record sets
  Missing, Torn,           \* the file does not exist; is cut short
  Bootstrap, Default       \* the hand-set weights; the uncalibrated artifact

(* The records a run may train on or calibrate with.                       *)
Records == UNION {d.train \cup d.calib : d \in DataSets}

(* A file that is missing or torn is not one that was written whole, and a *)
(* fitted calibration is not the default one.                              *)
ASSUME ContentAssumption ==
  /\ \A ids \in SUBSET {r.id : r \in Records} : ids \notin {Missing, Torn}
  /\ \A w \in [trained : SUBSET Records] :
       /\ w \notin {Missing, Torn}
       /\ \A d \in DataSets :
            [of |-> w, calibrated |-> d.calib] \notin {Missing, Torn, Default}

VARIABLES
  data,    \* the data of the current or last run
  file,    \* content of each file the run's commands hand to each other
  pc,      \* the command of the script that runs, or the file it writes
  ended    \* the scans of this run that ran to their end: their exit status,
           \* which the script discards (`|| true`, `|| echo`)

vars == <<data, file, pc, ended>>

Files == {"exclusions", "weights", "calibration", "used", "report"}

(* The script is not running, or has ended without an error.               *)
Resting == {"idle", "done"}

Stages == Resting \cup {"prescan", "exclusions", "train", "weights", "default",
                        "calibrate", "calibration", "use", "rescan", "report",
                        "bootstrap", "uncalibrated"}

Absent == {Missing, Torn}

Kept(recs, ids) == {r \in recs : r.id \notin ids}

(* --exclude-ids of `train`: a file that cannot be read or parsed lists    *)
(* no id.                                                                  *)
IdsToTrainWithout(f) == IF f \in Absent THEN {} ELSE f

(* Model::load_dir: both files whole, or an error.                         *)
Loadable == file["weights"] \notin Absent /\ file["calibration"] \notin Absent

LoadDir == [weights |-> file["weights"], calibration |-> file["calibration"]]

(* Model::embedded in a binary built now: a file that does not parse is    *)
(* replaced by the hand-set weights or by the default calibration.         *)
Embedded ==
  [weights |-> IF file["weights"] \in Absent THEN Bootstrap ELSE file["weights"],
   calibration |-> IF file["calibration"] \in Absent THEN Default
                   ELSE file["calibration"]]

Init ==
  /\ data \in DataSets
  /\ file = [f \in Files |-> Missing]
  /\ pc = "idle"
  /\ ended = {}
-----------------------------------------------------------------------------
(* Command c truncates f before it writes it.                              *)
Truncates(c, f) ==
  /\ pc = c
  /\ pc' = f
  /\ file' = [file EXCEPT ![f] = Torn]
  /\ UNCHANGED <<data, ended>>

(* Steps 1 to 3: build, generate and prepare the data.                     *)
StartRun ==
  /\ pc \in Resting
  /\ pc' = "prescan"
  /\ data' \in DataSets
  /\ ended' = {}
  /\ UNCHANGED file

Prescan == Truncates("prescan", "exclusions")

WriteExclusions ==
  /\ pc = "exclusions"
  /\ file' = [file EXCEPT !["exclusions"] =
                ExcludeIds(data.train \cup data.calib, data.eval)]
  /\ ended' = ended \cup {"prescan"}
  /\ pc' = "train"
  /\ UNCHANGED data

(* The scan panics on a write that fails; the script goes on.              *)
PrescanFails ==
  /\ pc \in {"prescan", "exclusions"}
  /\ pc' = "train"
  /\ UNCHANGED <<data, file, ended>>

Train == Truncates("train", "weights")

(* Mutant: the default calibration is written over an existing one, which *)
(* is not truncated first                                                   *)
WriteWeightsAlways ==
  /\ pc = "weights"
  /\ file' = [file EXCEPT !["weights"] =
       [trained |-> Kept(data.train, IdsToTrainWithout(file["exclusions"]))]]
  /\ pc' = "default"
  /\ UNCHANGED <<data, ended>>

(* `train` writes the default calibration only when there is none.         *)
WriteWeights ==
  /\ pc = "weights"
  /\ LET fitted == [trained |-> Kept(data.train, IdsToTrainWithout(file["exclusions"]))]
     IN  IF file["calibration"] = Missing
         THEN /\ pc' = "default"
              /\ file' = [file EXCEPT !["weights"] = fitted, !["calibration"] = Torn]
         ELSE /\ pc' = "calibrate"
              /\ file' = [file EXCEPT !["weights"] = fitted]
  /\ UNCHANGED <<data, ended>>

WriteDefault ==
  /\ pc = "default"
  /\ file' = [file EXCEPT !["calibration"] = Default]
  /\ pc' = "calibrate"
  /\ UNCHANGED <<data, ended>>

(* Mutant: calibrates only when `train` wrote the default *)
CalibrateOnce ==
  /\ file["weights"] \notin Absent
  /\ IF file["calibration"] = Default
     THEN Truncates("calibrate", "calibration")
     ELSE pc = "calibrate" /\ pc' = "use" /\ UNCHANGED <<data, file, ended>>

(* `calibrate` stops the script when the weights do not load.              *)
Calibrate == file["weights"] \notin Absent /\ Truncates("calibrate", "calibration")

(* The calibration split is read as it is: there is no --exclude-ids.      *)
WriteCalibration ==
  /\ pc = "calibration"
  /\ file' = [file EXCEPT !["calibration"] =
                [of |-> file["weights"], calibrated |-> data.calib]]
  /\ pc' = "use"
  /\ UNCHANGED <<data, ended>>

(* The inline script that lists the data used; json.load stops the run on  *)
(* a torn file, a missing one excludes nothing.                            *)
ListUsed ==
  /\ pc = "use"
  /\ file["exclusions"] # Torn
  /\ file' = [file EXCEPT !["used"] =
                Kept(data.train \cup data.calib, IdsToTrainWithout(file["exclusions"]))]
  /\ pc' = "rescan"
  /\ UNCHANGED <<data, ended>>

Rescan == Truncates("rescan", "report")

WriteReport ==
  /\ pc = "report"
  /\ file' = [file EXCEPT !["report"] = [pass |-> Verdict(file["used"], data.eval)]]
  /\ ended' = ended \cup {"rescan"}
  /\ pc' = "done"
  /\ UNCHANGED data

RescanFails ==
  /\ pc \in {"rescan", "report"}
  /\ pc' = "done"
  /\ UNCHANGED <<data, file, ended>>

(* A command exits with an error under set -e (data or weights that do not *)
(* load, a torn list of exclusions, a failed write), or the run is killed. *)
Abort ==
  /\ pc \notin Resting
  /\ pc' = "idle"
  /\ UNCHANGED <<data, file, ended>>

(* `sextant export-bootstrap` into the same directory, between runs.       *)
ExportBootstrap ==
  /\ pc \in Resting
  /\ pc' = "bootstrap"
  /\ file' = [file EXCEPT !["weights"] = Torn]
  /\ UNCHANGED <<data, ended>>

ExportWeights ==
  /\ pc = "bootstrap"
  /\ pc' = "uncalibrated"
  /\ file' = [file EXCEPT !["weights"] = Bootstrap, !["calibration"] = Torn]
  /\ UNCHANGED <<data, ended>>

ExportCalibration ==
  /\ pc = "uncalibrated"
  /\ pc' = "idle"
  /\ file' = [file EXCEPT !["calibration"] = Default]
  /\ UNCHANGED <<data, ended>>

Next ==
  \/ StartRun \/ Prescan \/ WriteExclusions \/ PrescanFails
  \/ Train \/ WriteWeights \/ WriteDefault \/ Calibrate \/ WriteCalibration
  \/ ListUsed \/ Rescan \/ WriteReport \/ RescanFails \/ Abort
  \/ ExportBootstrap \/ ExportWeights \/ ExportCalibration

Spec == Init /\ [][Next]_vars
-----------------------------------------------------------------------------
WeightsOK(w) == w \in {Bootstrap} \cup [trained : SUBSET Records]

(* The types of the run: what each file holds, that the file a command is  *)
(* writing is torn, and that only scans that ran to their end are noted.   *)
TrainingTypeOK ==
  /\ data \in DataSets
  /\ pc \in Stages
  /\ ended \subseteq {"prescan", "rescan"}
  /\ DOMAIN file = Files
  /\ file["exclusions"] \in Absent \cup SUBSET {r.id : r \in Records}
  /\ file["weights"] \in Absent \/ WeightsOK(file["weights"])
  /\ file["used"] \in Absent \cup SUBSET Records
  /\ file["report"] \in Absent \cup [pass : BOOLEAN]
  /\ \/ file["calibration"] \in Absent \cup {Default}
     \/ /\ WeightsOK(file["calibration"].of)
        /\ file["calibration"].calibrated \subseteq Records
  /\ pc \in Files => file[pc] = Torn
  /\ pc = "default" => file["calibration"] = Torn

(* Records recs share no state text with an external evaluation state,     *)
(* exactly or once normalised; short texts tell nothing.                   *)
Clean(recs, eval) ==
  \A e \in ExternalStates(eval), t \in TextUnits(recs) :
    Normal(Text(e)) # Normal(Text(t))

NoExactMatch(recs, eval) ==
  \A e \in ExternalStates(eval), t \in TextUnits(recs) : Text(e) # Text(t)

Passed == file["report"] \notin Absent /\ file["report"].pass

(* After a run whose last scan ran to its end, a report that says PASS is  *)
(* true of the weights: none of the records they were fitted on matches an *)
(* evaluation state, whatever became of the first scan, of the exclusion   *)
(* list or of earlier runs (train.sh L36-L55, train.rs L427-439).          *)
PassMeansClean ==
  (pc = "done" /\ "rescan" \in ended /\ Passed) =>
    Clean(file["weights"].trained, data.eval)

(* Once the first scan of a run has ended, weights are never fitted on a   *)
(* record with the text of an evaluation state: all its copies are listed  *)
(* and left out (leakage.rs L231-257, train.rs L436).                      *)
NoExactTrained ==
  (pc \in {"calibrate", "use", "rescan", "done"} /\ "prescan" \in ended) =>
    NoExactMatch(file["weights"].trained, data.eval)

(* A run that ends without an error leaves a whole artifact, with the      *)
(* calibration fitted to these very weights, and a binary built then       *)
(* embeds what a server would load: also after runs that were cut short    *)
(* between the two files or inside one (train.rs L497-508,                 *)
(* calibrate.rs L461-462, model/mod.rs L27-46).                            *)
RunYieldsArtifact ==
  pc = "done" =>
    /\ Loadable
    /\ Embedded = LoadDir
    /\ LoadDir.calibration # Default
    /\ LoadDir.calibration.of = LoadDir.weights
=============================================================================
