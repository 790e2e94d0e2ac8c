------------------------------ MODULE MCRecorder ------------------------------
(* Small instances of Recorder for TLC.                                    *)
EXTENDS Recorder

CONSTANTS r1, r2, c1, c2

OneRecorder == {r1}
TwoRecorders == {r1, r2}
TwoClients == {c1, c2}

(* Two recorders with patient clients, one with clients that may be early. *)
Patient == [recorders |-> TwoRecorders, patient |-> TRUE,
            file |-> "none"]
Early == [recorders |-> OneRecorder, patient |-> FALSE,
          file |-> "stale"]
PatientAndEarly == {Patient, Early}
JustEarly == {Early}
=============================================================================
