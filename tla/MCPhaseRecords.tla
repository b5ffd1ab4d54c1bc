--------------------------- MODULE MCPhaseRecords ---------------------------
(* Two paths: the sources, which Phases 1 and 3 bind, and the notes and      *)
(* evidence, which the later phases bind.                                    *)
EXTENDS PhaseRecords

CONSTANTS sources, notes, good, bad

MCFiles == {sources, notes}
MCContents == {good, bad}
MCSound == {good}
MCBound == [p \in Phases |-> IF p \in {1, 3} THEN {sources} ELSE {notes}]
MCEvidence == [p \in Phases |-> notes]
MCInherited == {sources}
MCGoverned == [f \in {sources} |-> {good}]
MCActivated == {notes}
MCMatrix == {notes}
=============================================================================
