----------------------------- MODULE MCArtifacts -----------------------------
EXTENDS Artifacts, TLC
CONSTANTS p1, p2, p3, v1, v2, srs, build
MCStageOf == p1 :> srs @@ p2 :> build @@ p3 :> build

MCContents == p1 :> {v1, v2} @@ p2 :> {v1, Absent} @@ p3 :> {v1, v2}

\* A chain that may be closed to a cycle.
MCGiven == p1 :> {{}, {p3}} @@ p2 :> {{p1}} @@ p3 :> {{p2}}
=============================================================================
