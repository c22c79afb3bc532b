-------------------------- MODULE MCStreamSession --------------------------
\* Model values and symmetry for StreamSession.
EXTENDS StreamSession, TLC

CONSTANTS s1, s2, s3, p1

MCStream3 == {s1, s2, s3}
MCStream2 == {s1, s2}
MCPlain   == {p1}

\* Requests are interchangeable (used only where no liveness is checked).
StreamSymmetry == Permutations(MCStream3)
=============================================================================
