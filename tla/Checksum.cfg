CONSTANT Rests <- SomeRests
SPECIFICATION FairSpec
INVARIANTS CsTypeOK FlipDetected IntactAccepted
PROPERTY FoldEnds
