------------------------- MODULE MCOriginLifecycle -------------------------
EXTENDS OriginLifecycle

NoExt == {}
TwoOrigins == 1..2
ThreeOrigins == 1..3
FirstExt == {1}
=============================================================================
