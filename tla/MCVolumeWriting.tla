-------------------------- MODULE MCVolumeWriting --------------------------
\* Instances of VolumeWriting for TLC.
EXTENDS VolumesAsFiles

CONSTANTS f1, f2, f3
ThreeFiles == {f1, f2, f3}
=============================================================================
