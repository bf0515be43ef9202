---------------------------- MODULE MCCollabText ----------------------------
EXTENDS CollabText

TwoSites == {1, 2}
ThreeSites == {1, 2, 3}
Still == {0}
Moves == {0, 1}
=============================================================================
