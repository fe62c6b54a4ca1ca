---------------------------- MODULE MCGptSwitch ----------------------------
EXTENDS GptSwitch
=============================================================================
