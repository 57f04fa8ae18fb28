--------------------------- MODULE MCRunnerMemory ---------------------------
EXTENDS RunnerMemory

ThreePrompts == <<3, 1, 3>>
=============================================================================
