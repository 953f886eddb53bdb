------------------------------ MODULE MCTasks ------------------------------
EXTENDS Tasks
============================================================================
