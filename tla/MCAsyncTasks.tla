---------------------------- MODULE MCAsyncTasks ----------------------------
EXTENDS AsyncTasks
=============================================================================
