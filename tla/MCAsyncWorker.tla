--------------------------- MODULE MCAsyncWorker ---------------------------
\* Instance of AsyncWorker: two clients and three changes, with any number of
\* triggers, so that triggers arrive at every step of the worker.
EXTENDS AsyncWorker
=============================================================================
