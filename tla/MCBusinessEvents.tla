---- MODULE MCBusinessEvents ----
\* Instances of BusinessEvents for TLC.
EXTENDS EventDocuments
CONSTANTS r1, r2, durable, live
====
