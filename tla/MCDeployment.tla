---------------------------- MODULE MCDeployment ----------------------------
(* A small instance of Deployment for TLC, on the findings of MCWorker.       *)
EXTENDS MCWorker, Deployment
=============================================================================
