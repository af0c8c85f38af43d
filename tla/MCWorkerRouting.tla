------------------------------ MODULE MCWorkerRouting -----------------------------
(* A small instance of WorkerRouting for TLC: one plain and one extended request.    *)
EXTENDS WorkerRouting
CONSTANTS plain, extended
===================================================================================
