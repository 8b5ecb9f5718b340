----------------------------- MODULE Admission -----------------------------
(***************************************************************************)
(* What the HTTP server promises about the clients it serves, without its  *)
(* threads, sockets and locks: while the server is open it takes clients   *)
(* on, at most MaxConnections at a time and each at most once; a client    *)
(* taken on is served until it is done; and the server opens again only    *)
(* when no client of an earlier opening is left.                           *)
(***************************************************************************)
EXTENDS Naturals, FiniteSets

CONSTANTS Conns, MaxConnections

VARIABLES
  open,      \* clients may be taken on
  serving,   \* the clients being served
  served     \* the clients served at some time

admissionVars == <<open, serving, served>>

AdmissionInit == open = FALSE /\ serving = {} /\ served = {}

Open ==
  /\ ~open /\ serving = {}
  /\ open' = TRUE
  /\ UNCHANGED <<serving, served>>

TakeOn(c) ==
  /\ open /\ Cardinality(serving) < MaxConnections
  /\ c \notin served
  /\ serving' = serving \cup {c} /\ served' = served \cup {c}
  /\ UNCHANGED open

Finish(c) ==
  /\ c \in serving
  /\ serving' = serving \ {c}
  /\ UNCHANGED <<open, served>>

Shut ==
  /\ open /\ open' = FALSE
  /\ UNCHANGED <<serving, served>>

AdmissionNext ==
  Open \/ Shut \/ \E c \in Conns : TakeOn(c) \/ Finish(c)

AdmissionSpec == AdmissionInit /\ [][AdmissionNext]_admissionVars
=============================================================================
