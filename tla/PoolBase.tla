------------------------------ MODULE PoolBase ------------------------------
(***************************************************************************)
(* The names every module of the warm-pool controller shares: the pods of  *)
(* the sandbox namespace, the provision requests, and time.                *)
(*                                                                         *)
(* Kubernetes never gives two pods of a ReplicaSet the same name (the name *)
(* carries a random suffix), so an element of Pods is used for one pod     *)
(* only.  A *time.Time of the program is a number of clock ticks, a nil    *)
(* one is NoTime.                                                          *)
(***************************************************************************)
EXTENDS Integers

CONSTANTS
    Pods,       \* names of the sandbox pods
    Requests,   \* provision requests, each arriving at most once
    NoTime,     \* the nil *time.Time
    NoReq       \* "no request"

ASSUME NoTimeAssumption == NoTime \notin Int
ASSUME NoReqAssumption == NoReq \notin Requests

Time == Int \cup {NoTime}

\* t was set, and lies more than `age` ticks before `now`.
OlderThan(t, age, now) == t # NoTime /\ now - t > age
=============================================================================
