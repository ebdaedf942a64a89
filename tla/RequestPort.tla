----------------------------- MODULE RequestPort -----------------------------
(***************************************************************************)
(* What the driver promises to the upper layer, which calls it through     *)
(* mmcsd_send_request and sleeps until mmcsd_req_complete: one request is  *)
(* with the driver at a time, it is completed exactly once, it is reported *)
(* as good only if the controller did every part of it, and between the    *)
(* completion and the caller's return nothing of it runs any more.         *)
(***************************************************************************)
CONSTANTS
  Reqs,   (* the requests of the upper layer                               *)
  None,   (* no request                                                    *)
  Work,   (* the parts a request may have                                  *)
  Needs   (* the parts each request has                                    *)

VARIABLES
  request,  \* the request the driver has
  served,   \* the parts of it the controller did
  result    \* "none" until the driver completes it

vars == <<request, served, result>>

Init == request = None /\ served = {} /\ result = "none"

\* The upper layer hands a request over.
Submit(m) ==
  /\ request = None
  /\ request' = m
  /\ UNCHANGED <<served, result>>

\* The driver turns it down on the spot.
Refuse(m) ==
  /\ request = None
  /\ request' = m
  /\ result' = "failed"
  /\ UNCHANGED served

\* The controller does a part of it.
Serve(w) ==
  /\ request # None
  /\ result = "none"
  /\ served' = served \cup {w}
  /\ UNCHANGED <<request, result>>

\* The driver completes it.
Complete ==
  /\ request # None
  /\ result = "none"
  /\ result' \in {"failed"} \cup IF Needs[request] \subseteq served
                                 THEN {"good"} ELSE {}
  /\ UNCHANGED <<request, served>>

\* The upper layer takes the result and has the request back.
Take ==
  /\ result # "none"
  /\ request' = None
  /\ served' = {}
  /\ result' = "none"

Next ==
  \/ \E m \in Reqs : Submit(m) \/ Refuse(m)
  \/ \E w \in Work : Serve(w)
  \/ Complete
  \/ Take

Spec == Init /\ [][Next]_vars

=============================================================================
