--------------------------- MODULE MCSdhciRequest ---------------------------
(***************************************************************************)
(* Instances of SdhciRequest for TLC.  A request is a string that says its *)
(* shape; one request of each shape is enough, since a request that        *)
(* returned may be submitted again.                                        *)
(***************************************************************************)
EXTENDS SdhciRequest

\* every shape
AllReqs == {"plain", "busy", "write", "readStop", "readSbc"}
AllData == {"write", "readStop", "readSbc"}
AllStop == {"readStop", "readSbc"}
AllReads == {"readStop", "readSbc"}

\* subsets of it
BusyAndSbc == {"busy", "readSbc"}
NoStops == {"plain", "busy", "write"}
Busy_ == {"busy"}
Write_ == {"write"}
Sbc_ == {"readSbc"}
Stop_ == {"readStop"}
Empty == {}

\* what may go wrong
AllFaults == {"stall", "remove", "inhibit"}
NoMemory == {"nomem"}
SlowLines == {"stall", "inhibit"}
Stall == {"stall"}

=============================================================================
