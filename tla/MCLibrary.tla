------------------------------- MODULE MCLibrary -------------------------------
(* Instances of the library for TLC: named requests and option sets.           *)
EXTENDS PalmTlsLibrary

CONSTANTS h1, h2, t1, t2

Plain      == [host |-> h1, mode |-> "ca", bytes |-> t1]
OtherHost  == [host |-> h2, mode |-> "ca", bytes |-> t1]
OtherBytes == [host |-> h1, mode |-> "ca", bytes |-> t2]
ExactPeer  == [host |-> h1, mode |-> "peer", bytes |-> t1]
Unverified == [host |-> h1, mode |-> "none", bytes |-> t1]

OneRequest   == {Plain}
AllRequests  == {Plain, OtherHost, OtherBytes, ExactPeer, Unverified}

Profiled      == {{"cooperative", "profile"}, {"cooperative"}}
CacheOptions  == {{"resume", "cooperative"}, {"cooperative"},
                  {"resume", "noreuse"}, {"noreuse"}}

(* A state without the reply: no guard and no property reads the reply of the *)
(* call before, so that states that differ in it alone are one.               *)
StateView == <<openCount, nextSessionId, armStatus, engine, control>>
=============================================================================
