-------------------------- MODULE TlsSessionService --------------------------
(***************************************************************************)
(* What the library promises its callers (library/API.md, "Incremental      *)
(* sessions"), without slots, caches or an engine: a few numbered sessions  *)
(* of one protocol, opened under fresh IDs, each ended by its owner, or all *)
(* at once by a purge.                                                      *)
(***************************************************************************)
EXTENDS Integers, FiniteSets

CONSTANTS MaxSessions, SessionIds, Protocols

VARIABLE sessions

Phases == {"opening", "active"}

SessionsOK ==
    /\ sessions \subseteq [id: SessionIds, phase: Phases, protocol: Protocols]
    /\ Cardinality(sessions) <= MaxSessions
    /\ \A x, y \in sessions : /\ x.id = y.id => x = y
                              /\ x.protocol = y.protocol

Init == sessions = {}

Open(id, phase, protocol) ==
    /\ id \in SessionIds /\ phase \in Phases /\ protocol \in Protocols
    /\ \A x \in sessions : x.id # id /\ x.protocol = protocol
    /\ Cardinality(sessions) < MaxSessions
    /\ sessions' = sessions \cup
                   {[id |-> id, phase |-> phase, protocol |-> protocol]}

Establish(x) ==
    /\ x.phase = "opening"
    /\ sessions' = (sessions \ {x}) \cup {[x EXCEPT !.phase = "active"]}

End(x) == sessions' = sessions \ {x}

EndAll == sessions' = {}

Next ==
    \/ \E id \in SessionIds, phase \in Phases, protocol \in Protocols :
        Open(id, phase, protocol)
    \/ \E x \in sessions : Establish(x) \/ End(x)
    \/ EndAll

Spec == Init /\ [][Next]_sessions
=============================================================================
