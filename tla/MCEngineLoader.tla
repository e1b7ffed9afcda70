----------------------------- MODULE MCEngineLoader -----------------------------
(* A packaged engine for TLC: four segments, one too small for a relocation,  *)
(* with long words of every kind, and the relocation resources the loader's   *)
(* own test runs, grouped, unsorted and malformed.                            *)
EXTENDS EngineLoader

CONSTANTS k1, k2, k3

SmallSizes == [s \in Segments |-> IF s = 2 THEN 2 ELSE IF s = 1 THEN 4 ELSE 8]

At(space, s, o) == [space |-> space, segment |-> s, offset |-> o]

(* Banks and elsewhere, and in one word a gap above a bank's window.          *)
SmallImages ==
    [s \in Segments |-> [o \in Longs(s) |->
        IF s = 1 THEN At("linked", 0, 2)
        ELSE IF o = 0 THEN At("linked", (s + 1) % SegmentCount, 1)
        ELSE IF o = 2 THEN At("linked", -1, 0)
        ELSE At("linked", s, IF s = 0 THEN LinkLimit ELSE 0)]]

At2(s, o) == [segment |-> s, offset |-> o]

Resource(version, size, count, entries) ==
    [version |-> version, size |-> size, count |-> count, entries |-> entries]

SmallTables == {
    Resource(1, 4, 0, << >>),
    Resource(1, 22, 3, <<At2(0, 0), At2(1, 0), At2(3, 4)>>),
    Resource(1, 28, 4, <<At2(3, 4), At2(0, 4), At2(3, 0), At2(0, 0)>>),
    Resource(2, 10, 1, <<At2(0, 0)>>),
    Resource(1, 9, 1, <<At2(0, 0)>>),
    Resource(1, 10, 1, <<At2(0, 1)>>),
    Resource(1, 16, 2, <<At2(0, 0), At2(1, 2)>>),
    Resource(1, 10, 1, <<At2(2, 0)>>),
    Resource(1, 16, 2, <<At2(0, 0), At2(4, 0)>>)}
=============================================================================
