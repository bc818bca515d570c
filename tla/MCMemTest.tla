------------------------------ MODULE MCMemTest ------------------------------
(* An instance of MemTest: a memory of three chunks of two words. *)
EXTENDS MemTest

Straight == [a \in Addrs |-> a]
NoneStuck == [a \in {} |-> NoWord]

Sound == [cellOf |-> Straight, stuck |-> NoneStuck]

\* One word stuck at a value, or two addresses on one cell.
StuckAt(a, w) == [cellOf |-> Straight, stuck |-> [x \in {a} |-> w]]
Shared(a, b) == [cellOf |-> [Straight EXCEPT ![a] = b], stuck |-> NoneStuck]

AllFaults ==
  {StuckAt(a, Word(n, pat)) : a \in Addrs, n \in 0..AddrMod, pat \in {"PAT", "ANTI"}}
    \cup {Shared(a, b) : a \in Addrs, b \in Addrs}

SoundOnly == {Sound}
SoundAndFaulty == {Sound} \cup AllFaults
FewFaults == {Sound, StuckAt(1, NoWord), StuckAt(2, Word(1, "PAT"))}
FaultAtEnd == {StuckAt(MEM_END_ADDR, NoWord)}

OkayOnly == {{"okay"}}
OkayOrSlvErr == {{"okay"}, {"slverr"}}
AnyGarbage == {{}, {"slverr"}}
=============================================================================
