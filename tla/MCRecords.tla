------------------------------- MODULE MCRecords -------------------------------
(* Four kinds of records that are read, checked and then used: each         *)
(* behaviour is one part's, so that their states add up and do not multiply. *)
EXTENDS SharedMemory, Heartbeats, ContextPacket, Handoff

Source(i, p)         == [id |-> i, path |-> p]
Candidate(i, o, p, d) == [id |-> i, owner |-> o, path |-> p, dependency |-> d]

Library == [id |-> "lib", owner |-> "library", affects |-> {"plan"}, sources |-> {Source("b", "q"), Source("c", "link")}]
Project(sources, deps) == [owner |-> "self", capabilities |-> {"plan"}, sources |-> sources, dependencies |-> deps]
OwnSources == {Source("a", "p"), Source("d", "p")}

\* A good manifest, and one for each way of not being so.
SomeManifests ==
    {Project(OwnSources, {Library}), Project({}, {Library}),
     Project(OwnSources \cup {Source("b", "p")}, {Library}),
     Project(OwnSources, {Library, [Library EXCEPT !.sources = {Source("e", "q")}]})}
    \cup {Project(OwnSources, {l}) : l \in {[Library EXCEPT !.owner = "self"], [Library EXCEPT !.sources = {}],
                                            [Library EXCEPT !.affects = {}], [Library EXCEPT !.affects = {"sing"}]}}

\* Four that are declared, and one for each way of not being so.
SomeCandidates ==
    {Candidate("a", "self", "p", "none"), Candidate("d", "self", "p", "none"),
     Candidate("b", "library", "q", "lib"), Candidate("c", "library", "link", "lib"),
     Candidate("a", "self", "p", "lib"), Candidate("a", "self", "q", "none"),
     Candidate("b", "library", "q", "none"), Candidate("b", "other", "q", "lib"),
     Candidate("b", "library", "p", "lib")}

SomeContents == {<<"title", "text">>, <<"heading", "title">>}

VARIABLE part

recordsVars == <<part, memVars, beatVars, packetVars, handoffVars>>

RecordsInit ==
    /\ part \in {"memory", "heartbeats", "context", "handoff"}
    /\ MemInit /\ BeatInit
    /\ PacketInit
    /\ HandoffInit
    /\ part # "context" => manifest = Project(OwnSources, {Library}) /\ \A p \in Paths : inode[p] = <<>>

RecordsNext ==
    /\ UNCHANGED part
    /\ \/ part = "memory" /\ MemNext /\ UNCHANGED <<beatVars, packetVars, handoffVars>>
       \/ part = "heartbeats" /\ BeatNext /\ UNCHANGED <<memVars, packetVars, handoffVars>>
       \/ part = "context" /\ PacketNext /\ UNCHANGED <<memVars, beatVars, handoffVars>>
       \/ part = "handoff" /\ HandoffNext /\ UNCHANGED <<memVars, beatVars, packetVars>>

RecordsSpec == RecordsInit /\ [][RecordsNext]_recordsVars

\* Every part's variables hold what they should.
RecordsTypeOK == MemTypeOK /\ BeatTypeOK /\ PacketTypeOK /\ HandoffTypeOK
==============================================================================
