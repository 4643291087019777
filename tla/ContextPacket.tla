----------------------------- MODULE ContextPacket -----------------------------
(***************************************************************************)
(* Project context: the references of a request are checked against the    *)
(* manifest (project-context-scope.mjs), and when all of them are in scope *)
(* the files are read one after the other and a packet is made of what     *)
(* they contain (project-context-materializer.mjs), while others go on     *)
(* writing them.  One action per await of loadSource.                      *)
(*                                                                         *)
(* A file is two lines, which readFile reads in two reads and a writer in  *)
(* place may change one at a time.  Every such write gives the file a new  *)
(* stamp, which stands for its size and mtimeNs.  The locator of every     *)
(* source is the heading "title".  An owner is a project in a repository.  *)
(***************************************************************************)
EXTENDS Naturals, Sequences

CONSTANTS Manifests,   \* [owner, capabilities, sources, dependencies], a source being [id, path]
                       \* and a dependency [id, owner, affects, sources]
          Candidates,  \* the references a request may carry: [id, owner, path, dependency]
          None,        \* the dependency of a reference that names none
          MaxRequest,  \* bound: references in a request
          Links,       \* the paths that lead through a symbolic link
          Verified,    \* the owners whose root is their repository's Git root and origin
          Contents,    \* what a file may hold before the request, or be replaced by
          Edits,       \* the lines a writer in place may put into it
          MaxWrites    \* bound: changes of the files while they are read

Lines == {"title", "heading", "text", "fence", "binary"}
Bytes == Lines \X Lines
Paths == {r.path : r \in Candidates}

ASSUME ScopeAssumption ==
    \A m \in Manifests : \A d \in m.dependencies : d.id # None
ASSUME FilesAssumption == Contents \subseteq Bytes /\ Edits \subseteq Lines /\ Links \subseteq Paths
ASSUME BoundsAssumption == MaxRequest \in Nat /\ MaxWrites \in Nat

VARIABLES
    inode,     \* every file there has been at each path: its bytes and its stamp
    name,      \* which of them the path names, 0 when it names none
    manifest,  \* what the project declares
    past,      \* the bytes each path has had since the request began
    writes,    \* how many changes others have made since then
    request,   \* the references asked for
    packPc,    \* the await at which the request stands
    opened,    \* the open file and the stamp its first stat found
    bytes,     \* the lines readFile has read
    selected,  \* what has been read: references with their content
    findings,  \* the references found wanting, each with a code
    packet     \* the result: its status, contents and findings

fileVars   == <<inode, name, past, writes>>
packetVars == <<fileVars, manifest, request, packPc, opened, bytes, selected, findings, packet>>

NoHandle == [file |-> 0, stamp |-> 0]
NoPacket == [status |-> "none", selected |-> <<>>, findings |-> {}]

PacketInit ==
    /\ inode \in [Paths -> {<<>>} \cup {<<[bytes |-> b, stamp |-> 0]>> : b \in Contents}]
    /\ \A p \in Links : inode[p] = <<>>  \* they are never read
    /\ name = [p \in Paths |-> Len(inode[p])]
    /\ past = [p \in Paths |-> {f.bytes : f \in {inode[p][i] : i \in DOMAIN inode[p]}}]
    /\ writes = 0
    /\ manifest \in Manifests
    /\ request = <<>>
    /\ packPc = "idle"
    /\ opened = NoHandle
    /\ bytes = <<>>
    /\ selected = <<>>
    /\ findings = <<>>
    /\ packet = NoPacket

PackGoto(p) == packPc' = p

----------------------------------------------------------------------------
\* validateProjectContextScope.

\* Every source the manifest declares, with the dependency that brings it.
Declarations ==
    {[by |-> None, source |-> s] : s \in manifest.sources}
    \cup UNION {{[by |-> d.id, source |-> s] : s \in d.sources} : d \in manifest.dependencies}

\* validateProjectScopeManifest.
ManifestValid ==
    /\ manifest.capabilities # {} /\ manifest.sources # {}
    /\ \A d, e \in manifest.dependencies : d.id = e.id => d = e
    /\ \A d \in manifest.dependencies :
          /\ d.owner # manifest.owner /\ d.sources # {}
          /\ d.affects # {} /\ d.affects \subseteq manifest.capabilities
    /\ \A x, y \in Declarations : x.source.id = y.source.id => x = y

Finding(code, r) == [code |-> code, reference |-> r]
Among(r, sources) == [id |-> r.id, path |-> r.path] \in sources

PrimaryCode(r) ==
    CASE r.dependency # None -> "PRIMARY_SOURCE_HAS_DEPENDENCY_ID"
      [] r.dependency = None /\ Among(r, manifest.sources) -> "none"
      [] OTHER -> "UNREGISTERED_PRIMARY_SOURCE"

\* Mutant of DependencyCode: the owner of the dependency is not compared.
DependencyCode_AnyOwner(r) ==
    LET named == {d \in manifest.dependencies : d.id = r.dependency} IN
    IF named = {} THEN "UNDECLARED_PROJECT_DEPENDENCY"
    ELSE IF \E d \in named : Among(r, d.sources) THEN "none" ELSE "UNREGISTERED_DEPENDENCY_SOURCE"

DependencyCode(r) ==
    LET named == {d \in manifest.dependencies : d.id = r.dependency} IN
    IF named = {} THEN "UNDECLARED_PROJECT_DEPENDENCY"
    ELSE IF \A d \in named : r.owner # d.owner THEN "DEPENDENCY_OWNER_MISMATCH"
    ELSE IF \E d \in named : Among(r, d.sources) THEN "none" ELSE "UNREGISTERED_DEPENDENCY_SOURCE"

\* The one finding about the reference at i, if any.
ScopeCode(req, i) ==
    IF \E j \in 1..(i - 1) : req[j].id = req[i].id THEN "DUPLICATE_CONTEXT_SOURCE"
    ELSE IF req[i].owner = manifest.owner THEN PrimaryCode(req[i]) ELSE DependencyCode(req[i])

ScopeFindings(req) ==
    {Finding(ScopeCode(req, i), req[i]) : i \in {j \in DOMAIN req : ScopeCode(req, j) # "none"}}

\* extractHeading: a line inside a fence is no heading, the heading asked for
\* must be there once, and its section ends at the next one.
Visible(b)   == {i \in DOMAIN b : /\ b[i] \in {"title", "heading"}
                                  /\ \A j \in 1..(i - 1) : b[j] # "fence"}
Titles(b)    == {i \in Visible(b) : b[i] = "title"}
SectionAt(b, i) ==
    LET later == {j \in Visible(b) : j > i}
    IN  SubSeq(b, i, IF later = {} THEN Len(b) ELSE (CHOOSE j \in later : \A k \in later : j <= k) - 1)
\* The error of decoding the bytes or locating the section, and the section.
TextCode(b) == IF \E i \in DOMAIN b : b[i] = "binary" THEN "SOURCE_NOT_TEXT"
               ELSE IF Titles(b) = {} THEN "LOCATOR_NOT_FOUND"
               ELSE IF \E i, j \in Titles(b) : i # j THEN "LOCATOR_AMBIGUOUS" ELSE "none"
Section(b)  == SectionAt(b, CHOOSE i \in Titles(b) : TRUE)

\* packet and verifyProjectContextPacket: a blocked one releases nothing.  The
\* order of its findings is left out.
Packet(chosen, found) ==
    [status   |-> IF found = {} THEN "READY" ELSE "BLOCKED",
     selected |-> IF found = {} THEN chosen ELSE <<>>,
     findings |-> found]

----------------------------------------------------------------------------
\* normalizeRoots: a root for each owner asked for and for no other, each the
\* Git root and the origin it is given as.
RootsAccepted(req, roots) == roots = {req[i].owner : i \in DOMAIN req} /\ roots \subseteq Verified

\* materializeProjectContext with the roots of some owners.  A manifest or
\* roots that are refused reject; packets of a request that is out of scope,
\* or that is for nothing, take no reading.
Materialize(req, roots) ==
    /\ packPc = "idle"
    /\ request' = req
    /\ \/ ~ManifestValid /\ UNCHANGED packet /\ PackGoto("done")
       \/ /\ ManifestValid /\ (req = <<>> \/ ScopeFindings(req) # {})
          /\ packet' = Packet(<<>>, ScopeFindings(req))
          /\ PackGoto("done")
       \/ /\ ManifestValid /\ req # <<>> /\ ScopeFindings(req) = {}
          /\ PackGoto(IF RootsAccepted(req, roots) THEN "walk" ELSE "done")
          /\ UNCHANGED packet
    /\ UNCHANGED <<fileVars, manifest, opened, bytes, selected, findings>>

Reading   == Len(selected) + Len(findings) + 1
Reference == request[Reading]
File      == Reference.path
Named     == inode[File][name[File]]

\* The source being read is done with, and after the last one the request is.
Conclude(chosen, found) ==
    /\ opened' = NoHandle
    /\ bytes' = <<>>
    /\ selected' = chosen
    /\ findings' = found
    /\ IF Reading < Len(request)
       THEN PackGoto("walk") /\ UNCHANGED packet
       ELSE PackGoto("done") /\ packet' = Packet(chosen, {found[i] : i \in DOMAIN found})
    /\ UNCHANGED <<fileVars, manifest, request>>

FailSource(code) == Conclude(selected, Append(findings, Finding(code, Reference)))

\* The file's path is walked and resolved.
Walk ==
    /\ packPc = "walk"
    /\ IF File \in Links THEN FailSource("SOURCE_SYMLINK_BLOCKED")
       ELSE IF name[File] = 0 THEN FailSource("SOURCE_UNAVAILABLE")
       ELSE PackGoto("open") /\ UNCHANGED <<fileVars, manifest, request, opened, bytes, selected, findings, packet>>

OpenSource ==
    /\ packPc = "open"
    /\ IF name[File] = 0 THEN FailSource("ENOENT")
       ELSE /\ opened' = [file |-> name[File], stamp |-> 0]
            /\ PackGoto("stat")
            /\ UNCHANGED <<fileVars, manifest, request, bytes, selected, findings, packet>>

StatHandle ==
    /\ packPc = "stat"
    /\ opened' = [opened EXCEPT !.stamp = inode[File][opened.file].stamp]
    /\ PackGoto("identify")
    /\ UNCHANGED <<fileVars, manifest, request, bytes, selected, findings, packet>>

\* The path still names the file that is open.
Identify ==
    /\ packPc = "identify"
    /\ IF name[File] = 0 THEN FailSource("ENOENT")
       ELSE IF name[File] # opened.file THEN FailSource("SOURCE_CHANGED_DURING_READ")
       ELSE PackGoto("read") /\ UNCHANGED <<fileVars, manifest, request, opened, bytes, selected, findings, packet>>

\* Mutant of ReadLine: the buffer of the source before is kept.
ReadLine_Restarts ==
    /\ packPc = "read"
    /\ bytes' = Append(bytes, inode[File][opened.file].bytes[1])
    /\ PackGoto(IF Len(bytes) = 0 THEN "read" ELSE "past the end")
    /\ UNCHANGED <<fileVars, manifest, request, opened, selected, findings, packet>>

\* readFile, one line at a time.
ReadLine ==
    /\ packPc = "read"
    /\ bytes' = Append(bytes, inode[File][opened.file].bytes[Len(bytes) + 1])
    /\ PackGoto(IF Len(bytes) = 0 THEN "read" ELSE "restat")
    /\ UNCHANGED <<fileVars, manifest, request, opened, selected, findings, packet>>

\* Mutant of RestatHandle: a change of the open file is not noticed.
RestatHandle_Skipped ==
    /\ packPc = "restat"
    /\ opened' = [opened EXCEPT !.stamp = inode[File][opened.file].stamp]
    /\ PackGoto("reidentify")
    /\ UNCHANGED <<fileVars, manifest, request, bytes, selected, findings, packet>>

\* Its stamp is what it was before the reading.
RestatHandle ==
    /\ packPc = "restat"
    /\ IF inode[File][opened.file].stamp # opened.stamp THEN FailSource("SOURCE_CHANGED_DURING_READ")
       ELSE PackGoto("reidentify") /\ UNCHANGED <<fileVars, manifest, request, opened, bytes, selected, findings, packet>>

\* So is the path's; then what was read is decoded and its section selected.
Reidentify ==
    /\ packPc = "reidentify"
    /\ IF name[File] = 0 THEN FailSource("ENOENT")
       ELSE IF name[File] # opened.file \/ Named.stamp # opened.stamp THEN FailSource("SOURCE_CHANGED_DURING_READ")
       ELSE IF TextCode(bytes) # "none" THEN FailSource(TextCode(bytes))
       ELSE Conclude(Append(selected, [reference |-> Reference, content |-> Section(bytes)]), findings)

\* Others change a file that is asked for: one of its lines, in place; the
\* whole of it, by another file; or they remove it.
Write(p) ==
    /\ packPc \notin {"idle", "done"}
    /\ p \notin Links /\ \E i \in DOMAIN request : request[i].path = p
    /\ writes < MaxWrites
    /\ writes' = writes + 1
    /\ \/ /\ name[p] # 0
          /\ \E i \in 1..2, l \in Edits :
                LET new == [inode[p][name[p]].bytes EXCEPT ![i] = l] IN
                /\ inode' = [inode EXCEPT ![p][name[p]] = [bytes |-> new, stamp |-> writes']]
                /\ past' = [past EXCEPT ![p] = @ \cup {new}]
          /\ UNCHANGED name
       \/ \E b \in Contents :
                /\ inode' = [inode EXCEPT ![p] = Append(@, [bytes |-> b, stamp |-> writes'])]
                /\ past' = [past EXCEPT ![p] = @ \cup {b}]
                /\ name' = [name EXCEPT ![p] = Len(inode[p]) + 1]
       \/ name[p] # 0 /\ name' = [name EXCEPT ![p] = 0] /\ UNCHANGED <<inode, past>>
    /\ UNCHANGED <<manifest, request, packPc, opened, bytes, selected, findings, packet>>

Requests == UNION {[1..n -> Candidates] : n \in 0..MaxRequest}

PacketNext ==
    \/ \E req \in Requests, roots \in SUBSET {r.owner : r \in Candidates} : Materialize(req, roots)
    \/ Walk \/ OpenSource \/ StatHandle \/ Identify \/ ReadLine \/ RestatHandle \/ Reidentify
    \/ \E p \in Paths : Write(p)

PacketSpec == PacketInit /\ [][PacketNext]_packetVars

----------------------------------------------------------------------------
\* What loadSource may find wrong with a source.
SourceCodes ==
    {"SOURCE_SYMLINK_BLOCKED", "SOURCE_UNAVAILABLE", "ENOENT", "SOURCE_CHANGED_DURING_READ",
     "SOURCE_NOT_TEXT", "LOCATOR_NOT_FOUND", "LOCATOR_AMBIGUOUS"}
PacketTypeOK ==
    /\ inode \in [Paths -> Seq([bytes : Bytes, stamp : 0..MaxWrites])]
    /\ name \in [Paths -> Nat] /\ \A p \in Paths : name[p] <= Len(inode[p])
    /\ past \in [Paths -> SUBSET Bytes]
    /\ writes \in 0..MaxWrites
    /\ manifest \in Manifests
    /\ request \in Requests
    /\ packPc \in {"idle", "walk", "open", "stat", "identify", "read", "restat", "reidentify", "done"}
    /\ opened \in [file : Nat, stamp : 0..MaxWrites]
    /\ bytes \in Seq(Lines)
    /\ selected \in Seq([reference : Candidates, content : Seq(Lines)])
    /\ findings \in Seq([code : SourceCodes, reference : Candidates])
    /\ packet.status \in {"none", "READY", "BLOCKED"}

\* A source of the manifest, named with its owner and by the right dependency.
Declared(r) ==
    \/ r.owner = manifest.owner /\ r.dependency = None /\ [id |-> r.id, path |-> r.path] \in manifest.sources
    \/ \E d \in manifest.dependencies : /\ r.dependency = d.id /\ r.owner = d.owner
                                         /\ [id |-> r.id, path |-> r.path] \in d.sources

\* What a blocked packet is blocked for while nobody else writes.
CauseToBlock ==
    \/ \E i, j \in DOMAIN request : i # j /\ request[i].id = request[j].id
    \/ \E i \in DOMAIN request :
          \/ ~Declared(request[i])
          \/ request[i].path \in Links
          \/ name[request[i].path] = 0
          \/ TextCode(inode[request[i].path][name[request[i].path]].bytes) # "none"

\* README.md: changed-during-read files block the whole packet and no partial
\* content is released.  A packet that is ready has every source asked for,
\* each declared by the manifest and nothing else by its id (by which alone the
\* purpose of a source is looked up), with a section that its file had at one
\* instant of the request, whatever others wrote; a blocked one has none, for a
\* reason: while nobody writes, a request of distinct sources, all declared
\* and each with one readable section, is ready.
PacketSound ==
    /\ packet.status = "READY" =>
           /\ [i \in DOMAIN packet.selected |-> packet.selected[i].reference] = request
           /\ \A i \in DOMAIN request :
                 /\ Declared(request[i])
                 /\ \A x \in Declarations : x.source.id = request[i].id =>
                       x.by = request[i].dependency /\ x.source.path = request[i].path
                 /\ request[i].path \notin Links
                 /\ \E b \in past[request[i].path] :
                       TextCode(b) = "none" /\ packet.selected[i].content = Section(b)
    /\ packet.status = "BLOCKED" =>
           /\ packet.selected = <<>> /\ packet.findings # {}
           /\ writes = 0 => CauseToBlock
==============================================================================
