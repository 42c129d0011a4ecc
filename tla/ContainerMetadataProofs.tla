------------------------ MODULE ContainerMetadataProofs ------------------------
(***************************************************************************)
(* GetContainerMetadata answers for the process it is asked about, for any *)
(* processes, containers, pods, clients and sizes of the caches.  A cached *)
(* container ID belongs to the inode of a cgroup file, which no other file *)
(* ever has, and cached metadata carries the identifier it is found under. *)
(***************************************************************************)
EXTENDS ContainerMetadata, TLAPS, WellFoundedInduction

\* What is found in the cgroup file of a process, by its container.
Contents == [c \in Container |-> ExtractFile(LinesOf(c))]
Extracted == {Undefined} \cup {Contents[c] : c \in Container}
IDEntry == [key : Nat, val : Extracted]

\* The metadata that are cached, each under its own identifier.
Known == {PodMetadata(pod, s) : pod \in Pods, s \in Statuses}
           \cup {Metadata(l.id, NoContainer, <<"name">> \o l.id) : l \in {l \in Lines : "docker" \in l.matches}}
MetadataEntry == {[key |-> m.id, val |-> m] : m \in Known}

ProcessTypes ==
  /\ inodes \in Nat
  /\ \A p \in DOMAIN procs : procs[p] \in [inode : Nat, container : Container] /\ procs[p].inode <= inodes
  /\ \A p, q \in DOMAIN procs : procs[p].inode = procs[q].inode => p = q
CacheTypes ==
  /\ containerIDCache \in Seq(IDEntry)
  /\ \A i \in DOMAIN containerIDCache : containerIDCache[i].key <= inodes
  /\ containerMetadataCache \in Seq(MetadataEntry)
  /\ putting \in Seq([pod : Pods, status : Statuses])
CallTypes ==
  /\ during \subseteq Container
  /\ call.at = "read" => /\ call.file \in Nat /\ call.file <= inodes
                         /\ \A q \in DOMAIN procs : procs[q].inode = call.file => q = call.pid
  /\ call.at \in {"fetch", "query"} =>
       /\ call = [at |-> call.at, pid |-> call.pid, entry |-> call.entry]
       /\ call.entry \in Extracted \ {Undefined}
  /\ call.at = "query" => call.entry.env \cap Clients # {}

\* A cgroup file that is cached is that of the process which has it.
CacheIsRight ==
  moved = {} =>
    \A i \in DOMAIN containerIDCache : \A p \in DOMAIN procs :
      containerIDCache[i].key = procs[p].inode => containerIDCache[i].val = Contents[procs[p].container]

\* A call works with the container of a process that had the PID meanwhile.
CallIsRight ==
  moved = {} =>
    /\ call.at # "none" /\ call.pid \in DOMAIN procs => procs[call.pid].container \in during
    /\ call.at \in {"fetch", "query"} => \E c \in during : call.entry = Contents[c]

ContainerInv ==
  ProcessTypes /\ CacheTypes /\ CallTypes /\ CacheIsRight /\ CallIsRight /\ MetadataMatchesProcess

----------------------------------------------------------------------------
\* What Get and Peek find in an LRU cache, and what Get and Add leave there.
LEMMA RemoveLeaves ==
  ASSUME NEW E, NEW cache \in Seq(E), NEW k
  PROVE  /\ LRU!Remove(cache, k) \in Seq(E)
         /\ \A i \in DOMAIN LRU!Remove(cache, k) : \E j \in DOMAIN cache : LRU!Remove(cache, k)[i] = cache[j]
<1> DEFINE r == LRU!Remove(cache, k)
<1>1. CASE k \notin LRU!Keys(cache)
  BY <1>1, Zenon DEF LRU!Remove
<1>2. CASE k \in LRU!Keys(cache)
  <2>1. r = [i \in 1..Len(cache) - 1 |-> cache[IF i < LRU!Position(cache, k) THEN i ELSE i + 1]]
    BY <1>2, Zenon DEF LRU!Remove
  <2>2. Len(cache) \in Nat \ {0} /\ DOMAIN cache = 1..Len(cache)
    BY <1>2 DEF LRU!Keys
  <2>3. \A i \in 1..Len(cache) - 1 : (IF i < LRU!Position(cache,
  k) THEN i ELSE i + 1) \in DOMAIN cache
    BY <2>2
  <2> HIDE DEF r
  <2>4. \A i \in DOMAIN r : i \in 1..Len(cache) - 1 /\ \E j \in DOMAIN cache : r[i] = cache[j]
    BY <2>1, <2>3, Zenon
  <2>5. \A j \in DOMAIN cache : cache[j] \in E
    OBVIOUS
  <2>6. r \in Seq(E)
    BY <2>1, <2>2, <2>4, <2>5
  <2> QED
    BY <2>4, <2>6, Zenon DEF r
<1> QED
  BY <1>1, <1>2, Zenon

LEMMA AddLeaves ==
  ASSUME NEW E, NEW cache \in Seq(E), NEW size \in Nat, NEW k, NEW v, [key |-> k, val |-> v] \in E
  PROVE  LRU!Add(cache, size, k, v) \in Seq(E)
<1> DEFINE added == Append(LRU!Remove(cache, k), [key |-> k, val |-> v])
<1>1. added \in Seq(E)
  BY RemoveLeaves
<1>2. LRU!Add(cache, size, k, v) = IF Len(added) > size THEN Tail(added) ELSE added
  BY Zenon DEF LRU!Add
<1> HIDE DEF added
<1>3. Len(added) > size => Tail(added) \in Seq(E)
  BY <1>1
<1> QED
  BY <1>1, <1>2, <1>3, Zenon

LEMMA GetLeaves ==
  ASSUME NEW E, \A x \in E : x = [key |-> x.key, val |-> x.val], NEW cache \in Seq(E), NEW k
  PROVE  /\ LRU!Get(cache, k) \in Seq(E)
         /\ \A i \in DOMAIN LRU!Get(cache, k) : \E j \in DOMAIN cache : LRU!Get(cache, k)[i] = cache[j]
         /\ k \in LRU!Keys(cache) => \E j \in DOMAIN cache : cache[j] = [key |-> k, val |-> LRU!Peek(cache, k)]
<1>1. CASE k \notin LRU!Keys(cache)
  BY <1>1, Zenon DEF LRU!Get
<1>2. CASE k \in LRU!Keys(cache)
  <2> DEFINE r == LRU!Remove(cache, k)
             n == [key |-> k, val |-> LRU!Peek(cache, k)]
             j == LRU!Position(cache, k)
  <2>1. r \in Seq(E) /\ \A i \in DOMAIN r : \E l \in DOMAIN cache : r[i] = cache[l]
    BY RemoveLeaves
  <2>2. j \in DOMAIN cache /\ cache[j].key = k
    BY <1>2, Zenon DEF LRU!Position, LRU!Keys
  <2>3. cache[j] = n /\ n \in E
    <3>1. cache[j] \in E
      BY <2>2
    <3> QED
      BY <2>2, <3>1, Zenon DEF LRU!Peek
  <2>4. LRU!Get(cache, k) = Append(r, n)
    BY <1>2, Zenon DEF LRU!Get
  <2> HIDE DEF r, n
  <2>5. /\ Append(r, n) \in Seq(E)
        /\ \A i \in DOMAIN Append(r, n) : \E l \in DOMAIN cache : Append(r, n)[i] = cache[l]
    BY <2>1, <2>2, <2>3
  <2> QED
    BY <2>2, <2>3, <2>4, <2>5, Zenon DEF n
<1> QED
  BY <1>1, <1>2, Zenon

\* A set of indices has a first one.
LEMMA LeastIn ==
  ASSUME NEW S, S \subseteq Nat, S # {}
  PROVE  Least(S) \in S
<1>1. PICK i \in S : \A j \in S : <<j, i>> \notin OpToRel(<, Nat)
  BY NatLessThanWellFounded, WFMin, Zenon
<1>2. ASSUME NEW j \in S
      PROVE  i <= j
  <2>1. ~(j < i)
    <3> SUFFICES ASSUME j < i
                 PROVE  FALSE
      BY Zenon
    <3>1. <<j, i>> \in {ss \in Nat \X Nat : ss[1] < ss[2]}
      BY Zenon
    <3> QED
      BY <1>1, <3>1, Zenon DEF OpToRel
  <2> QED
    BY <2>1
<1> QED
  BY <1>2, Zenon DEF Least

Environments ==
  {{"kubernetes", "docker"}, {"kubernetes"}, {"docker"}, {"buildkit"}, {"containerd"}, {"lxc"}}

\* What a cgroup file is found to say stands in one of its lines.
LEMMA ContentsAreALine ==
  ASSUME NEW c \in Container, Contents[c] # Undefined
  PROVE  /\ Contents[c].env \in Environments
         /\ \E line \in Elements(LinesOf(c)) :
              \/ Contents[c].env = {"containerd"} /\ "containerd" \in line.matches /\ Contents[c].id = line.path
              \/ Contents[c].env # {"containerd"} /\ Contents[c].id = line.id
                   /\ (Contents[c].env = {"docker"} => "docker" \in line.matches)
<1> DEFINE lines == LinesOf(c)
           found == {i \in DOMAIN lines : ExtractLine(lines[i]) # Undefined}
<1>1. found # {} /\ Contents[c] = ExtractLine(lines[Least(found)])
  BY Zenon DEF Contents, ExtractFile
<1>2. found \subseteq Nat
  BY ContainerAssumption
<1>3. Least(found) \in found
  BY <1>1, <1>2, LeastIn, Zenon
<1>4. PICK line \in Elements(lines) : Contents[c] = ExtractLine(line)
  BY <1>1, <1>3, Zenon DEF Elements
<1> DEFINE hits == {i \in DOMAIN Patterns : /\ Patterns[i].client \in clients \cup {"any"}
                                            /\ Patterns[i].match \in line.matches}
<1>5. hits # {} /\ Contents[c] = [env |-> Patterns[Least(hits)].env,
                               id |-> IF Patterns[Least(hits)].match = "containerd" THEN line.path ELSE line.id]
  BY <1>4, Zenon DEF ExtractLine
<1>6. DOMAIN Patterns = 1..8
  BY DEF Patterns
<1>7. hits \subseteq Nat
  BY <1>6
<1>8. PICK i \in hits : i = Least(hits)
  BY <1>5, <1>7, LeastIn, Zenon
<1>9. i \in 1..8 /\ Patterns[i].match \in line.matches
  BY <1>6, <1>8, Zenon
<1>10. /\ Patterns[i].env \in Environments
       /\ Patterns[i].env = {"containerd"} <=> Patterns[i].match = "containerd"
       /\ Patterns[i].env = {"docker"} <=> Patterns[i].match = "docker"
  BY <1>9 DEF Patterns, Environments
<1>11. Contents[c] = [env |-> Patterns[i].env,
                   id |-> IF Patterns[i].match = "containerd" THEN line.path ELSE line.id]
  BY <1>5, <1>8, Zenon
<1>12. Contents[c].env = Patterns[i].env
  BY <1>11
<1>13. Contents[c].id = IF Patterns[i].match = "containerd" THEN line.path ELSE line.id
  BY <1>11
<1> QED
  BY <1>9, <1>10, <1>12, <1>13, Zenon

----------------------------------------------------------------------------
\* What the proofs below know of the clients is that they stay the same.
LEMMA ContentsStay ==
  ASSUME clients' = clients
  PROVE  Contents' = Contents /\ Extracted' = Extracted /\ IDEntry' = IDEntry
<1>1. Contents' = Contents
  BY DEF Contents, ExtractFile, ExtractLine
<1>2. Extracted' = Extracted
  BY <1>1, Zenon DEF Extracted, Undefined
<1> QED
  BY <1>1, <1>2, ZenonT(40) DEF IDEntry

LEMMA StartProcessKeeps ==
  ASSUME ContainerInv, NEW p \in ContainerPid, NEW c \in Container, StartProcess(p, c)
  PROVE  ContainerInv'
<1>1. Contents' = Contents /\ Extracted' = Extracted /\ IDEntry' = IDEntry
  BY ContentsStay, Zenon DEF StartProcess
<1>2. /\ inodes' = inodes + 1 /\ DOMAIN procs' = DOMAIN procs \cup {p}
      /\ procs'[p] = [inode |-> inodes + 1, container |-> c]
      /\ \A q \in DOMAIN procs : q # p /\ procs'[q] = procs[q]
  BY Zenon DEF StartProcess, Running
<1>3. /\ UNCHANGED <<moved, containerIDCache, containerMetadataCache, call, putting>>
      /\ during' = IF call.at # "none" /\ call.pid = p THEN during \cup {c} ELSE during
  BY Zenon DEF StartProcess
<1>4. ProcessTypes'
  BY <1>2 DEF ContainerInv, ProcessTypes
<1>5. CacheTypes'
  <2>1. \A i \in DOMAIN containerIDCache : containerIDCache[i].key \in Nat
    <3>1. \A i \in DOMAIN containerIDCache : containerIDCache[i] \in IDEntry
      BY DEF ContainerInv, CacheTypes
    <3> QED
      BY <3>1, Zenon DEF IDEntry
  <2> QED
    BY <1>1, <1>2, <1>3, <2>1 DEF ContainerInv, CacheTypes, ProcessTypes
<1>6. CallTypes'
  BY <1>1, <1>2, <1>3 DEF ContainerInv, CallTypes, ProcessTypes
<1>7. CacheIsRight'
  BY <1>1, <1>2, <1>3 DEF ContainerInv, CacheIsRight, CacheTypes, ProcessTypes, IDEntry
<1>8. CallIsRight'
  BY <1>1, <1>2, <1>3 DEF ContainerInv, CallIsRight
<1>9. MetadataMatchesProcess'
  BY <1>3, Zenon DEF ContainerInv, MetadataMatchesProcess
<1> QED
  BY <1>4, <1>5, <1>6, <1>7, <1>8, <1>9, Zenon DEF ContainerInv

LEMMA ExitProcessKeeps ==
  ASSUME ContainerInv, NEW p \in ContainerPid, ExitProcess(p)
  PROVE  ContainerInv'
<1>1. Contents' = Contents /\ Extracted' = Extracted /\ IDEntry' = IDEntry
  BY ContentsStay, Zenon DEF ExitProcess
<1>2. DOMAIN procs' \subseteq DOMAIN procs /\ \A q \in DOMAIN procs' : procs'[q] = procs[q]
  BY Zenon DEF ExitProcess
<1>3. UNCHANGED <<inodes, moved, containerIDCache, containerMetadataCache, call, putting, during>>
  BY Zenon DEF ExitProcess
<1>4. ProcessTypes' /\ CacheTypes'
  BY <1>1, <1>2, <1>3, Zenon DEF ContainerInv, ProcessTypes, CacheTypes
<1>5. CallTypes'
  BY <1>1, <1>2, <1>3, Zenon DEF ContainerInv, CallTypes
<1>6. CacheIsRight' /\ CallIsRight' /\ MetadataMatchesProcess'
  BY <1>1, <1>2, <1>3 DEF ContainerInv, CacheIsRight, CallIsRight, MetadataMatchesProcess
<1> QED
  BY <1>4, <1>5, <1>6, Zenon DEF ContainerInv

LEMMA MoveProcessKeeps ==
  ASSUME ContainerInv, NEW p \in ContainerPid, NEW c \in Container, MoveProcess(p, c)
  PROVE  ContainerInv'
<1>1. Contents' = Contents /\ Extracted' = Extracted /\ IDEntry' = IDEntry
  BY ContentsStay, Zenon DEF MoveProcess
<1>2. /\ DOMAIN procs' = DOMAIN procs /\ p \in DOMAIN procs
      /\ \A q \in DOMAIN procs : procs'[q] = IF q = p THEN [procs[q] EXCEPT !.container = c] ELSE procs[q]
  BY Zenon DEF MoveProcess, Running
<1>3. UNCHANGED <<inodes, containerIDCache, containerMetadataCache, call, putting, during>> /\ moved' # {}
  BY Zenon DEF MoveProcess
<1>4. /\ \A q \in DOMAIN procs : procs'[q].inode = procs[q].inode
      /\ \A q \in DOMAIN procs : procs'[q] \in [inode : Nat, container : Container]
  BY <1>2, Zenon DEF ContainerInv, ProcessTypes
<1>5. ProcessTypes'
  BY <1>2, <1>3, <1>4, Zenon DEF ContainerInv, ProcessTypes
<1>6. CacheTypes' /\ CallTypes'
  BY <1>1, <1>2, <1>3, <1>4, Zenon DEF ContainerInv, CacheTypes, CallTypes
<1>7. CacheIsRight' /\ CallIsRight' /\ MetadataMatchesProcess'
  BY <1>3, Zenon DEF CacheIsRight, CallIsRight, MetadataMatchesProcess
<1> QED
  BY <1>5, <1>6, <1>7, Zenon DEF ContainerInv

LEMMA PutCacheKeeps ==
  ASSUME ContainerInv, NEW pod \in Pods, PutCache(pod)
  PROVE  ContainerInv'
<1>1. Contents' = Contents /\ Extracted' = Extracted /\ IDEntry' = IDEntry
  BY ContentsStay, Zenon DEF PutCache
<1>2. UNCHANGED <<procs, inodes, moved, containerIDCache, containerMetadataCache, call, during>>
  BY Zenon DEF PutCache
<1>3. putting' \in Seq([pod : Pods, status : Statuses])
  <2>1. pod.containers \in Seq(Statuses)
    BY ContainerAssumption, Zenon
  <2>2. \A i \in DOMAIN pod.containers : pod.containers[i] \in Statuses
    BY <2>1
  <2>3. putting' = [i \in 1..Len(pod.containers) |-> [pod |-> pod, status |-> pod.containers[i]]]
    BY <2>1 DEF PutCache
  <2> QED
    BY <2>1, <2>2, <2>3
<1>4. ProcessTypes' /\ CacheTypes' /\ CallTypes'
  BY <1>1, <1>2, <1>3, Zenon DEF ContainerInv, ProcessTypes, CacheTypes, CallTypes
<1>5. CacheIsRight' /\ CallIsRight' /\ MetadataMatchesProcess'
  BY <1>1, <1>2, Zenon DEF ContainerInv, CacheIsRight, CallIsRight, MetadataMatchesProcess
<1> QED
  BY <1>4, <1>5, Zenon DEF ContainerInv

LEMMA PutContainerKeeps ==
  ASSUME ContainerInv, PutContainer
  PROVE  ContainerInv'
<1>1. Contents' = Contents /\ Extracted' = Extracted /\ IDEntry' = IDEntry
  BY ContentsStay, Zenon DEF PutContainer
<1>2. UNCHANGED <<procs, inodes, moved, containerIDCache, call, during>>
  BY Zenon DEF PutContainer
<1>3. /\ Head(putting) \in [pod : Pods, status : Statuses]
      /\ putting' \in Seq([pod : Pods, status : Statuses])
  <2>1. PICK S : S = [pod : Pods, status : Statuses]
    BY Zenon
  <2>2. putting \in Seq(S) /\ putting # << >> /\ putting' = Tail(putting)
    BY <2>1, Zenon DEF PutContainer, ContainerInv, CacheTypes
  <2>3. Head(putting) \in S /\ Tail(putting) \in Seq(S)
    BY <2>2
  <2> QED
    BY <2>1, <2>2, <2>3, Zenon
<1>4. containerMetadataCache' \in Seq(MetadataEntry)
  <2> DEFINE m == PodMetadata(Head(putting).pod, Head(putting).status)
             id == matchContainerID(Head(putting).status)
  <2>1. m.id = id
    BY Zenon DEF PodMetadata, Metadata
  <2>2. m \in Known
    BY <1>3 DEF Known
  <2>3. [key |-> id, val |-> m] \in MetadataEntry
    BY <2>1, <2>2, Zenon DEF MetadataEntry
  <2>4. containerMetadataCache \in Seq(MetadataEntry) /\ ContainerMetadataCacheSize \in Nat
    BY ContainerAssumption, Zenon DEF ContainerInv, CacheTypes
  <2>5. \/ containerMetadataCache' = containerMetadataCache
        \/ containerMetadataCache' = LRU!Add(containerMetadataCache, ContainerMetadataCacheSize, id, m)
    BY Zenon DEF PutContainer
  <2> HIDE DEF m, id
  <2> QED
    BY <2>3, <2>4, <2>5, AddLeaves, Zenon
<1>5. ProcessTypes' /\ CacheTypes' /\ CallTypes'
  BY <1>1, <1>2, <1>3, <1>4, Zenon DEF ContainerInv, ProcessTypes, CacheTypes, CallTypes
<1>6. CacheIsRight' /\ CallIsRight' /\ MetadataMatchesProcess'
  BY <1>1, <1>2, Zenon DEF ContainerInv, CacheIsRight, CallIsRight, MetadataMatchesProcess
<1> QED
  BY <1>5, <1>6, Zenon DEF ContainerInv

LEMMA AskKeeps ==
  ASSUME ContainerInv, NEW p \in ContainerPid, Ask(p)
  PROVE  ContainerInv'
<1>1. Contents' = Contents /\ Extracted' = Extracted /\ IDEntry' = IDEntry
  BY ContentsStay, Zenon DEF Ask
<1>2. /\ UNCHANGED <<procs, inodes, moved, containerIDCache, containerMetadataCache, putting>>
      /\ call' = [at |-> "stat", pid |-> p]
      /\ during' = IF p \in DOMAIN procs THEN {procs[p].container} ELSE {}
  BY Zenon DEF Ask, Running
<1>3. ProcessTypes' /\ CacheTypes' /\ CacheIsRight'
  BY <1>1, <1>2, Zenon DEF ContainerInv, ProcessTypes, CacheTypes, CacheIsRight
<1>4. CallTypes' /\ CallIsRight' /\ MetadataMatchesProcess'
  BY <1>2 DEF ContainerInv, ProcessTypes, CallTypes, CallIsRight, MetadataMatchesProcess
<1> QED
  BY <1>3, <1>4, Zenon DEF ContainerInv

LEMMA ReturnMetadataKeeps ==
  ASSUME ContainerInv, ReturnMetadata
  PROVE  ContainerInv'
<1>1. Contents' = Contents /\ Extracted' = Extracted /\ IDEntry' = IDEntry
  BY ContentsStay, Zenon DEF ReturnMetadata
<1>2. /\ UNCHANGED <<procs, inodes, moved, containerIDCache, containerMetadataCache, putting>>
      /\ call' = [at |-> "none"] /\ during' = {}
  BY Zenon DEF ReturnMetadata, NoCall
<1>3. ProcessTypes' /\ CacheTypes' /\ CacheIsRight'
  BY <1>1, <1>2, Zenon DEF ContainerInv, ProcessTypes, CacheTypes, CacheIsRight
<1>4. CallTypes' /\ CallIsRight' /\ MetadataMatchesProcess'
  BY <1>2, Zenon DEF CallTypes, CallIsRight, MetadataMatchesProcess
<1> QED
  BY <1>3, <1>4, Zenon DEF ContainerInv

----------------------------------------------------------------------------
\* An answer, and an entry of the first cache, that are right are taken on.
LEMMA AnswerKeeps ==
  ASSUME CallTypes, CallIsRight, call.at # "none", NEW r, Answer(r), UNCHANGED <<procs, moved, during>>,
         r.result = "metadata" /\ moved = {} => \E c \in during : Named(r, c)
  PROVE  CallTypes' /\ CallIsRight' /\ MetadataMatchesProcess'
<1>1. call' = [at |-> "answered", pid |-> call.pid, answer |-> r]
  BY Zenon DEF Answer
<1>2. CallTypes' /\ CallIsRight'
  BY <1>1, Zenon DEF CallTypes, CallIsRight
<1>3. MetadataMatchesProcess'
  BY <1>1, Zenon DEF MetadataMatchesProcess
<1> QED
  BY <1>2, <1>3, Zenon

LEMMA IdentifiedKeeps ==
  ASSUME CallTypes, CallIsRight, call.at # "none", NEW entry \in Extracted, Identified(entry),
         UNCHANGED <<clients, procs, moved, during>>,
         entry # Undefined /\ moved = {} => \E c \in during : entry = Contents[c]
  PROVE  CallTypes' /\ CallIsRight' /\ MetadataMatchesProcess'
<1>1. CASE entry = Undefined
  <2>1. Answer(Empty) /\ Empty.result # "metadata"
    BY <1>1, Zenon DEF Identified, Empty
  <2> QED
    BY <2>1, AnswerKeeps, Zenon
<1>2. CASE entry # Undefined
  <2>1. call' = [at |-> "fetch", pid |-> call.pid, entry |-> entry]
    BY <1>2, Zenon DEF Identified
  <2>2. Contents' = Contents /\ Extracted' = Extracted
    BY ContentsStay, Zenon
  <2>3. CallTypes'
    <3>1. Undefined' = Undefined
      BY Zenon DEF Undefined
    <3> QED
      BY <1>2, <2>1, <2>2, <3>1, Zenon DEF CallTypes
  <2>4. CallIsRight'
    BY <1>2, <2>1, <2>2, Zenon DEF CallIsRight
  <2>5. MetadataMatchesProcess'
    BY <2>1, Zenon DEF MetadataMatchesProcess
  <2> QED
    BY <2>3, <2>4, <2>5, Zenon
<1> QED
  BY <1>1, <1>2, Zenon

----------------------------------------------------------------------------
\* The cache of container IDs has entries for the cgroup files that were there.
LEMMA IDEntries ==
  ASSUME CacheTypes
  PROVE  /\ \A x \in IDEntry : x = [key |-> x.key, val |-> x.val]
         /\ \A i \in DOMAIN containerIDCache : containerIDCache[i] \in IDEntry
         /\ \A i \in DOMAIN containerIDCache : containerIDCache[i].val \in Extracted
<1>1. \A i \in DOMAIN containerIDCache : containerIDCache[i] \in IDEntry
  BY DEF CacheTypes
<1>2. \A x \in IDEntry : x = [key |-> x.key, val |-> x.val] /\ x.val \in Extracted
  BY DEF IDEntry
<1> QED
  BY <1>1, <1>2, Zenon

\* lookupContainerID, with the cache: it is keyed by the inode of the cgroup file, and
\* a cached entry is that of the process that has the file.
LEMMA StatKeeps ==
  ASSUME ContainerInv, Stat
  PROVE  ContainerInv'
<1>1. Contents' = Contents /\ Extracted' = Extracted /\ IDEntry' = IDEntry
  BY ContentsStay, Zenon DEF Stat
<1>2. /\ UNCHANGED <<clients, procs, inodes, moved, containerMetadataCache, putting, during>>
      /\ call.at = "stat"
  BY Zenon DEF Stat
<1>3. CacheTypes /\ CallTypes /\ CallIsRight /\ CacheIsRight /\ ProcessTypes
  BY Zenon DEF ContainerInv
<1>4. ProcessTypes'
  BY <1>2, <1>3, Zenon DEF ProcessTypes
<1>5. CASE Answer(Empty) /\ UNCHANGED containerIDCache
  <2>1. CallTypes' /\ CallIsRight' /\ MetadataMatchesProcess'
    <3>1. Empty.result # "metadata"
      BY Zenon DEF Empty
    <3> QED
      BY <1>2, <1>3, <1>5, <3>1, AnswerKeeps, Zenon
  <2>2. CacheTypes' /\ CacheIsRight'
    BY <1>1, <1>2, <1>3, <1>5, Zenon DEF CacheTypes, CacheIsRight
  <2> QED
    BY <1>4, <2>1, <2>2, Zenon DEF ContainerInv
<1>6. CASE /\ call.pid \in DOMAIN procs
           /\ LET file == procs[call.pid].inode
              IN  /\ containerIDCache' = LRU!Get(containerIDCache, file)
                  /\ IF file \in LRU!Keys(containerIDCache)
                     THEN Identified(LRU!Peek(containerIDCache, file))
                     ELSE call' = [at |-> "read", pid |-> call.pid, file |-> file]
  <2>1. PICK file : file = procs[call.pid].inode
    BY Zenon
  <2>2. file \in Nat /\ file <= inodes /\ \A q \in DOMAIN procs : procs[q].inode = file => q = call.pid
    BY <1>3, <1>6, <2>1, Zenon DEF ProcessTypes
  <2>3. /\ containerIDCache' \in Seq(IDEntry)
        /\ \A i \in DOMAIN containerIDCache' : \E j \in DOMAIN containerIDCache :
             containerIDCache'[i] = containerIDCache[j]
        /\ file \in LRU!Keys(containerIDCache) =>
             \E j \in DOMAIN containerIDCache :
               containerIDCache[j] = [key |-> file, val |-> LRU!Peek(containerIDCache, file)]
    <3>1. containerIDCache \in Seq(IDEntry) /\ containerIDCache' = LRU!Get(containerIDCache, file)
      BY <1>3, <1>6, <2>1, Zenon DEF CacheTypes
    <3> QED
      BY <1>3, <3>1, IDEntries, GetLeaves
  <2>4. CacheTypes'
    BY <1>1, <1>2, <1>3, <2>3, Zenon DEF CacheTypes
  <2>5. CacheIsRight'
    BY <1>1, <1>2, <1>3, <2>3 DEF CacheIsRight
  <2>6. CASE file \in LRU!Keys(containerIDCache)
    <3>1. PICK entry : entry = LRU!Peek(containerIDCache, file)
      BY Zenon
    <3>2. PICK j \in DOMAIN containerIDCache : containerIDCache[j] = [key |-> file, val |-> entry]
      BY <2>3, <2>6, <3>1, Zenon
    <3>3. containerIDCache[j].key = file /\ containerIDCache[j].val = entry
      BY <3>2
    <3>4. entry \in Extracted
      BY <1>3, <3>3, IDEntries, Zenon
    <3>5. moved = {} => \E c \in during : entry = Contents[c]
      <4>1. moved = {} => entry = Contents[procs[call.pid].container]
        BY <1>3, <1>6, <2>1, <3>3, Zenon DEF CacheIsRight
      <4>2. moved = {} => procs[call.pid].container \in during
        BY <1>2, <1>3, <1>6, Zenon DEF CallIsRight
      <4> QED
        BY <4>1, <4>2, Zenon
    <3>6. Identified(entry)
      BY <1>6, <2>1, <2>6, <3>1, Zenon
    <3>7. CallTypes' /\ CallIsRight' /\ MetadataMatchesProcess'
      BY <1>2, <1>3, <3>4, <3>5, <3>6, IdentifiedKeeps, Zenon
    <3> QED
      BY <1>4, <2>4, <2>5, <3>7, Zenon DEF ContainerInv
  <2>7. CASE file \notin LRU!Keys(containerIDCache)
    <3>1. call' = [at |-> "read", pid |-> call.pid, file |-> file]
      BY <1>6, <2>1, <2>7, Zenon
    <3>2. CallTypes'
      BY <1>2, <1>3, <2>2, <3>1, Zenon DEF CallTypes
    <3>3. CallIsRight' /\ MetadataMatchesProcess'
      BY <1>2, <1>3, <3>1, Zenon DEF CallIsRight, MetadataMatchesProcess
    <3> QED
      BY <1>4, <2>4, <2>5, <3>2, <3>3, Zenon DEF ContainerInv
  <2> QED
    BY <2>6, <2>7, Zenon
<1> QED
  BY <1>5, <1>6, Zenon DEF Stat, Running

\* What is read is stored for the inode that was seen: another process can have
\* the PID by now, but none has the inode.
LEMMA ReadFileKeeps ==
  ASSUME ContainerInv, ReadFile
  PROVE  ContainerInv'
<1>1. Contents' = Contents /\ Extracted' = Extracted /\ IDEntry' = IDEntry
  BY ContentsStay, Zenon DEF ReadFile
<1>2. /\ UNCHANGED <<clients, procs, inodes, moved, containerMetadataCache, putting, during>>
      /\ call.at = "read"
  BY Zenon DEF ReadFile
<1>3. CacheTypes /\ CallTypes /\ CallIsRight /\ CacheIsRight /\ ProcessTypes
  BY Zenon DEF ContainerInv
<1>4. ProcessTypes'
  BY <1>2, <1>3, Zenon DEF ProcessTypes
<1>5. CASE Answer(Failed) /\ UNCHANGED containerIDCache
  <2>1. CallTypes' /\ CallIsRight' /\ MetadataMatchesProcess'
    <3>1. Failed.result # "metadata"
      BY Zenon DEF Failed
    <3> QED
      BY <1>2, <1>3, <1>5, <3>1, AnswerKeeps, Zenon
  <2>2. CacheTypes' /\ CacheIsRight'
    BY <1>1, <1>2, <1>3, <1>5, Zenon DEF CacheTypes, CacheIsRight
  <2> QED
    BY <1>4, <2>1, <2>2, Zenon DEF ContainerInv
<1>6. ASSUME NEW entry, entry = IF Running(call.pid) THEN ExtractFile(LinesOf(procs[call.pid].container))
                                                     ELSE Undefined,
             containerIDCache' = LRU!Add(containerIDCache, ContainerIDCacheSize, call.file, entry),
             Identified(entry)
      PROVE  ContainerInv'
  <2>1. /\ call.pid \in DOMAIN procs =>
             procs[call.pid].container \in Container /\ entry = Contents[procs[call.pid].container]
        /\ call.pid \notin DOMAIN procs => entry = Undefined
    BY <1>3, <1>6, Zenon DEF ProcessTypes, Running, Contents
  <2>2. entry \in Extracted
    BY <2>1, Zenon DEF Extracted
  <2>3. entry # Undefined /\ moved = {} => \E c \in during : entry = Contents[c]
    BY <1>2, <1>3, <2>1, Zenon DEF CallIsRight
  <2>4. CallTypes' /\ CallIsRight' /\ MetadataMatchesProcess'
    BY <1>2, <1>3, <1>6, <2>2, <2>3, IdentifiedKeeps, Zenon
  <2>5. PICK file : file = call.file
    BY Zenon
  <2>6. file \in Nat /\ file <= inodes /\ \A q \in DOMAIN procs : procs[q].inode = file => q = call.pid
    BY <1>2, <1>3, <2>5, Zenon DEF CallTypes
  <2>7. PICK n : n = [key |-> file, val |-> entry]
    BY Zenon
  <2>8. n \in IDEntry /\ n.key = file /\ n.val = entry
    BY <2>2, <2>6, <2>7, Zenon DEF IDEntry
  <2>9. PICK S : S = {x \in IDEntry :
                       /\ x.key <= inodes
                       /\ moved = {} => \A q \in DOMAIN procs :
                            x.key = procs[q].inode => x.val = Contents[procs[q].container]}
    BY Zenon
  <2>10. n \in S
    BY <2>1, <2>6, <2>8, <2>9, Zenon
  <2>11. containerIDCache \in Seq(S)
    <3>1. \A i \in DOMAIN containerIDCache : containerIDCache[i] \in S
      BY <1>3, <2>9, IDEntries, Zenon DEF CacheTypes, CacheIsRight
    <3> QED
      BY <1>3, <3>1 DEF CacheTypes
  <2>12. containerIDCache' \in Seq(S)
    BY <1>6, <2>5, <2>7, <2>10, <2>11, ContainerAssumption, AddLeaves, Zenon
  <2>13. \A i \in DOMAIN containerIDCache' : containerIDCache'[i] \in S
    BY <2>12
  <2>14. CacheTypes'
    <3>1. containerIDCache' \in Seq(IDEntry)
      BY <2>9, <2>12, <2>13
    <3> QED
      BY <1>1, <1>2, <1>3, <2>9, <2>13, <3>1, Zenon DEF CacheTypes
  <2>15. CacheIsRight'
    BY <1>1, <1>2, <2>9, <2>13, Zenon DEF CacheIsRight
  <2> QED
    BY <1>4, <2>4, <2>14, <2>15, Zenon DEF ContainerInv
<1> QED
  BY <1>5, <1>6, Zenon DEF ReadFile

----------------------------------------------------------------------------
\* Metadata that carries the identifier found in a cgroup file is that of its
\* container; containerd's identifiers are not in the cache.
LEMMA NamedByID ==
  ASSUME NEW c \in Container, Contents[c] # Undefined, NEW m, m.id = Contents[c].id,
         \/ Contents[c].env # {"containerd"}
         \/ m.id \in {x.id : x \in Lines \cup Statuses}
  PROVE  Named(m, c)
<1>1. PICK line \in Elements(LinesOf(c)) :
        \/ Contents[c].env = {"containerd"} /\ "containerd" \in line.matches /\ Contents[c].id = line.path
        \/ Contents[c].env # {"containerd"} /\ Contents[c].id = line.id
  BY ContentsAreALine, Zenon
<1>2. line \in Lines
  BY <1>1, Zenon DEF Lines
<1>3. m.id = line.id
  BY <1>1, <1>2, ContainerAssumption, Zenon
<1> QED
  BY <1>1, <1>3, Zenon DEF Named

LEMMA MetadataEntries ==
  /\ \A x \in MetadataEntry : x = [key |-> x.key, val |-> x.val]
  /\ \A x \in MetadataEntry : x.val.id = x.key /\ x.val.id \in {y.id : y \in Lines \cup Statuses}
<1>1. \A m \in Known : m.id \in {y.id : y \in Lines \cup Statuses}
  BY DEF Known, PodMetadata, Metadata, matchContainerID
<1> QED
  BY <1>1 DEF MetadataEntry

LEMMA FetchKeeps ==
  ASSUME ContainerInv, Fetch
  PROVE  ContainerInv'
<1>1. Contents' = Contents /\ Extracted' = Extracted /\ IDEntry' = IDEntry /\ Undefined' = Undefined
  BY ContentsStay, Zenon DEF Fetch, Undefined
<1>2. /\ UNCHANGED <<clients, procs, inodes, moved, containerIDCache, putting, during>>
      /\ call.at = "fetch"
  BY Zenon DEF Fetch
<1>3. CacheTypes /\ CallTypes /\ CallIsRight /\ CacheIsRight /\ ProcessTypes
  BY Zenon DEF ContainerInv
<1>4. ProcessTypes' /\ CacheIsRight'
  BY <1>1, <1>2, <1>3, Zenon DEF ProcessTypes, CacheIsRight
<1>5. PICK entry : entry = call.entry
  BY Zenon
<1>6. /\ call = [at |-> "fetch", pid |-> call.pid, entry |-> entry]
      /\ entry \in Extracted \ {Undefined} /\ during \subseteq Container
      /\ moved = {} => \E c \in during : entry = Contents[c]
  BY <1>2, <1>3, <1>5, Zenon DEF CallTypes, CallIsRight
<1>7. /\ containerMetadataCache' \in Seq(MetadataEntry)
      /\ entry.id \in LRU!Keys(containerMetadataCache) =>
           \E j \in DOMAIN containerMetadataCache :
             containerMetadataCache[j] = [key |-> entry.id, val |-> LRU!Peek(containerMetadataCache, entry.id)]
  <2>1. /\ containerMetadataCache \in Seq(MetadataEntry)
        /\ containerMetadataCache' = LRU!Get(containerMetadataCache, entry.id)
    BY <1>3, <1>5, Zenon DEF CacheTypes, Fetch
  <2> QED
    BY <2>1, MetadataEntries, GetLeaves
<1>8. CacheTypes'
  BY <1>1, <1>2, <1>3, <1>7, Zenon DEF CacheTypes
<1>9. CASE entry.id \in LRU!Keys(containerMetadataCache) /\ Answer(LRU!Peek(containerMetadataCache, entry.id))
  <2>1. PICK m : m = LRU!Peek(containerMetadataCache, entry.id)
    BY Zenon
  <2>2. PICK j \in DOMAIN containerMetadataCache : containerMetadataCache[j] = [key |-> entry.id,
  val |-> m]
    BY <1>7, <1>9, <2>1, Zenon
  <2>3. containerMetadataCache[j] \in MetadataEntry
    BY <1>3, <2>2 DEF CacheTypes
  <2>4. m.id = entry.id /\ m.id \in {y.id : y \in Lines \cup Statuses}
    BY <2>2, <2>3, MetadataEntries, Zenon
  <2>5. moved = {} => \E c \in during : Named(m, c)
    BY <1>6, <2>4, NamedByID, Zenon
  <2>6. CallTypes' /\ CallIsRight' /\ MetadataMatchesProcess'
    BY <1>2, <1>3, <1>9, <2>1, <2>5, AnswerKeeps, Zenon
  <2> QED
    BY <1>4, <1>8, <2>6, Zenon DEF ContainerInv
<1>10. CASE entry.env \cap Clients # {} /\ call' = [call EXCEPT !.at = "query"]
  <2>1. call' = [at |-> "query", pid |-> call.pid, entry |-> entry]
    BY <1>6, <1>10
  <2>2. CallTypes'
    BY <1>1, <1>2, <1>6, <1>10, <2>1 DEF CallTypes
  <2>3. CallIsRight' /\ MetadataMatchesProcess'
    BY <1>1, <1>2, <1>3, <1>6, <2>1, Zenon DEF CallIsRight, MetadataMatchesProcess
  <2> QED
    BY <1>4, <1>8, <2>2, <2>3, Zenon DEF ContainerInv
<1>11. CASE entry.env \cap Clients = {} /\ Answer(Metadata(entry.id, NoContainer, entry.id))
  <2>1. PICK m : m = Metadata(entry.id, NoContainer, entry.id)
    BY Zenon
  <2>2. m.id = entry.id
    BY <2>1, Zenon DEF Metadata
  <2>3. entry.env # {"containerd"}
    BY <1>11, Zenon DEF Clients
  <2>4. moved = {} => \E c \in during : Named(m, c)
    BY <1>6, <2>2, <2>3, NamedByID, Zenon
  <2>5. CallTypes' /\ CallIsRight' /\ MetadataMatchesProcess'
    BY <1>2, <1>3, <1>11, <2>1, <2>4, AnswerKeeps, Zenon
  <2> QED
    BY <1>4, <1>8, <2>5, Zenon DEF ContainerInv
<1> QED
  BY <1>5, <1>9, <1>10, <1>11, Zenon DEF Fetch

\* What a client answers carries the identifier it was asked about, except for
\* containerd, whose answer is not cached.
LEMMA FoundIsNamed ==
  ASSUME NEW c \in Container, NEW entry, entry = Contents[c], entry # Undefined,
         entry.env \cap Clients # {}, NEW m \in Found(entry)
  PROVE  /\ Named(m, c)
         /\ entry.env # {"containerd"} => m \in Known /\ m.id = entry.id
<1>1. PICK line \in Elements(LinesOf(c)) :
        \/ entry.env = {"containerd"} /\ "containerd" \in line.matches /\ entry.id = line.path
        \/ /\ entry.env # {"containerd"} /\ entry.id = line.id
           /\ entry.env = {"docker"} => "docker" \in line.matches
  BY ContentsAreALine, Zenon
<1>2. line \in Lines
  BY <1>1, Zenon DEF Lines
<1>3. entry.env \in Environments
  BY ContentsAreALine, Zenon
<1>4. CASE "kubernetes" \in entry.env
  <2>1. PICK pod \in Pods :
          \E s \in Elements(pod.containers) : m = PodMetadata(pod, s) /\ matchContainerID(s) = entry.id
    BY <1>4, Zenon DEF Found, KubernetesMetadata
  <2>2. PICK s \in Elements(pod.containers) : m = PodMetadata(pod,
  s) /\ matchContainerID(s) = entry.id
    BY <2>1, Zenon
  <2>3. s \in Statuses
    BY <2>2, Zenon DEF Statuses
  <2>4. m \in Known /\ m.id = entry.id
    <3>1. m \in Known
      BY <2>3, <2>2 DEF Known
    <3>2. m.id = matchContainerID(s)
      BY <2>2, Zenon DEF PodMetadata, Metadata
    <3> QED
      BY <2>2, <3>1, <3>2, Zenon
  <2>5. entry.env # {"containerd"}
    BY <1>4, Zenon
  <2> QED
    BY <1>1, <2>4, <2>5, Zenon DEF Named
<1>5. CASE entry.env = {"docker"}
  <2>1. m = Metadata(entry.id, NoContainer, <<"name">> \o entry.id)
    BY <1>5, Zenon DEF Found, DockerMetadata
  <2>2. m \in Known
    BY <1>1, <1>2, <1>5, <2>1 DEF Known
  <2>3. m.id = entry.id
    BY <2>1, Zenon DEF Metadata
  <2> QED
    BY <1>1, <1>5, <2>2, <2>3, Zenon DEF Named
<1>6. CASE entry.env = {"containerd"}
  <2>1. entry.id = line.path /\ Len(line.path) = 2
    BY <1>1, <1>2, <1>6, ContainerAssumption, Zenon
  <2>2. m = Metadata(<<line.path[2]>>, <<line.path[1]>>, <<line.path[2]>>)
    BY <1>6, <2>1, Zenon DEF Found, ContainerdMetadata
  <2>3. m.id = <<line.path[Len(line.path)]>>
    BY <2>1, <2>2, Zenon DEF Metadata
  <2> QED
    BY <1>1, <1>6, <2>3, Zenon DEF Named
<1>7. "kubernetes" \in entry.env \/ entry.env = {"docker"} \/ entry.env = {"containerd"}
  BY <1>3, Zenon DEF Environments, Clients
<1> QED
  BY <1>4, <1>5, <1>6, <1>7, Zenon

LEMMA QueryKeeps ==
  ASSUME ContainerInv, Query
  PROVE  ContainerInv'
<1>1. Contents' = Contents /\ Extracted' = Extracted /\ IDEntry' = IDEntry
  BY ContentsStay, Zenon DEF Query
<1>2. /\ UNCHANGED <<clients, procs, inodes, moved, containerIDCache, putting, during>>
      /\ call.at = "query"
  BY Zenon DEF Query
<1>3. CacheTypes /\ CallTypes /\ CallIsRight /\ CacheIsRight /\ ProcessTypes
  BY Zenon DEF ContainerInv
<1>4. ProcessTypes' /\ CacheIsRight'
  BY <1>1, <1>2, <1>3, Zenon DEF ProcessTypes, CacheIsRight
<1>5. CASE Answer(Failed) /\ UNCHANGED containerMetadataCache
  <2>1. CallTypes' /\ CallIsRight' /\ MetadataMatchesProcess'
    <3>1. Failed.result # "metadata"
      BY Zenon DEF Failed
    <3> QED
      BY <1>2, <1>3, <1>5, <3>1, AnswerKeeps, Zenon
  <2>2. CacheTypes'
    BY <1>1, <1>2, <1>3, <1>5, Zenon DEF CacheTypes
  <2> QED
    BY <1>4, <2>1, <2>2, Zenon DEF ContainerInv
<1>6. ASSUME NEW m \in Found(call.entry), Answer(m),
             containerMetadataCache' =
               IF call.entry.env = {"containerd"} THEN containerMetadataCache
               ELSE LRU!Add(containerMetadataCache, ContainerMetadataCacheSize, call.entry.id, m)
      PROVE  ContainerInv'
  <2>1. PICK entry : entry = call.entry
    BY Zenon
  <2>2. /\ entry \in Extracted \ {Undefined} /\ during \subseteq Container
        /\ moved = {} => \E c \in during : entry = Contents[c]
        /\ entry.env \cap Clients # {}
    BY <1>2, <1>3, <2>1, Zenon DEF CallTypes, CallIsRight
  <2>3. moved = {} => \E c \in during : Named(m, c)
    BY <1>6, <2>1, <2>2, FoundIsNamed, Zenon
  <2>4. CallTypes' /\ CallIsRight' /\ MetadataMatchesProcess'
    BY <1>2, <1>3, <1>6, <2>3, AnswerKeeps, Zenon
  <2>5. entry.env # {"containerd"} => m \in Known /\ m.id = entry.id
    <3>1. PICK c \in Container : entry = Contents[c]
      BY <2>2, Zenon DEF Extracted
    <3> QED
      BY <1>6, <2>1, <2>2, <3>1, FoundIsNamed, Zenon
  <2>6. containerMetadataCache' \in Seq(MetadataEntry)
    <3>1. containerMetadataCache \in Seq(MetadataEntry) /\ ContainerMetadataCacheSize \in Nat
      BY <1>3, ContainerAssumption, Zenon DEF CacheTypes
    <3>2. CASE entry.env = {"containerd"}
      BY <1>6, <2>1, <3>1, <3>2, Zenon
    <3>3. CASE entry.env # {"containerd"}
      <4>1. containerMetadataCache' = LRU!Add(containerMetadataCache, ContainerMetadataCacheSize, entry.id, m)
        BY <1>6, <2>1, <3>3, Zenon
      <4>2. [key |-> entry.id, val |-> m] \in MetadataEntry
        BY <2>5, <3>3, Zenon DEF MetadataEntry
      <4> QED
        BY <3>1, <4>1, <4>2, AddLeaves, Zenon
    <3> QED
      BY <3>2, <3>3, Zenon
  <2>7. CacheTypes'
    BY <1>1, <1>2, <1>3, <2>6, Zenon DEF CacheTypes
  <2> QED
    BY <1>4, <2>4, <2>7, Zenon DEF ContainerInv
<1> QED
  BY <1>5, <1>6, Zenon DEF Query

----------------------------------------------------------------------------
\* The caches of container IDs and of metadata stay what the proof needs them to be.
THEOREM ContainerInvariant == ContainerSpec => []ContainerInv
<1>1. ContainerInit => ContainerInv
  <2> SUFFICES ASSUME ContainerInit
               PROVE  ContainerInv
    BY Zenon
  <2> USE DEF ContainerInit
  <2>1. ProcessTypes /\ CacheTypes
    BY DEF ProcessTypes, CacheTypes
  <2>2. CallTypes /\ CacheIsRight /\ CallIsRight /\ MetadataMatchesProcess
    BY DEF NoCall, CallTypes, CacheIsRight, CallIsRight, MetadataMatchesProcess
  <2> QED
    BY <2>1, <2>2, Zenon DEF ContainerInv
<1>2. ContainerInv /\ [ContainerNext]_containerVars => ContainerInv'
  <2> SUFFICES ASSUME ContainerInv, [ContainerNext]_containerVars
               PROVE  ContainerInv'
    BY Zenon
  <2>1. CASE UNCHANGED containerVars
    <3>1. Contents' = Contents /\ Extracted' = Extracted /\ IDEntry' = IDEntry
      BY <2>1, ContentsStay, Zenon DEF containerVars
    <3>2. UNCHANGED <<procs, inodes, moved, containerIDCache, containerMetadataCache, putting,
    call, during>>
      BY <2>1, Zenon DEF containerVars
    <3>3. ProcessTypes' /\ CacheTypes' /\ CallTypes'
      BY <3>1, <3>2, Zenon DEF ContainerInv, ProcessTypes, CacheTypes, CallTypes
    <3>4. CacheIsRight' /\ CallIsRight' /\ MetadataMatchesProcess'
      BY <3>1, <3>2, Zenon DEF ContainerInv, CacheIsRight, CallIsRight, MetadataMatchesProcess
    <3> QED
      BY <3>3, <3>4, Zenon DEF ContainerInv
  <2>2. CASE ContainerNext
    BY <2>2, StartProcessKeeps, ExitProcessKeeps, MoveProcessKeeps, PutCacheKeeps,
       PutContainerKeeps, AskKeeps,
       StatKeeps, ReadFileKeeps, FetchKeeps, QueryKeeps, ReturnMetadataKeeps, Zenon
       DEF ContainerNext
  <2> QED
    BY <2>1, <2>2, Zenon
<1> QED
  BY <1>1, <1>2, PTL DEF ContainerSpec

\* GetContainerMetadata answers for the process that it is asked about, however the
\* informer, the processes and the reuse of PIDs are interleaved with the call.
THEOREM MetadataIsOfProcess == ContainerSpec => []MetadataMatchesProcess
<1>1. ContainerInv => MetadataMatchesProcess
  BY Zenon DEF ContainerInv
<1> QED
  BY <1>1, ContainerInvariant, PTL
================================================================================
