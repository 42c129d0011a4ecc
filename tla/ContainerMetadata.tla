-------------------------- MODULE ContainerMetadata --------------------------
(***************************************************************************)
(* containermetadata: the container and the pod of a process.  The trace   *)
(* handler asks for them, one process after the other; the informer of     *)
(* Kubernetes fills one of the two caches meanwhile, and processes start,  *)
(* exit and have their PIDs used again.                                    *)
(***************************************************************************)
EXTENDS Naturals, Sequences

CONSTANTS ContainerPid,
          Container,      \* with what identifies them: see LinesOf
          LinesOf(_),     \* the lines of /proc/PID/cgroup of its processes
          Pods,           \* name, owner references and containers
          ContainerIDCacheSize, ContainerMetadataCacheSize,
          MaxProcesses,   \* bound: how many processes are started
          MaxCalls,       \* bound: how many times the handler is asked
          NoContainer

LRU == INSTANCE LRUCache

Elements(s) == {s[i] : i \in DOMAIN s}
Least(S) == CHOOSE i \in S : \A j \in S : i <= j

Lines == UNION {Elements(LinesOf(c)) : c \in Container}
Statuses == UNION {Elements(pod.containers) : pod \in Pods}

\* What containerd's pattern finds, a namespace and a name with a slash between them,
\* is no identifier of a container: those have no slash.
ASSUME ContainerAssumption ==
         /\ \A c \in Container : LinesOf(c) \in Seq(Lines)
         /\ \A pod \in Pods : pod.containers \in Seq(Statuses)
         /\ \A line \in Lines : "containerd" \in line.matches =>
              /\ Len(line.path) = 2
              /\ \A x \in Lines \cup Statuses : x.id # line.path
         /\ {ContainerIDCacheSize, ContainerMetadataCacheSize} \subseteq Nat

Clients == {"kubernetes", "docker", "containerd"}

VARIABLES
  clients,                \* those that GetHandler could connect to
  procs,                  \* the processes: by PID, the inode of their cgroup file
                          \* and their container; no entry for a PID not in use
  inodes,                 \* how many inodes procfs has handed out
  moved,                  \* inodes of processes that changed their cgroup
  containerIDCache, containerMetadataCache,
  putting,                \* putCache, at work: the statuses that are left, with their pod
  call,                   \* GetContainerMetadata, at work
  during,                 \* the containers of the processes with its PID meanwhile
  answers                 \* how many calls have returned

containerVars == <<clients, procs, inodes, moved, containerIDCache, containerMetadataCache, putting,
                   call, during, answers>>

NoCall == [at |-> "none"]
Failed == [result |-> "error"]
Empty == [result |-> "empty"]
Metadata(id, pod, name) == [result |-> "metadata", id |-> id, pod |-> pod, name |-> name]

ContainerInit ==
  /\ clients \in SUBSET Clients
  /\ procs = << >> /\ inodes = 0 /\ moved = {}
  /\ containerIDCache = << >> /\ containerMetadataCache = << >>
  /\ putting = << >> /\ call = NoCall /\ during = {} /\ answers = 0

----------------------------------------------------------------------------
\* The processes.  procfs gives the cgroup file of a process an inode that no
\* other file has had.

Running(p) == p \in DOMAIN procs

StartProcess(p, c) ==
  /\ ~Running(p) /\ inodes < MaxProcesses
  /\ inodes' = inodes + 1
  /\ procs' = [q \in DOMAIN procs \cup {p} |->
                 IF q = p THEN [inode |-> inodes + 1, container |-> c] ELSE procs[q]]
  /\ during' = IF call.at # "none" /\ call.pid = p THEN during \cup {c} ELSE during
  /\ UNCHANGED <<clients, moved, containerIDCache, containerMetadataCache, call, answers, putting>>

ExitProcess(p) ==
  /\ Running(p)
  /\ procs' = [q \in DOMAIN procs \ {p} |-> procs[q]]
  /\ UNCHANGED <<clients, inodes, moved, containerIDCache, containerMetadataCache, putting,
                 call, during, answers>>

\* A container runtime moves the process that it has started into its container.
MoveProcess(p, c) ==
  /\ Running(p) /\ procs[p].container # c /\ moved = {}
  /\ procs' = [procs EXCEPT ![p].container = c]
  /\ moved' = moved \cup {procs[p].inode}
  /\ UNCHANGED <<clients, inodes, containerIDCache, containerMetadataCache, call, putting, during, answers>>

----------------------------------------------------------------------------
\* Kubernetes

\* The name of a pod without what its owners add to it.  Names are sequences of
\* the parts that a dash separates.
HasPrefix(name, prefix) ==
  Len(prefix) <= Len(name) /\ SubSeq(name, 1, Len(prefix)) = prefix

WithoutOwner(name, owner) ==
  CASE ~HasPrefix(name, owner.name)                     -> name
    [] /\ HasPrefix(name, owner.name)
       /\ owner.kind = "ReplicaSet" /\ Len(owner.name) > 1 -> SubSeq(owner.name, 1, Len(owner.name) - 1)
    [] OTHER                                            -> owner.name

getPodName(pod) ==
  LET name[i \in 0..Len(pod.owners)] ==
        IF i = 0 THEN pod.name ELSE WithoutOwner(name[i - 1], pod.owners[i])
  IN  name[Len(pod.owners)]

\* The identifier in a container's status; one that has not started has none.
matchContainerID(status) == status.id

PodMetadata(pod, status) == Metadata(matchContainerID(status), getPodName(pod), status.name)

\* putCache: the informer hears of a pod ...
PutCache(pod) ==
  /\ "kubernetes" \in clients /\ putting = << >>
  /\ putting' = [i \in DOMAIN pod.containers |-> [pod |-> pod, status |-> pod.containers[i]]]
  /\ UNCHANGED <<clients, procs, inodes, moved, containerIDCache, containerMetadataCache,
                 call, during, answers>>

\* ... and goes through its containers; the cache is locked for each one.
PutContainer ==
  /\ putting # << >>
  /\ LET pod == Head(putting).pod
         status == Head(putting).status
     IN  containerMetadataCache' =
           IF matchContainerID(status) = NoContainer THEN containerMetadataCache
           ELSE LRU!Add(containerMetadataCache, ContainerMetadataCacheSize, matchContainerID(status),
                        PodMetadata(pod, status))
  /\ putting' = Tail(putting)
  /\ UNCHANGED <<clients, procs, inodes, moved, containerIDCache, call, during, answers>>

----------------------------------------------------------------------------
\* GetContainerMetadata

Undefined == [env |-> {}, id |-> NoContainer]

\* The patterns for a line of a cgroup file, in the order they are tried; those for
\* a client that there is not are left out.
Patterns ==
  << [client |-> "kubernetes", match |-> "dockerKube", env |-> {"kubernetes", "docker"}],
     [client |-> "kubernetes", match |-> "kube",       env |-> {"kubernetes"}],
     [client |-> "kubernetes", match |-> "altKube",    env |-> {"kubernetes"}],
     [client |-> "kubernetes", match |-> "systemd",    env |-> {"kubernetes"}],
     [client |-> "docker",     match |-> "docker",     env |-> {"docker"}],
     [client |-> "docker",     match |-> "buildkit",   env |-> {"buildkit"}],
     [client |-> "containerd", match |-> "containerd", env |-> {"containerd"}],
     [client |-> "any",        match |-> "lxc",        env |-> {"lxc"}] >>

\* An identifier is a sequence: containerd's pattern finds a namespace and a name.
ExtractLine(line) ==
  LET hits == {i \in DOMAIN Patterns : /\ Patterns[i].client \in clients \cup {"any"}
                                       /\ Patterns[i].match \in line.matches}
      hit == Patterns[Least(hits)]
  IN  IF hits = {} THEN Undefined
      ELSE [env |-> hit.env, id |-> IF hit.match = "containerd" THEN line.path ELSE line.id]

\* extractContainerIDFromFile: the first line that matches.
ExtractFile(lines) ==
  LET found == {i \in DOMAIN lines : ExtractLine(lines[i]) # Undefined}
  IN  IF found = {} THEN Undefined ELSE ExtractLine(lines[Least(found)])

Ask(p) ==
  /\ call = NoCall /\ answers < MaxCalls
  /\ call' = [at |-> "stat", pid |-> p]
  /\ during' = IF Running(p) THEN {procs[p].container} ELSE {}
  /\ UNCHANGED <<clients, procs, inodes, moved, containerIDCache, containerMetadataCache, answers, putting>>

Answer(r) == call' = [at |-> "answered", pid |-> call.pid, answer |-> r]

\* With the container ID found, or the lack of one.
Identified(entry) ==
  IF entry = Undefined THEN Answer(Empty)
  ELSE call' = [at |-> "fetch", pid |-> call.pid, entry |-> entry]

\* A plausible bug: the cache is keyed by PID.
StatByPID ==
  /\ call.at = "stat"
  /\ \/ ~Running(call.pid) /\ Answer(Empty) /\ UNCHANGED containerIDCache
     \/ /\ Running(call.pid)
        /\ containerIDCache' = LRU!Get(containerIDCache, call.pid)
        /\ IF call.pid \in LRU!Keys(containerIDCache)
           THEN Identified(LRU!Peek(containerIDCache, call.pid))
           ELSE call' = [at |-> "read", pid |-> call.pid, file |-> call.pid]
  /\ UNCHANGED <<clients, procs, inodes, moved, containerMetadataCache, putting, during, answers>>

\* lookupContainerID, up to the cache.
Stat ==
  /\ call.at = "stat"
  /\ \/ ~Running(call.pid) /\ Answer(Empty) /\ UNCHANGED containerIDCache
     \/ /\ Running(call.pid)
        /\ LET file == procs[call.pid].inode
           IN  /\ containerIDCache' = LRU!Get(containerIDCache, file)
               /\ IF file \in LRU!Keys(containerIDCache)
                  THEN Identified(LRU!Peek(containerIDCache, file))
                  ELSE call' = [at |-> "read", pid |-> call.pid, file |-> file]
  /\ UNCHANGED <<clients, procs, inodes, moved, containerMetadataCache, putting, during, answers>>

\* The file is opened by its path, and may be that of another process by now, or
\* be gone.  Reading it may fail.
ReadFile ==
  /\ call.at = "read"
  /\ \/ /\ Answer(Failed) /\ UNCHANGED containerIDCache
     \/ \E entry \in {IF Running(call.pid) THEN ExtractFile(LinesOf(procs[call.pid].container))
                                           ELSE Undefined} :
          /\ containerIDCache' = LRU!Add(containerIDCache, ContainerIDCacheSize, call.file, entry)
          /\ Identified(entry)
  /\ UNCHANGED <<clients, procs, inodes, moved, containerMetadataCache, putting, during, answers>>

\* The fast path, or the choice of whom to ask.
Fetch ==
  /\ call.at = "fetch"
  /\ containerMetadataCache' = LRU!Get(containerMetadataCache, call.entry.id)
  /\ LET id == call.entry.id
     IN  CASE id \in LRU!Keys(containerMetadataCache) -> Answer(LRU!Peek(containerMetadataCache, id))
           [] id \notin LRU!Keys(containerMetadataCache) /\ call.entry.env \cap Clients # {}
                -> call' = [call EXCEPT !.at = "query"]
           [] OTHER -> Answer(Metadata(id, NoContainer, id))   \* buildkit, lxc
  /\ UNCHANGED <<clients, procs, inodes, moved, containerIDCache, putting, during, answers>>

\* What the API of a client answers about the container, None if it has ended.
KubernetesMetadata(id) ==
  UNION {{PodMetadata(pod, s) : s \in {t \in Elements(pod.containers) : matchContainerID(t) = id}}
           : pod \in Pods}
DockerMetadata(id) == {Metadata(id, NoContainer, <<"name">> \o id)}
ContainerdMetadata(path) ==
  IF Len(path) < 2 THEN {} ELSE {Metadata(<<path[2]>>, <<path[1]>>, <<path[2]>>)}

Found(entry) ==
  CASE "kubernetes" \in entry.env -> KubernetesMetadata(entry.id)
    [] "kubernetes" \notin entry.env /\ "docker" \in entry.env -> DockerMetadata(entry.id)
    [] OTHER -> ContainerdMetadata(entry.id)

\* getKubernetesPodMetadata, getDockerContainerMetadata and
\* getContainerdContainerMetadata, the last of which leaves the cache alone.
Query ==
  /\ call.at = "query"
  /\ \/ Answer(Failed) /\ UNCHANGED containerMetadataCache
     \/ \E m \in Found(call.entry) :
          /\ Answer(m)
          /\ containerMetadataCache' =
               IF call.entry.env = {"containerd"} THEN containerMetadataCache
               ELSE LRU!Add(containerMetadataCache, ContainerMetadataCacheSize, call.entry.id, m)
  /\ UNCHANGED <<clients, procs, inodes, moved, containerIDCache, putting, during, answers>>

ReturnMetadata ==
  /\ call.at = "answered"
  /\ call' = NoCall /\ during' = {} /\ answers' = answers + 1
  /\ UNCHANGED <<clients, procs, inodes, moved, containerIDCache, containerMetadataCache, putting>>

ContainerNext ==
  \/ \E p \in ContainerPid : \/ ExitProcess(p) \/ Ask(p)
                             \/ \E c \in Container : StartProcess(p, c) \/ MoveProcess(p, c)
  \/ PutContainer \/ \E pod \in Pods : PutCache(pod)
  \/ Stat \/ ReadFile \/ Fetch \/ Query \/ ReturnMetadata

ContainerSpec == ContainerInit /\ [][ContainerNext]_containerVars

----------------------------------------------------------------------------
\* Properties

\* The metadata is that of container c.
Named(m, c) == \E line \in Elements(LinesOf(c)) : m.id \in {line.id, <<line.path[Len(line.path)]>>}

\* GetContainerMetadata answers for the process that it is asked about: what it
\* returns is of the container of a process that had the PID during the call, also
\* when the PID is used again between two calls or between looking at the cgroup file
\* and reading it, and when caches overflow.  A process that was moved to another
\* cgroup keeps, for as long as it is cached, the container it was first seen in.
MetadataMatchesProcess ==
  call.at = "answered" /\ call.answer.result = "metadata" /\ moved = {} =>
    \E c \in during : Named(call.answer, c)
==============================================================================
