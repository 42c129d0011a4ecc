---------------------------- MODULE IntervalCache ----------------------------
(***************************************************************************)
(* The stack delta provider and its cache of interval data, a directory    *)
(* with one file per executable that outlives the agent.  One goroutine    *)
(* asks for interval data, call after call; the agent may die between any  *)
(* two system calls and starts again from what is on disk.                 *)
(*                                                                         *)
(* The n-th request happens at time n.  Two units of time are a second,    *)
(* the resolution in which GetIntervalData sets access times.              *)
(***************************************************************************)
EXTENDS Integers, Sequences, FiniteSets

CONSTANTS Exe,         \* executables
          Size,        \* the size of the file of each one
          MaxSize,     \* Cache.maxSize
          MaxRequests, \* bound: how often interval data is asked for
          MaxCrashes,  \* bound: how often the agent dies
          None

\* What matters of a file in the cache's directory.
File == [size : Nat, complete : BOOLEAN, atime : Nat]

ASSUME IntervalCacheAssumption ==
         /\ IsFiniteSet(Exe) /\ Size \in [Exe -> Nat \ {0}]
         /\ {MaxSize, MaxRequests, MaxCrashes} \subseteq Nat
         /\ None \notin Exe /\ None \notin Nat /\ None \notin File

VARIABLES
  files,    \* the directory: the file of each executable, or None
  entries,  \* Cache.entries: the size of each element
  lru,      \* Cache.lru, the most recently used element first
  phase, exe,  \* GetIntervalStructuresForFile
  toDelete, \* evictEntries: what is left of toBeDeletedBytes
  now, crashes,
  lastUse,  \* history: when each element was last used
  odd,      \* history: elements written while they were in entries, or for
            \* which a system call failed or the agent died
  settled   \* history: an element was added since the agent started

cacheVars == <<entries, lru>>
requestVars == <<phase, exe, toDelete>>
history == <<lastUse, odd, settled>>
intervalVars == <<files, cacheVars, requestVars, now, crashes, history>>

On(f) == f # None
Elements(m) == {e \in Exe : On(m[e])}

\* The sizes, added up: the number of bytes there are.
Bytes(m) == UNION {{e} \X (1..m[e]) : e \in Elements(m)}
SumOf(m) == Cardinality(Bytes(m))

Minus(a, b) == IF a > b THEN a - b ELSE 0
Seconds(t) == t - (t % 2)

CacheInit ==
  /\ files = [e \in Exe |-> None]
  /\ entries = [e \in Exe |-> None] /\ lru = << >>
  /\ phase = "idle" /\ exe = None /\ toDelete = 0
  /\ now = 0 /\ crashes = 0
  /\ lastUse = [e \in Exe |-> 0] /\ odd = {} /\ settled = FALSE

----------------------------------------------------------------------------
\* HasIntervals
Request(e) ==
  /\ phase = "idle" /\ now < MaxRequests
  /\ now' = now + 1
  /\ exe' = e
  /\ phase' = IF On(entries[e]) THEN "read" ELSE "extract"
  /\ UNCHANGED <<files, cacheVars, toDelete, crashes, history>>

Oldest == lru[Len(lru)]

\* MoveToFront of the list element that entries refers to: the one added last.
Position(e) == CHOOSE i \in DOMAIN lru : lru[i] = e /\ \A j \in DOMAIN lru : lru[j] = e => i <= j
MoveToFront(e) == [i \in DOMAIN lru |-> CASE i = 1 -> e
                                          [] i > 1 /\ i <= Position(e) -> lru[i - 1]
                                          [] OTHER -> lru[i]]

\* GetIntervalData.  Whether reading changes the access time depends on how the
\* file system is mounted.
ReadData ==
  /\ phase = "read" /\ On(files[exe]) /\ files[exe].complete
  /\ files' \in {files, [files EXCEPT ![exe].atime = now]}
  /\ lru' = MoveToFront(exe)
  /\ lastUse' = [lastUse EXCEPT ![exe] = now]
  /\ phase' = "utime"
  /\ UNCHANGED <<entries, exe, toDelete, now, crashes, odd, settled>>

\* A file that is missing or cannot be decoded: the executable is read instead.
ReadFails ==
  /\ phase = "read" /\ ~(On(files[exe]) /\ files[exe].complete)
  /\ phase' = "extract"
  /\ UNCHANGED <<files, cacheVars, exe, toDelete, now, crashes, history>>

\* unix.Utime, whose failure is only logged.
Utime ==
  /\ phase = "utime"
  /\ \/ files' = [files EXCEPT ![exe].atime = Seconds(now)] /\ UNCHANGED odd
     \/ odd' = odd \cup {exe} /\ UNCHANGED files
  /\ phase' = "idle"
  /\ UNCHANGED <<cacheVars, exe, toDelete, now, crashes, lastUse, settled>>

\* ExtractELF fails, or the file cannot be opened for writing: nothing is saved.
ExtractFails ==
  /\ phase = "extract"
  /\ phase' = "idle"
  /\ UNCHANGED <<files, cacheVars, exe, toDelete, now, crashes, history>>

\* SaveIntervalData: encodeAndCompress opens and truncates the file, of which a
\* part of size n is there until the rest is written.  Only a new file gets the
\* current time as its access time.
OpenFile ==
  /\ phase = "extract"
  /\ \E n \in 0..Size[exe] - 1 :
       files' = [files EXCEPT ![exe] =
                   [size |-> n, complete |-> FALSE,
                    atime |-> IF On(files[exe]) THEN files[exe].atime ELSE now]]
  /\ odd' = IF On(entries[exe]) THEN odd \cup {exe} ELSE odd
  /\ phase' = "write"
  /\ UNCHANGED <<cacheVars, exe, toDelete, now, crashes, lastUse, settled>>

\* Writing fails, and what is there of the file stays.
WriteFails ==
  /\ phase = "write"
  /\ odd' = odd \cup {exe}
  /\ phase' = "idle"
  /\ UNCHANGED <<files, cacheVars, exe, toDelete, now, crashes, lastUse, settled>>

WriteFile ==
  /\ phase = "write"
  /\ files' = [files EXCEPT ![exe].size = Size[exe], ![exe].complete = TRUE]
  /\ phase' = "written"
  /\ UNCHANGED <<cacheVars, exe, toDelete, now, crashes, history>>

\* Data that is larger than the whole cache is removed again.
RejectLarge ==
  /\ phase = "written" /\ Size[exe] > MaxSize
  /\ files' = [files EXCEPT ![exe] = None]
  /\ phase' = "idle"
  /\ UNCHANGED <<cacheVars, exe, toDelete, now, crashes, history>>

\* GetCurrentCacheSize, and how much evictEntries has to delete.
MakeRoom ==
  /\ phase = "written" /\ Size[exe] <= MaxSize
  /\ toDelete' = Minus(SumOf(entries) + Size[exe], MaxSize)
  /\ phase' = "evict"
  /\ UNCHANGED <<files, cacheVars, exe, now, crashes, history>>

\* A plausible bug: the file is looked for in another directory.
RemoveNoFile ==
  /\ phase = "evict" /\ toDelete > 0 /\ lru # << >>
  /\ phase' = "forget"
  /\ UNCHANGED <<files, cacheVars, exe, toDelete, now, crashes, history>>

\* evictEntries: os.RemoveAll of the oldest element's file ...
RemoveFile ==
  /\ phase = "evict" /\ toDelete > 0 /\ lru # << >>
  /\ files' = [files EXCEPT ![Oldest] = None]
  /\ phase' = "forget"
  /\ UNCHANGED <<cacheVars, exe, toDelete, now, crashes, history>>

\* ... and then the element itself.
ForgetElement ==
  /\ phase = "forget"
  /\ lru' = SubSeq(lru, 1, Len(lru) - 1)
  /\ toDelete' = Minus(toDelete, IF On(entries[Oldest]) THEN entries[Oldest] ELSE 0)
  /\ entries' = [entries EXCEPT ![Oldest] = None]
  /\ phase' = "evict"
  /\ UNCHANGED <<files, exe, now, crashes, history>>

\* os.RemoveAll fails, or the list is empty.
EvictFails ==
  /\ phase = "evict" /\ toDelete > 0
  /\ odd' = odd \cup {exe}
  /\ phase' = "idle" /\ toDelete' = 0
  /\ UNCHANGED <<files, cacheVars, exe, now, crashes, lastUse, settled>>

AddElement ==
  /\ phase = "evict" /\ toDelete = 0
  /\ lru' = <<exe>> \o lru
  /\ entries' = [entries EXCEPT ![exe] = Size[exe]]
  /\ lastUse' = [lastUse EXCEPT ![exe] = now]
  /\ settled' = TRUE
  /\ phase' = "idle"
  /\ UNCHANGED <<files, exe, toDelete, now, crashes, odd>>

----------------------------------------------------------------------------
\* The lists that have each element once.
Lists(S) == {s \in [1..Cardinality(S) -> S] : /\ \A i, j \in DOMAIN s : s[i] = s[j] => i = j
                                              /\ \A e \in S : \E i \in DOMAIN s : s[i] = e}

\* New: the elements by access time; in which order those of one time come
\* depends on their names.
Restart ==
  /\ crashes < MaxCrashes
  /\ crashes' = crashes + 1
  /\ entries' = [e \in Exe |-> IF On(files[e]) THEN files[e].size ELSE None]
  /\ lru' \in {s \in Lists(Elements(files)) :
                 \A i, j \in DOMAIN s : i < j => files[s[i]].atime >= files[s[j]].atime}
  /\ phase' = "idle" /\ exe' = None /\ toDelete' = 0
  /\ odd' = IF phase = "idle" THEN odd ELSE odd \cup {exe}
  /\ settled' = FALSE
  /\ UNCHANGED <<files, now, lastUse>>

CacheNext ==
  \/ \E e \in Exe : Request(e)
  \/ ReadData \/ ReadFails \/ Utime \/ ExtractFails
  \/ OpenFile \/ WriteFails \/ WriteFile \/ RejectLarge
  \/ MakeRoom \/ RemoveFile \/ ForgetElement \/ EvictFails \/ AddElement
  \/ Restart

IntervalSpec == CacheInit /\ [][CacheNext]_intervalVars

----------------------------------------------------------------------------
\* Properties

\* Between requests the cache and the directory agree: HasIntervals answers yes
\* for the executables with a complete file, and for no other.  Excepted are
\* elements that were written again while they were in the cache, whose file
\* evictEntries may delete just before they are added, and those for which a
\* system call failed or the agent died.  The list, from whose end evictEntries
\* takes elements, is in order of use, also after a restart: then up to uses in the
\* same second.  And the cache keeps within its size: New takes over what it finds,
\* however much it is, but the next element that is added restores the limit.
EntriesMatchFiles ==
  /\ crashes = 0 \/ settled => SumOf(entries) <= MaxSize
  /\ phase = "idle" => \A e \in Exe \ odd : On(entries[e]) <=> On(files[e]) /\ files[e].complete
  /\ \A e, f \in Elements(entries) \ odd :
       (IF crashes = 0 THEN lastUse[e] < lastUse[f] ELSE Seconds(lastUse[e]) < Seconds(lastUse[f]))
         => Position(f) < Position(e)
=============================================================================
