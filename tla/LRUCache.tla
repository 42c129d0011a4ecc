------------------------------ MODULE LRUCache -------------------------------
(***************************************************************************)
(* The LRU caches of the agent (go-freelru and its wrapper libpf/freelru): *)
(* a cache is the sequence of its entries, the least recently used first.  *)
(***************************************************************************)
LOCAL INSTANCE Naturals
LOCAL INSTANCE Sequences

Keys(cache) == {cache[i].key : i \in DOMAIN cache}

\* Peek and Contains leave the order alone; Peek is used for a key that is there.
Position(cache, k) == CHOOSE i \in DOMAIN cache : cache[i].key = k
Peek(cache, k) == cache[Position(cache, k)].val

Remove(cache, k) ==
  IF k \in Keys(cache)
  THEN [i \in 1..Len(cache) - 1 |-> cache[IF i < Position(cache, k) THEN i ELSE i + 1]]
  ELSE cache

\* Get makes the entry, if there is one, the most recently used.
Get(cache, k) == IF k \in Keys(cache)
                 THEN Append(Remove(cache, k), [key |-> k, val |-> Peek(cache, k)])
                 ELSE cache

\* Add replaces the entry of k, or evicts the least recently used one for it.
Add(cache, size, k, v) ==
  LET added == Append(Remove(cache, k), [key |-> k, val |-> v])
  IN  IF Len(added) > size THEN Tail(added) ELSE added
=============================================================================
