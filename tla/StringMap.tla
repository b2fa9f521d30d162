----------------------------- MODULE StringMap ------------------------------
(***************************************************************************)
(* The hash map of device-sdk-c/src/c/map.c, which holds the devices, the  *)
(* names, the profiles and the watchers: an array of chained buckets that  *)
(* doubles when it has as many nodes as buckets.  Its users hold a lock,   *)
(* so each call is one step.  What edgex_hash computes is a constant.      *)
(***************************************************************************)
EXTENDS Null, Integers, Sequences, SequencesExt

CONSTANTS Key, Value, Hash

(* NULL is no key, no set of keys and no place of an iteration.            *)
ASSUME HashAssumption ==
  /\ Hash \in [Key -> Nat]
  /\ NULL \notin Key /\ NULL \notin [bucketidx : Int, node : Key \cup {NULL}]
  /\ \A keys \in SUBSET Key : keys # NULL

VARIABLES
  m,          \* edgex_map_base: [nbuckets, nnodes, buckets]; a bucket is the
              \* sequence of its nodes [key, value]
  iter,       \* edgex_map_iter: [bucketidx, node], node being a key or NULL, of
              \* an iteration in progress, or NULL
  ret         \* what the last call returned

mapVars == <<m, iter, ret>>

(* hash & (nbuckets - 1), nbuckets being a power of two *)
edgex_map_bucketidx(n, key) == Hash[key] % n

edgex_map_addnode(map, node) ==
  [map EXCEPT !.buckets[edgex_map_bucketidx(map.nbuckets, node.key)] = <<node>> \o @]

Emptied(n) == [i \in 0 .. n - 1 |-> <<>>]

(* All nodes, in the order of the chain that the resize makes of them.     *)
Chained(map) ==
  FlattenSeq([i \in 1 .. map.nbuckets |-> Reverse(map.buckets[i - 1])])

(* Defective variant: the nodes stay where they were.                      *)
resizeInPlace(map, n) ==
  [map EXCEPT !.nbuckets = n,
              !.buckets = [i \in 0 .. n - 1 |-> IF i < map.nbuckets THEN @[i] ELSE <<>>]]

(* The nodes are put into n buckets, which are as many as before when      *)
(* realloc has failed.                                                     *)
edgex_map_resize(map, n) ==
  FoldLeft(edgex_map_addnode,
           [map EXCEPT !.nbuckets = n, !.buckets = Emptied(n)], Chained(map))

(* The place of key in its bucket, 0 if it is not there.                   *)
edgex_map_getref(map, key) ==
  IF map.nbuckets = 0 THEN 0
  ELSE LET bucket == map.buckets[edgex_map_bucketidx(map.nbuckets, key)]
       IN  IF \E i \in DOMAIN bucket : bucket[i].key = key
           THEN CHOOSE i \in DOMAIN bucket : bucket[i].key = key ELSE 0

Bucket(map, key) == map.buckets[edgex_map_bucketidx(map.nbuckets, key)]

edgex_map_get_(key) ==
  /\ ret' = IF edgex_map_getref(m, key) = 0 THEN NULL
            ELSE Bucket(m, key)[edgex_map_getref(m, key)].value
  /\ UNCHANGED <<m, iter>>

(* A new key needs a node and, when the map is full, buckets.  memory: the *)
(* allocations that succeed.                                               *)
edgex_map_set_(key, value, memory) ==
  LET at == edgex_map_getref(m, key)
      full == m.nnodes >= m.nbuckets
      double == IF m.nbuckets > 0 THEN 2 * m.nbuckets ELSE 1
      grown == IF full THEN edgex_map_resize(m, double) ELSE m
      node == [key |-> key, value |-> value]
  IN
  /\ iter = NULL
  /\ IF at # 0
     THEN /\ m' = [m EXCEPT !.buckets[edgex_map_bucketidx(m.nbuckets, key)][at].value = value]
          /\ ret' = 0
     ELSE IF "node" \notin memory THEN UNCHANGED m /\ ret' = -1
     ELSE IF full /\ "buckets" \notin memory
          THEN m' = edgex_map_resize(m, m.nbuckets) /\ ret' = -1
     ELSE m' = [edgex_map_addnode(grown, node) EXCEPT !.nnodes = @ + 1] /\ ret' = 0
  /\ UNCHANGED iter

(* During an iteration only keys that it has left may go.                  *)
edgex_map_remove_(key) ==
  LET at == edgex_map_getref(m, key) IN
  /\ IF at = 0 THEN UNCHANGED m
     ELSE m' = [m EXCEPT !.buckets[edgex_map_bucketidx(m.nbuckets, key)] = RemoveAt(@, at),
                         !.nnodes = @ - 1]
  /\ ret' = NULL /\ UNCHANGED iter

edgex_map_iter_ ==
  iter = NULL /\ iter' = [bucketidx |-> -1, node |-> NULL] /\ ret' = NULL /\ UNCHANGED m

(* The rest of the bucket that iter is in, and the next bucket with nodes. *)
Remaining(it) ==
  IF it.node = NULL THEN <<>>
  ELSE LET bucket == m.buckets[it.bucketidx]
       IN  SubSeq(bucket, 1 + (CHOOSE i \in DOMAIN bucket : bucket[i].key = it.node), Len(bucket))

Later(it) == {i \in it.bucketidx + 1 .. m.nbuckets - 1 : m.buckets[i] # <<>>}

edgex_map_next_ ==
  /\ iter # NULL
  /\ IF Remaining(iter) # <<>>
     THEN iter' = [iter EXCEPT !.node = Head(Remaining(iter)).key] /\ ret' = iter'.node
     ELSE IF Later(iter) = {} THEN iter' = NULL /\ ret' = NULL
     ELSE LET i == CHOOSE j \in Later(iter) : \A k \in Later(iter) : j <= k
          IN  /\ iter' = [bucketidx |-> i, node |-> Head(m.buckets[i]).key]
              /\ ret' = iter'.node
  /\ UNCHANGED m

(* edgex_map_init                                                          *)
EmptyMap == [nbuckets |-> 0, nnodes |-> 0, buckets |-> Emptied(0)]

MapInit == m = EmptyMap /\ iter = NULL /\ ret = NULL

(* A map that is taken down must be set up again before its next use.      *)
edgex_map_deinit_ == iter = NULL /\ m' = EmptyMap /\ ret' = NULL /\ UNCHANGED iter

(* The keys that the iteration has yet to come to.                         *)
Unvisited ==
  {Remaining(iter)[i].key : i \in DOMAIN Remaining(iter)}
    \cup UNION {{m.buckets[i][j].key : j \in DOMAIN m.buckets[i]} : i \in Later(iter)}

(* The keys that must not go: the iteration still needs them.              *)
Kept == IF iter = NULL THEN {} ELSE Unvisited \cup {iter.node}

MapNext ==
  \/ \E key \in Key, value \in Value, memory \in SUBSET {"node", "buckets"} :
       edgex_map_set_(key, value, memory)
  \/ \E key \in Key :
       \/ edgex_map_get_(key)
       \/ key \notin Kept /\ edgex_map_remove_(key)
  \/ edgex_map_iter_ \/ edgex_map_next_ \/ edgex_map_deinit_

MapSpec == MapInit /\ [][MapNext]_mapVars

----------------------------------------------------------------------------
(* Properties                                                              *)

Nodes == UNION {{m.buckets[i][j] : j \in DOMAIN m.buckets[i]} : i \in 0 .. m.nbuckets - 1}

Contents ==
  [key \in {n.key : n \in Nodes} |-> (CHOOSE n \in Nodes : n.key = key).value]

Abstract == INSTANCE PartialMap
  WITH map <- Contents, todo <- IF iter = NULL THEN NULL ELSE Unvisited, result <- ret

(* The map behaves as a partial function whatever the hashes, also when    *)
(* memory runs out half-way, and an iteration comes once to every key even *)
(* if those it has left are removed, as edgex_devmap_clear does.           *)
ImplementsMap == Abstract!Spec
=============================================================================
