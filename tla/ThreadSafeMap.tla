--------------------------- MODULE ThreadSafeMap ---------------------------
(***************************************************************************)
(* CThreadSafeMap<K, V> (gatewayServer/threadSafe_map.h): a std::map whose *)
(* operations each hold one mutex, so each of them is a single atomic step *)
(* of the caller and two calls in a row are two steps.  A map is a         *)
(* function whose DOMAIN is the set of keys present.                       *)
(* findValueByKey, findAndSet, clear, size and empty have no caller.       *)
(***************************************************************************)
EXTENDS Integers

EmptyMap == [k \in {} |-> 0]

\* std::map::insert keeps the value of a key that is already present.
MapInsert(m, key, value) ==
  [k \in DOMAIN m \cup {key} |-> IF k \in DOMAIN m THEN m[k] ELSE value]

MapErase(m, key) == [k \in DOMAIN m \ {key} |-> m[k]]

\* find() returning true with `value` in its out parameter.
MapFinds(m, key, value) == key \in DOMAIN m /\ m[key] = value
=============================================================================
