-------------------------- MODULE PartialFunctions --------------------------
(***************************************************************************)
(* The maps of the implementation (HashMap<K, V>) are functions whose      *)
(* domain is a subset of the keys.  These are the four operations on them  *)
(* that the models use, written so that the provers can expand them.       *)
(***************************************************************************)

\* f is a map from keys in S to values in T.
IsMap(f, S, T) == DOMAIN f \subseteq S /\ f \in [DOMAIN f -> T]

\* HashMap::insert: the entry for k is v afterwards, whether or not it existed.
Put(f, k, v) == [x \in DOMAIN f \cup {k} |-> IF x = k THEN v ELSE f[x]]

\* HashMap::remove: no entry for k afterwards.
Drop(f, k) == [x \in DOMAIN f \ {k} |-> f[x]]

\* HashMap::get with a default for a missing entry.
GetOr(f, k, d) == IF k \in DOMAIN f THEN f[k] ELSE d

\* HashMap::retain: only the entries whose key is in S stay.
Keep(f, S) == [x \in DOMAIN f \cap S |-> f[x]]

\* The map without entries.
EmptyFcn == [x \in {} |-> 0]
=============================================================================
