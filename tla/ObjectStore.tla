---------------------------- MODULE ObjectStore ----------------------------
(***************************************************************************)
(* Topic 49's object store (store.rs) as operators on functions from keys  *)
(* to bodies.  A key is present when it is in the function's domain; a GET *)
(* of an absent key is what the callers' `expect` panics on.  The request  *)
(* meter and the version tags are left out: no decision of the modelled    *)
(* code depends on the meter, and the only compare-and-swap is the single  *)
(* writer's own.                                                           *)
(***************************************************************************)
EXTENDS Naturals

\* put: the object is replaced whole.
PutObject(objects, key, body) ==
  [k \in DOMAIN objects \cup {key} |-> IF k = key THEN body ELSE objects[k]]

\* put_if_absent succeeds only on a key that does not exist.
IsAbsent(objects, key) == key \notin DOMAIN objects

\* delete, of every key of a set; deleting an absent key does nothing.
DeleteObjects(objects, keys) == [k \in DOMAIN objects \ keys |-> objects[k]]
============================================================================
