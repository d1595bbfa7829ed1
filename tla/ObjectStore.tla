---------------------------- MODULE ObjectStore ----------------------------
(***************************************************************************)
(* What the callers of the object database rely on, whatever file format   *)
(* is underneath: the trait MogStorage as the in-memory store of the tests *)
(* (storage_mock.rs) implements it.  Objects are content addressed, so an  *)
(* object is its own key.  Objects arrive one at a time, none ever goes    *)
(* away, and only an object that is present may be reported as stored.     *)
(***************************************************************************)

CONSTANT Objects     \* everything that can be stored

VARIABLES objects,   \* the objects present
          reported   \* the objects some caller was told are stored

vars == <<objects, reported>>

Init == objects = {} /\ reported = {}

(* write / write_batch, one entry: `entry(hash).or_insert_with(...)`       *)
Put(o) == /\ objects' = objects \union {o}
          /\ UNCHANGED reported

(* write of a known object, or flush / sync returning Ok                   *)
Report(S) == /\ S \subseteq objects
             /\ reported' = reported \union S
             /\ UNCHANGED objects

Next == \/ \E o \in Objects : Put(o)
        \/ \E S \in SUBSET Objects : Report(S)

Spec == Init /\ [][Next]_vars
=============================================================================
