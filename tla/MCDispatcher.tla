---------------------------- MODULE MCDispatcher ----------------------------
(* For TLC: slices of two bytes.  The FIB takes two, the second full only   *)
(* after a change; the face table takes one.                               *)
EXTENDS Dispatcher

MCBytes(t, from, to) == IF t = "fib" THEN {3 + n : n \in from .. to} ELSE {2}

MCOthers ==
  { [Interest("fib-mgmt/add", {"prefix"}) EXCEPT !.shape = "noManagement"],
    [Interest("fib-mgmt/add", {"prefix"}) EXCEPT !.shape = "garbled"],
    Interest("cs-mgmt/delete", {"prefix", "count", "capacity"}),
    Interest("cs-mgmt/list", {}) }

Symmetry == Permutations(Clients)
=============================================================================
