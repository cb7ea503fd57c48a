---------------------------- MODULE MCApiBoundary ----------------------------
(* ApiBoundary on a small instance. *)
EXTENDS ApiBoundary, TLC

CONSTANTS r1, r2, reader, writer, canceler, monitor

Granted ==
    [p \in Principals |->
        CASE p = reader -> {"read"} [] p = writer -> {"read", "write"}
          [] p = canceler -> {"cancel"} [] p = monitor -> {"observability"}]

Interchangeable == Permutations(Requests)
=============================================================================
