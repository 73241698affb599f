--------------------------- MODULE MCPayloadLife ---------------------------
(***************************************************************************)
(* Two hosts and two memory devices; one host has four requests, so that   *)
(* its pool takes payloads back in every order and gives them out again.   *)
(***************************************************************************)
EXTENDS PayloadLife

CONSTANTS h0, h1, d0, d1

MCHosts   == {h0, h1}
MCDevices == {d0, d1}

Request(h, d, i) == [host |-> h, dev |-> d, id |-> i]

MCRequests == {Request(h0, d0, 1), Request(h0, d0, 2), Request(h0, d1, 3),
               Request(h0, d1, 4), Request(h1, d0, 5)}
=============================================================================
