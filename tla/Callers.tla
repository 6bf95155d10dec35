-------------------------------- MODULE Callers --------------------------------
(***************************************************************************)
(* Who calls the API: the actors (packages/core/src/ledger/types.ts) that  *)
(* Purchase and Payments tell apart, and their requests.                   *)
(***************************************************************************)
CONSTANTS
    Requests, \* requests of the API
    Humans,   \* actors that are people,
    Scripts   \* and those that are scripts or agents

Actors == Humans \union Scripts

ASSUME CallersConstants == Humans \intersect Scripts = {}
=============================================================================
