----------------------------- MODULE MCSidecar -----------------------------
(***************************************************************************)
(* Sidecar with one request of several items, on any endpoint, or one that *)
(* is refused at once, and one that adds a record or asks for a flush.     *)
(***************************************************************************)
EXTENDS Sidecar, TLC

CONSTANTS many, one, viewer

MCRequests == {many, one}
MCAsks     ==
  many :>
    ([route : {"batch"},
      body  : {<<>>, <<"good", "good">>, <<"good", "invalid">>, <<"good", "swells">>}]
      \union [route : {"single"}, body : {<<"invalid">>}]
      \union [route : {"ndjson"}, body : {<<"invalid", "good">>, <<"long">>, <<"invalid">>}]
      \union [route : {"strict"}, body : {<<"invalid">>}]
      \union [route : {"otlp"}, body : {<<"good", "swells">>}])
  @@ one :>
    ([route : {"single"}, body : {<<"good">>}] \union [route : {"flush"}, body : {<<>>}])
=============================================================================
