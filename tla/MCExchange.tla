----------------------------- MODULE MCExchange -----------------------------
(* Exchange on few channels, routes and sockets. *)
EXTENDS ExchangeProperties

(* Route 0 has two channels at a time, route 1 one. *)
OneAtRoute1 == {<<0, 1>>, <<0, 2>>, <<1, 1>>}
=============================================================================
