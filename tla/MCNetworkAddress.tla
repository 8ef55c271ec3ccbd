--------------------------- MODULE MCNetworkAddress ---------------------------
(***************************************************************************)
(* Seeds for NetworkAddress: the empty value, and the beginnings of URLs,  *)
(* of qualified names and of keys with a value.                            *)
(***************************************************************************)
EXTENDS NetworkAddress, TLC

MCSeeds ==
  {<<>>,
   Protocol \o <<"name">>,
   Protocol \o <<"name", ".", "name", ".", "name", ".", "name", ".", "name">>,
   Protocol \o <<"port", ".", "port">>,
   <<"-", "name", "=">> \o Protocol,
   <<"longname", "-", ":">> \o Protocol \o <<"name">>,
   <<"-", "name", "=", "name", "-", "name", ":">>,
   <<"name", " ", "name", "=", "name">>}

Svc500 == <<"name", ":", "port">>
MCTested ==
     <<"name">> :> {<<"name">>}
  @@ Svc500 :> {Svc500}
  @@ Protocol \o Svc500 :> {Svc500}
  @@ Protocol \o Svc500 \o <<"/", "name">> :> {Svc500}
  @@ <<"name", "%", "name", "%", "name">> :> {}
  @@ <<"number">> :> {}
  @@ <<"longname", "-", ":">> \o Protocol \o Svc500 \o <<"/", "name">> :> {Svc500}
  @@ <<"-", "name", "=", "name", "-">> \o Svc500 :> {<<"name", "-">> \o Svc500}
  @@ <<"-", "name", "=", "name", ":", "port", "%", "port">> :> {}

=============================================================================
