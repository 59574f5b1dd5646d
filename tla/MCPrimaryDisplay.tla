-------------------------- MODULE MCPrimaryDisplay --------------------------
(* Three device nodes: card0 and card2 are KMS devices, card1 is not.      *)
(* card0 drives an internal panel and an HDMI port, card2 a DisplayPort   *)
(* and a connector of neither type.                                       *)
EXTENDS PrimaryDisplay

CONSTANTS p1, p2, p3, p4

MCPhys == {p1, p2, p3, p4}
MCNodeKMS == [n \in 0..2 |-> n # 1]
MCNodeConns == (0 :> <<p1, p2>>) @@ (1 :> <<>>) @@ (2 :> <<p3, p4>>)
MCConnName ==
  (p1 :> "eDP-1") @@ (p2 :> "HDMI-A-1") @@ (p3 :> "DP-1") @@ (p4 :> "Composite-1")
MCConnType ==
  (p1 :> "internal") @@ (p2 :> "external") @@ (p3 :> "external")
    @@ (p4 :> "invalid")
MCOrderChoices ==
  {<<"...">>, <<"DP-1", "...">>, <<"DP-1">>, <<"HDMI-A-1", "HDMI-A-1">>}
=============================================================================
