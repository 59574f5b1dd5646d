----------------------- MODULE MCDrmDisplayPipeline -----------------------
(***************************************************************************)
(* A small device for TLC: three connectors, three encoders, three CRTCs  *)
(* and five planes, so that connectors compete for encoders and CRTCs,    *)
(* CRTC 3 shares its only primary plane with CRTC 1 (the "already owned,  *)
(* internal error" path), CRTC 1 and 2 share an overlay plane (the best-  *)
(* effort skip) and every CRTC can see a cursor plane (ignored).  The     *)
(* encoders' current-CRTC hints point at busy CRTCs in some states.       *)
(***************************************************************************)
EXTENDS DrmDisplayPipeline, TLC

CONSTANTS c1, c2, c3

MCConnectors == {c1, c2, c3}

MCConnEncoders == (c1 :> {1}) @@ (c2 :> {1, 2}) @@ (c3 :> {2, 3})

MCEncCrtcs == <<{1, 2}, {2}, {1, 2, 3}>>

MCEncCurrentCrtc == <<2, 0, 3>>

MCPlaneCrtcs == <<{1, 3}, {2}, {1, 2, 3}, {2}, {1, 2, 3}>>

MCPlaneType == <<"primary", "primary", "overlay", "overlay", "cursor">>

=============================================================================
