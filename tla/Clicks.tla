------------------------------- MODULE Clicks -------------------------------
(***************************************************************************)
(* How the network adapters' listClicks fetches the clicks of a window, as *)
(* profiles of the same form.  A click has no status.                      *)
(***************************************************************************)
EXTENDS Networks

AddrevenueClicks == Sliced("day", {}, OneRequest)
EbayClicks == Sliced("instant", {}, Fetch("short", {}))
EhubClicks == Whole("day", {}, Fetch("short", {}))
EverflowAdvertiserClicks == Whole("day", {}, OneRequest)
EverflowClicks == Sliced("instant", {}, OneRequest)
ImpactClicks == Sliced("instant", {}, ImpactFetch)
PartnerizeClicks == Whole("day", {}, Fetch("total", {"sized", "stops"}))
ScaleoClicks == Sliced("instant", {}, FirstPage)
TradetrackerClicks == Sliced("instant", {}, OneRequest)
YieldkitClicks == Whole("day", {}, YieldkitFetch)

(***************************************************************************)
(* All of them.  Every other adapter refuses the operation.                *)
(***************************************************************************)
ClickReports == {
    AddrevenueClicks, EbayClicks, EhubClicks, EverflowAdvertiserClicks,
    EverflowClicks, ImpactClicks, PartnerizeClicks, ScaleoClicks,
    TradetrackerClicks, YieldkitClicks}
=============================================================================
