------------------------------ MODULE Programmes ------------------------------
(***************************************************************************)
(* How the network adapters' listProgrammes fetches the programmes, as     *)
(* profiles of the same form: a programme is a row without a window.       *)
(* Status "approved" stands for joined, "pending" for any other status.    *)
(*                                                                         *)
(* Searches and categories are left out, and so are the adapters that make *)
(* up one programme without a request, list what a search finds            *)
(* (connexity, lomadee) or ask once per status (partnerize), with a page   *)
(* size that changes (tradedoubler), or through another operation          *)
(* (value-commerce-advertiser).                                            *)
(***************************************************************************)
EXTENDS Networks

Catalogue(flags, fetch) == Whole("none", flags, fetch)

(***************************************************************************)
(* One request for all of them.                                            *)
(***************************************************************************)
AddrevenueProgrammes == Catalogue({}, OneRequest)
AdmitadAdvertiserProgrammes == Catalogue({"unfiltered"}, OneRequest)
AdserviceProgrammes == Catalogue({}, OneRequest)
AdtractionProgrammes == Catalogue({"joined"}, OneRequest)
AdtractionAdvertiserProgrammes == Catalogue({}, OneRequest)
AffilaeProgrammes == Catalogue({}, OneRequest)
AffiliateFutureProgrammes == Sending(Both, {}, Catalogue({}, OneRequest))
AfilioProgrammes == Catalogue({}, OneRequest)
AvantlinkProgrammes == Catalogue({}, OneRequest)
AwinProgrammes == Sending(Both, {}, Catalogue({"precedence", "joined"}, OneRequest))
BelboonProgrammes == Catalogue({}, OneRequest)
CommissionFactoryProgrammes == Catalogue({}, OneRequest)
CommissionFactoryAdvertiserProgrammes == Catalogue({"unfiltered"}, OneRequest)
EduzzProgrammes == Catalogue({}, OneRequest)
EffiliationProgrammes == Catalogue({}, OneRequest)
FinanceadsProgrammes == Catalogue({}, OneRequest)
LevantaProgrammes == Catalogue({}, OneRequest)
MrgeProgrammes == Catalogue({}, OneRequest)
ProfitshareProgrammes == Catalogue({}, OneRequest)
ShareasaleProgrammes == Catalogue({}, OneRequest)
SovrnCommerceProgrammes == Catalogue({}, OneRequest)
TradedoublerAdvertiserProgrammes == Catalogue({}, OneRequest)
TradetrackerProgrammes == Sending(Both, Both, Catalogue({"precedence", "joined"}, OneRequest))
WebgainsAdvertiserProgrammes == Catalogue({"unfiltered"}, OneRequest)

(***************************************************************************)
(* One request for one page.                                               *)
(***************************************************************************)
TwoPerformantProgrammes == Catalogue({}, Fetch("first", {"sized"}))
AdcellProgrammes == Catalogue({}, Fetch("first", {"sized"}))
AdrecordProgrammes == Catalogue({}, Fetch("first", {"sized"}))
EhubProgrammes == Catalogue({}, FirstPage)
IndoleadsProgrammes == Sending(Both, Both, Catalogue({}, Fetch("first", {"sized"})))
KwankoProgrammes == Catalogue({}, Fetch("first", {"sized"}))
LinkconnectorProgrammes == Catalogue({"distinct"}, FirstPage)
WebgainsProgrammes == Catalogue({}, FirstPage)
YieldkitProgrammes == Catalogue({}, Fetch("first", {"sized"}))

(***************************************************************************)
(* Page by page.                                                           *)
(***************************************************************************)
AccesstradeProgrammesFetch == Fetch("total", {"sized", "stops"})
AccesstradeProgrammes ==
    Sending(Both, {"pending"}, Catalogue({"precedence", "joined"}, AccesstradeProgrammesFetch))
AdmitadProgrammes == Catalogue({}, Fetch("total", {"sized", "stops"}))
AffiseProgrammes == Catalogue({}, AffiseFetch)
CakeProgrammes == Catalogue({}, Fetch("short", {"sized", "stops"}))
CjProgrammesFetch == Fetch("total", {"sized", "stops"})
CjProgrammes == Sending(Both, Both, Catalogue({"precedence", "joined"}, CjProgrammesFetch))
DaisyconProgrammes == Catalogue({}, DaisyconFetch)
EbayProgrammes == Catalogue({}, Fetch("short", {}))
EverflowProgrammes == Catalogue({}, EverflowFetch)
FirstpromoterProgrammes == Catalogue({}, FirstpromoterFetch)
ImpactProgrammes == Catalogue({}, Fetch("total", {}))
ImpactAdvertiserProgrammes == Catalogue({"unfiltered"}, ImpactAdvertiserFetch)
InvolveAsiaProgrammes == Catalogue({}, InvolveAsiaFetch)
KwankoAdvertiserProgrammes == Catalogue({}, Fetch("short", {"stops"}))
Offer18Programmes == Catalogue({}, Fetch("total", {"single"}))
OptimiseMediaProgrammesFetch == Fetch("total", {"stops"})
OptimiseMediaProgrammes == Sending(Both, Both, Catalogue({"precedence"}, OptimiseMediaProgrammesFetch))
PartnerizeAdvertiserProgrammes == Catalogue({"unfiltered"}, PartnerizeAdvertiserFetch)
PartnerstackProgrammes == Catalogue({}, PartnerstackFetch)
PepperjamProgrammes == Catalogue({}, PepperjamFetch)
PostAffiliateProProgrammes == Catalogue({}, PostAffiliateProFetch)
RakutenProgrammesFetch == Fetch("short", {"sized", "stops"})
RakutenProgrammes == Sending(Both, Both, Catalogue({}, RakutenProgrammesFetch))
RefersionProgrammes == Catalogue({}, RefersionFetch)
RewardfulProgrammes == Catalogue({}, RewardfulFetch)
ScaleoProgrammes == Catalogue({}, Fetch("total", {"sized", "stops"}))
TapfiliateProgrammes == Catalogue({}, TapfiliateFetch)
ToltProgrammes == Catalogue({}, ToltFetch)
TuneProgrammes == Catalogue({}, Fetch("total", {"sized", "single"}))

(***************************************************************************)
(* Read off the transactions of the last weeks, one programme each.        *)
(***************************************************************************)
ClickbankProgrammes == Sliced("day", {"distinct"}, ClickbankFetch)
DaisyconAdvertiserProgrammes == Whole("none", {"unfiltered", "distinct"}, DaisyconAdvertiserFetch)
HotmartProgrammes == Whole("instant", {"distinct"}, HotmartFetch)
HowlProgrammes == Sliced("day", {"distinct"}, HowlFetch)
NetreferProgrammes == Whole("day", {"distinct"}, OneRequest)
TravelpayoutsProgrammes == Whole("none", {"distinct"}, Fetch("short", {"enough"}))

(***************************************************************************)
(* All of them.                                                            *)
(***************************************************************************)
Catalogues == {
    AccesstradeProgrammes, AdcellProgrammes, AddrevenueProgrammes,
    AdmitadAdvertiserProgrammes, AdmitadProgrammes, AdrecordProgrammes,
    AdserviceProgrammes, AdtractionAdvertiserProgrammes,
    AdtractionProgrammes, AffilaeProgrammes, AffiliateFutureProgrammes,
    AffiseProgrammes, AfilioProgrammes, AvantlinkProgrammes,
    AwinProgrammes, BelboonProgrammes, CakeProgrammes, CjProgrammes,
    ClickbankProgrammes, CommissionFactoryAdvertiserProgrammes,
    CommissionFactoryProgrammes, DaisyconAdvertiserProgrammes,
    DaisyconProgrammes, EbayProgrammes, EduzzProgrammes,
    EffiliationProgrammes, EhubProgrammes, EverflowProgrammes,
    FinanceadsProgrammes, FirstpromoterProgrammes, HotmartProgrammes,
    HowlProgrammes, ImpactAdvertiserProgrammes, ImpactProgrammes,
    IndoleadsProgrammes, InvolveAsiaProgrammes, KwankoAdvertiserProgrammes,
    KwankoProgrammes, LevantaProgrammes, LinkconnectorProgrammes,
    MrgeProgrammes, NetreferProgrammes, Offer18Programmes,
    OptimiseMediaProgrammes, PartnerizeAdvertiserProgrammes,
    PartnerstackProgrammes, PepperjamProgrammes,
    PostAffiliateProProgrammes, ProfitshareProgrammes, RakutenProgrammes,
    RefersionProgrammes, RewardfulProgrammes, ScaleoProgrammes,
    ShareasaleProgrammes, SovrnCommerceProgrammes, TapfiliateProgrammes,
    ToltProgrammes, TradedoublerAdvertiserProgrammes,
    TradetrackerProgrammes, TravelpayoutsProgrammes, TuneProgrammes,
    TwoPerformantProgrammes, WebgainsAdvertiserProgrammes,
    WebgainsProgrammes, YieldkitProgrammes}
=============================================================================
