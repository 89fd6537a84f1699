------------------------------- MODULE Networks -------------------------------
(***************************************************************************)
(* How each network adapter's listTransactions fetches a report            *)
(* (src/networks/<network>/adapter.ts), as one profile record each.        *)
(* Earnings, Programmes, Partners and Clicks use the same form.            *)
(*                                                                         *)
(*   walk   how the window is cut: "whole" (one query), "sliced"           *)
(*          (chunkDateRange), "skipping" (slices a day apart), "daily"     *)
(*   grain  what the upstream compares: "day" (calendar dates), "instant", *)
(*          "none" (the upstream takes no window)                          *)
(*   flags  "precedence" of several statuses one is sent, joined foremost  *)
(*          "joined"     the upstream answers joined ones, asked or not    *)
(*          "clock"      a reading of UTC is sent as one of another zone   *)
(*          "client"     the window is applied to the rows that come back  *)
(*          "unfiltered" the status is not applied to them                 *)
(*          "distinct"   a row that comes back again is dropped            *)
(*          "summary"    the rows are added up, without the limit          *)
(*   pages  when the fetch of a slice ends: "one" (one unbounded request), *)
(*          "first" (one request for one page), "short" (a page that is    *)
(*          not full), "empty" (an empty page), "total" (the upstream says *)
(*          there is no more)                                              *)
(*   stops  "sized"    the caller's limit is also the page size            *)
(*          "stops"    ends once limit rows have been fetched              *)
(*          "enough"   ends once limit rows have passed the filters        *)
(*          "single"   ends after one page when there is a limit           *)
(*          "uncapped" no cap on the number of pages                       *)
(*   sent   the statuses that are sent upstream when asked for alone;      *)
(*          "approved" stands for every status but pending                 *)
(*   narrow of those, the ones sent as fewer of the network's own statuses *)
(*          than the adapter maps to them                                  *)
(*                                                                         *)
(* Field names and formats are left out, and so is what a status is sent   *)
(* as when it has no name upstream.                                        *)
(***************************************************************************)

Fetch(pages, stops) == [pages |-> pages, stops |-> stops]
OneRequest == Fetch("one", {})
FirstPage == Fetch("first", {})

Profile(walk, grain, flags, fetch) ==
    [walk |-> walk, grain |-> grain, flags |-> flags,
     pages |-> fetch.pages, stops |-> fetch.stops, sent |-> {}, narrow |-> {}]
Whole(grain, flags, fetch) == Profile("whole", grain, flags, fetch)
Sliced(grain, flags, fetch) == Profile("sliced", grain, flags, fetch)
Skipping(grain, flags, fetch) == Profile("skipping", grain, flags, fetch)
Daily(grain, flags, fetch) == Profile("daily", grain, flags, fetch)

Both == {"pending", "approved"}
Sending(sent, narrow, report) == [report EXCEPT !.sent = sent, !.narrow = narrow]

(***************************************************************************)
(* Windows cut by chunkDateRange: a slice starts where the last one ended.  *)
(***************************************************************************)
Accesstrade == Sliced("instant", {}, FirstPage)
Adcell == Sliced("day", {}, OneRequest)
Addrevenue == Sliced("day", {}, OneRequest)
Adrecord == Sliced("instant", {}, FirstPage)
Affilae == Sliced("instant", {}, OneRequest)
Avantlink == Sliced("day", {}, OneRequest)
Awin == Sliced("instant", {"clock"}, OneRequest)
Belboon == Sliced("day", {}, OneRequest)
Cake == Sliced("instant", {}, FirstPage)
ClickbankFetch == Fetch("empty", {})
Clickbank == Sliced("day", {}, ClickbankFetch)
Connexity == Sliced("day", {}, OneRequest)
Ebay == Sliced("instant", {}, Fetch("short", {}))
Financeads == Sliced("day", {}, OneRequest)
Flipkart == Sending(Both, Both, Sliced("day", {}, Fetch("empty", {})))
HowlFetch == OneRequest
Howl == Sliced("day", {}, HowlFetch)
ImpactFetch == Fetch("total", {})
Impact == Sliced("instant", {}, ImpactFetch)
InvolveAsiaFetch == Fetch("total", {})
InvolveAsia == Sliced("day", {}, InvolveAsiaFetch)
Levanta == Sliced("day", {}, OneRequest)
Netrefer == Sliced("day", {}, OneRequest)
Offer18 == Sliced("day", {}, FirstPage)
OptimiseMedia == Sliced("instant", {}, FirstPage)
PepperjamFetch == Fetch("total", {})
Pepperjam == Sliced("day", {}, PepperjamFetch)
Scaleo == Sliced("instant", {}, FirstPage)
Shareasale == Sliced("day", {}, OneRequest)
Shopmy == Sliced("instant", {}, Fetch("short", {}))
Tradetracker == Sending(Both, {}, Sliced("instant", {}, OneRequest))
Tune == Sliced("instant", {}, Fetch("first", {"sized"}))

(***************************************************************************)
(* The window in one query.                                                *)
(***************************************************************************)
TwoPerformant == Sending(Both, {"approved"}, Whole("day", {}, Fetch("total", {})))
Admitad == Whole("day", {}, Fetch("total", {}))
AdmitadAdvertiserFetch == Fetch("total", {})
AdmitadAdvertiser == Whole("day", {}, AdmitadAdvertiserFetch)
Adservice == Whole("day", {}, OneRequest)
Adtraction == Sending(Both, {"pending"}, Whole("day", {}, OneRequest))
AdtractionAdvertiser == Sending(Both, {"pending"}, Whole("day", {}, OneRequest))
AffiseFetch == Fetch("total", {"sized", "stops"})
Affise == Whole("day", {}, AffiseFetch)
Afilio == Whole("day", {}, OneRequest)
AwinAdvertiser == Sending(Both, {}, Whole("instant", {}, OneRequest))
CjAdvertiserFetch == Fetch("total", {"sized", "stops"})
CjAdvertiser == Whole("instant", {}, CjAdvertiserFetch)
CjFetch == Fetch("total", {"stops"})
Cj == Whole("instant", {}, CjFetch)
CommissionFactory == Sending(Both, {"approved"}, Whole("day", {}, OneRequest))
CommissionFactoryAdvertiser == Whole("day", {}, OneRequest)
CoupangPartners == Whole("day", {}, Fetch("empty", {}))
DaisyconFetch == Fetch("total", {})
Daisycon == Sending(Both, Both, Whole("day", {}, DaisyconFetch))
DaisyconAdvertiserFetch == Fetch("total", {})
DaisyconAdvertiser == Sending(Both, Both, Whole("day", {}, DaisyconAdvertiserFetch))
Digistore24 == Whole("instant", {}, Fetch("short", {}))
Eduzz == Whole("day", {}, OneRequest)
Effiliation == Whole("day", {}, OneRequest)
Ehub == Sending({"approved"}, {"approved"}, Whole("day", {}, Fetch("short", {})))
EverflowFetch == Fetch("total", {"sized", "stops"})
Everflow == Whole("instant", {}, EverflowFetch)
FirstpromoterFetch == Fetch("total", {})
Firstpromoter == Whole("none", {"client"}, FirstpromoterFetch)
Flexoffers == Sending(Both, {"approved"}, Whole("day", {}, Fetch("short", {"enough"})))
GrowsurfFetch == Fetch("total", {})
Growsurf == Whole("none", {"client"}, GrowsurfFetch)
HotmartFetch == Fetch("total", {})
Hotmart == Whole("instant", {}, HotmartFetch)
ImpactAdvertiserFetch == Fetch("total", {"sized", "stops"})
ImpactAdvertiser == Sending(Both, {"approved"}, Whole("instant", {}, ImpactAdvertiserFetch))
Indoleads == Sending(Both, {"approved"}, Whole("day", {}, OneRequest))
Kwanko == Whole("day", {}, OneRequest)
KwankoAdvertiser == Whole("day", {}, OneRequest)
LeaddynoFetch == Fetch("short", {})
Leaddyno == Whole("instant", {"client"}, LeaddynoFetch)
Linkconnector == Whole("day", {}, Fetch("short", {}))
Lomadee == Whole("day", {"client"}, OneRequest)
Monetizze == Whole("day", {"client"}, OneRequest)
Mrge == Whole("none", {"client"}, OneRequest)
PartnerizeFetch == Fetch("total", {"stops"})
Partnerize == Whole("day", {}, PartnerizeFetch)
PartnerizeAdvertiserFetch == Fetch("total", {"stops"})
PartnerizeAdvertiser == Whole("instant", {}, PartnerizeAdvertiserFetch)
PartneroFetch == Fetch("total", {})
Partnero == Whole("none", {"client"}, PartneroFetch)
PartnerstackFetch == Fetch("total", {})
Partnerstack == Whole("none", {"client"}, PartnerstackFetch)
PartnerstackAdvertiserFetch == Fetch("total", {})
PartnerstackAdvertiser == Whole("none", {"client"}, PartnerstackAdvertiserFetch)
PostAffiliateProFetch == Fetch("short", {})
PostAffiliatePro == Whole("none", {"client"}, PostAffiliateProFetch)
Profitshare == Whole("day", {}, Fetch("total", {}))
Rakuten == Whole("day", {}, OneRequest)
RefersionFetch == Fetch("total", {})
Refersion == Whole("none", {"client"}, RefersionFetch)
RewardfulFetch == Fetch("total", {})
Rewardful == Whole("none", {"client"}, RewardfulFetch)
Skimlinks == Sending(Both, {"approved"}, Whole("day", {}, Fetch("total", {"stops"})))
TapfiliateFetch == Fetch("total", {})
Tapfiliate == Whole("day", {"client"}, TapfiliateFetch)
ToltFetch == Fetch("total", {})
Tolt == Whole("none", {"client"}, ToltFetch)
TradedoublerFetch == Fetch("short", {"uncapped"})
Tradedoubler == Whole("day", {}, TradedoublerFetch)
TravelpayoutsFetch == Fetch("short", {})
Travelpayouts == Sending(Both, {"approved"}, Whole("day", {}, TravelpayoutsFetch))
ValueCommerce == Sending(Both, {}, Whole("day", {}, Fetch("short", {"sized", "stops"})))
ValueCommerceAdvertiserFetch == Fetch("one", {"sized"})
ValueCommerceAdvertiser == Sending(Both, {}, Whole("day", {}, ValueCommerceAdvertiserFetch))
YieldkitFetch == Fetch("total", {})
Yieldkit == Whole("day", {}, YieldkitFetch)

(***************************************************************************)
(* Windows cut into years, each slice a day after the last one ended.      *)
(***************************************************************************)
Webgains == Skipping("day", {}, OneRequest)
WebgainsAdvertiser == Skipping("day", {}, OneRequest)

(***************************************************************************)
(* One query per day.                                                      *)
(***************************************************************************)
AffiliateFuture == Daily("day", {}, OneRequest)
SovrnCommerce == Daily("day", {}, OneRequest)

(***************************************************************************)
(* All of them.  amazon-creators, everflow-advertiser and                  *)
(* tradedoubler-advertiser refuse the operation.                           *)
(***************************************************************************)
Adapters == {
    Accesstrade, Adcell, Addrevenue, Admitad, AdmitadAdvertiser, Adrecord,
    Adservice, Adtraction, AdtractionAdvertiser, Affilae, AffiliateFuture,
    Affise, Afilio, Avantlink, Awin, AwinAdvertiser, Belboon, Cake, Cj,
    CjAdvertiser, Clickbank, CommissionFactory,
    CommissionFactoryAdvertiser, Connexity, CoupangPartners, Daisycon,
    DaisyconAdvertiser, Digistore24, Ebay, Eduzz, Effiliation, Ehub,
    Everflow, Financeads, Firstpromoter, Flexoffers, Flipkart, Growsurf,
    Hotmart, Howl, Impact, ImpactAdvertiser, Indoleads, InvolveAsia,
    Kwanko, KwankoAdvertiser, Leaddyno, Levanta, Linkconnector, Lomadee,
    Monetizze, Mrge, Netrefer, Offer18, OptimiseMedia, Partnerize,
    PartnerizeAdvertiser, Partnero, Partnerstack, PartnerstackAdvertiser,
    Pepperjam, PostAffiliatePro, Profitshare, Rakuten, Refersion,
    Rewardful, Scaleo, Shareasale, Shopmy, Skimlinks, SovrnCommerce,
    Tapfiliate, Tolt, Tradedoubler, Tradetracker, Travelpayouts, Tune,
    TwoPerformant, ValueCommerce, ValueCommerceAdvertiser, Webgains,
    WebgainsAdvertiser, Yieldkit}
=============================================================================
