------------------------------ MODULE Partners ------------------------------
(***************************************************************************)
(* How the advertiser adapters' listMediaPartners and                      *)
(* getProgrammePerformance fetch their rows, as profiles of the same form. *)
(* A partner is a row without a window; status "approved" stands for       *)
(* active, "pending" for any other status.                                 *)
(*                                                                         *)
(* Left out: searches, publisher filters and the polling of a report       *)
(* impact-advertiser is not given at once; the performance reports of      *)
(* value-commerce-advertiser, whose page is a multiple of the limit, and   *)
(* of tradedoubler-advertiser, which asks for one pending_status.          *)
(***************************************************************************)
EXTENDS Networks

(***************************************************************************)
(* Media partners: listed by the network, or (cj-advertiser,               *)
(* tradedoubler-advertiser) read off the events of the last weeks.         *)
(***************************************************************************)
Roster(flags, fetch) == Whole("none", flags, fetch)

AwinAdvertiserPartners == Roster({}, OneRequest)
CjAdvertiserPartners == Roster({"distinct"}, Fetch("total", {}))
EverflowAdvertiserPartners == Sending(Both, {"pending"}, Roster({}, Fetch("first", {"sized"})))
FirstpromoterPartners == Roster({}, FirstpromoterFetch)
ImpactAdvertiserPartners == Roster({}, ImpactAdvertiserFetch)
LeaddynoPartners == Roster({}, LeaddynoFetch)
PartnerizeAdvertiserPartners == Roster({}, PartnerizeAdvertiserFetch)
PartneroPartners == Roster({}, PartneroFetch)
PartnerstackAdvertiserPartners == Roster({}, PartnerstackAdvertiserFetch)
PostAffiliateProPartners == Roster({}, PostAffiliateProFetch)
RefersionPartners == Roster({}, RefersionFetch)
RewardfulPartners == Roster({}, RewardfulFetch)
TapfiliatePartners == Roster({}, TapfiliateFetch)
ToltPartners == Roster({}, ToltFetch)
TradedoublerAdvertiserPartners == Roster({"distinct"}, OneRequest)

(***************************************************************************)
(* Performance: a window's transactions, all of them, added up per partner *)
(* and day; the limit is applied to the sums.  No status is asked for.     *)
(***************************************************************************)
RolledUp(report) == Sending({}, {}, [report EXCEPT !.flags = @ \cup {"summary", "unfiltered"}])

AdmitadAdvertiserPerformance == RolledUp(AdmitadAdvertiser)
AdtractionAdvertiserPerformance == RolledUp(Whole("day", {}, OneRequest))
AwinAdvertiserPerformance == RolledUp(Whole("day", {}, OneRequest))
CjAdvertiserPerformance == RolledUp(CjAdvertiser)
CommissionFactoryAdvertiserPerformance == RolledUp(Whole("day", {}, OneRequest))
DaisyconAdvertiserPerformance == RolledUp(DaisyconAdvertiser)
EverflowAdvertiserPerformance == RolledUp(Whole("day", {}, OneRequest))
FirstpromoterPerformance == RolledUp(Firstpromoter)
KwankoAdvertiserPerformance == RolledUp(Whole("day", {}, OneRequest))
LeaddynoPerformance == RolledUp(Leaddyno)
PartneroPerformance == RolledUp(Partnero)
PartnerstackAdvertiserPerformance == RolledUp(PartnerstackAdvertiser)
PostAffiliateProPerformance == RolledUp(PostAffiliatePro)
RefersionPerformance == RolledUp(Refersion)
RewardfulPerformance == RolledUp(Rewardful)
TapfiliatePerformance == RolledUp(Tapfiliate)
ToltPerformance == RolledUp(Tolt)
WebgainsAdvertiserPerformance == RolledUp(WebgainsAdvertiser)

\* The network adds up; the limit bounds the rows fetched.
ImpactAdvertiserPerformance == Whole("day", {}, Fetch("total", {"sized", "stops"}))
PartnerizeAdvertiserPerformance == Whole("day", {}, PartnerizeAdvertiserFetch)

(***************************************************************************)
(* All of them.  The other advertiser adapters refuse the operations.      *)
(***************************************************************************)
Rosters == {
    AwinAdvertiserPartners, CjAdvertiserPartners,
    EverflowAdvertiserPartners, FirstpromoterPartners,
    ImpactAdvertiserPartners, LeaddynoPartners,
    PartnerizeAdvertiserPartners, PartneroPartners,
    PartnerstackAdvertiserPartners, PostAffiliateProPartners,
    RefersionPartners, RewardfulPartners, TapfiliatePartners, ToltPartners,
    TradedoublerAdvertiserPartners}

Performances == {
    AdmitadAdvertiserPerformance, AdtractionAdvertiserPerformance,
    AwinAdvertiserPerformance, CjAdvertiserPerformance,
    CommissionFactoryAdvertiserPerformance, DaisyconAdvertiserPerformance,
    EverflowAdvertiserPerformance, FirstpromoterPerformance,
    ImpactAdvertiserPerformance, KwankoAdvertiserPerformance,
    LeaddynoPerformance, PartnerizeAdvertiserPerformance,
    PartneroPerformance, PartnerstackAdvertiserPerformance,
    PostAffiliateProPerformance, RefersionPerformance,
    RewardfulPerformance, TapfiliatePerformance, ToltPerformance,
    WebgainsAdvertiserPerformance}
=============================================================================
