------------------------------- MODULE Earnings -------------------------------
(***************************************************************************)
(* getEarningsSummary of the network adapters: each asks its own           *)
(* listTransactions for the caller's window and filters, without the       *)
(* caller's limit, and adds up what comes back.  A row counts one; the     *)
(* split by status and programme, and the age of the oldest unpaid row,    *)
(* are functions of the rows and left out.                                 *)
(***************************************************************************)
EXTENDS Networks

Earnings(report) == [report EXCEPT !.flags = @ \cup {"summary"}]

AccesstradeEarnings == Earnings(Accesstrade)
AdcellEarnings == Earnings(Adcell)
AddrevenueEarnings == Earnings(Addrevenue)
AdmitadEarnings == Earnings(Admitad)
AdrecordEarnings == Earnings(Adrecord)
AdserviceEarnings == Earnings(Adservice)
AdtractionEarnings == Earnings(Adtraction)
AffilaeEarnings == Earnings(Affilae)
AffiliateFutureEarnings == Earnings(AffiliateFuture)
AffiseEarnings == Earnings(Affise)
AfilioEarnings == Earnings(Afilio)
AvantlinkEarnings == Earnings(Avantlink)
AwinEarnings == Earnings(Awin)
BelboonEarnings == Earnings(Belboon)
CakeEarnings == Earnings(Cake)
CjEarnings == Earnings(Cj)
ClickbankEarnings == Earnings(Clickbank)
CommissionFactoryEarnings == Earnings(CommissionFactory)
ConnexityEarnings == Earnings(Connexity)
CoupangPartnersEarnings == Earnings(CoupangPartners)
DaisyconEarnings == Earnings(Daisycon)
Digistore24Earnings == Earnings(Digistore24)
EbayEarnings == Earnings(Ebay)
EduzzEarnings == Earnings(Eduzz)
EffiliationEarnings == Earnings(Effiliation)
EhubEarnings == Earnings(Ehub)
EverflowEarnings == Earnings(Everflow)
FinanceadsEarnings == Earnings(Financeads)
FirstpromoterEarnings == Earnings(Firstpromoter)
FlexoffersEarnings == Earnings(Flexoffers)
FlipkartEarnings == Earnings(Flipkart)
GrowsurfEarnings == Earnings(Growsurf)
HotmartEarnings == Earnings(Hotmart)
HowlEarnings == Earnings(Howl)
ImpactEarnings == Earnings(Impact)
IndoleadsEarnings == Earnings(Indoleads)
InvolveAsiaEarnings == Earnings(InvolveAsia)
KwankoEarnings == Earnings(Kwanko)
LeaddynoEarnings == Earnings(Leaddyno)
LevantaEarnings == Earnings(Levanta)
LinkconnectorEarnings == Earnings(Linkconnector)
LomadeeEarnings == Earnings(Lomadee)
MonetizzeEarnings == Earnings(Monetizze)
MrgeEarnings == Earnings(Mrge)
NetreferEarnings == Earnings(Netrefer)
Offer18Earnings == Earnings(Offer18)
OptimiseMediaEarnings == Earnings(OptimiseMedia)
PartnerizeEarnings == Earnings(Partnerize)
PartneroEarnings == Earnings(Partnero)
PartnerstackEarnings == Earnings(Partnerstack)
PartnerstackAdvertiserEarnings == Earnings(PartnerstackAdvertiser)
PepperjamEarnings == Earnings(Pepperjam)
PostAffiliateProEarnings == Earnings(PostAffiliatePro)
ProfitshareEarnings == Earnings(Profitshare)
RakutenEarnings == Earnings(Rakuten)
RefersionEarnings == Earnings(Refersion)
RewardfulEarnings == Earnings(Rewardful)
ScaleoEarnings == Earnings(Scaleo)
ShareasaleEarnings == Earnings(Shareasale)
ShopmyEarnings == Earnings(Shopmy)
SkimlinksEarnings == Earnings(Skimlinks)
SovrnCommerceEarnings == Earnings(SovrnCommerce)
TapfiliateEarnings == Earnings(Tapfiliate)
ToltEarnings == Earnings(Tolt)
TradedoublerEarnings == Earnings(Tradedoubler)
TradetrackerEarnings == Earnings(Tradetracker)
TravelpayoutsEarnings == Earnings(Travelpayouts)
TuneEarnings == Earnings(Tune)
TwoPerformantEarnings == Earnings(TwoPerformant)
ValueCommerceEarnings == Earnings(ValueCommerce)
WebgainsEarnings == Earnings(Webgains)
YieldkitEarnings == Earnings(Yieldkit)

(***************************************************************************)
(* All of them.  amazon-creators and thirteen advertiser adapters refuse   *)
(* the operation.                                                          *)
(***************************************************************************)
Summaries == {
    AccesstradeEarnings, AdcellEarnings, AddrevenueEarnings,
    AdmitadEarnings, AdrecordEarnings, AdserviceEarnings,
    AdtractionEarnings, AffilaeEarnings, AffiliateFutureEarnings,
    AffiseEarnings, AfilioEarnings, AvantlinkEarnings, AwinEarnings,
    BelboonEarnings, CakeEarnings, CjEarnings, ClickbankEarnings,
    CommissionFactoryEarnings, ConnexityEarnings, CoupangPartnersEarnings,
    DaisyconEarnings, Digistore24Earnings, EbayEarnings, EduzzEarnings,
    EffiliationEarnings, EhubEarnings, EverflowEarnings,
    FinanceadsEarnings, FirstpromoterEarnings, FlexoffersEarnings,
    FlipkartEarnings, GrowsurfEarnings, HotmartEarnings, HowlEarnings,
    ImpactEarnings, IndoleadsEarnings, InvolveAsiaEarnings, KwankoEarnings,
    LeaddynoEarnings, LevantaEarnings, LinkconnectorEarnings,
    LomadeeEarnings, MonetizzeEarnings, MrgeEarnings, NetreferEarnings,
    Offer18Earnings, OptimiseMediaEarnings, PartnerizeEarnings,
    PartneroEarnings, PartnerstackAdvertiserEarnings, PartnerstackEarnings,
    PepperjamEarnings, PostAffiliateProEarnings, ProfitshareEarnings,
    RakutenEarnings, RefersionEarnings, RewardfulEarnings, ScaleoEarnings,
    ShareasaleEarnings, ShopmyEarnings, SkimlinksEarnings,
    SovrnCommerceEarnings, TapfiliateEarnings, ToltEarnings,
    TradedoublerEarnings, TradetrackerEarnings, TravelpayoutsEarnings,
    TuneEarnings, TwoPerformantEarnings, ValueCommerceEarnings,
    WebgainsEarnings, YieldkitEarnings}
=============================================================================
