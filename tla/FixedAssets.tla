---------------------------- MODULE FixedAssets ----------------------------
(***************************************************************************)
(* Fixed assets: finance_modules/assets (workflows, profiles, service).    *)
(***************************************************************************)
EXTENDS PolicyPosting

---------------------------------------------------------------------------
(* Workflows. *)

_assets_draft_posted == DraftPosted
ASSET_WORKFLOW == {
  T("pending", "place_in_service", "in_service", "in_service_date_set"),
  T("pending", "dispose", "disposed", "disposal_approved"),
  T("in_service", "complete_depreciation", "fully_depreciated", "fully_depreciated"),
  T("in_service", "dispose", "disposed", "disposal_approved"),
  T("in_service", "record_impairment", "impaired", Unguarded),
  T("impaired", "dispose", "disposed", "disposal_approved"),
  T("fully_depreciated", "dispose", "disposed", "disposal_approved")}

---------------------------------------------------------------------------
(* Accounting policies. *)

ASSET_ACQUISITION_CASH ==
  Policy("AssetAcquisitionCash", "asset.acquisition", <<Is("payment_method", "CASH")>>,
    <<AtMost("cost", 0), Below("useful_life_months", 1)>>,
     <<GL("FIXED_ASSET", "CASH")>>)
ASSET_ACQUISITION_ON_ACCOUNT ==
  Policy("AssetAcquisitionOnAccount", "asset.acquisition", <<Is("payment_method", "ON_ACCOUNT")>>,
    <<AtMost("cost", 0), Below("useful_life_months", 1)>>, <<GL("FIXED_ASSET", "AP")>>)
ASSET_CIP_CAPITALIZED ==
  Policy("AssetCIPCapitalized", "asset.cip_capitalized", <<>>,
    <<AtMost("cost", 0)>>, <<GL("FIXED_ASSET", "CIP")>>)
ASSET_DEPRECIATION ==
  Policy("AssetDepreciation", "asset.depreciation", <<>>,
    <<AtMost("depreciation_amount", 0)>>,
     <<GL("DEPRECIATION_EXPENSE", "ACCUMULATED_DEPRECIATION")>>)
ASSET_DISPOSAL_GAIN ==
  Policy("AssetDisposalGain", "asset.disposal", <<Is("disposal_type", "SALE")>>,
    <<>>,
     <<Entry("GL", <<Dr("CASH", From("proceeds")), Dr("ACCUMULATED_DEPRECIATION", From("accumulated_depreciation")), Dr("LOSS_ON_DISPOSAL", From("loss_amount")), Cr("FIXED_ASSET", From("original_cost")), Cr("GAIN_ON_DISPOSAL", From("gain_amount"))>>)>>)
ASSET_DISPOSAL_LOSS ==
  Policy("AssetDisposalLoss", "asset.disposal", <<Is("disposal_type", "RETIREMENT")>>,
    <<>>,
     <<Entry("GL", <<Dr("CASH", From("proceeds")), Dr("ACCUMULATED_DEPRECIATION", From("accumulated_depreciation")), Dr("LOSS_ON_DISPOSAL", From("loss_amount")), Cr("FIXED_ASSET", From("original_cost"))>>)>>)
ASSET_IMPAIRMENT ==
  Policy("AssetImpairment", "asset.disposal", <<Is("disposal_type", "WRITE_OFF")>>,
    <<>>, <<GL("IMPAIRMENT_LOSS", "ACCUMULATED_DEPRECIATION")>>)
ASSET_SCRAP ==
  Policy("AssetScrap", "asset.scrap", <<>>,
    <<>>,
     <<Entry("GL", <<Dr("ACCUMULATED_DEPRECIATION", From("accumulated_depreciation")), Dr("LOSS_ON_DISPOSAL", From("book_value")), Cr("FIXED_ASSET", From("original_cost"))>>)>>)
ASSET_MASS_DEPRECIATION ==
  Policy("AssetMassDepreciation", "asset.mass_depreciation", <<>>,
    <<>>, <<GL("DEPRECIATION_EXPENSE", "ACCUMULATED_DEPRECIATION")>>)
ASSET_TRANSFERRED ==
  Policy("AssetTransferred", "asset.transfer", <<>>,
    <<>>, <<GL("FIXED_ASSET", "FIXED_ASSET")>>)
ASSET_REVALUED ==
  Policy("AssetRevalued", "asset.revaluation", <<>>,
    <<>>, <<GL("FIXED_ASSET", "GAIN_ON_DISPOSAL")>>)
ASSET_COMPONENT_DEPRECIATION ==
  Policy("AssetComponentDepreciation", "asset.component_depreciation", <<>>,
    <<>>, <<GL("DEPRECIATION_EXPENSE", "ACCUMULATED_DEPRECIATION")>>)
Policies == <<ASSET_ACQUISITION_CASH, ASSET_ACQUISITION_ON_ACCOUNT,
  ASSET_CIP_CAPITALIZED, ASSET_DEPRECIATION, ASSET_DISPOSAL_GAIN, ASSET_DISPOSAL_LOSS,
  ASSET_IMPAIRMENT, ASSET_SCRAP, ASSET_MASS_DEPRECIATION, ASSET_TRANSFERRED,
  ASSET_REVALUED, ASSET_COMPONENT_DEPRECIATION>>

---------------------------------------------------------------------------
(* Service methods. *)

\* Rows the methods insert, as they are when inserted.
DepreciationSchedule == AddNew("assets_depreciation_schedules", "recorded")
AssetDisposal == AddNew("assets_disposals", "recorded")
AssetTransfer == AddNew("assets_transfers", "recorded")
AssetRevaluation == AddNew("assets_revaluations", "recorded")
DepreciationComponent == AddNew("assets_depreciation_components", "recorded")

Asset(a) == <<"assets_assets", a>>

record_asset_acquisition(a, cost, life, method) ==
  PostWithRow("record_asset_acquisition", _assets_draft_posted,
    "asset.acquisition", cost,
    [cost |-> cost, useful_life_months |-> life, payment_method |-> method],
    Add(Asset(a), "in_service"))
record_cip_capitalized(cost) ==
  PostOnly("record_cip_capitalized", _assets_draft_posted,
    "asset.cip_capitalized", cost, [cost |-> cost])
record_depreciation(amount) ==
  PostWithRow("record_depreciation", _assets_draft_posted,
    "asset.depreciation", amount, [depreciation_amount |-> amount],
    DepreciationSchedule)

\* The book value, and with it gain and loss, is known only when the cost and
\* the depreciation are given.
Max0(n) == IF n > 0 THEN n ELSE 0
record_disposal(proceeds, cost, depreciation, type) ==
  LET known == cost # None /\ depreciation # None
      book == IF known THEN cost - depreciation ELSE None
  IN  PostWithRow("record_disposal", _assets_draft_posted, "asset.disposal",
        IF known /\ book > proceeds THEN book ELSE proceeds,
        [proceeds |-> proceeds, disposal_type |-> type, original_cost |-> cost,
         accumulated_depreciation |-> depreciation, book_value |-> book,
         gain_amount |-> IF known THEN Max0(proceeds - book) ELSE None,
         loss_amount |-> IF known THEN Max0(book - proceeds) ELSE None],
        AssetDisposal)
record_impairment(amount) ==
  PostOnly("record_impairment", _assets_draft_posted, "asset.disposal", amount,
    [impairment_amount |-> amount, disposal_type |-> "WRITE_OFF", proceeds |-> 0])
record_scrap(cost, depreciation) ==
  PostOnly("record_scrap", _assets_draft_posted, "asset.scrap", cost - depreciation,
    [original_cost |-> cost, accumulated_depreciation |-> depreciation,
     book_value |-> cost - depreciation])

\* One transaction for all the assets.
run_mass_depreciation(amounts) ==
  Call("run_mass_depreciation",
    <<PostGuard(_assets_draft_posted)>>
      \o [n \in DOMAIN amounts |->
            Post("asset.mass_depreciation", amounts[n], [depreciation_amount |-> amounts[n]])]
      \o <<Commit>>)

\* These two return their success without a commit.
record_asset_transfer(value) ==
  Call("record_asset_transfer",
    <<PostGuard(_assets_draft_posted), Post("asset.transfer", value, NoCtx),
      AssetTransfer>>)
record_revaluation(old, new) ==
  Call("record_revaluation",
    <<PostGuard(_assets_draft_posted),
      Post("asset.revaluation", Abs(new - old), [surplus |-> new - old]),
      AssetRevaluation>>)

record_component_depreciation(amount) ==
  PostWithRow("record_component_depreciation", _assets_draft_posted,
    "asset.component_depreciation", amount, [depreciation_amount |-> amount],
    DepreciationComponent)

Calls ==
  {record_asset_acquisition("a", 2, 12, "CASH"), record_asset_acquisition("a", 2, 12, "ON_ACCOUNT"),
   record_asset_acquisition("a", 2, 0, "CASH"), record_cip_capitalized(2), record_depreciation(1),
   record_depreciation(0), record_disposal(2, 4, 3, "SALE"), record_disposal(0, 4, 1, "SALE"),
   record_disposal(0, 4, 3, "RETIREMENT"), record_disposal(2, None, None, "SALE"),
   record_impairment(1), record_scrap(4, 3), run_mass_depreciation(<<1, 2>>),
   record_asset_transfer(2), record_revaluation(3, 1), record_component_depreciation(1)}
============================================================================
