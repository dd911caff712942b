----------------------------- MODULE Inventory -----------------------------
(***************************************************************************)
(* Inventory: finance_modules/inventory (workflows, profiles, service),    *)
(* with the cost lots of finance_services/valuation_service.py.            *)
(***************************************************************************)
EXTENDS PolicyPosting

---------------------------------------------------------------------------
(* Workflows. *)

RECEIPT_WORKFLOW == {T("pending", "begin_inspection", "inspecting", Unguarded),
  T("pending", "accept", "accepted", Unguarded),
  T("inspecting", "pass_qc", "accepted", "qc_passed"),
  T("inspecting", "fail_qc", "rejected", "qc_failed"),
  T("accepted", "complete_putaway", "putaway", Unguarded),
  T("rejected", "return_to_vendor", "pending", Unguarded)}
ISSUE_WORKFLOW == {T("requested", "pick", "picked", "stock_available"),
  T("picked", "ship", "shipped", Unguarded),
  T("shipped", "confirm_delivery", "delivered", Unguarded)}
TRANSFER_WORKFLOW == {T("requested", "ship", "in_transit", Unguarded),
  T("in_transit", "receive", "received", Unguarded)}
_inv_draft_posted == DraftPosted

---------------------------------------------------------------------------
(* Accounting policies. *)

INVENTORY_RECEIPT ==
  Policy("InventoryReceipt", "inventory.receipt", <<>>,
    <<AtMost("quantity", 0)>>, <<GL("INVENTORY", "GRNI"),
     Pair("INVENTORY", "STOCK_ON_HAND", "IN_TRANSIT")>>)
INVENTORY_RECEIPT_WITH_VARIANCE ==
  Policy("InventoryReceiptWithVariance", "inventory.receipt", <<Is("has_variance", TRUE)>>,
    <<AtMost("quantity", 0)>>,
     <<Entry("GL", <<Dr("INVENTORY", From("standard_total")), Dr("PPV", From("variance_amount")), Cr("GRNI", Amt)>>)>>)
INVENTORY_ISSUE_SALE ==
  Policy("InventoryIssueSale", "inventory.issue", <<Is("issue_type", "SALE")>>,
    <<AtMost("quantity", 0)>>, <<GL("COGS", "INVENTORY"),
     Pair("INVENTORY", "SOLD", "STOCK_ON_HAND")>>)
INVENTORY_ISSUE_PRODUCTION ==
  Policy("InventoryIssueProduction", "inventory.issue", <<Is("issue_type", "PRODUCTION")>>,
    <<>>, <<GL("WIP", "INVENTORY"),
     Pair("INVENTORY", "IN_PRODUCTION", "STOCK_ON_HAND")>>)
INVENTORY_ISSUE_SCRAP ==
  Policy("InventoryIssueScrap", "inventory.issue", <<Is("issue_type", "SCRAP")>>,
    <<>>, <<GL("SCRAP_EXPENSE", "INVENTORY"),
     Pair("INVENTORY", "SCRAPPED", "STOCK_ON_HAND")>>)
INVENTORY_ISSUE_TRANSFER ==
  Policy("InventoryIssueTransfer", "inventory.issue", <<Is("issue_type", "TRANSFER")>>,
    <<>>, <<Pair("INVENTORY", "IN_TRANSIT", "STOCK_ON_HAND")>>)
INVENTORY_TRANSFER_IN ==
  Policy("InventoryTransferIn", "inventory.transfer_in", <<>>,
    <<>>, <<Pair("INVENTORY", "STOCK_ON_HAND", "IN_TRANSIT")>>)
INVENTORY_RECEIPT_FROM_PRODUCTION ==
  Policy("InventoryReceiptFromProduction", "inventory.receipt_from_production", <<>>,
    <<>>, <<GL("INVENTORY", "WIP")>>)
INVENTORY_ADJUSTMENT_POSITIVE ==
  Policy("InventoryAdjustmentPositive", "inventory.adjustment", <<Positive("quantity_change")>>,
    <<>>, <<GL("INVENTORY", "INVENTORY_VARIANCE")>>)
INVENTORY_ADJUSTMENT_NEGATIVE ==
  Policy("InventoryAdjustmentNegative", "inventory.adjustment", <<Negative("quantity_change")>>,
    <<>>, <<GL("INVENTORY_VARIANCE", "INVENTORY")>>)
INVENTORY_REVALUATION ==
  Policy("InventoryRevaluation", "inventory.revaluation", <<>>,
    <<>>, <<GL("INVENTORY_REVALUATION", "INVENTORY")>>)
INVENTORY_CYCLE_COUNT_POSITIVE ==
  Policy("InventoryCycleCountPositive", "inventory.cycle_count", <<Positive("variance_quantity")>>,
    <<AtMost("amount", 0)>>, <<GL("INVENTORY", "INVENTORY_VARIANCE"),
     Pair("INVENTORY", "ITEM_BALANCE", "ADJUSTMENT")>>)
INVENTORY_CYCLE_COUNT_NEGATIVE ==
  Policy("InventoryCycleCountNegative", "inventory.cycle_count", <<Negative("variance_quantity")>>,
    <<AtMost("amount", 0)>>, <<GL("INVENTORY_VARIANCE", "INVENTORY"),
     Pair("INVENTORY", "ADJUSTMENT", "ITEM_BALANCE")>>)
INVENTORY_WAREHOUSE_TRANSFER_OUT ==
  Policy("InventoryWarehouseTransferOut", "inventory.warehouse_transfer", <<Is("direction", "out")>>,
    <<AtMost("amount", 0)>>, <<GL("INVENTORY_IN_TRANSIT", "INVENTORY"),
     Pair("INVENTORY", "IN_TRANSIT", "STOCK_ON_HAND")>>)
INVENTORY_WAREHOUSE_TRANSFER_IN ==
  Policy("InventoryWarehouseTransferIn", "inventory.warehouse_transfer", <<Is("direction", "in")>>,
    <<AtMost("amount", 0)>>, <<GL("INVENTORY", "INVENTORY_IN_TRANSIT"),
     Pair("INVENTORY", "STOCK_ON_HAND", "IN_TRANSIT")>>)
INVENTORY_EXPIRED_WRITE_OFF ==
  Policy("InventoryExpiredWriteOff", "inventory.expired", <<>>,
    <<AtMost("amount", 0)>>, <<GL("SCRAP_EXPENSE", "INVENTORY"),
     Pair("INVENTORY", "WRITEOFF", "ITEM_BALANCE")>>)
Policies == <<INVENTORY_RECEIPT, INVENTORY_RECEIPT_WITH_VARIANCE, INVENTORY_ISSUE_SALE,
  INVENTORY_ISSUE_PRODUCTION, INVENTORY_ISSUE_SCRAP, INVENTORY_ISSUE_TRANSFER,
  INVENTORY_TRANSFER_IN, INVENTORY_RECEIPT_FROM_PRODUCTION,
  INVENTORY_ADJUSTMENT_POSITIVE, INVENTORY_ADJUSTMENT_NEGATIVE, INVENTORY_REVALUATION,
  INVENTORY_CYCLE_COUNT_POSITIVE, INVENTORY_CYCLE_COUNT_NEGATIVE,
  INVENTORY_WAREHOUSE_TRANSFER_OUT, INVENTORY_WAREHOUSE_TRANSFER_IN,
  INVENTORY_EXPIRED_WRITE_OFF>>

---------------------------------------------------------------------------
(* Service methods. *)

Receipt(r) == <<"inventory_receipts", r>>
Adjustment(a) == <<"inventory_adjustments", a>>
CycleCount(c) == <<"inventory_cycle_counts", c>>

\* The lot and the posting carry the same cost.
receive_inventory(r, item, quantity, price, date) ==
  Call("receive_inventory",
    <<PostGuard(_inv_draft_posted), CreateLot(item, quantity, quantity * price, date),
      Post("inventory.receipt", quantity * price, [quantity |-> quantity]),
      Add(Receipt(r), "accepted"), Commit>>)
\* The lot is valued at standard; the row is added and nothing commits it.
receive_with_variance(r, item, quantity, actual, standard, date) ==
  Call("receive_with_variance",
    <<PostGuard(_inv_draft_posted),
      CreateLot(item, quantity, quantity * standard, date),
      Post("inventory.receipt", quantity * actual,
           [quantity |-> quantity, standard_total |-> quantity * standard,
            variance_amount |-> quantity * (actual - standard), has_variance |-> TRUE]),
      Add(Receipt(r), "accepted")>>)
receive_from_production(item, quantity, price, date) ==
  Call("receive_from_production",
    <<PostGuard(_inv_draft_posted),
      CreateLot(item, quantity, quantity * price, date),
      Post("inventory.receipt_from_production", quantity * price, [quantity |-> quantity]), Commit>>)
receive_transfer(quantity, price) ==
  PostOnly("receive_transfer", _inv_draft_posted, "inventory.transfer_in",
    quantity * price, [quantity |-> quantity])

\* The lots are consumed first; the issue leaves no row of its own.
_issue_inventory(name, i, item, quantity, issue_type, method) ==
  Call(name,
    <<Consume(item, quantity, method, i), PostGuard(_inv_draft_posted),
      PostCost("inventory.issue", [quantity |-> quantity, issue_type |-> issue_type]), Commit>>)
issue_sale(i, item, quantity, method) ==
  _issue_inventory("issue_sale", i, item, quantity, "SALE", method)
issue_production(i, item, quantity, method) ==
  _issue_inventory("issue_production", i, item, quantity, "PRODUCTION", method)
issue_scrap(i, item, quantity, method) ==
  _issue_inventory("issue_scrap", i, item, quantity, "SCRAP", method)
issue_transfer(i, item, quantity, method) ==
  _issue_inventory("issue_transfer", i, item, quantity, "TRANSFER", method)
record_inter_warehouse_transfer(i, item, quantity, method) ==
  _issue_inventory("record_inter_warehouse_transfer", i, item, quantity, "TRANSFER", method)
record_shelf_life_write_off(i, item, quantity) ==
  _issue_inventory("record_shelf_life_write_off", i, item, quantity, "SCRAP", "fifo")

adjust_inventory(a, quantity_change, value_change) ==
  PostWithRow("adjust_inventory", _inv_draft_posted, "inventory.adjustment",
    Abs(value_change), [quantity_change |-> quantity_change], Add(Adjustment(a), "recorded"))
\* A write-up and a write-down post the same way round.
revalue_inventory(old, new) ==
  PostOnly("revalue_inventory", _inv_draft_posted, "inventory.revaluation",
    Abs(new - old), [variance_amount |-> new - old])
record_cycle_count(c, expected, actual, price) ==
  LET variance == actual - expected
  IN  IF variance = 0 THEN Call("record_cycle_count", <<>>)
      ELSE PostWithRow("record_cycle_count", _inv_draft_posted, "inventory.cycle_count",
             Abs(variance * price), [variance_quantity |-> variance, amount |-> Abs(variance * price)],
             Add(CycleCount(c), "counted"))

Calls ==
  {receive_inventory("r", "x", 2, 1, 1), receive_inventory("r", "x", 0, 1, 1),
   receive_with_variance("q", "x", 1, 3, 2, 2), receive_from_production("x", 1, 2, 3),
   receive_transfer(1, 1), issue_sale("a", "x", 1, "fifo"), issue_sale("b", "x", 2, "lifo"),
   issue_production("b", "x", 1, "lifo"), issue_scrap("b", "x", 2, "fifo"),
   issue_transfer("b", "x", 1, "fifo"), record_inter_warehouse_transfer("b", "x", 1, "lifo"),
   record_shelf_life_write_off("b", "x", 1), adjust_inventory("d", -1, -1),
   adjust_inventory("d", 1, 1), adjust_inventory("d", 0, 1), revalue_inventory(1, 2),
   record_cycle_count("c", 1, 2, 1), record_cycle_count("c", 2, 1, 0), record_cycle_count("c", 1, 1, 1)}
============================================================================
