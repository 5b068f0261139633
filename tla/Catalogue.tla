----------------------------- MODULE Catalogue -----------------------------
(***************************************************************************)
(* The tools the server registers (src/src/domains/) and who may use them  *)
(* (src/src/core/policy.ts).  Of a tool the request path tells apart its   *)
(* HTTP method, the risk it is declared with, whether its request carries  *)
(* the access token, and the way it is executed: one request; a purchase,  *)
(* which goes on to ask for the status of its order; or without a request. *)
(* Schemas, paths, headers and descriptions are left out.                  *)
(***************************************************************************)

Modes == {"read_only", "guarded", "full_access"}
ConfirmationModes == {"off", "money_public", "all_destructive"}

Tool(method, risk, names) ==
  {[name |-> n, method |-> method, risk |-> risk, token |-> TRUE, way |-> "request"] : n \in names}

Gets(names) == Tool("GET", "read", names)
PostReads(names) == Tool("POST", "read", names)
Writes(names) == Tool("POST", "write", names)
Publishes(names) == Tool("POST", "public", names)
Spends(names) == Tool("POST", "money", names)
Purchases(names) == {[t EXCEPT !.way = "order"] : t \in Tool("PUT", "money", names)}
TokenRequests(names) == {[t EXCEPT !.token = FALSE] : t \in Tool("POST", "sensitive", names)}
Local(risk, names) == {[t EXCEPT !.way = "local"] : t \in Tool("none", risk, names)}

(***************************************************************************)
(* One definition for the tools of a file, or of a stretch of it.          *)
(***************************************************************************)

AuthTools ==
  TokenRequests({"auth_get_access_token",
                 "auth_get_access_token_authorization_code",
                 "auth_refresh_access_token_authorization_code"})

AutoloadProfileTools ==
  Gets({"autoload_get_profile", "autoload_user_docs_tree", "autoload_user_docs_node_fields",
        "autoload_get_ad_ids_by_avito_ids", "autoload_get_avito_ids_by_ad_ids",
        "autoload_get_profile_v2"})
    \cup Writes({"autoload_create_or_update_profile"})
    \cup Publishes({"autoload_upload"})

AutoloadReportTools ==
  Writes({"autoload_create_or_update_profile_v2"})
    \cup Gets({"autoload_get_reports_v2", "autoload_get_autoload_items_info_v2",
               "autoload_get_last_completed_report", "autoload_get_report_by_id_v2"})

AutoloadItemTools ==
  Gets({"autoload_get_report_items_by_id", "autoload_get_report_items_fees_by_id",
        "autoload_get_last_completed_report_v3", "autoload_get_report_by_id_v3"})

CalltrackingTools ==
  PostReads({"calltracking_get_call_by_id", "calltracking_get_calls"})
    \cup Gets({"calltracking_get_record_by_call_id"})

CpaTools ==
  Gets({"cpa_get_call", "cpa_chat_by_action_id"})
    \cup PostReads({"cpa_chats_by_time_v1", "cpa_phones_info_from_chats", "cpa_balance_info_v2",
                    "cpa_get_call_by_id_v2"})
    \cup Publishes({"cpa_post_create_complaint", "cpa_create_complaint_by_action_id"})

CpaCurrentTools ==
  PostReads({"cpa_get_calls_by_time_v2", "cpa_chats_by_time_v2", "cpa_balance_info_v3"})

CpaAuctionTools ==
  Gets({"cpa_auction_get_user_bids"})
    \cup Spends({"cpa_auction_save_item_bids"})

CpaTargetTools ==
  Gets({"cpa_target_get_bids"})
    \cup PostReads({"cpa_target_get_promotions_by_item_ids"})
    \cup Writes({"cpa_target_remove_promotion"})
    \cup Spends({"cpa_target_save_auto_bid", "cpa_target_save_manual_bid"})

AnnouncementTools ==
  Writes({"delivery_create_announcement_3pl", "delivery_cancel_announcement_3pl",
          "delivery_create_parcel"})

SandboxAnnouncementTools ==
  Writes({"delivery_sandbox_create_announcement", "delivery_sandbox_track_announcement",
          "delivery_custom_area_schedule", "delivery_sandbox_cancel_parcel"})
    \cup PostReads({"delivery_check_confirmation_code"})

OrderDeliveryTools ==
  Writes({"delivery_set_order_properties", "delivery_set_order_real_address",
          "delivery_tracking", "delivery_prohibit_order_acceptance"})

SortingCenterTools ==
  Gets({"delivery_get_sorting_center"})
    \cup Writes({"delivery_add_sorting_center", "delivery_add_areas_sandbox",
                 "delivery_add_tags_to_sorting_center", "delivery_add_terminals_sandbox"})

TariffTools ==
  Writes({"delivery_update_terms", "delivery_add_tariff_sandbox_v2",
          "delivery_v1_cancel_announcement", "delivery_v1_cancel_parcel"})
    \cup Gets({"delivery_get_task"})

SandboxParcelTools ==
  Writes({"delivery_v1_change_parcel", "delivery_v1_create_announcement"})
    \cup PostReads({"delivery_v1_get_announcement_event", "delivery_v1_get_change_parcel_info",
                    "delivery_v1_get_parcel_info", "delivery_v1_get_registered_parcel_id"})

ParcelTools ==
  Writes({"delivery_create_sandbox_parcel_v2", "delivery_change_parcel_result",
          "delivery_change_parcels"})

HierarchyTools ==
  Gets({"hierarchy_check_ah_user_v1", "hierarchy_get_employees_v1",
        "hierarchy_list_company_phones_v1"})
    \cup Writes({"hierarchy_link_items_v1"})
    \cup PostReads({"hierarchy_list_items_by_employee_id_v1"})

ItemStatsTools ==
  Gets({"items_get_items_info", "items_get_item_info"})
    \cup PostReads({"items_post_calls_stats", "items_post_vas_prices",
                    "items_post_item_stats_shallow"})

ItemPriceTools ==
  PostReads({"items_post_item_analytics", "items_post_account_spendings"})
    \cup Publishes({"items_update_price"})
    \cup Tool("PUT", "money", {"items_put_item_vas"})

ItemVasTools ==
  Tool("PUT", "money", {"items_put_item_vas_package_v2", "items_apply_vas"})

ChatTools ==
  Gets({"messenger_get_chats_v2", "messenger_get_chat_by_id_v2", "messenger_get_messages_v3"})

MessageTools ==
  Gets({"messenger_get_voice_files"})
    \cup PostReads({"messenger_get_subscriptions"})
    \cup Publishes({"messenger_post_send_message", "messenger_post_send_image_message",
                    "messenger_delete_message"})

MessengerSettingTools ==
  Writes({"messenger_chat_read", "messenger_post_webhook_unsubscribe"})
    \cup Publishes({"messenger_post_blacklist_v2", "messenger_post_webhook_v3"})

UploadTools ==
  Writes({"messenger_upload_images"})

DiscountTools ==
  PostReads({"msg_discounts_open_api_available", "msg_discounts_open_api_stats",
             "msg_discounts_open_api_tariff_info"})
    \cup Writes({"msg_discounts_open_api_multi_create"})
    \cup Spends({"msg_discounts_open_api_multi_confirm"})

OrderTools ==
  Gets({"orders_get_orders", "orders_get_courier_delivery_range", "orders_download_label"})
    \cup Writes({"orders_markings"})
    \cup Publishes({"orders_accept_return_order"})

OrderTransitionTools ==
  Publishes({"orders_apply_transition", "orders_set_tracking_number"})
    \cup PostReads({"orders_check_confirmation_code"})
    \cup Writes({"orders_cnc_set_details", "orders_set_courier_delivery_range"})

LabelTools ==
  Writes({"orders_generate_labels", "orders_generate_labels_extended"})

BbipTools ==
  PostReads({"promotion_get_bbip_forecasts_by_items_v1",
             "promotion_get_bbip_suggests_by_items_v1", "promotion_get_dict_of_services_v1"})
    \cup Purchases({"promotion_create_bbip_order_for_items_v1"})

PromotionTools ==
  PostReads({"promotion_get_services_by_items_v1", "promotion_list_orders_by_user_v1",
             "promotion_get_order_status_v1"})

ReviewTools ==
  Gets({"reviews_get_ratings_info_v1", "reviews_get_reviews_v1"})
    \cup Publishes({"reviews_create_review_answer_v1"})
    \cup Tool("DELETE", "public", {"reviews_remove_review_answer_v1"})

StockTools ==
  PostReads({"stock_get_stocks_info"})
    \cup Tool("PUT", "public", {"stock_update_stocks"})

TariffInfoTools ==
  Gets({"tariffs_get_tariff_info"})

TrxPromoTools ==
  Gets({"trxpromo_get_commissions"})
    \cup Spends({"trxpromo_apply"})
    \cup Writes({"trxpromo_cancel"})

UserTools ==
  Gets({"user_get_user_info_self", "user_get_user_balance"})
    \cup PostReads({"user_post_operations_history"})

WebhookTools ==
  Publishes({"messenger_register_webhook"})

WebhookReadTools == Local("read", {"messenger_get_webhook_events", "messenger_get_webhook_status"})

ServerStatusTools == Local("read", {"meta_get_rate_limits", "meta_health"})

AccountStatusTools == Local("read", {"meta_auth_status", "meta_capabilities"})

\* Registered only when there is something to confirm.
ConfirmTool == "meta_confirm_action"
ConfirmationTools ==
  Local("write", {ConfirmTool, "meta_cancel_action"})
    \cup Local("read", {"meta_list_pending_actions"})

LocalTools == WebhookReadTools \cup ServerStatusTools \cup AccountStatusTools \cup ConfirmationTools

Tools ==
  AuthTools \cup AutoloadProfileTools \cup AutoloadReportTools \cup AutoloadItemTools \cup
    CalltrackingTools \cup CpaTools \cup CpaCurrentTools \cup CpaAuctionTools \cup
    CpaTargetTools \cup AnnouncementTools \cup SandboxAnnouncementTools \cup
    OrderDeliveryTools \cup SortingCenterTools \cup TariffTools \cup SandboxParcelTools \cup
    ParcelTools \cup HierarchyTools \cup ItemStatsTools \cup ItemPriceTools \cup ItemVasTools
    \cup ChatTools \cup MessageTools \cup MessengerSettingTools \cup UploadTools \cup
    DiscountTools \cup OrderTools \cup OrderTransitionTools \cup LabelTools \cup BbipTools
    \cup PromotionTools \cup ReviewTools \cup StockTools \cup TariffInfoTools \cup
    TrxPromoTools \cup UserTools \cup WebhookTools \cup LocalTools

(***************************************************************************)
(* Policy.                                                                 *)
(***************************************************************************)

Destructive(risk) == risk \in {"write", "money", "public"}

\* Mutant: guarded blocks only what costs money.
AllowedUnlessMoney(name, risk, policy) ==
  /\ risk = "sensitive" => policy.expose
  /\ name \notin policy.deny
  /\ policy.allow = {} \/ name \in policy.allow
  /\ policy.mode = "read_only" => risk = "read"
  /\ policy.mode = "guarded" => risk # "money"

\* evaluatePolicy(): whether a tool is registered at all.
Allowed(name, risk, policy) ==
  /\ risk = "sensitive" => policy.expose
  /\ name \notin policy.deny
  /\ policy.allow = {} \/ name \in policy.allow
  /\ policy.mode = "read_only" => risk = "read"
  /\ policy.mode = "guarded" => risk \notin {"money", "public"}

\* requiresConfirmation()
NeedsConfirmation(risk, policy) ==
  \/ policy.confirmation # "off" /\ risk \in {"money", "public"}
  \/ policy.confirmation = "all_destructive" /\ risk = "write"
=============================================================================
