------------------------------ MODULE Modellar ------------------------------
(***************************************************************************)
(* The tables the program's code works with: the ORM classes of            *)
(* core/storage/models.py.  Of each column only what the database enforces *)
(* is kept (may it be NULL, does the server fill it in); the types, and    *)
(* the defaults the ORM fills in itself, are left out.  Every class also   *)
(* has the id and the two timestamps of core/storage/base.py.              *)
(***************************************************************************)
EXTENDS Sxema

\* Users, subscriptions and payments (models.py:37-124).
User ==
    Jadval(
        {"telegram_id", "role", "language", "is_blocked"}, {},
        {"username", "full_name", "declared_balance_usd", "balance_updated_at",
         "last_active_at"},
        {}, {"ix_users_telegram_id"}, {})

Subscription ==
    Jadval(
        {"user_id", "tier", "period", "status", "starts_at", "expires_at", "is_trial"}, {},
        {"reminders_sent", "suspended_at", "suspend_reason"},
        {"ix_subscriptions_expires_at", "ix_subscriptions_status_expires",
         "ix_subscriptions_user_id"},
        {}, {Kaskad("user_id", "users")})

Payment ==
    Jadval(
        {"user_id", "tier", "period", "amount", "currency", "status"}, {},
        {"subscription_id", "receipt_file_id", "reviewed_by", "reviewed_at",
         "reject_reason"},
        {"ix_payments_status", "ix_payments_user_id"}, {},
        {Kaskad("user_id", "users"), Boshatadi("subscription_id", "subscriptions")})

PriceConfig ==
    Jadval(
        {"tier", "period", "currency", "amount", "is_active"}, {}, {"payment_details"}, {},
        {"tier_period_currency"}, {})

\* Lessons and what the site keeps of a user (models.py:127-249).
Content ==
    Jadval(
        {"kind", "title", "min_tier", "position", "is_published"}, {},
        {"description", "file_id", "video_path", "body", "duration_seconds", "category"},
        {}, {}, {})

ContentProgress ==
    Jadval(
        {"user_id", "content_id"}, {"percent"}, {},
        {"ix_content_progress_content_id", "ix_content_progress_user_id"},
        {"uq_progress_user_content"},
        {Kaskad("user_id", "users"), Kaskad("content_id", "content")})

UserWidget ==
    Jadval(
        {"user_id", "widget"}, {"position"}, {}, {"ix_user_widgets_user_id"},
        {"uq_widget_user_widget"}, {Kaskad("user_id", "users")})

Violation ==
    Jadval(
        {"user_id", "reason"}, {}, {"reported_by", "suspended_days"},
        {"ix_violations_user_id"}, {}, {Kaskad("user_id", "users")})

\* The halal list and its snapshots (models.py:256-286).
CoinRuling ==
    Jadval(
        {"symbol", "status", "reason"}, {}, {"source", "set_by"}, {},
        {"ix_coin_rulings_symbol"}, {})

HalalUniverseSnapshot ==
    Jadval({"symbols", "scanned_depth", "is_complete"}, {}, {}, {}, {}, {})

\* Signals, their events and the settings the admin overrides.
SignalRecord ==
    Jadval(
        {"symbol", "source", "status", "entry", "stop", "tp1", "entry_order_type",
         "exit_order_type", "is_false_signal"},
        {"tp1_reached", "reached_tps"},
        {"tp2", "tp3", "price_at_signal", "score", "score_breakdown", "halal_reason",
         "note", "market_health_at_entry", "correlation_group", "activated_at",
         "closed_at", "close_price", "result_pct", "postmortem_notes",
         "broadcast_message_ids", "broadcast_at", "entry_chart_image",
         "result_chart_image"},
        {"ix_signals_broadcast_at", "ix_signals_status", "ix_signals_status_created",
         "ix_signals_symbol"},
        {}, {})

SignalEvent ==
    Jadval(
        {"signal_id", "event"}, {}, {"price", "score", "detail"},
        {"ix_signal_events_signal_id"}, {}, {Kaskad("signal_id", "signals")})

RiskConfigEntry ==
    Jadval({"key", "value"}, {}, {"updated_by", "note"}, {}, {"ix_risk_config_key"}, {})

\* Entered positions, links, market snapshots.
UserPosition ==
    Jadval(
        {"user_id", "signal_id", "amount_usd", "entry_price", "trade_date"}, {},
        {"risk_amount_usd", "closed_at", "exit_price", "partial_exit_price",
         "partial_close_pct", "pnl_usd", "pnl_pct"},
        {"ix_user_positions_signal_id", "ix_user_positions_trade_date",
         "ix_user_positions_user_date", "ix_user_positions_user_id"},
        {"user_signal"}, {Kaskad("user_id", "users"), Kaskad("signal_id", "signals")})

SocialLink ==
    Jadval({"title", "url", "icon", "position", "is_active"}, {}, {}, {}, {}, {})

BozorKesimi ==
    Jadval({"kod", "qiymat", "olingan"}, {}, {}, {"ix_bozor_kesim_kod_vaqt"}, {}, {})

BozorKorinishi ==
    Jadval(
        {"turi", "sana", "asboblar_json", "xulosa", "kutilma"}, {}, {},
        {"ix_bozor_korinish_turi_sana"}, {}, {})

\* Portfolio: the parts of the capital and the partial exits.
CapitalBlock ==
    Jadval(
        {"user_id", "raqam", "hajm_usd"}, {"band_kapital_usd", "band_xavf_usd"}, {},
        {"ix_capital_blocks_user_id"}, {"user_bolak"}, {Kaskad("user_id", "users")})

PositionExit ==
    Jadval(
        {"position_id", "bosqich", "narx", "ulush_pct", "miqdor_usd", "natija_usd",
         "yopilgan_vaqt"},
        {"sabab"}, {},
        {"ix_position_exits_position_id", "ix_position_exits_vaqt",
         "ix_position_exits_yopilgan_vaqt"},
        {"pozitsiya_bosqich"}, {Kaskad("position_id", "user_positions")})

\* The feed of the homepage: one post for one source (uq_post_manba).
HomepagePost ==
    Jadval(
        {"content_type"}, {"source_kind"},
        {"text_content", "media_url", "source_id", "link", "admin_id"},
        {"ix_homepage_posts_admin_id", "ix_homepage_posts_created"}, {"uq_post_manba"},
        {Boshatadi("admin_id", "users")})

\* The last state of the cycle and of the watch panel, one row per coin.
ZanjirHolati ==
    Jadval(
        {"symbol", "bloklar_json", "natija", "tekshirilgan"}, {"toliq", "ishonch", "izoh"},
        {"uzildi_blokda", "signal_id"}, {"ix_zanjir_holatlari_tekshirilgan"},
        {"ix_zanjir_holatlari_symbol"}, {Boshatadi("signal_id", "signals")})

KuzatuvHolati ==
    Jadval(
        {"symbol", "yonalish", "tekshirilgan"},
        {"yonalish_izoh", "otdi", "diqqat", "segmentlar_json", "bloklar_json",
         "zona_darajasi", "royxat"},
        {"narx", "zona_past", "zona_yuqori", "bos_narx", "sweep_narx", "ogohlantirish",
         "nisbiy_kuch", "orin"},
        {"ix_kuzatuv_holatlari_tekshirilgan"}, {"ix_kuzatuv_holatlari_symbol"}, {})

KuzatuvSkani ==
    Jadval(
        {}, {"sorov", "holat", "tekshirildi", "otdi", "izoh"}, {"boshlandi", "tugadi"}, {},
        {}, {})

KuzatuvBozor ==
    Jadval(
        {"symbol", "yangilangan"}, {"yirik_savdo", "yiriklar_json"},
        {"narx", "xarid_bosimi", "hajm_usd", "market_cap", "hajm_24s", "ozgarish_1s",
         "ozgarish_24s", "ozgarish_7k", "orin_cg", "fdv", "muomalada", "jami_token",
         "eng_kop_token", "ath", "ath_farq", "atl", "atl_farq", "yuqori_24s", "past_24s"},
        {"ix_kuzatuv_bozor_yangilangan"}, {"ix_kuzatuv_bozor_symbol"}, {})

KunlikQidiruv ==
    Jadval(
        {"user_id", "sana"}, {"soni"}, {},
        {"ix_kunlik_qidiruv_sana", "ix_kunlik_qidiruv_user_id"}, {"uq_kunlik_qidiruv"},
        {Kaskad("user_id", "users")})

\* The radar: sessions, results, volumes, settings, its one state row.
RadarSessiya ==
    Jadval(
        {"turi", "sham_vaqti", "kun", "tartib", "boshlandi"},
        {"holat", "universum", "darvozadan", "elakdan", "nomzod", "manbalar_json",
         "sozlama_json", "izoh"},
        {"tugadi", "btc_ozgarish"},
        {"ix_radar_sessiyalar_kun", "ix_radar_sessiyalar_turi_sham"}, {}, {})

RadarNatija ==
    Jadval(
        {"sessiya_id", "symbol", "belgi", "turi"},
        {"tekshiruvlar_json", "tasdiq_soni", "harakat_soni", "yoqilgi_soni",
         "malumot_yoq_soni", "nomzod", "holat", "ketma_ket", "yashirin", "yangi_listing",
         "halol"},
        {"narx", "hajm_24s", "hajm_nisbati", "ozgarish_24s", "market_cap", "orin",
         "kel_24s_oxiri", "kel_24s_max", "kel_24s_min", "kel_24s_vaqt", "kel_7k_oxiri",
         "kel_7k_max", "kel_7k_min", "kel_7k_vaqt"},
        {"ix_radar_natijalar_sessiya_id", "ix_radar_natijalar_symbol"},
        {"uq_radar_natijalar_sessiya_symbol"}, {Kaskad("sessiya_id", "radar_sessiyalar")})

RadarHajm ==
    Jadval(
        {"symbol", "yangilangan"}, {"kunlar"}, {"ortacha_30k"}, {},
        {"ix_radar_hajm_symbol"}, {})

RadarSozlama ==
    Jadval({"kalit", "qiymat"}, {}, {"ozgartirdi"}, {}, {"ix_radar_sozlamalar_kalit"}, {})

RadarYashirin ==
    Jadval(
        {"symbol"}, {"sabab"}, {"gacha", "qoshdi"}, {}, {"ix_radar_yashirin_symbol"}, {})

RadarHolati ==
    Jadval(
        {}, {"sorov", "oxirgi_xato"},
        {"ishchi_tirik", "hajm_yangilandi", "baholash_oxirgi"}, {}, {}, {})

(* Base.metadata: every table of the code, by its name. *)
JadvalNomlari ==
    {"users", "subscriptions", "payments", "price_config", "content",
     "content_progress", "user_widgets", "violations", "coin_rulings",
     "halal_universe_snapshots", "signals", "signal_events", "risk_config",
     "user_positions", "social_links", "bozor_kesimlari", "bozor_korinishlari",
     "capital_blocks", "position_exits", "homepage_posts", "zanjir_holatlari",
     "kuzatuv_holatlari", "kuzatuv_skani", "kuzatuv_bozor", "kunlik_qidiruv",
     "radar_sessiyalar", "radar_natijalar", "radar_hajm", "radar_sozlamalar",
     "radar_yashirin", "radar_holati"}

Modellar ==
    [t \in JadvalNomlari |->
        CASE t = "users" -> User
          [] t = "subscriptions" -> Subscription
          [] t = "payments" -> Payment
          [] t = "price_config" -> PriceConfig
          [] t = "content" -> Content
          [] t = "content_progress" -> ContentProgress
          [] t = "user_widgets" -> UserWidget
          [] t = "violations" -> Violation
          [] t = "coin_rulings" -> CoinRuling
          [] t = "halal_universe_snapshots" -> HalalUniverseSnapshot
          [] t = "signals" -> SignalRecord
          [] t = "signal_events" -> SignalEvent
          [] t = "risk_config" -> RiskConfigEntry
          [] t = "user_positions" -> UserPosition
          [] t = "social_links" -> SocialLink
          [] t = "bozor_kesimlari" -> BozorKesimi
          [] t = "bozor_korinishlari" -> BozorKorinishi
          [] t = "capital_blocks" -> CapitalBlock
          [] t = "position_exits" -> PositionExit
          [] t = "homepage_posts" -> HomepagePost
          [] t = "zanjir_holatlari" -> ZanjirHolati
          [] t = "kuzatuv_holatlari" -> KuzatuvHolati
          [] t = "kuzatuv_skani" -> KuzatuvSkani
          [] t = "kuzatuv_bozor" -> KuzatuvBozor
          [] t = "kunlik_qidiruv" -> KunlikQidiruv
          [] t = "radar_sessiyalar" -> RadarSessiya
          [] t = "radar_natijalar" -> RadarNatija
          [] t = "radar_hajm" -> RadarHajm
          [] t = "radar_sozlamalar" -> RadarSozlama
          [] t = "radar_yashirin" -> RadarYashirin
          [] t = "radar_holati" -> RadarHolati]

=============================================================================
