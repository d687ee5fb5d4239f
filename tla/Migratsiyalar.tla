---------------------------- MODULE Migratsiyalar ----------------------------
(***************************************************************************)
(* The 27 revisions of migrations/versions, each as the operations of its  *)
(* upgrade() and of its downgrade(), in their order.  Where downgrade()    *)
(* undoes upgrade() operation by operation, backwards, it is Teskari of    *)
(* it.  Two revisions also fill columns of existing rows (op.execute):     *)
(* rows are not modelled.                                                  *)
(***************************************************************************)
EXTENDS Sxema

(* The tables of the analysis module that is gone, as the migration and    *)
(* core/storage/database.py both list them, and what downgrade() makes of  *)
(* each of them.                                                           *)
EskiModul ==
    << "pipeline_events", "risk_blocks", "daily_stats", "market_health_log",
       "audit_reports" >>
EngSodda ==
    [ustun |-> Ustunlar({"id"}, {}, {"created_at"}),
     indeks |-> {}, yagona |-> {}, kalit |-> {}]

\* 9adb13e4b0ec, the tables nobody refers to.
BirinchiJadvallar ==
    << Yarat("coin_rulings", Asosiy({"symbol", "status", "reason"}, {}, {"source", "set_by"}, {}, {})),
       Yagona("coin_rulings", "ix_coin_rulings_symbol"),
       Yarat("content", Asosiy(
             {"kind", "title", "min_tier", "position", "is_published"}, {},
             {"description", "file_id"}, {}, {})),
       Yarat("daily_stats", Asosiy(
             {"stat_date", "signals_created", "signals_activated", "tp1_count",
              "tp2_count", "stop_count", "false_signal_count", "total_participants",
              "total_volume_usd"},
             {}, {"avg_score", "avg_risk_reward"}, {}, {})),
       Yagona("daily_stats", "ix_daily_stats_stat_date"),
       Yarat("halal_universe_snapshots", Asosiy({"symbols", "scanned_depth", "is_complete"}, {}, {}, {}, {})),
       Yarat("market_health_log", Asosiy(
             {"value", "band", "is_daily_preview"}, {},
             {"btc_dominance_score", "trend_breadth_score", "volatility_score",
              "user_capacity_score", "saturation_score", "detail"},
             {}, {})),
       Indeks("market_health_log", "ix_market_health_created"),
       Yarat("price_config", Asosiy(
             {"tier", "period", "currency", "amount", "is_active"}, {},
             {"payment_details"}, {"tier_period_currency"}, {})),
       Yarat("risk_blocks", Asosiy({"reason"}, {}, {"symbol", "detail", "market_health"}, {}, {})),
       Indeks("risk_blocks", "ix_risk_blocks_reason"),
       Indeks("risk_blocks", "ix_risk_blocks_symbol"),
       Yarat("risk_config", Asosiy({"key", "value"}, {}, {"updated_by", "note"}, {}, {})),
       Yagona("risk_config", "ix_risk_config_key") >>

\* 9adb13e4b0ec, signals and users.
SignalJadvallari ==
    << Yarat("signals", Asosiy(
             {"symbol", "source", "status", "entry", "stop", "tp1", "tp2",
              "entry_order_type", "exit_order_type", "is_false_signal"},
             {},
             {"price_at_signal", "score", "score_breakdown", "halal_reason", "note",
              "market_health_at_entry", "correlation_group", "activated_at", "closed_at",
              "close_price", "result_pct", "postmortem_notes", "broadcast_message_ids"},
             {}, {})),
       Indeks("signals", "ix_signals_status"),
       Indeks("signals", "ix_signals_status_created"),
       Indeks("signals", "ix_signals_symbol"),
       Yarat("users", Asosiy(
             {"telegram_id", "role", "language", "is_blocked"}, {},
             {"username", "full_name", "declared_balance_usd", "balance_updated_at",
              "last_active_at"},
             {}, {})),
       Yagona("users", "ix_users_telegram_id"),
       Yarat("signal_events", Asosiy(
             {"signal_id", "event"}, {}, {"price", "score", "detail"}, {},
             {Kaskad("signal_id", "signals")})),
       Indeks("signal_events", "ix_signal_events_signal_id") >>

\* 9adb13e4b0ec, what belongs to a user.
ObunaJadvallari ==
    << Yarat("subscriptions", Asosiy(
             {"user_id", "tier", "period", "status", "starts_at", "expires_at",
              "is_trial"},
             {}, {"reminders_sent", "suspended_at", "suspend_reason"}, {},
             {Kaskad("user_id", "users")})),
       Indeks("subscriptions", "ix_subscriptions_expires_at"),
       Indeks("subscriptions", "ix_subscriptions_status_expires"),
       Indeks("subscriptions", "ix_subscriptions_user_id"),
       Yarat("user_positions", Asosiy(
             {"user_id", "signal_id", "amount_usd", "entry_price", "trade_date"}, {},
             {"risk_amount_usd", "closed_at", "exit_price", "partial_exit_price",
              "partial_close_pct", "pnl_usd", "pnl_pct"},
             {"user_signal"}, {Kaskad("signal_id", "signals"), Kaskad("user_id", "users")})),
       Indeks("user_positions", "ix_user_positions_signal_id"),
       Indeks("user_positions", "ix_user_positions_trade_date"),
       Indeks("user_positions", "ix_user_positions_user_date"),
       Indeks("user_positions", "ix_user_positions_user_id"),
       Yarat("violations", Asosiy(
             {"user_id", "reason"}, {}, {"reported_by", "suspended_days"}, {},
             {Kaskad("user_id", "users")})),
       Indeks("violations", "ix_violations_user_id"),
       Yarat("payments", Asosiy(
             {"user_id", "tier", "period", "amount", "currency", "status"}, {},
             {"subscription_id", "receipt_file_id", "reviewed_by", "reviewed_at",
              "reject_reason"},
             {},
             {Boshatadi("subscription_id", "subscriptions"), Kaskad("user_id", "users")})),
       Indeks("payments", "ix_payments_status"),
       Indeks("payments", "ix_payments_user_id") >>

\* The first schema, made by one migration.
M_9adb13e4b0ec ==
    Qaytariladi(BirinchiJadvallar \o SignalJadvallari \o ObunaJadvallari)

\* risk_blocks gets the score it refused.
M_a1c4f7d92b03 ==
    Qaytariladi(
      << Qosh("risk_blocks", "score", "N") >>)

\* The weekly audit reports.
M_da6c8ea490c9 ==
    Qaytariladi(
      << Yarat("audit_reports", Asosiy(
               {"generated_at", "period_days", "rendered", "total", "traded", "tp2",
                "tp1_then_stop", "stop", "cancelled", "false_signals", "pattern_count",
                "report_date"},
               {}, {"average_score", "average_holding_hours", "sample_warning"},
               {"report_date_period"}, {})),
         Indeks("audit_reports", "ix_audit_reports_generated_at") >>)

\* When a signal was broadcast: the site writes signals too, the bot sends them.
M_26969526e4f4 ==
    Qaytariladi(
      << Qosh("signals", "broadcast_at", "N"),
         Indeks("signals", "ix_signals_broadcast_at") >>)

\* The links of the site.
M_3f599fdf0f4f ==
    Qaytariladi(
      << Yarat("social_links", Asosiy({"title", "url", "icon", "position", "is_active"}, {}, {}, {}, {})) >>)

\* A video uploaded on the site.
M_7b21e4c05d18 ==
    Qaytariladi(
      << Qosh("content", "video_path", "N") >>)

\* Two more scores of the market health log.
M_b4e1a7c30d92 ==
    Qaytariladi(
      HarBirini("market_health_log", <<"structure_breadth_score", "quarterly_phase_score">>, "N"))

\* The events of the old analysis module.
M_c7d2f5a91e40 ==
    Qaytariladi(
      << Yarat("pipeline_events", Asosiy(
               {"symbol", "stage", "status", "cycle_at"}, {}, {"reason", "score"}, {}, {})),
         Indeks("pipeline_events", "ix_pipeline_events_symbol"),
         Indeks("pipeline_events", "ix_pipeline_events_stage"),
         Indeks("pipeline_events", "ix_pipeline_events_cycle_at"),
         Indeks("pipeline_events", "ix_pipeline_events_cycle") >>)

\* A signal remembers that it reached TP1; old rows are filled from their status.
M_e91b4c7a2d55 ==
    Qaytariladi(
      << Qosh("signals", "tp1_reached", "D") >>)

\* The letter of the quarterly phase.
M_f3a7c15d8e29 ==
    Qaytariladi(
      << Qosh("market_health_log", "quarterly_phase", "N") >>)

\* The number of targets is free: tp2 may be NULL, tp3 and the count are new.
M_a2f9d43c6b17 ==
    [yuqori |-> << Qosh("signals", "tp3", "N"),
                  Qosh("signals", "reached_tps", "D"),
                  Ozgartir("signals", "tp2", "N") >>,
     pastga |-> << Ozgartir("signals", "tp2", "X"),
                   UstunTashla("signals", "reached_tps"),
                   UstunTashla("signals", "tp3") >>]

\* Market snapshots and the ready posts; their timestamps have no server default.
M_b8d3e6f14a72 ==
    Qaytariladi(
      << Yarat("bozor_kesimlari", Vaqtsiz({"kod", "qiymat", "olingan"}, {}, {}, {}, {})),
         Indeks("bozor_kesimlari", "ix_bozor_kesim_kod_vaqt"),
         Yarat("bozor_korinishlari", Vaqtsiz({"turi", "sana", "asboblar_json", "xulosa", "kutilma"}, {}, {}, {}, {})),
         Indeks("bozor_korinishlari", "ix_bozor_korinish_turi_sana") >>)

\* The tables of the old module go.  upgrade() looks at what is there
\* (Amallar of SxemaYoli); downgrade() makes them again with two columns.
M_a1f4e07c9b62 ==
    [yuqori |-> [k \in 1..Len(EskiModul) |-> Tashla(EskiModul[k])],
     pastga |-> [k \in 1..Len(EskiModul) |-> Yarat(EskiModul[k], EngSodda)]]

\* The parts of the capital and the partial exits of a position.
M_d5c9b21e73f8 ==
    Qaytariladi(
      << Yarat("capital_blocks", Vaqtsiz(
               {"user_id", "raqam", "hajm_usd"}, {"band_kapital_usd", "band_xavf_usd"}, {},
               {"user_bolak"}, {Kaskad("user_id", "users")})),
         Indeks("capital_blocks", "ix_capital_blocks_user_id"),
         Yarat("position_exits", Vaqtsiz(
               {"position_id", "bosqich", "narx", "ulush_pct", "miqdor_usd",
                "natija_usd", "yopilgan_vaqt"},
               {"sabab"}, {}, {"pozitsiya_bosqich"},
               {Kaskad("position_id", "user_positions")})),
         Indeks("position_exits", "ix_position_exits_position_id"),
         Indeks("position_exits", "ix_position_exits_yopilgan_vaqt"),
         Indeks("position_exits", "ix_position_exits_vaqt") >>)

\* The feed of the homepage and the two charts of a signal.
M_e7b3c9d15a24 ==
    Qaytariladi(
      << Yarat("homepage_posts", Vaqtsiz(
               {"content_type"}, {}, {"text_content", "media_url", "admin_id"}, {},
               {Boshatadi("admin_id", "users")})),
         Indeks("homepage_posts", "ix_homepage_posts_admin_id"),
         Indeks("homepage_posts", "ix_homepage_posts_created") >>
      \o HarBirini("signals", <<"entry_chart_image", "result_chart_image">>, "N"))

\* The last state of each coin in the cycle.
M_f8a2d64c091b ==
    Qaytariladi(
      << Yarat("zanjir_holatlari", Vaqtsiz(
               {"symbol", "bloklar_json", "natija", "tekshirilgan"},
               {"toliq", "ishonch", "izoh"}, {"uzildi_blokda", "signal_id"}, {},
               {Boshatadi("signal_id", "signals")})),
         Yagona("zanjir_holatlari", "ix_zanjir_holatlari_symbol"),
         Indeks("zanjir_holatlari", "ix_zanjir_holatlari_tekshirilgan") >>)

\* Articles, durations, and where a user stopped in a lesson.
M_a4c81f2b7d63 ==
    Qaytariladi(
      HarBirini("content", <<"body", "duration_seconds", "category">>, "N")
      \o << Yarat("content_progress", Asosiy(
                  {"user_id", "content_id"}, {"percent"}, {}, {"uq_progress_user_content"},
                  {Kaskad("user_id", "users"), Kaskad("content_id", "content")})),
            Indeks("content_progress", "ix_content_progress_user_id"),
            Indeks("content_progress", "ix_content_progress_content_id") >>)

\* Widgets, and the source of an automatic post: one post for one source.
M_b7e392a5c184 ==
    Qaytariladi(
      << Qosh("homepage_posts", "source_kind", "D") >>
      \o HarBirini("homepage_posts", <<"source_id", "link">>, "N")
      \o << Yagona("homepage_posts", "uq_post_manba"),
            Yarat("user_widgets", Asosiy(
                  {"user_id", "widget"}, {"position"}, {}, {"uq_widget_user_widget"},
                  {Kaskad("user_id", "users")})),
            Indeks("user_widgets", "ix_user_widgets_user_id") >>)

\* Six tables, two columns each: the default is set or taken away.
VaqtQiymati(tur) ==
    LET jadvallar == <<"bozor_kesimlari", "bozor_korinishlari", "capital_blocks",
                       "homepage_posts", "position_exits", "zanjir_holatlari">>
        ustunlar == <<"created_at", "updated_at">>
    IN  [k \in 1..12 |-> Ozgartir(jadvallar[(k + 1) \div 2], ustunlar[((k - 1) % 2) + 1], tur)]

\* The timestamps of six tables get the server default the models declare.
M_c3f0a92d7b41 ==
    [yuqori |-> VaqtQiymati("D"), pastga |-> VaqtQiymati("X")]

\* The watch panel: the state of each coin and the one row of the scan.
M_d5b71e4c9a28 ==
    Qaytariladi(
      << Yarat("kuzatuv_holatlari", Asosiy(
               {"symbol", "yonalish", "tekshirilgan"},
               {"yonalish_izoh", "otdi", "diqqat", "segmentlar_json", "bloklar_json",
                "zona_darajasi", "royxat"},
               {"zona_past", "zona_yuqori", "ogohlantirish", "nisbiy_kuch", "orin"}, {},
               {})),
         Yagona("kuzatuv_holatlari", "ix_kuzatuv_holatlari_symbol"),
         Indeks("kuzatuv_holatlari", "ix_kuzatuv_holatlari_tekshirilgan"),
         Yarat("kuzatuv_skani", Asosiy(
               {}, {"sorov", "holat", "tekshirildi", "otdi", "izoh"},
               {"boshlandi", "tugadi"}, {}, {})) >>)

\* The live market of the Top 20.
M_e8a3c15f6b92 ==
    Qaytariladi(
      << Yarat("kuzatuv_bozor", Asosiy(
               {"symbol", "yangilangan"}, {"yirik_savdo", "yiriklar_json"},
               {"narx", "xarid_bosimi", "hajm_usd", "market_cap", "hajm_24s",
                "ozgarish_1s", "ozgarish_24s", "ozgarish_7k"},
               {}, {})),
         Yagona("kuzatuv_bozor", "ix_kuzatuv_bozor_symbol"),
         Indeks("kuzatuv_bozor", "ix_kuzatuv_bozor_yangilangan") >>)

\* How many coins a user searched on a day.
M_f2d94b78c3a1 ==
    Qaytariladi(
      << Yarat("kunlik_qidiruv", Asosiy(
               {"user_id", "sana"}, {"soni"}, {}, {"uq_kunlik_qidiruv"},
               {Kaskad("user_id", "users")})),
         Indeks("kunlik_qidiruv", "ix_kunlik_qidiruv_user_id"),
         Indeks("kunlik_qidiruv", "ix_kunlik_qidiruv_sana") >>)

\* The full market data of a coin.
M_a7f3e29d5c84 ==
    Qaytariladi(
      HarBirini("kuzatuv_bozor", <<"orin_cg", "fdv", "muomalada", "jami_token", "eng_kop_token",
                   "ath", "ath_farq", "atl", "atl_farq", "yuqori_24s",
                   "past_24s">>, "N"))

\* The second gate of the panel (taken back by d1a4f76b3e08).
M_b4c8d21a9e37 ==
    Qaytariladi(
      HarBirini("kuzatuv_holatlari", <<"bosqich", "bosqich_izoh">>, "D")
      \o HarBirini("kuzatuv_holatlari", <<"bosqich_ulush", "impuls_past", "impuls_yuqori", "narx">>, "N"))

\* The exact prices of the break and of the sweep.
M_c9e15b3f8a42 ==
    Qaytariladi(
      HarBirini("kuzatuv_holatlari", <<"bos_narx", "sweep_narx">>, "N"))

\* The second gate goes: downgrade() adds its columns in their first order.
M_d1a4f76b3e08 ==
    LET nomlar == <<"bosqich", "bosqich_izoh", "bosqich_ulush",
                   "impuls_past", "impuls_yuqori">>
    IN  [yuqori |-> [k \in 1..5 |-> UstunTashla("kuzatuv_holatlari", nomlar[k])],
         pastga |-> HarBirini("kuzatuv_holatlari", SubSeq(nomlar, 1, 2), "D")
                    \o HarBirini("kuzatuv_holatlari", SubSeq(nomlar, 3, 5), "N")]

\* e4b7a2c91f05, the sessions, volumes and settings of the radar.
RadarSessiyaJadvallari ==
    << Yarat("radar_hajm", Asosiy({"symbol", "yangilangan"}, {"kunlar"}, {"ortacha_30k"}, {}, {})),
       Yagona("radar_hajm", "ix_radar_hajm_symbol"),
       Yarat("radar_holati", Asosiy(
             {}, {"sorov", "oxirgi_xato"},
             {"ishchi_tirik", "hajm_yangilandi", "baholash_oxirgi"}, {}, {})),
       Yarat("radar_sessiyalar", Asosiy(
             {"turi", "sham_vaqti", "kun", "tartib", "boshlandi"},
             {"holat", "universum", "darvozadan", "elakdan", "nomzod", "manbalar_json",
              "sozlama_json", "izoh"},
             {"tugadi", "btc_ozgarish"}, {}, {})),
       Indeks("radar_sessiyalar", "ix_radar_sessiyalar_kun"),
       Indeks("radar_sessiyalar", "ix_radar_sessiyalar_turi_sham"),
       Yarat("radar_sozlamalar", Asosiy({"kalit", "qiymat"}, {}, {"ozgartirdi"}, {}, {})),
       Yagona("radar_sozlamalar", "ix_radar_sozlamalar_kalit"),
       Yarat("radar_yashirin", Asosiy({"symbol"}, {"sabab"}, {"gacha", "qoshdi"}, {}, {})),
       Yagona("radar_yashirin", "ix_radar_yashirin_symbol") >>

\* e4b7a2c91f05, the results of a session.
RadarNatijaJadvali ==
    << Yarat("radar_natijalar", Asosiy(
             {"sessiya_id", "symbol", "belgi", "turi"},
             {"tekshiruvlar_json", "tasdiq_soni", "harakat_soni", "yoqilgi_soni",
              "malumot_yoq_soni", "nomzod", "holat", "ketma_ket", "yashirin",
              "yangi_listing", "halol"},
             {"narx", "hajm_24s", "hajm_nisbati", "ozgarish_24s", "market_cap", "orin",
              "kel_24s_oxiri", "kel_24s_max", "kel_24s_min", "kel_24s_vaqt",
              "kel_7k_oxiri", "kel_7k_max", "kel_7k_min", "kel_7k_vaqt"},
             {"uq_radar_natijalar_sessiya_symbol"},
             {Kaskad("sessiya_id", "radar_sessiyalar")})),
       Indeks("radar_natijalar", "ix_radar_natijalar_sessiya_id"),
       Indeks("radar_natijalar", "ix_radar_natijalar_symbol") >>

\* The tables of the radar.
M_e4b7a2c91f05 ==
    Qaytariladi(RadarSessiyaJadvallari \o RadarNatijaJadvali)

(* down_revision of each revision: the one chain from base to head. *)
Tartib ==
    << M_9adb13e4b0ec, M_a1c4f7d92b03, M_da6c8ea490c9, M_26969526e4f4,
       M_3f599fdf0f4f, M_7b21e4c05d18, M_b4e1a7c30d92, M_c7d2f5a91e40,
       M_e91b4c7a2d55, M_f3a7c15d8e29, M_a2f9d43c6b17, M_b8d3e6f14a72,
       M_a1f4e07c9b62, M_d5c9b21e73f8, M_e7b3c9d15a24, M_f8a2d64c091b,
       M_a4c81f2b7d63, M_b7e392a5c184, M_c3f0a92d7b41, M_d5b71e4c9a28,
       M_e8a3c15f6b92, M_f2d94b78c3a1, M_a7f3e29d5c84, M_b4c8d21a9e37,
       M_c9e15b3f8a42, M_d1a4f76b3e08, M_e4b7a2c91f05 >>

=============================================================================
