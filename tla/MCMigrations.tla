---------------------------- MODULE MCMigrations ----------------------------
(* Two replicas, two releases: the first one after the SMS tables, whose       *)
(* application could sell subscriptions and discounts, and the head.           *)
EXTENDS Migrations, TLC

MCReleases == {20, Newest}
MCTargets == {0, 20}
MCMaxRows == [r \in MCReleases |-> IF r = Newest THEN 2 ELSE 1]

OldRows == {
    Row("payments", "target", "subscription"),
    Row("promo_codes", "applies_to", "subscription"),
    Row("auth_identities", "provider", "apple"),
    Row("booking_price_lines", "line_type", "discount"),
    Row("regions", "code", "seeded"),
    Row("regions", "code", "twice")}
\* A guest known by Telegram alone who booked and has an address remembered, and
\* a user of a seeded district and language.
NewRows == {
    TelegramGuest, BookedByTelegram,
    Row("user_recent_locations", "user_id", "telegram"),
    Row("users", "district_id", "seeded"),
    Row("users", "language_id", "seeded")}

MCWrites == [r \in MCReleases |-> IF r = Newest THEN NewRows ELSE OldRows]
MCErases == [r \in MCReleases |->
    IF r = Newest THEN RegionRows \cup {TelegramGuest, BookedByTelegram}
    ELSE {Row("regions", "code", "twice")}]
MCParent == [w \in OldRows \cup NewRows |-> IF w \in OfTelegramGuests THEN {TelegramGuest} ELSE {}]

Symmetry == Permutations(Container)
=============================================================================
