----------------------------- MODULE Migrations -----------------------------
(***************************************************************************)
(* The database schema and how it moves (backend/app/alembic).  A schema   *)
(* is the set of its objects: tables, foreign keys, indexes, and those     *)
(* columns and constraints that some revision adds or removes on its own.  *)
(* A revision is a pair of programs, its upgrade() and its downgrade(),    *)
(* whose statements PostgreSQL accepts or refuses.  Containers run         *)
(* `alembic upgrade head' before they serve; an operator may go back.      *)
(***************************************************************************)
EXTENDS Naturals, Sequences, FiniteSets

CONSTANTS
    Container,  \* the replicas of the service
    Releases,   \* the revisions that were the head of a deployed image
    Writes,     \* Writes[r]: the rows that the application of release r may
                \* write and on which some statement of a revision depends
    Erases,     \* Erases[r]: those of them, and of the seeded regions and
                \* districts, that the application of release r may do away with
    Targets,    \* the revisions an operator may go back to
    Parent,     \* Parent[w]: the rows of which one must exist before w is written
    MaxRows,    \* MaxRows[r]: bound on how many of the rows of r are there at once
    MaxFaults   \* bound on crashes, restarts and downgrades

VARIABLES
    db,          \* what is committed: revision and state (schema and rows)
    containers,  \* what each replica is doing
    transaction, \* who holds the row of alembic_version, and how far they are
    operator,    \* how the last downgrade ended, and whether one succeeded
    faults       \* how many faults there have been

vars == <<db, containers, transaction, operator, faults>>
-----------------------------------------------------------------------------
(* Objects.  A foreign key is named by the table it points to, which is     *)
(* enough here: no revision separates two keys between the same two tables. *)

Object(kind, table, name, to) == [kind |-> kind, table |-> table, name |-> name, to |-> to]
Relation(t) == Object("table", t, "", {})
ForeignKey(t, r) == Object("key", t, r, {r})
Index(t, i) == Object("index", t, i, {})
Column(t, c) == Object("column", t, c, {})
\* A CHECK (or UNIQUE) constraint over a column, with the values it admits.
Check(t, c, admitted) == Object("check", t, c, admitted)

Row(t, c, v) == [table |-> t, column |-> c, value |-> v]

(* Statements.                                                              *)

Statement(do, what, held) == [do |-> do, what |-> what, held |-> held]
Add(objects) == Statement("add", objects, {})
Remove(objects) == Statement("remove", objects, {})
Insert(rows) == Statement("insert", rows, {})
\* DELETE; a row of held is a reference, without an ON DELETE action, to a row
\* that goes.
Delete(rows, held) == Statement("delete", rows, held)
\* DO $$ ... RAISE EXCEPTION: refuse while one of these rows is there.
Forbid(rows) == Statement("forbid", rows, {})

\* op.create_table with its foreign keys and the op.create_index after it.
Create(t, refs, indexes) ==
    Add({Relation(t)} \cup {ForeignKey(t, r) : r \in refs} \cup {Index(t, i) : i \in indexes})

\* The op.drop_index before an op.drop_table, and the table.
Drop(t, indexes) == Remove({Relation(t)} \cup {Index(t, i) : i \in indexes})

(* What PostgreSQL accepts.                                                 *)

SameName(o, p) == o.kind = p.kind /\ o.table = p.table /\ o.name = p.name

Tables(schema) == {o.table : o \in {p \in schema : p.kind = "table"}}

Admits(o, rows) ==
    o.kind = "check" =>
        \A w \in rows : w.table = o.table /\ w.column = o.name => w.value \in o.to

CanAdd(objects, s) ==
    \A o \in objects :
        /\ ~\E p \in s.schema : SameName(o, p)
        /\ o.table \in Tables(s.schema \cup objects)
        /\ o.kind = "key" => o.to \subseteq Tables(s.schema \cup objects)
        /\ Admits(o, s.rows)

CanRemove(objects, s) ==
    /\ \A o \in objects : \E p \in s.schema : SameName(o, p)
    /\ \A p \in s.schema :
           p.kind = "key" /\ p.table \notin Tables(objects) => p.to \cap Tables(objects) = {}

\* A table takes its keys, indexes, columns, constraints and rows with it.
Without(objects, s) ==
    [s EXCEPT
        !.schema = {p \in @ : p.table \notin Tables(objects)
                              /\ ~\E o \in objects : SameName(o, p)},
        !.rows = {w \in @ : w.table \notin Tables(objects)}]

CanExecute(st, s) ==
    CASE st.do = "add"    -> CanAdd(st.what, s)
      [] st.do = "remove" -> CanRemove(st.what, s)
      [] st.do = "insert" -> st.what \cap s.rows = {}
                             /\ {w.table : w \in st.what} \subseteq Tables(s.schema)
      [] st.do = "delete" -> st.held \cap s.rows = {}
      [] st.do = "forbid" -> st.what \cap s.rows = {}

\* "forbid" only looks.
Execute(st, s) ==
    CASE st.do = "add"    -> [s EXCEPT !.schema = @ \cup st.what]
      [] st.do = "remove" -> Without(st.what, s)
      [] st.do = "insert" -> [s EXCEPT !.rows = @ \cup st.what]
      [] st.do = "delete" -> [s EXCEPT !.rows = @ \ st.what]
      [] OTHER            -> s

\* One transaction: the first refused statement refuses all of it.
Refused == [schema |-> {}, rows |-> {}, ok |-> FALSE]

Attempt(st, s) == IF s.ok /\ CanExecute(st, s) THEN Execute(st, s) ELSE Refused

Run(program, state) ==
    LET after[i \in 0..Len(program)] ==
            IF i = 0 THEN state ELSE Attempt(program[i], after[i - 1])
    IN  after[Len(program)]
-----------------------------------------------------------------------------
(* The revisions, oldest first.                                             *)

\* CREATE EXTENSION IF NOT EXISTS and DROP EXTENSION IF EXISTS never refuse.
ExtensionsUp == <<>>
ExtensionsDown == <<>>

LocalizationUp == <<Create("languages", {}, {})>>
LocalizationDown == <<Drop("languages", {})>>

GeoUp == <<
    Create("regions", {}, {}),
    Create("districts", {"regions"}, {"region_id"}),
    Create("user_recent_locations", {"districts"}, {"user_id"})>>
GeoDown == <<
    Drop("user_recent_locations", {"user_id"}),
    Drop("districts", {"region_id"}),
    Drop("regions", {})>>

AuthUsers == <<
    Create("users", {"districts", "languages"}, {}),
    Add({Column("users", "phone_verified_at"), Column("users", "email_verified_at"),
         Check("users", "identity", {"phone", "email"})}),
    Create("auth_identities", {"users"}, {"user_id"}),
    Add({Check("auth_identities", "provider", {"apple", "google"})}),
    Create("devices", {"users"}, {"user_id"})>>
AuthSessions == <<
    Create("friendships", {"users"}, {"addressee_id", "requester_id"}),
    Create("verification_codes", {"users"}, {"destination_purpose_created_at"}),
    Create("refresh_tokens", {"devices", "users"}, {"user_id"}),
    Add({ForeignKey("user_recent_locations", "users")})>>
AuthDown == <<
    Remove({ForeignKey("user_recent_locations", "users")}),
    Drop("refresh_tokens", {"user_id"}),
    Drop("verification_codes", {"destination_purpose_created_at"}),
    Drop("friendships", {"requester_id", "addressee_id"}),
    Drop("devices", {"user_id"}),
    Drop("auth_identities", {"user_id"}),
    Drop("users", {})>>

CatalogUp == <<
    Create("amenities", {}, {}),
    Create("venue_types", {}, {}),
    Create("amenity_translations", {"amenities", "languages"}, {}),
    Create("venue_type_translations", {"languages", "venue_types"}, {})>>
CatalogDown == <<
    Drop("venue_type_translations", {}),
    Drop("amenity_translations", {}),
    Drop("venue_types", {}),
    Drop("amenities", {})>>

VenueGroupsUp == <<
    Create("venue_groups", {"users", "venue_types"}, {"owner_id"}),
    Add({Column("venue_groups", "primary_venue_type_id")}),
    Create("venue_group_translations", {"languages", "venue_groups"}, {})>>
VenueGroupsDown == <<
    Drop("venue_group_translations", {}),
    Drop("venue_groups", {"owner_id"})>>

VenuesItself == <<
    Create("venues", {"districts", "users", "venue_groups"},
           {"owner_id", "venue_group_id_status"}),
    Create("venue_amenities", {"amenities", "venues"}, {}),
    Create("venue_guest_tiers", {"venues"}, {"venue_id"}),
    Create("venue_photos", {"venues"}, {"venue_id"})>>
VenuesCalendar == <<
    Create("venue_special_days", {"venues"}, {"venue_id"}),
    Create("venue_translations", {"languages", "venues"}, {"name_trgm"}),
    Create("venue_venue_types", {"venues", "venue_types"}, {}),
    Create("venue_working_hours", {"venues"}, {"venue_id"})>>
VenuesFloor == <<
    Create("venue_zones", {"venues"}, {"venue_id"}),
    Create("venue_tables", {"venues", "venue_zones"}, {"venue_id"}),
    Create("venue_zone_translations", {"languages", "venue_zones"}, {}),
    Create("venue_table_qrs", {"venue_tables"}, {"table_id"})>>
VenuesDown == <<
    Drop("venue_table_qrs", {"table_id"}),
    Drop("venue_zone_translations", {}),
    Drop("venue_tables", {"venue_id"}),
    Drop("venue_zones", {"venue_id"}),
    Drop("venue_working_hours", {"venue_id"}),
    Drop("venue_venue_types", {}),
    Drop("venue_translations", {"name_trgm"}),
    Drop("venue_special_days", {"venue_id"}),
    Drop("venue_photos", {"venue_id"}),
    Drop("venue_guest_tiers", {"venue_id"}),
    Drop("venue_amenities", {}),
    Drop("venues", {"venue_group_id_status", "owner_id"})>>

StaffRoles == <<
    Create("permissions", {}, {}),
    Create("staff_roles", {}, {}),
    Create("staff_role_permissions", {"permissions", "staff_roles"}, {}),
    Create("staff_role_translations", {"languages", "staff_roles"}, {})>>
StaffPeople == <<
    Create("staff_invitations", {"staff_roles", "venue_groups", "venues"}, {"phone_expires_at"}),
    Add({Column("staff_invitations", "sms_sent_at"),
         Column("staff_invitations", "sms_provider_id")}),
    Create("venue_staff", {"users", "staff_roles", "venue_groups", "venues"},
           {"user_id", "venue_group_id_is_active", "venue_id_staff_role_id"})>>
StaffDown == <<
    Drop("venue_staff", {"user_id", "venue_id_staff_role_id", "venue_group_id_is_active"}),
    Drop("staff_invitations", {"phone_expires_at"}),
    Drop("staff_role_translations", {}),
    Drop("staff_role_permissions", {}),
    Drop("staff_roles", {}),
    Drop("permissions", {})>>

MenuDishes == <<
    Create("menu_categories", {"venue_groups"}, {"venue_group_id_sort_order"}),
    Create("menu_category_translations", {"languages", "menu_categories"}, {}),
    Create("menu_items", {"menu_categories"}, {"menu_category_id"}),
    Create("menu_item_branches", {"menu_items", "venues"}, {}),
    Create("menu_item_translations", {"languages", "menu_items"}, {"name_trgm"})>>
MenuVariants == <<
    Create("menu_item_variants", {"menu_items"}, {"menu_item_id"}),
    Create("menu_item_variant_branches", {"menu_item_variants", "venues"}, {}),
    Create("menu_item_variant_translations", {"languages", "menu_item_variants"}, {})>>
MenuDown == <<
    Drop("menu_item_variant_translations", {}),
    Drop("menu_item_variant_branches", {}),
    Drop("menu_item_variants", {"menu_item_id"}),
    Drop("menu_item_translations", {"name_trgm"}),
    Drop("menu_item_branches", {}),
    Drop("menu_items", {"menu_category_id"}),
    Drop("menu_category_translations", {}),
    Drop("menu_categories", {"venue_group_id_sort_order"})>>

ServicesUp == <<
    Create("service_catalog", {"venue_types"}, {}),
    Add({Column("service_catalog", "applies_to_venue_type_id")}),
    Create("service_catalog_translations", {"languages", "service_catalog"}, {}),
    Create("venue_services", {"service_catalog", "venue_groups", "venues"}, {"venue_group_id"}),
    Create("venue_service_items", {"venue_services"}, {"venue_service_id"})>>
ServicesDown == <<
    Drop("venue_service_items", {"venue_service_id"}),
    Drop("venue_services", {"venue_group_id"}),
    Drop("service_catalog_translations", {}),
    Drop("service_catalog", {})>>

AppliesTo == Check("promo_codes", "applies_to", {"booking", "subscription", "both"})
AppliesToBookings == Check("promo_codes", "applies_to", {"booking", "both"})

PromotionsUp == <<
    Create("banners", {}, {}),
    Create("promo_codes", {}, {}),
    Add({AppliesTo}),
    Create("banner_translations", {"banners", "languages"}, {}),
    Create("user_promo_codes", {"promo_codes", "users"}, {"user_id_status_expires_at"}),
    Create("promo_code_redemptions", {"promo_codes", "users"}, {}),
    Add({Column("promo_code_redemptions", "subscription_id")})>>
PromotionsDown == <<
    Drop("promo_code_redemptions", {}),
    Drop("user_promo_codes", {"user_id_status_expires_at"}),
    Drop("banner_translations", {}),
    Drop("promo_codes", {}),
    Drop("banners", {})>>

SubscriptionsUp == <<
    Create("subscription_plans", {}, {}),
    Create("subscription_plan_translations", {"languages", "subscription_plans"}, {}),
    Create("user_subscriptions", {"subscription_plans", "users"}, {"user_id"})>>
SubscriptionsDown == <<
    Drop("user_subscriptions", {"user_id"}),
    Drop("subscription_plan_translations", {}),
    Drop("subscription_plans", {})>>

PriceLineTypes == {"hall_rental", "catering", "service_logistics", "deposit"}
AnyPriceLine == Check("booking_price_lines", "line_type", PriceLineTypes \cup {"discount"})
UndiscountedLine == Check("booking_price_lines", "line_type", PriceLineTypes)

BookingsItself == <<
    Create("bookings", {"venue_guest_tiers", "promo_codes", "venue_tables", "users",
                        "venues", "venue_services"},
           {"user_id", "venue_id_booking_date_status", "one_hall_event_per_day"}),
    Add({Column("bookings", "promo_code_id"), Column("bookings", "discount_amount")})>>
BookingsChildren == <<
    Create("venue_blocked_slots", {"venue_tables", "venues"}, {"venue_id"}),
    Create("booking_items", {"bookings", "menu_items"}, {"booking_id"}),
    Create("booking_price_lines", {"bookings"}, {"booking_id"}),
    Add({AnyPriceLine}),
    Create("booking_services", {"bookings", "venue_services"}, {"booking_id"}),
    Create("booking_status_history", {"bookings", "users"}, {"booking_id"}),
    Add({ForeignKey("promo_code_redemptions", "bookings")}),
    Add({ForeignKey("promo_code_redemptions", "user_subscriptions")})>>
BookingsDown == <<
    Remove({ForeignKey("promo_code_redemptions", "user_subscriptions")}),
    Remove({ForeignKey("promo_code_redemptions", "bookings")}),
    Drop("booking_status_history", {"booking_id"}),
    Drop("booking_services", {"booking_id"}),
    Drop("booking_price_lines", {"booking_id"}),
    Drop("booking_items", {"booking_id"}),
    Drop("venue_blocked_slots", {"venue_id"}),
    Drop("bookings", {"one_hall_event_per_day", "user_id", "venue_id_booking_date_status"})>>

OrdersItself == <<
    Create("orders", {"bookings", "venue_staff", "venue_tables", "venues"},
           {"venue_id_business_date", "venue_id_status_opened_at", "one_open_order_per_table"}),
    Create("order_items", {"venue_staff", "menu_items", "orders", "menu_item_variants"},
           {"order_id_status"})>>
OrdersMoney == <<
    Create("order_payments", {"orders", "venue_staff"}, {"order_id"}),
    Create("order_status_history", {"venue_staff", "orders"}, {"order_id"}),
    Create("receipts", {"orders", "venue_staff"}, {})>>
OrdersDown == <<
    Drop("receipts", {}),
    Drop("order_status_history", {"order_id"}),
    Drop("order_payments", {"order_id"}),
    Drop("order_items", {"order_id_status"}),
    Drop("orders", {"one_open_order_per_table", "venue_id_business_date",
                    "venue_id_status_opened_at"})>>

PaymentChecks == {
    Check("payments", "target", {"booking", "subscription"}),
    Check("payments", "kind", {"deposit", "balance", "full", "subscription"})}
BookingPaymentChecks == {
    Check("payments", "target", {"booking"}),
    Check("payments", "kind", {"deposit", "balance", "full"})}

PaymentsUp == <<
    Create("payment_cards", {"users"}, {"user_id"}),
    Create("payments", {"bookings", "payment_cards", "user_subscriptions", "users"}, {"user_id"}),
    Add({Column("payments", "subscription_id")} \cup PaymentChecks),
    Create("refunds", {"payments"}, {"payment_id"})>>
PaymentsDown == <<
    Drop("refunds", {"payment_id"}),
    Drop("payments", {"user_id"}),
    Drop("payment_cards", {"user_id"})>>

ReviewsUp == <<
    Create("reviews", {"bookings", "users", "venues"}, {"user_id", "venue_id"}),
    Create("review_photos", {"reviews"}, {"review_id"}),
    Create("review_replies", {"users", "reviews", "venues"}, {"review_id"})>>
ReviewsDown == <<
    Drop("review_replies", {"review_id"}),
    Drop("review_photos", {"review_id"}),
    Drop("reviews", {"user_id", "venue_id"})>>

EngagementUp == <<
    Create("notifications", {"users"}, {"user_id"}),
    Create("search_history", {"users"}, {"user_id"}),
    Create("favorites", {"users", "venues"}, {}),
    Create("conversations", {"bookings", "users", "venues"}, {"user_id", "venue_id"}),
    Create("messages", {"conversations", "users"}, {"conversation_id"})>>
EngagementDown == <<
    Drop("messages", {"conversation_id"}),
    Drop("conversations", {"user_id", "venue_id"}),
    Drop("favorites", {}),
    Drop("search_history", {"user_id"}),
    Drop("notifications", {"user_id"})>>

AnalyticsUp == <<Create("venue_daily_stats", {"venues"}, {})>>
AnalyticsDown == <<Drop("venue_daily_stats", {})>>

\* The texts that move from a table of translations into the translated row.
Moves == {
    <<"amenities", "amenity_translations", {"name"}>>,
    <<"venue_types", "venue_type_translations", {"name"}>>,
    <<"menu_categories", "menu_category_translations", {"name"}>>,
    <<"menu_items", "menu_item_translations", {"name", "description"}>>,
    <<"menu_item_variants", "menu_item_variant_translations", {"name"}>>,
    <<"banners", "banner_translations", {"title", "subtitle"}>>,
    <<"service_catalog", "service_catalog_translations", {"name"}>>,
    <<"staff_roles", "staff_role_translations", {"name"}>>,
    <<"venue_groups", "venue_group_translations", {"name", "description"}>>,
    <<"venues", "venue_translations", {"name", "description", "tagline"}>>,
    <<"venue_zones", "venue_zone_translations", {"name"}>>}

\* Six closed lists, a token row for each; every slug or code is unique.
Seed(t) == Row(t, "slug", "seeded")
ReferenceLists ==
    {"languages", "venue_types", "staff_roles", "permissions", "service_catalog", "amenities"}

ReferenceDataUp == <<Insert({Seed(t) : t \in ReferenceLists})>>
\* The keys without an ON DELETE action to a row of these lists.  A text refers
\* to its language; the token of its owner stands for it, wherever it is kept.
OfReferenceLists ==
    {Row("users", "language_id", "seeded"),
     Row("venue_groups", "primary_venue_type_id", "seeded"),
     Row("venue_services", "service_catalog_id", "seeded"),
     Row("venue_staff", "staff_role_id", "seeded"),
     Row("staff_invitations", "staff_role_id", "seeded"),
     Row("subscription_plan_translations", "language_id", "seeded")}
    \cup {Row(m[1], "language_id", "seeded") : m \in Moves}
ReferenceDataDown == <<Delete({Seed(t) : t \in ReferenceLists}, OfReferenceLists)>>

SmsMessagesUp == <<Create("sms_messages", {"users"}, {"phone_created_at", "status_created_at"})>>
SmsMessagesDown == <<Drop("sms_messages", {"phone_created_at", "status_created_at"})>>

\* The target check goes before the column it names, children before parents.
DropSubscriptionsUp == <<
    Remove(PaymentChecks),
    Remove({AppliesTo}),
    Forbid({Row("payments", "target", "subscription")}),
    Remove({ForeignKey("payments", "user_subscriptions")}),
    Remove({Column("payments", "subscription_id")}),
    Remove({ForeignKey("promo_code_redemptions", "user_subscriptions")}),
    Remove({Column("promo_code_redemptions", "subscription_id")}),
    Drop("subscription_plan_translations", {}),
    Drop("user_subscriptions", {"user_id"}),
    Drop("subscription_plans", {}),
    Add(BookingPaymentChecks),
    Add({AppliesToBookings})>>
DropSubscriptionsDownTables == <<
    Remove(BookingPaymentChecks),
    Remove({AppliesToBookings}),
    Create("subscription_plans", {}, {}),
    Create("user_subscriptions", {"subscription_plans", "users"}, {"user_id"}),
    Create("subscription_plan_translations", {"languages", "subscription_plans"}, {})>>
DropSubscriptionsDownLinks == <<
    Add({Column("payments", "subscription_id")}),
    Add({ForeignKey("payments", "user_subscriptions")}),
    Add({Column("promo_code_redemptions", "subscription_id")}),
    Add({ForeignKey("promo_code_redemptions", "user_subscriptions")}),
    Add(PaymentChecks),
    Add({AppliesTo})>>

MovedTexts == UNION {{Column(m[1], c) : c \in m[3]} : m \in Moves}
SearchIndexes == {Index("venues", "name_trgm"), Index("menu_items", "name_trgm")}

\* The texts are copied before the tables go: nullable, copied, then NOT NULL.
CollapseUp == <<
    Add(MovedTexts),
    Add(SearchIndexes),
    Remove({Relation(m[2]) : m \in Moves})>>

\* Mutant: a downgrade that forgets the columns its upgrade added.
CollapseDownKeepsTexts == <<
    Add(UNION {{Relation(m[2]), ForeignKey(m[2], m[1]), ForeignKey(m[2], "languages")} : m \in Moves}),
    Remove(SearchIndexes)>>

\* The tables come back with their keys; nothing recreates an index of theirs.
CollapseDown == <<
    Add(UNION {{Relation(m[2]), ForeignKey(m[2], m[1]), ForeignKey(m[2], "languages")} : m \in Moves}),
    Remove(SearchIndexes),
    Remove(MovedTexts)>>

\* Mutant: the grants of the roles are left to somebody else.
RolePermissionsUpSkipped == <<>>

RolePermissionsUp == <<Insert({Seed("staff_role_permissions")})>>
RolePermissionsDown == <<Delete({Seed("staff_role_permissions")}, {})>>

AnyProvider == Check("auth_identities", "provider", {"apple", "google"})
GoogleOnly == Check("auth_identities", "provider", {"google"})
VerifiedColumns == {Column("users", "phone_verified_at"), Column("users", "email_verified_at")}
SmsColumns == {Column("staff_invitations", "sms_sent_at"),
               Column("staff_invitations", "sms_provider_id")}

\* Mutant: the check is narrowed with the rows it rejects still there.
DropSmsKeepsApple == <<
    Drop("sms_messages", {"phone_created_at", "status_created_at"}),
    Drop("verification_codes", {"destination_purpose_created_at"}),
    Remove({AnyProvider}),
    Add({GoogleOnly}),
    Remove(VerifiedColumns),
    Remove(SmsColumns)>>

DropSmsUp == <<
    Drop("sms_messages", {"phone_created_at", "status_created_at"}),
    Drop("verification_codes", {"destination_purpose_created_at"}),
    Delete({Row("auth_identities", "provider", "apple")}, {}),
    Remove({AnyProvider}),
    Add({GoogleOnly}),
    Remove(VerifiedColumns),
    Remove(SmsColumns)>>
DropSmsDown == <<
    Add(SmsColumns),
    Add(VerifiedColumns),
    Remove({GoogleOnly}),
    Add({AnyProvider}),
    Create("verification_codes", {"users"}, {"destination_purpose_created_at"}),
    Create("sms_messages", {"users"}, {"phone_created_at", "status_created_at"})>>

DropPaymentsUp == <<
    Remove({ForeignKey("bookings", "promo_codes")}),
    Remove({Column("bookings", "promo_code_id")}),
    Remove({Column("bookings", "discount_amount")}),
    Delete({Row("booking_price_lines", "line_type", "discount")}, {}),
    Remove({AnyPriceLine}),
    Add({UndiscountedLine}),
    Drop("promo_code_redemptions", {}),
    Drop("user_promo_codes", {"user_id_status_expires_at"}),
    Drop("refunds", {"payment_id"}),
    Drop("payments", {"user_id"}),
    Drop("payment_cards", {"user_id"}),
    Drop("promo_codes", {}),
    Drop("banners", {})>>
\* The banners come back with the texts the collapse had given them.
DropPaymentsDownMoney == <<
    Create("banners", {}, {}),
    Add({Column("banners", "title"), Column("banners", "subtitle")}),
    Create("promo_codes", {}, {}),
    Add({AppliesToBookings}),
    Create("payment_cards", {"users"}, {"user_id"}),
    Create("payments", {"bookings", "payment_cards", "users"}, {"user_id"}),
    Add(BookingPaymentChecks)>>
DropPaymentsDownRefunds == <<
    Create("refunds", {"payments"}, {"payment_id"}),
    Create("user_promo_codes", {"promo_codes", "users"}, {"user_id_status_expires_at"}),
    Create("promo_code_redemptions", {"bookings", "promo_codes", "users"}, {})>>
DropPaymentsDownBooking == <<
    Remove({UndiscountedLine}),
    Add({AnyPriceLine}),
    Add({Column("bookings", "discount_amount")}),
    Add({Column("bookings", "promo_code_id")}),
    Add({ForeignKey("bookings", "promo_codes")})>>

DropIdentitiesUp == <<Drop("auth_identities", {"user_id"})>>
\* Mutant: the table comes back without the check of its last revision.
DropIdentitiesDownUnchecked == <<Create("auth_identities", {"users"}, {"user_id"})>>

DropIdentitiesDown == <<Create("auth_identities", {"users"}, {"user_id"}), Add({GoogleOnly})>>

VenueTypeColumns == {
    Column("venues", "venue_type"),
    Column("venue_groups", "primary_venue_type"),
    Column("service_catalog", "applies_to_venue_type")}
VenueTypeChecks == {
    Check("venues", "venue_type", {"restoran", "toyxona"}),
    Check("venue_groups", "primary_venue_type", {"restoran", "toyxona"}),
    Check("service_catalog", "applies_to_venue_type", {"restoran", "toyxona"})}

\* A column takes its key and its one-column checks with it.
VenueTypeEnumUp == <<
    Add(VenueTypeColumns),
    Add(VenueTypeChecks),
    Add({Index("venues", "venue_type")}),
    Remove({Column("service_catalog", "applies_to_venue_type_id"),
            ForeignKey("service_catalog", "venue_types")}),
    Remove({Column("venue_groups", "primary_venue_type_id"),
            ForeignKey("venue_groups", "venue_types")}),
    Drop("venue_venue_types", {}),
    Drop("venue_types", {})>>
VenueTypeEnumDown == <<
    Create("venue_types", {}, {}),
    Add({Column("venue_types", "name")}),
    Insert({Seed("venue_types")}),
    Create("venue_venue_types", {"venues", "venue_types"}, {}),
    Add({Column("venue_groups", "primary_venue_type_id"),
         ForeignKey("venue_groups", "venue_types")}),
    Add({Column("service_catalog", "applies_to_venue_type_id"),
         ForeignKey("service_catalog", "venue_types")}),
    Remove({Index("venues", "venue_type")}),
    Remove(VenueTypeColumns \cup VenueTypeChecks)>>

\* UNIQUE (code): no value that occurs twice.
RegionCodes == {"seeded"}
UniqueRegionCodeUp == <<Add({Check("regions", "code", RegionCodes)})>>
UniqueRegionCodeDown == <<Remove({Check("regions", "code", {})})>>

RegionRows == {Row("regions", "code", "seeded"), Seed("districts")}

RegionsUp == <<Insert(RegionRows)>>
\* Users, branches and remembered addresses point at districts.
OfDistricts == {Row(t, "district_id", "seeded") : t \in {"users", "venues", "user_recent_locations"}}
RegionsDown == <<Delete({Seed("districts")}, OfDistricts),
                 Delete({Row("regions", "code", "seeded")}, {})>>

\* Names of amenities only: no object and no row comes or goes.
AmenityNamesUp == <<>>
AmenityNamesDown == <<>>

PhoneOrEmail == Check("users", "identity", {"phone", "email"})
AnyIdentity == Check("users", "identity", {"phone", "email", "telegram"})
TelegramGuest == Row("users", "identity", "telegram")
BookedByTelegram == Row("bookings", "user_id", "telegram")
\* The keys without an ON DELETE action to such a guest.
OfTelegramGuests ==
    {BookedByTelegram,
     Row("venues", "owner_id", "telegram"), Row("venue_groups", "owner_id", "telegram"),
     Row("venue_staff", "user_id", "telegram"), Row("messages", "sender_user_id", "telegram"),
     Row("reviews", "user_id", "telegram"), Row("review_replies", "author_user_id", "telegram"),
     Row("user_recent_locations", "user_id", "telegram")}

TelegramUp == <<
    Add({Column("users", "telegram_id"), Check("users", "telegram_id", {"once"})}),
    Remove({PhoneOrEmail}),
    Add({AnyIdentity})>>
TelegramDown == <<
    Delete({TelegramGuest}, OfTelegramGuests),
    Remove({AnyIdentity}),
    Add({PhoneOrEmail}),
    Remove({Check("users", "telegram_id", {})}),
    Remove({Column("users", "telegram_id")})>>

Upgrades == <<
    ExtensionsUp, LocalizationUp, GeoUp, AuthUsers \o AuthSessions, CatalogUp, VenueGroupsUp,
    VenuesItself \o VenuesCalendar \o VenuesFloor, StaffRoles \o StaffPeople,
    MenuDishes \o MenuVariants, ServicesUp, PromotionsUp, SubscriptionsUp,
    BookingsItself \o BookingsChildren, OrdersItself \o OrdersMoney, PaymentsUp, ReviewsUp,
    EngagementUp, AnalyticsUp, ReferenceDataUp, SmsMessagesUp, DropSubscriptionsUp, CollapseUp,
    RolePermissionsUp, DropSmsUp, DropPaymentsUp, DropIdentitiesUp, VenueTypeEnumUp,
    UniqueRegionCodeUp, RegionsUp, AmenityNamesUp, TelegramUp>>

Downgrades == <<
    ExtensionsDown, LocalizationDown, GeoDown, AuthDown, CatalogDown, VenueGroupsDown,
    VenuesDown, StaffDown, MenuDown, ServicesDown, PromotionsDown, SubscriptionsDown,
    BookingsDown, OrdersDown, PaymentsDown, ReviewsDown, EngagementDown, AnalyticsDown,
    ReferenceDataDown, SmsMessagesDown, DropSubscriptionsDownTables \o DropSubscriptionsDownLinks,
    CollapseDown, RolePermissionsDown, DropSmsDown,
    DropPaymentsDownMoney \o DropPaymentsDownRefunds \o DropPaymentsDownBooking,
    DropIdentitiesDown, VenueTypeEnumDown, UniqueRegionCodeDown, RegionsDown, AmenityNamesDown,
    TelegramDown>>

Newest == Len(Upgrades)

\* The rows of the application that some statement of a revision looks at: a
\* value that one CHECK admits and another does not, a code of a region that is
\* taken, and the references without an ON DELETE action to a row that a
\* downgrade deletes.  Any other row meets every statement alike.
RowsThatMatter == {
    Row("payments", "target", "subscription"),
    Row("promo_codes", "applies_to", "subscription"),
    Row("auth_identities", "provider", "apple"),
    Row("booking_price_lines", "line_type", "discount"),
    Row("regions", "code", "seeded"),
    Row("regions", "code", "twice"),
    TelegramGuest} \cup OfTelegramGuests \cup OfDistricts \cup OfReferenceLists

Empty == [schema |-> {}, rows |-> {}, ok |-> TRUE]
-----------------------------------------------------------------------------
Stopped == [op |-> "stopped", image |-> 0]
NoTransaction == [by |-> "nobody"]
Operator == "operator"

ASSUME MigrationsAssumption ==
    /\ Releases \subseteq 1..Newest
    /\ \A r \in Releases : /\ Writes[r] \subseteq RowsThatMatter
                          /\ Erases[r] \subseteq RowsThatMatter \cup RegionRows
    /\ Targets \subseteq Nat
    /\ MaxFaults \in Nat
    /\ Container \cap {"nobody", Operator} = {}

Init ==
    /\ db = [rev |-> 0, state |-> Empty]
    /\ containers = [c \in Container |-> Stopped]
    /\ transaction = NoTransaction
    /\ operator = [op |-> "idle", back |-> FALSE]
    /\ faults = 0

Become(c, what) == containers' = [containers EXCEPT ![c] = what]

\* A deployment starts the entrypoint of an image, never of an older one.
Deploy(c, image) ==
    /\ containers[c].op \in {"stopped", "serving", "refused"}
    /\ containers[c].image < image
    /\ Become(c, [op |-> "starting", image |-> image])
    /\ UNCHANGED <<db, transaction, operator, faults>>

\* Mutant: an entrypoint that serves without having migrated.
ServeUnmigrated(c) ==
    /\ containers[c].op = "starting"
    /\ Become(c, [op |-> "serving", image |-> containers[c].image])
    /\ UNCHANGED <<db, transaction, operator, faults>>

\* alembic reads the version; one it has no file for ends the entrypoint.
ReadVersion(c) ==
    /\ containers[c].op = "starting"
    /\ LET image == containers[c].image IN
        Become(c, CASE db.rev = image -> [op |-> "serving", image |-> image]
                    [] db.rev < image -> [op |-> "migrating", image |-> image, from |-> db.rev]
                    [] OTHER          -> [op |-> "outdated", image |-> image])
    /\ UNCHANGED <<db, transaction, operator, faults>>

\* Every revision moves the one row of alembic_version, so whoever was first
\* keeps the others waiting from its first revision to the end of its way.
Begin(who, from, to) ==
    /\ transaction = NoTransaction
    /\ from = db.rev
    /\ transaction' = [by |-> who, at |-> from, to |-> to, work |-> db.state]

BeginUpgrade(c) ==
    /\ containers[c].op = "migrating"
    /\ Begin(c, containers[c].from, containers[c].image)
    /\ UNCHANGED <<db, containers, operator, faults>>

\* `alembic downgrade', from a shell that has the newest files.
BeginDowngrade(to) ==
    /\ faults < MaxFaults
    /\ to < db.rev
    /\ Begin(Operator, db.rev, to)
    /\ faults' = faults + 1
    /\ operator' = [op |-> "busy", back |-> operator.back]
    /\ UNCHANGED <<db, containers>>

\* One revision further, inside the transaction that env.py opens for the way.
Revise ==
    /\ transaction # NoTransaction
    /\ transaction.at # transaction.to
    /\ transaction.work.ok
    /\ LET t == transaction IN
        transaction' = IF t.at < t.to
            THEN [t EXCEPT !.at = @ + 1, !.work = Run(Upgrades[t.at + 1], @)]
            ELSE [t EXCEPT !.at = @ - 1, !.work = Run(Downgrades[t.at], @)]
    /\ UNCHANGED <<db, containers, operator, faults>>

\* The schema and the version are committed together.
Commit ==
    /\ transaction # NoTransaction
    /\ transaction.at = transaction.to /\ transaction.work.ok
    /\ db' = [rev |-> transaction.to, state |-> transaction.work]
    /\ transaction' = NoTransaction
    /\ IF transaction.by = Operator
       THEN operator' = [op |-> "done", back |-> TRUE] /\ UNCHANGED containers
       ELSE Become(transaction.by, [op |-> "serving", image |-> transaction.to]) /\ UNCHANGED operator
    /\ UNCHANGED faults

\* Mutant: one transaction per statement keeps what was done before the refusal.
RollbackKeeps ==
    /\ transaction # NoTransaction
    /\ ~transaction.work.ok
    /\ transaction' = NoTransaction
    /\ db' = [rev |-> transaction.at, state |-> transaction.work]
    /\ UNCHANGED <<containers, operator, faults>>

\* A refused statement undoes the whole way.
Rollback ==
    /\ transaction # NoTransaction
    /\ ~transaction.work.ok
    /\ transaction' = NoTransaction
    /\ IF transaction.by = Operator
       THEN /\ operator' = [op |-> "refused", back |-> operator.back, past |-> transaction.at,
                           rows |-> db.state.rows]
            /\ UNCHANGED containers
       ELSE /\ Become(transaction.by, [op |-> "refused", image |-> transaction.to,
                                       rows |-> db.state.rows])
            /\ UNCHANGED operator
    /\ UNCHANGED <<db, faults>>

\* Somebody else moved the version meanwhile: the UPDATE matches no row, alembic
\* raises, and the platform restarts the replica.
LoseRace(c) ==
    /\ containers[c].op = "migrating"
    /\ transaction.by # c
    /\ containers[c].from # db.rev
    /\ Become(c, [op |-> "starting", image |-> containers[c].image])
    /\ UNCHANGED <<db, transaction, operator, faults>>

\* The process dies, its transaction with it, and is started again.
Crash(c) ==
    /\ faults < MaxFaults
    /\ containers[c].op \in {"migrating", "serving"}
    /\ faults' = faults + 1
    /\ Become(c, [op |-> "starting", image |-> containers[c].image])
    /\ transaction' = IF transaction.by = c THEN NoTransaction ELSE transaction
    /\ UNCHANGED <<db, operator>>

Written == UNION {Writes[r] : r \in Releases}

\* A request of a serving release leaves a row some revision depends on.  One
\* that comes while a transaction holds its table waits for the end of it.
WriteRow(c, w) ==
    /\ containers[c].op = "serving"
    /\ containers[c].image = db.rev
    /\ transaction = NoTransaction
    /\ w \in Writes[db.rev] \ db.state.rows
    /\ Cardinality(Writes[db.rev] \cap db.state.rows) < MaxRows[db.rev]
    /\ Parent[w] # {} => Parent[w] \cap db.state.rows # {}
    /\ w.table \in Tables(db.state.schema)
    /\ \A o \in db.state.schema : Admits(o, {w})
    /\ db' = [db EXCEPT !.state.rows = @ \cup {w}]
    /\ UNCHANGED <<containers, transaction, operator, faults>>

Erased == UNION {Erases[r] : r \in Releases}

\* A request of a serving release does away with such a row.  An administrator
\* deletes a region or a district, or gives a region another code: the list that
\* the migration brought is then no longer whole.  A guest known by Telegram
\* alone gives a contact or deletes the account: what the guest wrote then
\* refers to no such guest, so the references go before the guest does.
EraseRow(c, w) ==
    /\ containers[c].op = "serving"
    /\ containers[c].image = db.rev
    /\ transaction = NoTransaction
    /\ w \in Erases[db.rev] \cap db.state.rows
    /\ \A v \in Written \cap db.state.rows : w \notin Parent[v]
    /\ db' = [db EXCEPT !.state.rows = @ \ {w}]
    /\ UNCHANGED <<containers, transaction, operator, faults>>

Next ==
    \/ \E c \in Container :
        \/ \E image \in Releases : Deploy(c, image)
        \/ ReadVersion(c) \/ BeginUpgrade(c) \/ LoseRace(c) \/ Crash(c)
        \/ \E w \in Written : WriteRow(c, w)
        \/ \E w \in Erased : EraseRow(c, w)
    \/ \E to \in Targets : BeginDowngrade(to)
    \/ Revise \/ Commit \/ Rollback

Spec == Init /\ [][Next]_vars
-----------------------------------------------------------------------------
Ops == {"stopped", "starting", "serving", "migrating", "outdated", "refused"}

\* Types: the revision is one of the chain and only an accepted way is committed.
TypeOK ==
    /\ db.rev \in 0..Newest /\ db.state.ok
    /\ \A c \in Container : containers[c].op \in Ops /\ containers[c].image \in Releases \cup {0}
    /\ transaction.by \in Container \cup {"nobody", Operator}
    /\ operator.op \in {"idle", "busy", "done", "refused"}
    /\ faults \in 0..MaxFaults

Done(program, kind) == UNION {program[i].what : i \in {j \in DOMAIN program : program[j].do = kind}}

Takes(r, o) ==
    LET taken == Done(Upgrades[r], "remove")
    IN  o.table \in Tables(taken) \/ \E p \in taken : SameName(o, p)

\* Every object with the revision that adds it and those that take it away.
Lifetimes == UNION {
    {[object |-> o, from |-> r, ends |-> {b \in (r + 1)..Newest : Takes(b, o)}] :
        o \in Done(Upgrades[r], "add")} : r \in 1..Newest}

\* The schema that the upgrades describe for a revision.
Intended(r) == {l.object : l \in {k \in Lifetimes : k.from <= r /\ k.ends \cap 1..r = {}}}

LostIndexes == {Index("venue_translations", "name_trgm"), Index("menu_item_translations", "name_trgm")}

\* However often the database went up and down, the schema at a revision is the
\* one the upgrades describe for it, but for the two search indexes that the
\* downgrade of the collapse does not recreate.
SchemaFollowsRevision ==
    /\ db.state.schema \subseteq Intended(db.rev)
    /\ Intended(db.rev) \ db.state.schema \subseteq LostIndexes

\* The lists no route of the application edits; venue types became an enum.
KeptLists == {Seed(t) : t \in (ReferenceLists \ {"venue_types"}) \cup {"staff_role_permissions"}}

\* "Reference data ships in migrations, so alembic upgrade head alone yields a
\* usable" database (README.md:77): a database at the head holds the languages,
\* roles, permissions, grants, services and amenities, whatever was deployed,
\* undone and deployed again; and one that comes to the head from before the
\* regions (the twenty-ninth revision) holds all of these too.  Later on an
\* administrator may delete or rename a region or a district.
HeadIsSeeded ==
    /\ [](db.rev = Newest => KeptLists \subseteq db.state.rows)
    /\ [][db.rev < 29 /\ db'.rev = Newest => RegionRows \subseteq db'.state.rows]_vars

Obstacles == {
    Row("payments", "target", "subscription"),
    Row("promo_codes", "applies_to", "subscription"),
    Row("regions", "code", "twice"),
    Row("regions", "code", "seeded")}

\* A deployment is refused by rows only, and only by these: a sold
\* subscription, a promo code for one, two regions with one code, or a region
\* somebody entered under a code the seed brings.  No sequence of downgrades
\* leaves a schema that the next upgrade stumbles over.
RefusedForCause ==
    \A c \in Container : containers[c].op = "refused" => containers[c].rows \cap Obstacles # {}

\* A downgrade is refused by a reference that no ON DELETE action covers, to a
\* guest known by Telegram alone, a seeded district or a row of the reference
\* lists, or at the revision of the menu (the ninth), whose index the collapse
\* has lost.
DowngradeRefusedForCause ==
    operator.op = "refused" =>
        \/ operator.past = 8
        \/ operator.rows \cap (OfTelegramGuests \cup OfDistricts \cup OfReferenceLists) # {}

\* "alembic downgrade base | pass" (DECISIONS.md:986): without rows of the
\* application no downgrade is refused.
DowngradesReachBase ==
    operator.op = "refused" => operator.rows \cap Written # {}

\* The entrypoint migrates before it serves: while nobody went back, no replica
\* serves in front of a schema older than its own, whatever races and crashes.
ServesItsSchema ==
    ~operator.back =>
        \A c \in Container : containers[c].op = "serving" => containers[c].image <= db.rev
=============================================================================
