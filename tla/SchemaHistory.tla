---------------------------- MODULE SchemaHistory ----------------------------
(***************************************************************************)
(* The nine Alembic revisions (infrastructure/database/migrations/versions) *)
(* as the statements their upgrade() and downgrade() run, in order.  A     *)
(* database is the revision it is stamped with, its tables and enum types, *)
(* each with the objects it needs (the tables its foreign keys refer to    *)
(* and the types of its columns), the rows of roles, and the roles that    *)
(* some user has.  Columns, indexes and every other row are left out.      *)
(***************************************************************************)
EXTENDS Naturals, Sequences

(***************************************************************************)
(* Statements.                                                             *)
(***************************************************************************)
Make(name, needs) == [kind |-> "make", name |-> name, needs |-> needs]
Ensure(name)      == [kind |-> "ensure", name |-> name, needs |-> {}]    \* checkfirst
Drop(name)        == [kind |-> "drop", name |-> name, needs |-> {}]
Discard(name)     == [kind |-> "discard", name |-> name, needs |-> {}]   \* IF EXISTS
OnRoles(kind)     == [kind |-> kind, name |-> "roles", needs |-> {}]

Exists(d, name) == name \in DOMAIN d.objects

IsNeeded(d, name) == \E o \in DOMAIN d.objects : name \in d.objects[o]

Adding(d, name, needs) ==
  [d EXCEPT !.objects = [o \in DOMAIN @ \cup {name} |-> IF o = name THEN needs ELSE @[o]]]

\* A table that goes takes its rows with it.
Without(d, name) ==
  [revision |-> d.revision,
   objects  |-> [o \in DOMAIN d.objects \ {name} |-> d.objects[o]],
   roles    |-> IF name = "roles" THEN {} ELSE d.roles,
   held     |-> IF name = "users" THEN {} ELSE d.held]

\* What the database demands of a statement: names are unique, references
\* resolve, and nothing that something else needs can go.
Accepts(d, s) ==
  CASE s.kind = "make"    -> ~Exists(d, s.name) /\ \A n \in s.needs : Exists(d, n)
    [] s.kind = "ensure"  -> TRUE
    [] s.kind = "drop"    -> Exists(d, s.name) /\ ~IsNeeded(d, s.name)
    [] s.kind = "discard" -> ~IsNeeded(d, s.name)
    [] s.kind = "insert"  -> Exists(d, "roles") /\ d.roles = {}
    [] OTHER              -> Exists(d, "roles")

Executed(d, s) ==
  CASE s.kind = "make" -> Adding(d, s.name, s.needs)
    [] s.kind = "ensure" /\ ~Exists(d, s.name) -> Adding(d, s.name, {})
    [] s.kind \in {"drop", "discard"} /\ Exists(d, s.name) -> Without(d, s.name)
    [] s.kind = "insert" -> [d EXCEPT !.roles = {"admin", "user"}]
    [] s.kind = "purge" -> [d EXCEPT !.roles = @ \ ({"admin"} \ d.held)]
    [] s.kind = "restore" -> [d EXCEPT !.roles = @ \cup {"admin"}]
    [] OTHER -> d

(***************************************************************************)
(* The revisions.                                                          *)
(***************************************************************************)
Foundation == [up |-> <<>>, down |-> <<>>]

AuthModule ==
  [up |-> <<Make("roles", {}), Make("users", {"roles"}),
            Make("refresh_tokens", {"users"}), OnRoles("insert")>>,
   down |-> <<Drop("refresh_tokens"), Drop("users"), Drop("roles")>>]

PortfolioModule ==
  [up |-> <<Make("portfolios", {"users"})>>, down |-> <<Drop("portfolios")>>]

AssetModule ==
  [up |-> <<Ensure("asset_type"), Ensure("market_type"),
            Make("assets", {"asset_type", "market_type"})>>,
   down |-> <<Drop("assets"), Discard("market_type"), Discard("asset_type")>>]

MakePositions ==
  Make("positions", {"assets", "portfolios", "position_type", "position_status"})
MakeTrades == Make("trades", {"assets", "portfolios", "positions", "trade_type"})

\* A slip: trades, whose foreign key refers to positions, is created first.
TradeModuleTradesFirst ==
  [up |-> <<Ensure("trade_type"), Ensure("position_type"), Ensure("position_status"),
            MakeTrades, MakePositions>>,
   down |-> <<Drop("trades"), Drop("positions"), Discard("position_status"),
              Discard("position_type"), Discard("trade_type")>>]

TradeModule ==
  [up |-> <<Ensure("trade_type"), Ensure("position_type"), Ensure("position_status"),
            MakePositions, MakeTrades>>,
   down |-> <<Drop("trades"), Drop("positions"), Discard("position_status"),
              Discard("position_type"), Discard("trade_type")>>]

MarketModule ==
  [up |-> <<Make("market_prices", {"assets"}), Make("news", {"assets"})>>,
   down |-> <<Drop("news"), Drop("market_prices")>>]

\* create_table creates the enum types of its columns without looking first.
MakeType(name) == Make(name, {})

AlertsModule ==
  [up |-> <<MakeType("alert_type"), MakeType("alert_condition"),
            Make("alerts", {"users", "assets", "portfolios", "alert_type", "alert_condition"}),
            Make("alert_events", {"alerts"}),
            MakeType("notification_channel"), MakeType("notification_status"),
            Make("notifications",
                 {"alert_events", "notification_channel", "notification_status"})>>,
   down |-> <<Drop("notifications"), Drop("alert_events"), Drop("alerts"),
              Discard("notification_status"), Discard("notification_channel"),
              Discard("alert_condition"), Discard("alert_type")>>]

SettingsModule ==
  [up |-> <<Make("user_settings", {"users"}), MakeType("api_key_provider"),
            Make("api_keys", {"users", "api_key_provider"})>>,
   down |-> <<Drop("api_keys"), Drop("user_settings"), Discard("api_key_provider")>>]

RemoveAdminRole == [up |-> <<OnRoles("purge")>>, down |-> <<OnRoles("restore")>>]

History ==
  <<Foundation, AuthModule, PortfolioModule, AssetModule, TradeModule,
    MarketModule, AlertsModule, SettingsModule, RemoveAdminRole>>

\* A slip: the last revision was added and the literal forgotten.
HeadRevisionForgotten == 8

\* ALEMBIC_HEAD_REVISION: a literal that has to be kept in step with History.
HeadRevision == 9

(***************************************************************************)
(* What revision r is, whichever way a database got there: the objects     *)
(* that the upgrades up to r make from nothing.                            *)
(***************************************************************************)
Makes(r) == {s \in {History[r].up[i] : i \in DOMAIN History[r].up} : s.kind \in {"make", "ensure"}}

ObjectsAt[r \in 0..Len(History)] ==
  LET made == UNION {Makes(q) : q \in 1..r}
  IN  [o \in {s.name : s \in made} |-> (CHOOSE s \in made : s.name = o).needs]
=============================================================================
