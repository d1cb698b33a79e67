---------------------------- MODULE AdminScreens ----------------------------
(***************************************************************************)
(* The pages of the back-office (apps/admin), component by component, and  *)
(* the sections its menu opens.                                            *)
(***************************************************************************)
EXTENDS ScreenParts

-----------------------------------------------------------------------------
(* Lists and figures.                                                      *)
DashboardPage == View("staff", {<<"orders", "adminStats">>, <<"orders", "adminList">>,
                                <<"products", "listForAdmin">>}, "latest")

AnalyticsPage == Search("staff", {<<"analytics", "summary">>}, "latest")
AuditLogsPage == Search("staff", {<<"audit-logs", "list">>}, "latest")
StockPage     == Search("staff", {<<"products", "stockMovements">>, <<"products", "stockValuation">>}, "latest")
ProductsListPage   == Search("staff", {<<"products", "listForAdmin">>}, "latest")
CustomersListPage  == Search("staff", {<<"customers", "list">>}, "latest")
CustomerDetailPage == View("staff", {<<"customers", "findOne">>}, "latest")
EditLandingPage    == View("staff", {<<"landing-pages", "findForAdmin">>, <<"landing-pages", "analytics">>}, "latest")

(* The list by status, number and page; exportOrders changes nothing.      *)
OrdersListPage ==
  Part("staff", {<<"orders", "adminList">>}, "latest", TRUE, {Form(<<"orders", "exportOrders">>, "stay")})

(* A status is disabled while it is the one being set, no other is.        *)
OrderDetailPage ==
  Part("staff", {<<"orders", "adminDetail">>}, "latest", FALSE,
       {Form(<<"orders", "updateStatus">>, "reload"), Form(<<"orders", "recordPayment">>, "reload")})

ReviewsPage ==
  Part("staff", {<<"reviews", "listForAdmin">>}, "latest", TRUE, {Button(<<"reviews", "moderate">>, "reload")})

-----------------------------------------------------------------------------
(* A product: the form, then the cards beside it, which patch the product  *)
(* the page has in its cache.                                              *)
EditProductPage == View("staff", {<<"products", "byIdForAdmin">>, <<"products", "listUpsells">>}, "latest")

ProductForm ==
  Part("staff", {<<"categories", "list">>, <<"brands", "list">>}, "latest", FALSE,
       {Leaving(<<"products", "create">>), Leaving(<<"products", "update">>)})

(* The order is shown as soon as it is asked for, and put back if refused. *)
ProductImagesCard ==
  Part("staff", {<<"products", "byIdForAdmin">>}, "latest", FALSE,
       {Form(<<"products", "addImage">>, "answer"), Button(<<"products", "removeImage">>, "answer"),
        Button(<<"products", "reorderImages">>, "guess")})

ProductVariantsCard ==
  Part("staff", {<<"products", "byIdForAdmin">>}, "latest", FALSE,
       {Form(<<"products", "addVariant">>, "answer"), Form(<<"products", "updateVariant">>, "answer"),
        Button(<<"products", "removeVariant">>, "answer")})

ProductUpsellsCard ==
  Part("staff", {<<"products", "listUpsells">>}, "latest", FALSE,
       {Button(<<"products", "addUpsell">>, "answer"), Button(<<"products", "removeUpsell">>, "answer")})

(* Its search box, and the one of the bundles: every answer is shown.      *)
UpsellSearch == Search("staff", {<<"products", "list">>}, "any")
BundleSearch == Search("staff", {<<"products", "list">>}, "any")

StockAdjustCard ==
  Part("staff", {<<"products", "byIdForAdmin">>}, "latest", FALSE,
       {Form(<<"products", "adjustStock">>, "answer"), Leaving(<<"products", "archive">>)})

ImportPage ==
  Part("staff", {<<"products", "importHistory">>}, "latest", FALSE,
       {Form(<<"products", "importExcel">>, "reload"), Form(<<"products", "exportCatalog">>, "stay")})

-----------------------------------------------------------------------------
(* Lists with a form above and rows that are edited in place. The rows     *)
(* have their own flag; their save is the handler of the page.             *)
CategoriesPage ==
  Part("staff", {<<"categories", "list">>}, "latest", FALSE, {Form(<<"categories", "create">>, "reload")})
CategoryRow ==
  Part("staff", {<<"categories", "list">>}, "latest", FALSE,
       {Form(<<"categories", "update">>, "reload"), Form(<<"categories", "archive">>, "reload")})

BrandsPage ==
  Part("staff", {<<"brands", "list">>}, "latest", FALSE, {Form(<<"brands", "create">>, "reload")})
BrandRow ==
  Part("staff", {<<"brands", "list">>}, "latest", FALSE,
       {Form(<<"brands", "update">>, "reload"), Form(<<"brands", "archive">>, "reload")})

(* The two forms of this page have no flag.                                *)
ShippingPage ==
  Part("staff", {<<"cities", "list">>, <<"city-groups", "list">>}, "latest", FALSE,
       {Button(<<"cities", "create">>, "reload"), Button(<<"city-groups", "create">>, "reload")})
CityRow ==
  Part("staff", {<<"cities", "list">>}, "latest", FALSE, {Form(<<"cities", "update">>, "reload")})
CityGroupRow ==
  Part("staff", {<<"city-groups", "list">>}, "latest", FALSE,
       {Form(<<"city-groups", "update">>, "reload"), Form(<<"city-groups", "remove">>, "reload")})

TeamPage ==
  Part("staff", {<<"staff-users", "list">>, <<"roles", "list">>}, "latest", FALSE,
       {Form(<<"staff-users", "create">>, "reload")})
StaffRow ==
  Part("staff", {<<"staff-users", "list">>}, "latest", FALSE,
       {Form(<<"staff-users", "update">>, "reload"), Form(<<"staff-users", "resetPassword">>, "stay")})

RolesPage ==
  Part("staff", {<<"roles", "list">>, <<"roles", "listPermissions">>}, "latest", FALSE,
       {Form(<<"roles", "create">>, "reload")})
RoleCard ==
  Part("staff", {<<"roles", "list">>}, "latest", FALSE,
       {Form(<<"roles", "update">>, "reload"), Form(<<"roles", "remove">>, "reload")})

-----------------------------------------------------------------------------
(* Campaigns.                                                              *)
PromotionsPage ==
  Part("staff", {<<"promotions", "list">>, <<"categories", "list">>, <<"brands", "list">>}, "latest", FALSE,
       {Form(<<"promotions", "create">>, "reload"), Button(<<"promotions", "update">>, "reload")})

CouponsPage ==
  Part("staff", {<<"coupons", "list">>}, "latest", FALSE,
       {Form(<<"coupons", "create">>, "reload"), Button(<<"coupons", "update">>, "reload")})

BundlesPage ==
  Part("staff", {<<"bundles", "list">>}, "latest", FALSE,
       {Form(<<"bundles", "create">>, "reload"), Button(<<"bundles", "remove">>, "reload")})

HeroBannersPage ==
  Part("staff", {<<"hero-banners", "list">>}, "latest", FALSE,
       {Form(<<"hero-banners", "create">>, "reload"), Button(<<"hero-banners", "update">>, "reload"),
        Button(<<"hero-banners", "remove">>, "reload")})
BannerEditForm ==
  Part("staff", {<<"hero-banners", "list">>}, "latest", FALSE, {Form(<<"hero-banners", "update">>, "reload")})

LandingPagesListPage ==
  Part("staff", {<<"landing-pages", "listForAdmin">>}, "latest", FALSE,
       {Button(<<"landing-pages", "duplicate">>, "reload"), Button(<<"landing-pages", "archive">>, "reload")})

(* The list of products for the form, then the form.                       *)
LandingPageForm ==
  Part("staff", {<<"products", "listForAdmin">>}, "any", FALSE,
       {Leaving(<<"landing-pages", "create">>), Leaving(<<"landing-pages", "update">>)})

-----------------------------------------------------------------------------
(* Settings and accounts. A new password replaces the form with a note.    *)
SettingsPage ==
  Part("staff", {<<"settings", "get">>}, "latest", FALSE, {Form(<<"settings", "update">>, "answer")})
ChangePasswordCard == Part("staff", {}, "latest", FALSE, {Form(<<"auth/staff", "changePassword">>, "replace")})
LoginPage == Part("anyone", {}, "latest", FALSE, {Leaving(<<"auth/staff", "login">>)})

-----------------------------------------------------------------------------
(* The menu (NAV): the sections, and the permission each is shown for.     *)
Everyone == "everyone"

Nav(section) ==
  CASE section \in {"/", "/parametres"} -> Everyone
    [] section \in {"/produits", "/stock", "/categories", "/marques"} -> "product.read"
    [] section = "/import" -> "product.create"
    [] section = "/commandes" -> "order.read"
    [] section = "/clients" -> "customer.read"
    [] section \in {"/promotions", "/landing-pages", "/bannieres", "/bundles"} -> "promotion.create"
    [] section = "/coupons" -> "coupon.create"
    [] section = "/avis" -> "product.update"
    [] section = "/livraison" -> "shipping.read"
    [] section = "/analytics" -> "analytics.read"
    [] section \in {"/equipe", "/roles", "/audit-logs"} -> "user.manage"

(* The pages, each with the section its address begins with.               *)
At(section, parts) == [section |-> section, parts |-> parts]

AdminPages ==
  { At("/", {DashboardPage}),
    At("/analytics", {AnalyticsPage}), At("/audit-logs", {AuditLogsPage}), At("/avis", {ReviewsPage}),
    At("/bannieres", {HeroBannersPage, BannerEditForm}), At("/bundles", {BundlesPage, BundleSearch}),
    At("/categories", {CategoriesPage, CategoryRow}), At("/marques", {BrandsPage, BrandRow}),
    At("/clients", {CustomersListPage}), At("/clients", {CustomerDetailPage}),
    At("/commandes", {OrdersListPage}), At("/commandes", {OrderDetailPage}),
    At("/coupons", {CouponsPage}), At("/promotions", {PromotionsPage}),
    At("/equipe", {TeamPage, StaffRow}), At("/roles", {RolesPage, RoleCard}),
    At("/import", {ImportPage}), At("/stock", {StockPage}),
    At("/landing-pages", {LandingPagesListPage}), At("/landing-pages", {LandingPageForm}),
    At("/landing-pages", {EditLandingPage, LandingPageForm}),
    At("/livraison", {ShippingPage, CityRow, CityGroupRow}),
    At("/parametres", {ChangePasswordCard, SettingsPage}),
    At("/produits", {ProductsListPage}), At("/produits", {ProductForm}),
    At("/produits", {EditProductPage, ProductForm, ProductImagesCard, ProductVariantsCard,
                     ProductUpsellsCard, UpsellSearch, StockAdjustCard}) }

AdminParts == UNION {p.parts : p \in AdminPages} \cup {LoginPage}
=============================================================================
