------------------------------- MODULE Routes -------------------------------
(***************************************************************************)
(* The routes of the API, controller by controller, and what the guards of *)
(* each ask of the caller: "anyone", "customer" (JwtAuthGuard and          *)
(* CustomerGuard), "staff" (JwtAuthGuard and StaffGuard), "order" (the     *)
(* token of an order that is tracked), or else the code RequirePermissions *)
(* names, which PermissionsGuard checks. A route is <<controller, method>>,*)
(* and the table is the set of the pairs of a route and its need.          *)
(***************************************************************************)
Of(controller, methods) == {controller} \X methods
Open(need, routes) == routes \X {need}

-----------------------------------------------------------------------------
(* The catalogue.                                                          *)
ProductsController ==
  LET P(methods) == Of("products", methods)
  IN  Open("anyone", P({"list", "bySlug"}))
      \cup Open("product.read", P({"listForAdmin", "stockMovements", "stockValuation", "exportCatalog",
                                 "byIdForAdmin", "reindexSearch", "listUpsells"}))
      \cup Open("product.create", P({"importHistory", "create", "importExcel"}))
      \cup Open("product.update", P({"update", "addImage", "removeImage", "reorderImages", "addVariant",
                                   "updateVariant", "removeVariant", "addUpsell", "removeUpsell"}))
      \cup Open("product.delete", P({"archive"}))
      \cup Open("stock.update", P({"adjustStock"}))

CategoriesController ==
  LET C(methods) == Of("categories", methods)
  IN  Open("anyone", C({"tree", "bySlug"})) \cup Open("product.read", C({"list"}))
      \cup Open("product.create", C({"create"})) \cup Open("product.update", C({"update"}))
      \cup Open("product.delete", C({"archive"}))

BrandsController ==
  LET B(methods) == Of("brands", methods)
  IN  Open("anyone", B({"listActive"})) \cup Open("product.read", B({"list"}))
      \cup Open("product.create", B({"create"})) \cup Open("product.update", B({"update"}))
      \cup Open("product.delete", B({"archive"}))

ReviewsController ==
  Open("customer", Of("reviews", {"create", "eligibility"}))
  \cup Open("product.update", Of("reviews", {"listForAdmin", "moderate"}))

-----------------------------------------------------------------------------
(* Campaigns.                                                              *)
PromotionsController ==
  Open("promotion.create", Of("promotions", {"list", "create"}))
  \cup Open("promotion.update", Of("promotions", {"update"}))

CouponsController ==
  Open("coupon.create", Of("coupons", {"list", "create"}))
  \cup Open("coupon.update", Of("coupons", {"update"}))

BundlesController ==
  Open("anyone", Of("bundles", {"listActive"}))
  \cup Open("promotion.create", Of("bundles", {"list", "create"}))
  \cup Open("promotion.update", Of("bundles", {"update", "remove"}))

HeroBannersController ==
  Open("anyone", Of("hero-banners", {"listActive"}))
  \cup Open("promotion.create", Of("hero-banners", {"list", "create"}))
  \cup Open("promotion.update", Of("hero-banners", {"update", "remove"}))

LandingPagesController ==
  LET L(methods) == Of("landing-pages", methods)
  IN  Open("anyone", L({"findBySlug", "trackVisit", "quickOrder"}))
      \cup Open("promotion.create", L({"listForAdmin", "findForAdmin", "analytics", "create", "duplicate"}))
      \cup Open("promotion.update", L({"update", "archive"}))

-----------------------------------------------------------------------------
(* Orders and deliveries.                                                  *)
CartController ==
  Open("anyone", Of("cart", {"getCart", "addLine", "updateLine", "removeLine", "applyCoupon",
                             "removeCoupon", "share", "joinShared"}))

OrdersController ==
  LET O(methods) == Of("orders", methods)
  IN  Open("anyone", O({"checkout"}))
      \cup Open("customer", O({"myOrders", "myOrderDetail", "cancelMyOrder"}))
      \cup Open("order.read", O({"adminStats", "adminList", "exportOrders", "adminDetail"}))
      \cup Open("order.update", O({"updateStatus", "recordPayment"}))

OrderTrackingController ==
  Open("anyone", Of("orders/track", {"requestOtp", "verifyOtp"}))
  \cup Open("order", Of("orders/track", {"me"}))

CitiesController ==
  Open("anyone", Of("cities", {"listPublic"})) \cup Open("shipping.read", Of("cities", {"list"}))
  \cup Open("shipping.update", Of("cities", {"create", "update"}))

CityGroupsController ==
  Open("shipping.read", Of("city-groups", {"list"}))
  \cup Open("shipping.update", Of("city-groups", {"create", "update", "remove"}))

-----------------------------------------------------------------------------
(* Customers.                                                              *)
CustomerAuthController ==
  LET C(methods) == Of("auth/customer", methods)
  IN  Open("anyone", C({"register", "login", "forgotPassword", "resetPassword", "refresh", "logout",
                        "confirmEmailChange"}))
      \cup Open("customer", C({"me", "updateProfile", "loyaltyHistory", "requestEmailChange"}))

WishlistController ==
  Open("customer", Of("wishlist", {"list", "add", "remove", "share"}))
  \cup Open("anyone", Of("wishlist", {"getShared"}))

BirthdayListController ==
  LET B(methods) == Of("birthday-lists", methods)
  IN  Open("customer", B({"listMine", "create", "addItem", "removeItem"}))
      \cup Open("anyone", B({"getShared", "reserveItem"}))

CustomersController == Open("customer.read", Of("customers", {"list", "findOne"}))

-----------------------------------------------------------------------------
(* Administration.                                                         *)
StaffAuthController ==
  Open("anyone", Of("auth/staff", {"login", "refresh", "logout"}))
  \cup Open("staff", Of("auth/staff", {"changePassword"}))

StaffUsersController == Open("user.manage", Of("staff-users", {"list", "create", "update", "resetPassword"}))

RolesController ==
  Open("user.manage", Of("roles", {"list", "listPermissions", "create", "update", "remove"}))

AuditLogController == Open("user.manage", Of("audit-logs", {"list"}))

SettingsController ==
  Open("anyone", Of("settings", {"get"})) \cup Open("settings.manage", Of("settings", {"update"}))

AnalyticsController == Open("analytics.read", Of("analytics", {"summary"}))

Needs ==
  ProductsController \cup CategoriesController \cup BrandsController \cup ReviewsController
  \cup PromotionsController \cup CouponsController \cup BundlesController \cup HeroBannersController
  \cup LandingPagesController \cup CartController \cup OrdersController \cup OrderTrackingController
  \cup CitiesController \cup CityGroupsController \cup CustomerAuthController \cup WishlistController
  \cup BirthdayListController \cup CustomersController \cup StaffAuthController \cup StaffUsersController
  \cup RolesController \cup AuditLogController \cup SettingsController \cup AnalyticsController

Route == {entry[1] : entry \in Needs}
=============================================================================
