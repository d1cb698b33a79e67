---------------------------- MODULE ShopScreens ----------------------------
(***************************************************************************)
(* The pages of the shop (apps/web), component by component. A page the    *)
(* server renders asks on every navigation, and Next shows the rendering   *)
(* of the address the browser is at: its question may change and an old    *)
(* rendering is dropped.                                                   *)
(***************************************************************************)
EXTENDS ScreenParts

-----------------------------------------------------------------------------
(* Pages rendered on the server.                                           *)
HomePage ==
  View("anyone", {<<"categories", "tree">>, <<"brands", "listActive">>, <<"products", "list">>,
                  <<"hero-banners", "listActive">>}, "latest")
CategoryPage ==
  Search("anyone", {<<"categories", "tree">>, <<"brands", "listActive">>, <<"products", "list">>}, "latest")
SearchPage ==
  Search("anyone", {<<"categories", "tree">>, <<"brands", "listActive">>, <<"products", "list">>}, "latest")
ProductPage == Search("anyone", {<<"products", "bySlug">>, <<"products", "list">>}, "latest")
LandingPage == View("anyone", {<<"landing-pages", "findBySlug">>}, "latest")
sitemap == View("anyone", {<<"categories", "tree">>, <<"products", "list">>}, "latest")

(* What every page of the shop shows: the basket's count and the settings, *)
(* which one request per visit fetches, whoever asks first.                *)
SiteHeader == View("anyone", {<<"cart", "getCart">>, <<"settings", "get">>, <<"cities", "listPublic">>}, "any")
useStoreSettings == View("anyone", {<<"settings", "get">>, <<"cities", "listPublic">>}, "latest")

-----------------------------------------------------------------------------
(* The basket and the checkout. A line's buttons are disabled while it is  *)
(* saved and the other lines' return at once; a load is made on every      *)
(* broadcast, and by the page after its own writes.                        *)
useCart == View("anyone", {<<"cart", "getCart">>}, "any")

CartPageContent ==
  Part("anyone", {<<"cart", "getCart">>}, "any", FALSE,
       {Form(<<"cart", "updateLine">>, "reload"), Form(<<"cart", "removeLine">>, "reload"),
        Button(<<"cart", "applyCoupon">>, "reload"), Button(<<"cart", "removeCoupon">>, "reload"),
        Button(<<"cart", "share">>, "stay"), Form(<<"cart", "joinShared">>, "reload")})

FreeShippingProgress == Search("anyone", {<<"products", "list">>}, "latest")

CheckoutPageContent == Part("anyone", {<<"cart", "getCart">>}, "any", FALSE, {Leaving(<<"orders", "checkout">>)})
CheckoutProfile     == View("customer", {<<"auth/customer", "me">>}, "any")

AddToCartButton == Part("anyone", {}, "latest", FALSE, {Form(<<"cart", "addLine">>, "stay")})
BundlesPage     == View("anyone", {<<"bundles", "listActive">>}, "any")
BundleCard      == Part("anyone", {}, "latest", FALSE, {Form(<<"cart", "addLine">>, "stay")})
QuickOrderForm ==
  Part("anyone", {<<"cities", "listPublic">>}, "latest", FALSE, {Form(<<"landing-pages", "quickOrder">>, "replace")})

-----------------------------------------------------------------------------
(* Finding a toy.                                                          *)
GiftAdvisorPage == Search("anyone", {<<"products", "list">>}, "latest")
ProductPicker   == Search("anyone", {<<"products", "list">>}, "latest")

WriteReviewForm ==
  Part("customer", {<<"reviews", "eligibility">>}, "any", FALSE, {Form(<<"reviews", "create">>, "replace")})

-----------------------------------------------------------------------------
(* The account. The form that signs in disappears with the profile that    *)
(* is loaded after it; only a failure frees it.                            *)
AccountPage           == View("customer", {<<"auth/customer", "me">>}, "any")
LoyaltyHistorySection == View("customer", {<<"auth/customer", "loyaltyHistory">>}, "any")
PersonalInfoCard ==
  Part("customer", {<<"auth/customer", "me">>}, "any", FALSE, {Form(<<"auth/customer", "updateProfile">>, "answer")})
EmailChangeSection ==
  Part("customer", {<<"auth/customer", "me">>}, "any", FALSE,
       {Form(<<"auth/customer", "requestEmailChange">>, "answer")})
AuthForm ==
  Part("anyone", {}, "latest", FALSE,
       {Write(<<"auth/customer", "login">>, TRUE, "error", "replace"),
        Write(<<"auth/customer", "register">>, TRUE, "error", "replace")})
ForgotPasswordPage ==
  Part("anyone", {}, "latest", FALSE, {Form(<<"auth/customer", "forgotPassword">>, "replace")})
ResetPasswordForm ==
  Part("anyone", {}, "latest", FALSE, {Form(<<"auth/customer", "resetPassword">>, "replace")})

(* The page of the link in the mail: it confirms when it opens.            *)
ConfirmEmailChangeContent == View("anyone", {<<"auth/customer", "confirmEmailChange">>}, "any")

-----------------------------------------------------------------------------
(* Orders: those of an account, and one that is tracked with a code.       *)
MyOrdersPage == View("customer", {<<"orders", "myOrders">>}, "any")
OrderDetailPage ==
  Part("customer", {<<"orders", "myOrderDetail">>}, "any", FALSE, {Form(<<"orders", "cancelMyOrder">>, "answer")})

TrackedOrder == View("order", {<<"orders/track", "me">>}, "any")
OrderTrackingPageContent ==
  Part("anyone", {}, "any", FALSE,
       {Form(<<"orders/track", "requestOtp">>, "stay"), Button(<<"orders/track", "requestOtp">>, "stay"),
        Form(<<"orders/track", "verifyOtp">>, "stay")})

-----------------------------------------------------------------------------
(* Lists that are shared.                                                  *)
WishlistPage       == Part("customer", {<<"wishlist", "list">>}, "any", FALSE, {Button(<<"wishlist", "share">>, "stay")})
SharedWishlistPage == View("anyone", {<<"wishlist", "getShared">>}, "any")

BirthdayListPage == View("customer", {<<"birthday-lists", "listMine">>}, "any")
CreateListCard ==
  Part("customer", {<<"birthday-lists", "listMine">>}, "any", FALSE, {Form(<<"birthday-lists", "create">>, "answer")})
ListItemsPanel ==
  Part("customer", {<<"birthday-lists", "listMine">>}, "any", FALSE,
       {Form(<<"birthday-lists", "addItem">>, "reload"), Form(<<"birthday-lists", "removeItem">>, "reload")})
SharedBirthdayListPage ==
  Part("anyone", {<<"birthday-lists", "getShared">>}, "any", FALSE,
       {Form(<<"birthday-lists", "reserveItem">>, "answer")})

ShopParts ==
  { HomePage, CategoryPage, SearchPage, ProductPage, LandingPage, sitemap, SiteHeader,
    useStoreSettings, useCart, CartPageContent, FreeShippingProgress, CheckoutPageContent, CheckoutProfile,
    AddToCartButton, BundlesPage, BundleCard, QuickOrderForm, GiftAdvisorPage, ProductPicker,
    WriteReviewForm, AccountPage, LoyaltyHistorySection, PersonalInfoCard, EmailChangeSection, AuthForm,
    ForgotPasswordPage, ResetPasswordForm, ConfirmEmailChangeContent, MyOrdersPage, OrderDetailPage,
    TrackedOrder, OrderTrackingPageContent, WishlistPage, SharedWishlistPage, BirthdayListPage,
    CreateListCard, ListItemsPanel, SharedBirthdayListPage }
=============================================================================
