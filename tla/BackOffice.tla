----------------------------- MODULE BackOffice -----------------------------
(***************************************************************************)
(* What the team edits: the products and their documents in the search     *)
(* engine, pictures; and the prices the shop computes from it. As in       *)
(* People, a behaviour of this module is a behaviour of one part, and the  *)
(* variables of the others are Off.                                        *)
(***************************************************************************)
EXTENDS Naturals

CONSTANTS
  None,
  Product, Text, Stocked, StockRequest, Jobs, MaxFailures, MaxRestarts, \* Catalogue
  ImageRequest, Wish, Old, MaxLosses, NotShown,                         \* Pictures
  PriceCases, AmountCases                                               \* Quotes

VARIABLES part,
  job, products, index, available, stockPc, found, row, failures, restarts, open, mixed, dirty,
  order, banners, files, imagePc, next, losses, spoilt,
  in

Goods == INSTANCE Catalogue WITH Request <- StockRequest, pc <- stockPc, read <- found

Image == INSTANCE Pictures WITH
  Request <- ImageRequest, MaxFailures <- MaxLosses, pc <- imagePc, failures <- losses

Amount == INSTANCE Quotes

ASSUME BackOfficeAssumption ==
  Goods!CatalogueAssumption /\ Image!PicturesAssumption /\ Amount!QuotesAssumption

-----------------------------------------------------------------------------
Off == "off"

GoodsOff ==
  /\ job = Off /\ products = Off /\ index = Off /\ available = Off /\ stockPc = Off /\ found = Off
  /\ row = Off /\ failures = Off /\ restarts = Off /\ open = Off /\ mixed = Off /\ dirty = Off
ImageOff ==
  /\ order = Off /\ banners = Off /\ files = Off /\ imagePc = Off
  /\ next = Off /\ losses = Off /\ spoilt = Off
AmountOff == in = Off

goodsVars == <<job, products, index, available, stockPc, found, row, failures, restarts,
               open, mixed, dirty>>
imageVars == <<order, banners, files, imagePc, next, losses, spoilt>>
vars == <<part, goodsVars, imageVars, in>>

Init ==
  /\ part \in {"goods", "image", "amount"}
  /\ IF part = "goods" THEN Goods!Init ELSE GoodsOff
  /\ IF part = "image" THEN Image!Init ELSE ImageOff
  /\ IF part = "amount" THEN Amount!Init ELSE AmountOff

GoodsStep  == part = "goods" /\ Goods!Next /\ UNCHANGED <<part, imageVars, in>>
ImageStep  == part = "image" /\ Image!Next /\ UNCHANGED <<part, goodsVars, in>>
AmountStep == part = "amount" /\ Amount!Next /\ UNCHANGED <<part, goodsVars, imageVars>>

Next == GoodsStep \/ ImageStep \/ AmountStep

Spec == Init /\ [][Next]_vars

-----------------------------------------------------------------------------
(* The properties of the parts, by their names: see their modules.         *)

(* Tables, index and storage hold what their columns allow.                *)
TypeOK ==
  /\ part = "goods" => Goods!TypeOK
  /\ part = "image" => Image!TypeOK

(* ProductsService.syncToSearch: the engine follows the products.          *)
IndexCatchesUp == part = "goods" => Goods!IndexCatchesUp

(* ProductsService.removeImage: no row without its files.                  *)
RowsHaveFiles == part = "image" => Image!RowsHaveFiles

(* ProductsService.addImage: no file is left without a reason.             *)
OrphansExplained == part = "image" => Image!OrphansExplained

(* resolveEffectivePrice: the best offer wins, and offers never add up.    *)
BestOfferWins == part = "amount" => Amount!BestOfferWins

(* checkout: discount, points, delivery and VAT add up.                    *)
TotalAddsUp == part = "amount" => Amount!TotalAddsUp
=============================================================================
