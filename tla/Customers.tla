------------------------------ MODULE Customers ------------------------------
(***************************************************************************)
(* Who an order, or a registration, belongs to: guest checkouts that find  *)
(* or create their customer (resolveCustomer), registrations that claim a  *)
(* guest's record, and customers who change their email address, all at    *)
(* the same time. None of it runs in a transaction: each action is one     *)
(* statement, and what a request read before may be stale when it writes.  *)
(*                                                                         *)
(* Customer.email and Customer.phone are unique; NULLs are not compared.   *)
(***************************************************************************)
EXTENDS Integers, Sequences

CONSTANTS
  Request,   \* requests, each sent once
  Op,        \* "guest", "register" or "change"
  Email, EmailOf,   \* dto.email (of a change: the new address)
  Phone, PhoneOf,   \* dto.phone
  Self,      \* the customer a "change" is about
  Bound,     \* Cart.customerId at a checkout, NULL in a quick order
  Known,     \* the customers there are at first, all with their account
  None       \* NULL

Customer == [email: Email \cup {None}, phone: Phone \cup {None},
             password: BOOLEAN, by: Request \cup {None}]

CustomersAssumption ==
  /\ Known \in Seq(Customer)
  /\ \A k, j \in DOMAIN Known :
       Known[k].by = None /\ (Known[k].email = Known[j].email => k = j \/ Known[k].email = None)
  /\ Op \in [Request -> {"guest", "register", "change"}]
  /\ None \notin Email \cup Phone \cup Request \cup Nat
  /\ EmailOf \in [Request -> Email \cup {None}]
  /\ PhoneOf \in [Request -> Phone \cup {None}]
  /\ \A r \in Request : /\ Op[r] = "guest" => PhoneOf[r] # None
                        /\ Op[r] = "change" => EmailOf[r] # None
                        /\ Op[r] = "register" => {EmailOf[r], PhoneOf[r]} # {None}
  /\ Self \in [Request -> DOMAIN Known]
  /\ Bound \in [Request -> DOMAIN Known \cup {None}]
  /\ \A r \in Request : Op[r] # "guest" => Bound[r] = None

VARIABLES
  customers,  \* Customer, by id; .by: the request that created it
  accounts,   \* the customers that have a LoyaltyAccount
  wishlists,  \* the customers that have a Wishlist
  pc,
  own,        \* the customer a request found or created
  got         \* the customer it was answered with

tables == <<customers, accounts, wishlists>>
vars   == <<tables, pc, own, got>>

Goto(r, label) == pc' = [pc EXCEPT ![r] = label]

ByEmail(e) == {k \in DOMAIN customers : e # None /\ customers[k].email = e}
ByPhone(p) == {k \in DOMAIN customers : p # None /\ customers[k].phone = p}

Answer(r, k) ==
  /\ got' = [got EXCEPT ![r] = k]
  /\ Goto(r, "done")

Fail(r) ==
  /\ Goto(r, "failed")
  /\ UNCHANGED <<tables, own, got>>

Init ==
  /\ customers = Known
  /\ accounts = DOMAIN Known
  /\ wishlists = DOMAIN Known
  /\ pc = [r \in Request |-> "read"]
  /\ own = [r \in Request |-> None]
  /\ got = [r \in Request |-> None]

(* A customer without a phone is not given an account.                     *)
MutInsert(r, phone, password) ==
  /\ customers' = Append(customers, [email |-> EmailOf[r], phone |-> phone,
                                     password |-> password, by |-> r])
  /\ own' = [own EXCEPT ![r] = Len(customers) + 1]
  /\ Goto(r, IF phone = None THEN "wishlist" ELSE "account")
  /\ UNCHANGED <<accounts, wishlists, got>>

(* customer.create, when no unique column is in the way.                   *)
Insert(r, phone, password) ==
  /\ customers' = Append(customers, [email |-> EmailOf[r], phone |-> phone,
                                     password |-> password, by |-> r])
  /\ own' = [own EXCEPT ![r] = Len(customers) + 1]
  /\ Goto(r, "account")
  /\ UNCHANGED <<accounts, wishlists, got>>

-----------------------------------------------------------------------------
(* The phone number is taken for a proof of identity, as the email is.     *)
MutMatches(r) == ByEmail(EmailOf[r]) \cup ByPhone(PhoneOf[r])

Matches(r) == ByEmail(EmailOf[r])

(* resolveCustomer of a cart that a customer put his name to: his, whoever *)
(* checks it out (the family on a shared cart, a visitor who logged out)   *)
(* and whatever the email typed. Customers are never deleted.              *)
FindBound(r) ==
  /\ Op[r] = "guest" /\ pc[r] = "read" /\ Bound[r] # None
  /\ Answer(r, Bound[r])
  /\ UNCHANGED <<tables, own>>

(* Of any other: the customer with exactly this email, or a new one.       *)
FindGuest(r) ==
  /\ Op[r] = "guest" /\ pc[r] = "read" /\ Bound[r] = None
  /\ IF Matches(r) = {}
     THEN Goto(r, "create") /\ UNCHANGED got
     ELSE \E k \in Matches(r) : Answer(r, k)
  /\ UNCHANGED <<tables, own>>

(* PostgreSQL reports the first index that refuses the row: the email's.   *)
CreateGuest(r) ==
  /\ Op[r] = "guest" /\ pc[r] = "create"
  /\ IF ByEmail(EmailOf[r]) # {}
     THEN Goto(r, "winner") /\ UNCHANGED <<tables, own, got>>
     ELSE IF ByPhone(PhoneOf[r]) # {}
     THEN Goto(r, "noPhone") /\ UNCHANGED <<tables, own, got>>
     ELSE Insert(r, PhoneOf[r], FALSE)

(* The email conflict: the customer another request has just created.      *)
ReadWinner(r) ==
  /\ pc[r] = "winner"
  /\ IF Matches(r) = {}
     THEN Fail(r)
     ELSE /\ \E k \in Matches(r) : Answer(r, k)
          /\ UNCHANGED <<tables, own>>

(* The phone conflict: a customer without a phone.                         *)
CreateWithoutPhone(r) ==
  /\ pc[r] = "noPhone"
  /\ IF ByEmail(EmailOf[r]) # {} THEN Fail(r) ELSE Insert(r, None, FALSE)

(* A guest's account and wishlist are created, and it is an error that     *)
(* they exist; a registration takes those there are.                       *)
MayExist(r) == Op[r] = "register"

OpenAccount(r) ==
  /\ pc[r] = "account"
  /\ IF own[r] \in accounts /\ ~MayExist(r)
     THEN Fail(r)
     ELSE /\ accounts' = accounts \cup {own[r]}
          /\ Goto(r, "wishlist")
          /\ UNCHANGED <<customers, wishlists, own, got>>

OpenWishlist(r) ==
  /\ pc[r] = "wishlist"
  /\ IF own[r] \in wishlists /\ ~MayExist(r)
     THEN Fail(r)
     ELSE /\ wishlists' = wishlists \cup {own[r]}
          /\ Answer(r, own[r])
          /\ UNCHANGED <<customers, accounts, own>>

-----------------------------------------------------------------------------
(* register: the record with this email, if nobody claimed it.             *)
ReadByEmail(r) ==
  /\ Op[r] = "register" /\ pc[r] = "read"
  /\ LET k == CHOOSE k \in ByEmail(EmailOf[r]) : TRUE
     IN  IF ByEmail(EmailOf[r]) = {}
         THEN Goto(r, "byPhone") /\ UNCHANGED own
         ELSE IF customers[k].password
         THEN Goto(r, "rejected") /\ UNCHANGED own
         ELSE Goto(r, "byPhone") /\ own' = [own EXCEPT ![r] = k]
  /\ UNCHANGED <<tables, got>>

(* A phone number that belongs to another record is refused, claimed or    *)
(* not.                                                                    *)
ReadByPhone(r) ==
  /\ pc[r] = "byPhone"
  /\ Goto(r, IF \E k \in ByPhone(PhoneOf[r]) : k # own[r] \/ customers[k].password
             THEN "rejected" ELSE "save")
  /\ UNCHANGED <<tables, own, got>>

(* The password is hashed in between.                                      *)
SaveRegistration(r) ==
  /\ pc[r] = "save"
  /\ LET k == own[r]
     IN  IF \E other \in ByPhone(PhoneOf[r]) \cup (IF k = None THEN ByEmail(EmailOf[r]) ELSE {}) :
              other # k
         THEN Fail(r)
         ELSE IF k = None
         THEN Insert(r, PhoneOf[r], TRUE)
         ELSE /\ customers' = [customers EXCEPT
                   ![k].password = TRUE,
                   ![k].phone = IF PhoneOf[r] = None THEN @ ELSE PhoneOf[r]]
              /\ Goto(r, "account")
              /\ UNCHANGED <<accounts, wishlists, own, got>>

-----------------------------------------------------------------------------
(* requestEmailChange, by a customer who has a password.                   *)
RequestEmailChange(r) ==
  /\ Op[r] = "change" /\ pc[r] = "read"
  /\ LET k == Self[r]
     IN  Goto(r, IF customers[k].password /\ ByEmail(EmailOf[r]) = {}
                 THEN "confirm" ELSE "rejected")
  /\ UNCHANGED <<tables, own, got>>

(* confirmEmailChange, whenever the link in the email is followed.         *)
ConfirmEmailChange(r) ==
  /\ pc[r] = "confirm"
  /\ LET k == Self[r]
     IN  IF ByEmail(EmailOf[r]) \ {k} # {}
         THEN Goto(r, "rejected") /\ UNCHANGED <<tables, own, got>>
         ELSE /\ customers' = [customers EXCEPT ![k].email = EmailOf[r]]
              /\ Answer(r, k)
              /\ UNCHANGED <<accounts, wishlists, own>>

-----------------------------------------------------------------------------
Statement(r) ==
  \/ FindBound(r) \/ FindGuest(r) \/ CreateGuest(r) \/ ReadWinner(r) \/ CreateWithoutPhone(r)
  \/ OpenAccount(r) \/ OpenWishlist(r)
  \/ ReadByEmail(r) \/ ReadByPhone(r) \/ SaveRegistration(r)
  \/ RequestEmailChange(r) \/ ConfirmEmailChange(r)

Answered == \A r \in Request : pc[r] \in {"done", "rejected", "failed"}

Rest == Answered /\ UNCHANGED vars

Next == (\E r \in Request : Statement(r)) \/ Rest

Spec == Init /\ [][Next]_vars

-----------------------------------------------------------------------------
Id == 1..Len(customers)

TypeOK ==
  /\ customers \in Seq(Customer)
  /\ accounts \subseteq Id
  /\ wishlists \subseteq accounts
  /\ pc \in [Request -> {"read", "create", "winner", "noPhone", "account", "wishlist",
                         "byPhone", "save", "confirm", "done", "rejected", "failed"}]
  /\ own \in [Request -> Id \cup {None}]
  /\ got \in [Request -> Id \cup {None}]

(* Who sends a request: the customer of the cart, else whoever the email   *)
(* names, and without an email somebody unknown, phone number or not.      *)
Named(e) == {k \in DOMAIN Known : e # None /\ Known[k].email = e}
PersonOf(r) ==
  CASE Bound[r] # None -> <<"known", {Bound[r]}>>
    [] Bound[r] = None /\ Named(EmailOf[r]) # {} -> <<"known", Named(EmailOf[r])>>
    [] Bound[r] = None /\ Named(EmailOf[r]) = {} /\ EmailOf[r] # None -> <<"email", EmailOf[r]>>
    [] Bound[r] = None /\ EmailOf[r] = None -> <<"request", r>>

Served   == {r \in Request : got[r] # None /\ Op[r] # "change"}
Moved(k) == \E c \in Request : Op[c] = "change" /\ Self[c] = k /\ got[c] # None

(* resolveCustomer, register: two orders or registrations are of one       *)
(* customer record exactly when they are of one person, so nobody's order  *)
(* is in another's account and nobody has two: however the requests that   *)
(* look up, insert, claim and retry interleave, and whoever shares a phone *)
(* number. (A customer who changes his address meanwhile leaves the old    *)
(* one to others, and takes over the new one's requests.)                  *)
OneRecordPerPerson ==
  \A r, q \in Served :
    Moved(got[r]) \/ Moved(got[q]) \/ (got[r] = got[q] <=> PersonOf(r) = PersonOf(q))

(* Once every request has been answered, every customer an order or a      *)
(* registration was given has a loyalty account (without one its           *)
(* deliveries earn no points) and a wishlist, though several requests      *)
(* create them at once and some of these fail.                             *)
AccountsComplete ==
  Answered => \A r \in Request : got[r] # None => got[r] \in accounts \cap wishlists
=============================================================================
