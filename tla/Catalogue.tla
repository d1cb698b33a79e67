----------------------------- MODULE Catalogue -----------------------------
(***************************************************************************)
(* The products of the back-office and the documents of the search engine, *)
(* which follow them one call later: create, update, archive, the import   *)
(* of a sheet, the reindexing. The engine may be away when the API starts  *)
(* and refuse a call afterwards; the API may be restarted at any time.     *)
(***************************************************************************)
EXTENDS Naturals, Sequences, FiniteSets

CONSTANTS
  Product,     \* products, named after their SKU
  Text,        \* what a document says of a product
  Stocked,     \* the products there are at first
  Request,     \* requests, each sent once
  Jobs,        \* the mixes of requests looked at: what each one is, [op, rows],
               \* with rows a sequence of [product, status, text]
  MaxFailures, \* bound: calls the engine refuses
  MaxRestarts, \* bound: restarts of the API
  None

Status == {"DRAFT", "ACTIVE", "INACTIVE", "ARCHIVED"}
Entry  == [status: Status, text: Text]

CatalogueAssumption ==
  /\ None \notin Entry
  /\ Stocked \in [Product -> Entry \cup {None}]
  /\ MaxFailures \in Nat /\ MaxRestarts \in Nat
  /\ \A mix \in Jobs : \A r \in Request :
       /\ mix[r].op \in {"create", "update", "archive", "import", "reindex"}
       /\ mix[r].rows \in Seq([product: Product, status: Status, text: Text])
       /\ mix[r].op \in {"create", "update", "archive"} => mix[r].rows # <<>>

VARIABLES
  job,       \* one of Jobs
  products,  \* Product, None when there is none
  index,     \* the documents of the engine, None when there is none
  available, \* SearchService.available
  pc,
  read,      \* what a request read: a product, or all of them
  row,       \* an import: the next row
  failures, restarts,
  open,      \* history: products a request wrote or read and did not send yet
  mixed,     \* history: requests whose products were open for another one
  dirty      \* history: products whose document may be out of date

db    == <<products, index, available>>
ghost == <<open, mixed, dirty>>
vars  == <<job, db, pc, read, row, failures, restarts, ghost>>

Init ==
  /\ job \in Jobs
  /\ products = Stocked
  /\ available \in BOOLEAN
  /\ index = [p \in Product |-> None]
  /\ pc = [r \in Request |-> "start"]
  /\ read = [r \in Request |-> [p \in Product |-> None]]
  /\ row = [r \in Request |-> 1]
  /\ failures = 0 /\ restarts = 0
  /\ open = [r \in Request |-> {}]
  /\ mixed = {}
  /\ dirty = {p \in Product : Stocked[p] # None}

Goto(r, label) == pc' = [pc EXCEPT ![r] = label]
Line(r)  == job[r].rows[row[r]]
Found(r) == products[Line(r).product] # None

Open(r, P) ==
  /\ open' = [open EXCEPT ![r] = @ \cup P]
  /\ LET others == {q \in Request \ {r} : open[q] \cap P # {}}
     IN  mixed' = IF others = {} THEN mixed ELSE mixed \cup others \cup {r}

Put(l)    == products' = [products EXCEPT ![l.product] = [status |-> l.status, text |-> l.text]]
Stop(r)   == Goto(r, "failed") /\ UNCHANGED <<job, db, read, row, failures, restarts, ghost>>
Served    == UNCHANGED <<job, index, available, row, failures, restarts, dirty>>

-----------------------------------------------------------------------------
(* create: SKU and address are unique.                                     *)
Create(r) ==
  /\ pc[r] = "start" /\ job[r].op = "create"
  /\ \/ Found(r) /\ Stop(r)
     \/ /\ ~Found(r)
        /\ Put(Line(r))
        /\ Open(r, {Line(r).product})
        /\ Goto(r, "sync")
        /\ UNCHANGED read /\ Served

(* update and archive read first, and write whatever was read.             *)
FindProduct(r) ==
  /\ pc[r] = "start" /\ job[r].op \in {"update", "archive"}
  /\ Goto(r, IF Found(r) THEN "write" ELSE "failed")
  /\ UNCHANGED <<job, db, read, row, failures, restarts, ghost>>

Update(r) ==
  /\ pc[r] = "write" /\ job[r].op = "update"
  /\ Put(Line(r))
  /\ Open(r, {Line(r).product})
  /\ Goto(r, "sync")
  /\ UNCHANGED read /\ Served

Archive(r) ==
  LET p == Line(r).product
  IN  /\ pc[r] = "write" /\ job[r].op = "archive"
      /\ products' = [products EXCEPT ![p].status = "ARCHIVED"]
      /\ Open(r, {p})
      /\ Goto(r, "remove")
      /\ UNCHANGED read /\ Served

-----------------------------------------------------------------------------
(* The calls to the engine. A call that is refused is only logged.         *)
Send(r, next, docs) ==
  /\ \/ available /\ index' = docs /\ UNCHANGED failures
     \/ ~available /\ UNCHANGED <<index, failures>>
     \/ available /\ failures < MaxFailures /\ failures' = failures + 1 /\ UNCHANGED index
  /\ Goto(r, next)
  /\ open' = [open EXCEPT ![r] = {}]
  /\ UNCHANGED <<job, products, available, read, row, restarts, mixed>>

Ok(r) == available /\ failures' = failures /\ r \notin mixed

(* A document the public list cannot be filtered from.                     *)
MutToSearchDoc(x) == [text |-> x.text]

(* toSearchDoc: the columns as they were read.                             *)
ToSearchDoc(x) == [status |-> x.status, text |-> x.text]

(* Every product gets its document, whatever its status.                   *)
MutListed(x) == x # None

(* What belongs in the index.                                              *)
Listed(x) == x # None /\ x.status = "ACTIVE"

(* syncToSearch reads the product again ...                                *)
Sync(r) ==
  LET p == Line(r).product
  IN  /\ pc[r] = "sync"
      /\ read' = [read EXCEPT ![r][p] = products[p]]
      /\ Goto(r, IF Listed(products[p]) THEN "push" ELSE "remove")
      /\ UNCHANGED <<job, db, row, failures, restarts, ghost>>

(* ... and sends what it read (indexProduct), the prices looked up in      *)
(* between,                                                                *)
IndexProduct(r) ==
  LET p == Line(r).product
  IN  /\ pc[r] = "push"
      /\ Send(r, "done", [index EXCEPT ![p] = ToSearchDoc(read[r][p])])
      /\ dirty' = IF Ok(r) THEN dirty \ {p} ELSE dirty \cup {p}

(* or takes the document away (removeProduct).                             *)
RemoveProduct(r) ==
  LET p == Line(r).product
  IN  /\ pc[r] = "remove"
      /\ Send(r, "done", [index EXCEPT ![p] = None])
      /\ dirty' = IF Ok(r) THEN dirty \ {p} ELSE dirty \cup {p}

-----------------------------------------------------------------------------
(* importFromExcel: the SKUs that exist are read once, ...                 *)
ReadSheet(r) ==
  /\ pc[r] = "start" /\ job[r].op = "import"
  /\ read' = [read EXCEPT ![r] = products]
  /\ Goto(r, "row")
  /\ UNCHANGED <<job, db, row, failures, restarts, ghost>>

(* ... each row is an update or a creation of its own; a row that fails is *)
(* reported and the next one is tried. A product taken off sale keeps its  *)
(* document, since a reindexing only adds.                                 *)
ImportRow(r) ==
  LET l == Line(r)
      known == read[r][l.product] # None
  IN  /\ pc[r] = "row" /\ row[r] <= Len(job[r].rows)
      /\ row' = [row EXCEPT ![r] = @ + 1]
      /\ \/ /\ ~known /\ Found(r)
            /\ UNCHANGED <<products, read, open, mixed, dirty>>
         \/ /\ known \/ ~Found(r)
            /\ Put(l)
            /\ Open(r, {l.product})
            /\ dirty' = dirty \cup {l.product}
            /\ read' = [read EXCEPT ![r][l.product] = products'[l.product]]
      /\ UNCHANGED <<job, index, available, pc, failures, restarts>>

EndSheet(r) ==
  /\ pc[r] = "row" /\ row[r] > Len(job[r].rows)
  /\ Goto(r, IF open[r] # {} THEN "read all" ELSE "done")
  /\ UNCHANGED <<job, db, read, row, failures, restarts, ghost>>

-----------------------------------------------------------------------------
(* reindexSearch, of an import or on its own: every active product is      *)
(* read, then every document is sent at once.                              *)
ReadAll(r) ==
  /\ \/ pc[r] = "start" /\ job[r].op = "reindex"
     \/ pc[r] = "read all"
  /\ read' = [read EXCEPT ![r] = [p \in Product |-> IF Listed(products[p]) THEN products[p] ELSE None]]
  /\ Open(r, Product)
  /\ Goto(r, "push all")
  /\ UNCHANGED <<job, db, row, failures, restarts, dirty>>

(* addDocuments replaces what it sends, and leaves the rest.               *)
Replaced(r) == [p \in Product |-> IF read[r][p] # None THEN ToSearchDoc(read[r][p]) ELSE index[p]]

IndexProducts(r) ==
  /\ pc[r] = "push all"
  /\ Send(r, "done", Replaced(r))
  /\ dirty' = IF Ok(r) THEN dirty \ {p \in Product : read[r][p] # None} ELSE dirty

-----------------------------------------------------------------------------
(* The API goes down in the middle of its requests, and asks the engine    *)
(* for its health when it is back (onModuleInit).                          *)
Busy == {r \in Request : pc[r] \notin {"start", "done", "failed"}}

Restart ==
  /\ restarts < MaxRestarts
  /\ restarts' = restarts + 1
  /\ pc' = [r \in Request |-> IF r \in Busy THEN "failed" ELSE pc[r]]
  /\ dirty' = dirty \cup UNION {open[r] : r \in Request}
  /\ open' = [r \in Request |-> {}]
  /\ available' \in BOOLEAN
  /\ UNCHANGED <<job, products, index, read, row, failures, mixed>>

Rest ==
  /\ \A r \in Request : pc[r] \in {"done", "failed"}
  /\ UNCHANGED vars

Next ==
  \/ \E r \in Request :
       \/ Create(r) \/ FindProduct(r) \/ Update(r) \/ Archive(r)
       \/ Sync(r) \/ IndexProduct(r) \/ RemoveProduct(r)
       \/ ReadSheet(r) \/ ImportRow(r) \/ EndSheet(r)
       \/ ReadAll(r) \/ IndexProducts(r)
  \/ Restart \/ Rest

Spec == Init /\ [][Next]_vars

-----------------------------------------------------------------------------
TypeOK ==
  /\ job \in Jobs
  /\ products \in [Product -> Entry \cup {None}]
  /\ index \in [Product -> Entry \cup {None}]
  /\ available \in BOOLEAN
  /\ pc \in [Request -> {"start", "write", "sync", "push", "remove", "row", "read all", "push all",
                         "done", "failed"}]
  /\ read \in [Request -> [Product -> Entry \cup {None}]]
  /\ row \in [Request -> Nat \ {0}]
  /\ failures \in 0 .. MaxFailures /\ restarts \in 0 .. MaxRestarts
  /\ open \in [Request -> SUBSET Product]
  /\ dirty \subseteq Product /\ mixed \subseteq Request

(* Between requests, the engine holds the active products, as they are     *)
(* now, and nothing else: except for those whose last call was refused,    *)
(* lost with a restart, or mixed up with another request, and what an      *)
(* import changed. A reindexing that nothing disturbs brings every active  *)
(* product back, whatever went wrong before.                               *)
IndexCatchesUp ==
  \A p \in Product \ dirty :
    (\A r \in Request : p \notin open[r]) =>
      IF products[p] # None /\ products[p].status = "ACTIVE"
      THEN index[p] = products[p]
      ELSE index[p] = None
=============================================================================
