SPECIFICATION Spec
CONSTANTS
  s1 = s1
  r1 = r1
  r2 = r2
  r3 = r3
  r4 = r4
  r5 = r5
  r6 = r6
  e1 = e1
  e2 = e2
  p1 = p1
  p2 = p2
  t1 = t1
  t2 = t2
  home = home
  ann = ann
  bob = bob
  carl = carl
  dina = dina
  clerk = clerk
  temp = temp
  twin = twin
  read = read
  write = write
  q1 = q1
  q2 = q2
  q3 = q3
  q4 = q4
  q5 = q5
  q6 = q6
  q7 = q7
  q8 = q8
  q9 = q9
  h3 = h3
  None = None
  Super = Super
  UserManage = UserManage
  Sku = {s1}
  CartRequest = {r1, r2, r3, r4, r5, r6}
  CartOp <- MCCartOp
  SkuOf <- MCSkuOf
  Qty <- MCQty
  Available <- Plenty
  OrderRequest = {r1, r2, r3, r4, r5, r6}
  OrderOp <- MCOrderOp
  Email = {e1, e2}
  EmailOf <- MCEmailOf
  Phone = {p1, p2}
  PhoneOf <- MCPhoneOf
  Self <- MCSelf
  Bound <- MCBound
  Known <- MCKnown
  Tab = {t1, t2}
  Browser = {home}
  BrowserOf <- OneBrowser
  MaxCalls = 3
  MaxExpired = 1
  Product = {p1, p2}
  Heart = {h1, h2, h3}
  TabOf <- MCTabOf
  MaxToggles = 2
  MaxLogins = 1
  Guest = {ann, bob}
  MaxItems = 2
  MaxLost = 1
  Member = {ann, carl, dina}
  Role = {Super, clerk, temp, twin}
  NameOf <- MCNameOf
  Code = {read, write, UserManage}
  Staff <- MCStaff
  Roles <- MCRoles
  TeamRequest = {q1, q2, q3, q4, q5, q6, q7, q8, q9}
  TeamOrder <- MCTeamOrder
INVARIANTS
  LastAdminStays
