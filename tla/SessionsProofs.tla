--------------------------- MODULE SessionsProofs ---------------------------
(***************************************************************************)
(* Proofs about Sessions, for any tabs, browsers and number of calls: its  *)
(* type invariant, that a login has one live token, that who is logged out *)
(* stays so, and that the token a browser keeps is one that works.         *)
(***************************************************************************)
EXTENDS Sessions, TLAPS, FiniteSetTheorems

(* A call presents a token of its own browser, granted to the same login   *)
(* before; a login is named after its first call.                          *)
CallInv ==
  /\ Len(calls) <= MaxCalls
  /\ \A i \in DOMAIN calls :
       /\ calls[i].login <= i
       /\ calls[i].op = "login" <=> calls[i].token = None
       /\ calls[i].op = "logout" => calls[i].at \in {"start", "granted"}
       /\ calls[i].token # None =>
            /\ calls[i].token \in DOMAIN calls
            /\ calls[calls[i].token].login = calls[i].login
            /\ BrowserOf[calls[calls[i].token].tab] = BrowserOf[calls[i].tab]

(* The rows are the tokens that were granted, until they expire.           *)
Issued(k) == calls[k].at = "granted" /\ calls[k].op # "logout"
RowInv ==
  /\ \A k \in DOMAIN rows : Issued(k) /\ rows[k].login = calls[k].login
  /\ \A k \in DOMAIN calls : Issued(k) => k \in DOMAIN rows \cup expired

(* Nobody has presented the token of an answer that is awaited.            *)
WaitInv ==
  \A t \in Tab : \A j \in wait[t] :
    /\ j \in DOMAIN calls /\ calls[j].tab = t /\ calls[j].op # "logout"
    /\ \A i \in DOMAIN calls : calls[i].token # j

(* The token a browser keeps was granted to one of its tabs and never sent *)
(* to be revoked; whoever presented it for a refresh still waits, unless   *)
(* answers were given up.                                                  *)
Kept(b, k) ==
  /\ k \in DOMAIN calls /\ Issued(k) /\ BrowserOf[calls[k].tab] = b
  /\ \A t \in Tab : k \notin wait[t]
  /\ \A j \in DOMAIN calls :
       calls[j].token = k =>
         calls[j].op = "refresh" /\ (b \notin late => j \in wait[calls[j].tab])
HeldInv == \A b \in Browser : store[b] # None => Kept(b, store[b])

(* Only a call that presents a token revokes it, until all are.            *)
RevokedInv ==
  closed \/ \A k \in DOMAIN rows :
    rows[k].state = "revoked" => \E j \in DOMAIN calls : calls[j].token = k

(* One live token per login.                                               *)
OneInv == \A n \in Token : \A a, b \in Live(n) : a = b

(* A token that no refresh presented is the only live one of its login.    *)
Unspent(k) == \A j \in DOMAIN calls : calls[j].token = k => calls[j].op = "logout"
TipInv ==
  \A k \in DOMAIN calls : Issued(k) /\ Unspent(k) => Live(calls[k].login) \subseteq {k}

(* The token that a browser at rest sent to be revoked is one no refresh   *)
(* presents, and its login has none once it is revoked.                    *)
PartInv ==
  \A i \in parted :
    /\ i \in DOMAIN calls /\ calls[i].op = "logout"
    /\ Issued(calls[i].token) /\ Unspent(calls[i].token)
    /\ calls[i].at = "granted" => Live(calls[i].login) = {}

SweptInv == \A n \in swept : n \in DOMAIN calls /\ Live(n) = {}

IInv ==
  /\ TypeOK /\ CallInv /\ RowInv /\ WaitInv /\ HeldInv /\ RevokedInv /\ OneInv
  /\ TipInv /\ PartInv /\ SweptInv

-----------------------------------------------------------------------------
(* The list of calls, after one is sent, and after one moves on.           *)
LEMMA SendFacts ==
  ASSUME SessionsAssumption, calls \in Seq(Call), NEW t \in Tab, NEW op \in Op,
         NEW token \in Token \cup {None}, NEW login, NEW at \in At,
         login \in 1..(Len(calls) + 1), Send(t, op, token, login, at)
  PROVE  LET new == Len(calls) + 1
         IN  /\ calls' \in Seq(Call) /\ Len(calls') = new /\ new \in Token
             /\ DOMAIN calls = 1..Len(calls) /\ DOMAIN calls' = 1..new
             /\ \A i \in DOMAIN calls : calls'[i] = calls[i]
             /\ calls'[new] = [op |-> op, tab |-> t, token |-> token, login |-> login, at |-> at]
  <1> DEFINE c == [op |-> op, tab |-> t, token |-> token, login |-> login, at |-> at]
  <1>1. Len(calls) < MaxCalls /\ calls' = Append(calls, c)
    BY DEF Send
  <1>2. login \in Token
    BY <1>1 DEF Token, SessionsAssumption
  <1>3. c \in Call
    BY <1>2 DEF Call
  <1> HIDE DEF c
  <1>4. /\ calls' \in Seq(Call) /\ Len(calls') = Len(calls) + 1
        /\ DOMAIN calls = 1..Len(calls) /\ DOMAIN calls' = 1..(Len(calls) + 1)
        /\ \A i \in DOMAIN calls : calls'[i] = calls[i]
        /\ calls'[Len(calls) + 1] = c
    BY <1>1, <1>3
  <1> QED
    BY <1>1, <1>4 DEF c, Token, SessionsAssumption

LEMMA MoveFacts ==
  ASSUME calls \in Seq(Call), NEW i \in DOMAIN calls, NEW at \in At, Move(i, at)
  PROVE  /\ calls' \in Seq(Call) /\ Len(calls') = Len(calls) /\ DOMAIN calls' = DOMAIN calls
         /\ \A j \in DOMAIN calls \ {i} : calls'[j] = calls[j]
         /\ calls'[i].op = calls[i].op /\ calls'[i].tab = calls[i].tab
         /\ calls'[i].token = calls[i].token /\ calls'[i].login = calls[i].login
         /\ calls'[i].at = at
  <1>1. calls[i] \in Call
    OBVIOUS
  <1>2. calls' = [calls EXCEPT ![i] = [calls[i] EXCEPT !.at = at]]
    BY DEF Move
  <1> DEFINE c == [calls[i] EXCEPT !.at = at]
  <1>3. /\ c \in Call /\ c.op = calls[i].op /\ c.tab = calls[i].tab
        /\ c.token = calls[i].token /\ c.login = calls[i].login /\ c.at = at
    BY <1>1 DEF Call
  <1> HIDE DEF c
  <1>4. calls' = [calls EXCEPT ![i] = c]
    BY <1>2 DEF c
  <1>5. /\ calls' \in Seq(Call) /\ Len(calls') = Len(calls) /\ DOMAIN calls' = DOMAIN calls
        /\ \A j \in DOMAIN calls \ {i} : calls'[j] = calls[j] /\ calls'[i] = c
    BY <1>3, <1>4
  <1>6. calls'[i] = c
    BY <1>4
  <1> QED
    BY <1>3, <1>5, <1>6

-----------------------------------------------------------------------------
(* The steps, by who takes them: a tab sends a call, a tab hears of one or *)
(* gives up, the API works on one, or its tables change.                   *)
Sends(t) == Login(t) \/ Refresh(t) \/ Logout(t)
Hears(t) == Granted(t) \/ Refused(t) \/ GiveUp(t)
Works(i) == Consume(i) \/ Purge(i) \/ IssueTokens(i) \/ RevokeOne(i)
Changes  == ChangePassword \/ SetActive \/ Cleanup \/ \E k \in DOMAIN rows : Expire(k)

LEMMA NextCases ==
  [Next]_vars =>
    \/ UNCHANGED vars
    \/ \E t \in Tab : Sends(t) \/ Hears(t)
    \/ \E i \in DOMAIN calls : Works(i)
    \/ Changes
  BY DEF Next, Rest, Sends, Hears, Works, Changes, Answer

(* The rows of S are revoked, the others stay.                             *)
AreRevoked(S) ==
  /\ DOMAIN rows' = DOMAIN rows
  /\ \A k \in DOMAIN rows :
       /\ rows'[k] \in [login: Token, state: {"active", "revoked"}]
       /\ rows'[k].login = rows[k].login
       /\ rows'[k].state = IF k \in S THEN "revoked" ELSE rows[k].state

LEMMA RevokeFacts ==
  ASSUME TypeOK, NEW S, Revoke(S)
  PROVE  AreRevoked(S)
  <1>1. rows' = [k \in DOMAIN rows |->
                   IF k \in S THEN [rows[k] EXCEPT !.state = "revoked"] ELSE rows[k]]
    BY DEF Revoke
  <1>2. \A k \in DOMAIN rows : rows[k] \in [login: Token, state: {"active", "revoked"}]
    BY DEF TypeOK
  <1> QED
    BY <1>1, <1>2 DEF AreRevoked

(* Every session is closed, those of a half-done refresh excepted.         *)
AllClosed ==
  /\ AreRevoked(Active) /\ closed' = TRUE /\ UNCHANGED parted
  /\ swept' = swept \cup ({calls[k].login : k \in DOMAIN calls} \ {calls[j].login : j \in Pending})

LEMMA CloseFacts == ASSUME TypeOK, CloseAll PROVE AllClosed
  BY RevokeFacts DEF CloseAll, AllClosed

(* What a tab that sends a call does.                                      *)
LEMMA Sent ==
  ASSUME SessionsAssumption, TypeOK, CallInv, HeldInv, NEW t \in Tab, Sends(t)
  PROVE  LET new == Len(calls) + 1
             b   == BrowserOf[t]
         IN  /\ calls' \in Seq(Call) /\ Len(calls') = new /\ new \in Token
             /\ DOMAIN calls = 1..Len(calls) /\ DOMAIN calls' = 1..new
             /\ \A i \in DOMAIN calls : calls'[i] = calls[i]
             /\ UNCHANGED <<kind, api, late, closed, swept>>
             /\ calls'[new].tab = t
             /\ b \in Browser
             /\ \/ UNCHANGED parted
                \/ /\ parted' = parted \cup {new} /\ calls'[new].op = "logout"
                   /\ b \notin late /\ AtRest(b)
             /\ \/ /\ calls'[new].op = "login" /\ calls'[new].token = None
                   /\ calls'[new].login = new /\ calls'[new].at = "issue"
                   /\ wait' = [wait EXCEPT ![t] = @ \cup {new}] /\ UNCHANGED store
                \/ /\ store[b] \in DOMAIN calls /\ store[b] # None
                   /\ calls'[new].op = "refresh" /\ calls'[new].token = store[b]
                   /\ calls'[new].login = calls[store[b]].login /\ calls'[new].at = "start"
                   /\ wait' = [wait EXCEPT ![t] = @ \cup {new}] /\ UNCHANGED store
                \/ /\ store[b] \in DOMAIN calls /\ store[b] # None
                   /\ calls'[new].op = "logout" /\ calls'[new].token = store[b]
                   /\ calls'[new].login = calls[store[b]].login /\ calls'[new].at = "start"
                   /\ store' = [store EXCEPT ![b] = None] /\ UNCHANGED wait
  <1> DEFINE new == Len(calls) + 1
             b   == BrowserOf[t]
  <1>1. b \in Browser /\ calls \in Seq(Call)
    BY DEF SessionsAssumption, TypeOK
  <1>2. CASE Login(t)
    <2>1. Send(t, "login", None, new, "issue")
      BY <1>2 DEF Login
    <2>2. new \in 1..new
      BY <1>1
    <2>3. /\ calls' \in Seq(Call) /\ Len(calls') = new /\ new \in Token
          /\ DOMAIN calls = 1..Len(calls) /\ DOMAIN calls' = 1..new
          /\ \A i \in DOMAIN calls : calls'[i] = calls[i]
          /\ calls'[new] = [op |-> "login", tab |-> t, token |-> None, login |-> new, at |-> "issue"]
      BY <1>1, <2>1, <2>2, SendFacts DEF Op, At
    <2> QED
      BY <1>1, <1>2, <2>3 DEF Login, ended
  <1>3. CASE Refresh(t) \/ Logout(t)
    <2>1. store[b] # None
      BY <1>3 DEF Refresh, Logout
    <2>2. store[b] \in DOMAIN calls /\ store[b] \in Token
      BY <1>1, <2>1 DEF HeldInv, Kept, TypeOK
    <2>3. calls[store[b]].login \in 1..new
      <3>1. calls[store[b]] \in Call
        BY <1>1, <2>2
      <3>2. store[b] \in 1..Len(calls) /\ calls[store[b]].login <= store[b]
        BY <1>1, <2>2 DEF CallInv
      <3>3. calls[store[b]].login \in 1..MaxCalls
        BY <3>1 DEF Call, Token
      <3> QED
        BY <1>1, <3>2, <3>3 DEF SessionsAssumption
    <2>4. ASSUME NEW o \in {"refresh", "logout"}, Send(t, o, store[b], calls[store[b]].login, "start")
          PROVE  /\ calls' \in Seq(Call) /\ Len(calls') = new /\ new \in Token
                 /\ DOMAIN calls = 1..Len(calls) /\ DOMAIN calls' = 1..new
                 /\ \A i \in DOMAIN calls : calls'[i] = calls[i]
                 /\ calls'[new] = [op |-> o, tab |-> t, token |-> store[b],
                                   login |-> calls[store[b]].login, at |-> "start"]
      <3> DEFINE held  == store[b]
                 login == calls[store[b]].login
      <3>1. o \in Op /\ "start" \in At /\ held \in Token \cup {None} /\ login \in 1..new
        BY <2>2, <2>3 DEF Op, At
      <3>2. Send(t, o, held, login, "start")
        BY <2>4
      <3> HIDE DEF held, login
      <3>3. /\ calls' \in Seq(Call) /\ Len(calls') = new /\ new \in Token
            /\ DOMAIN calls = 1..Len(calls) /\ DOMAIN calls' = 1..new
            /\ \A i \in DOMAIN calls : calls'[i] = calls[i]
            /\ calls'[new] = [op |-> o, tab |-> t, token |-> held, login |-> login, at |-> "start"]
        BY <1>1, <3>1, <3>2, SendFacts
      <3> QED
        BY <3>3 DEF held, login
    <2>5. CASE Refresh(t)
      <3>1. /\ Send(t, "refresh", store[b], calls[store[b]].login, "start")
            /\ wait' = [wait EXCEPT ![t] = @ \cup {new}]
            /\ UNCHANGED <<kind, api, store, late, ended>>
        BY <2>5 DEF Refresh
      <3> QED
        BY <1>1, <2>1, <2>2, <2>4, <3>1 DEF ended
    <2>6. CASE Logout(t)
      <3>1. /\ Send(t, "logout", store[b], calls[store[b]].login, "start")
            /\ store' = [store EXCEPT ![b] = None]
            /\ UNCHANGED <<kind, api, wait, late, closed, swept>>
            /\ parted' = parted \/ (parted' = parted \cup {new} /\ b \notin late /\ AtRest(b))
        BY <2>6 DEF Logout, Keep
      <3> QED
        BY <1>1, <2>1, <2>2, <2>4, <3>1
    <2> QED
      BY <1>3, <2>5, <2>6
  <1> QED
    BY <1>2, <1>3 DEF Sends

(* What the API does to a call.                                            *)
LEMMA Worked ==
  ASSUME SessionsAssumption, TypeOK, CallInv, NEW i \in DOMAIN calls, Works(i)
  PROVE  /\ calls' \in Seq(Call) /\ Len(calls') = Len(calls) /\ DOMAIN calls' = DOMAIN calls
         /\ \A j \in DOMAIN calls \ {i} : calls'[j] = calls[j]
         /\ calls'[i].op = calls[i].op /\ calls'[i].tab = calls[i].tab
         /\ calls'[i].token = calls[i].token /\ calls'[i].login = calls[i].login
         /\ UNCHANGED <<kind, enabled, expired, browser>>
         /\ calls[i].at \in {"start", "purge", "issue"}
         /\ \/ /\ calls'[i].at \in {"purge", "refused"} /\ calls[i].op # "logout"
               /\ UNCHANGED <<rows, ended>>
            \/ /\ calls[i].op = "refresh" /\ calls[i].at = "start" /\ calls'[i].at = "issue"
               /\ calls[i].token \in DOMAIN rows /\ rows[calls[i].token].state = "active"
               /\ AreRevoked({calls[i].token}) /\ UNCHANGED ended
            \/ /\ calls'[i].at = "refused" /\ calls[i].op # "logout" /\ calls[i].at # "issue"
               /\ AllClosed
            \/ /\ calls[i].at = "issue" /\ calls'[i].at = "granted" /\ calls[i].op # "logout"
               /\ DOMAIN rows' = DOMAIN rows \cup {i} /\ rows'[i] = Row(i)
               /\ \A k \in DOMAIN rows \ {i} : rows'[k] = rows[k]
               /\ UNCHANGED ended
            \/ /\ calls[i].op = "logout" /\ calls[i].at = "start" /\ calls'[i].at = "granted"
               /\ AreRevoked({calls[i].token}) /\ UNCHANGED ended
  <1>1. calls \in Seq(Call)
    BY DEF TypeOK
  <1>2. ASSUME NEW at \in At, Move(i, at)
        PROVE  /\ calls' \in Seq(Call) /\ Len(calls') = Len(calls) /\ DOMAIN calls' = DOMAIN calls
               /\ \A j \in DOMAIN calls \ {i} : calls'[j] = calls[j]
               /\ calls'[i].op = calls[i].op /\ calls'[i].tab = calls[i].tab
               /\ calls'[i].token = calls[i].token /\ calls'[i].login = calls[i].login
               /\ calls'[i].at = at
    BY <1>1, <1>2, MoveFacts
  <1>3. CASE Consume(i)
    <2> DEFINE k == calls[i].token
    <2>1. calls[i].op = "refresh" /\ calls[i].at = "start" /\ UNCHANGED <<kind, enabled, expired, browser, ended>>
      BY <1>3 DEF Consume
    <2>2. CASE k \in expired \/ k \notin DOMAIN rows
      <3>1. Move(i, "refused") /\ UNCHANGED rows
        BY <1>3, <2>2 DEF Consume
      <3> QED
        BY <1>2, <2>1, <3>1 DEF At
    <2>3. CASE k \notin expired /\ k \in DOMAIN rows /\ Spent(k)
      <3>1. Move(i, "purge") /\ UNCHANGED rows
        BY <1>3, <2>3 DEF Consume
      <3> QED
        BY <1>2, <2>1, <3>1 DEF At
    <2>4. CASE k \notin expired /\ k \in DOMAIN rows /\ ~Spent(k)
      <3>1. Move(i, "issue") /\ Revoke({k})
        BY <1>3, <2>4 DEF Consume
      <3>2. rows[k].state = "active"
        BY <2>4 DEF Spent, TypeOK
      <3> QED
        BY <1>2, <2>1, <2>4, <3>1, <3>2, RevokeFacts DEF At
    <2> QED
      BY <2>2, <2>3, <2>4
  <1>4. CASE Purge(i)
    <2>1. /\ calls[i].at = "purge" /\ Move(i, "refused") /\ CloseAll
          /\ UNCHANGED <<kind, enabled, expired, browser>>
      BY <1>4 DEF Purge
    <2>2. calls[i].op # "logout"
      BY <2>1 DEF CallInv
    <2> QED
      BY <1>2, <2>1, <2>2, CloseFacts DEF At
  <1>5. CASE IssueTokens(i)
    <2>1. calls[i].at = "issue" /\ UNCHANGED <<kind, enabled, expired, browser, ended>>
      BY <1>5 DEF IssueTokens
    <2>2. calls[i].op # "logout"
      BY <2>1 DEF CallInv
    <2>3. CASE kind = "staff" /\ ~enabled
      <3>1. Move(i, "refused") /\ UNCHANGED rows
        BY <1>5, <2>3 DEF IssueTokens
      <3> QED
        BY <1>2, <2>1, <2>2, <3>1 DEF At
    <2>4. CASE ~(kind = "staff" /\ ~enabled)
      <3>1. /\ Move(i, "granted")
            /\ rows' = [k \in DOMAIN rows \cup {i} |-> IF k = i THEN Row(i) ELSE rows[k]]
        BY <1>5, <2>4 DEF IssueTokens
      <3> QED
        BY <1>2, <2>1, <2>2, <3>1 DEF At
    <2> QED
      BY <2>3, <2>4
  <1>6. CASE RevokeOne(i)
    <2>1. /\ calls[i].op = "logout" /\ calls[i].at = "start" /\ Move(i, "granted")
          /\ Revoke({calls[i].token}) /\ UNCHANGED <<kind, enabled, expired, browser, ended>>
      BY <1>6 DEF RevokeOne
    <2> QED
      BY <1>2, <2>1, RevokeFacts DEF At
  <1> QED
    BY <1>3, <1>4, <1>5, <1>6 DEF Works

(* What a tab that hears of a call, or gives up, does.                     *)
LEMMA Heard ==
  ASSUME SessionsAssumption, TypeOK, NEW t \in Tab, Hears(t)
  PROVE  /\ UNCHANGED <<kind, api, calls, ended>>
         /\ BrowserOf[t] \in Browser
         /\ \E i \in wait[t] :
              /\ wait' = [wait EXCEPT ![t] = @ \ {i}]
              /\ \/ /\ calls[i].at = "granted"
                    /\ store' = [store EXCEPT ![BrowserOf[t]] = i] /\ UNCHANGED late
                 \/ /\ calls[i].op = "refresh"
                    /\ store' = [store EXCEPT ![BrowserOf[t]] = None] /\ UNCHANGED late
                 \/ /\ calls[i].op # "refresh" /\ UNCHANGED <<store, late>>
                 \/ /\ late' = late \cup {BrowserOf[t]} /\ UNCHANGED store
  <1>1. BrowserOf[t] \in Browser
    BY DEF SessionsAssumption
  <1>2. CASE Granted(t)
    BY <1>1, <1>2 DEF Granted, TakeTokens, Keep, Drop
  <1>3. CASE Refused(t)
    BY <1>1, <1>3 DEF Refused, Keep, Drop
  <1>4. CASE GiveUp(t)
    BY <1>1, <1>4 DEF GiveUp, Drop
  <1> QED
    BY <1>2, <1>3, <1>4 DEF Hears

(* What happens to the tables without a call.                              *)
LEMMA Changed ==
  ASSUME TypeOK, Changes
  PROVE  /\ UNCHANGED <<kind, calls, browser>> /\ enabled' \in BOOLEAN
         /\ \/ AllClosed /\ UNCHANGED expired
            \/ UNCHANGED <<rows, expired, ended>>
            \/ /\ \E k \in DOMAIN rows : expired' = expired \cup {k}
               /\ UNCHANGED <<rows, ended>>
            \/ /\ DOMAIN rows' = DOMAIN rows \ expired
               /\ \A k \in DOMAIN rows' : rows'[k] = rows[k]
               /\ UNCHANGED <<expired, ended>>
  <1>1. CASE ChangePassword
    BY <1>1, CloseFacts DEF ChangePassword, TypeOK
  <1>2. CASE SetActive
    BY <1>2 DEF SetActive, TypeOK
  <1>3. CASE Cleanup
    BY <1>3 DEF Cleanup, TypeOK
  <1>4. CASE \E k \in DOMAIN rows : Expire(k)
    BY <1>4 DEF Expire, TypeOK
  <1> QED
    BY <1>1, <1>2, <1>3, <1>4 DEF Changes

-----------------------------------------------------------------------------
LEMMA CallFacts ==
  ASSUME TypeOK, NEW i \in DOMAIN calls
  PROVE  calls[i].tab \in Tab /\ calls[i].login \in Token
  <1>1. calls[i] \in Call
    BY DEF TypeOK
  <1> QED
    BY <1>1 DEF Call

LEMMA LoginIsCall ==
  ASSUME TypeOK, CallInv, NEW i \in DOMAIN calls
  PROVE  calls[i].login \in DOMAIN calls
  <1>1. Len(calls) \in Nat /\ i \in 1..Len(calls) /\ DOMAIN calls = 1..Len(calls)
    BY DEF TypeOK
  <1>2. calls[i].login <= i /\ calls[i].login \in Nat /\ calls[i].login >= 1
    BY CallFacts DEF CallInv, Token
  <1> QED
    BY <1>1, <1>2

(* The logins that were closed are logins.                                 *)
LEMMA EndedType ==
  ASSUME SessionsAssumption, TypeOK, CallInv,
         Changes \/ \E i \in DOMAIN calls : Works(i)
  PROVE  closed' \in BOOLEAN /\ parted' \subseteq DOMAIN calls' /\ swept' \subseteq DOMAIN calls'
  <1>1. DOMAIN calls' = DOMAIN calls
    BY Worked, Changed
  <1>2. UNCHANGED ended \/ AllClosed
    BY Worked, Changed DEF ended
  <1>3. {calls[k].login : k \in DOMAIN calls} \subseteq DOMAIN calls
    BY LoginIsCall
  <1> QED
    BY <1>1, <1>2, <1>3 DEF ended, AllClosed, TypeOK

LEMMA TypeStep ==
  ASSUME SessionsAssumption, TypeOK, CallInv, HeldInv, WaitInv, [Next]_vars
  PROVE  TypeOK'
  <1>1. CASE UNCHANGED vars
    BY <1>1 DEF vars, api, browser, ended, TypeOK
  <1>2. ASSUME NEW t \in Tab, Sends(t) PROVE TypeOK'
    <2>1. /\ calls' \in Seq(Call) /\ Len(calls) + 1 \in Token
          /\ DOMAIN calls = 1..Len(calls) /\ DOMAIN calls' = 1..(Len(calls) + 1)
          /\ UNCHANGED <<kind, api, late, closed, swept>>
          /\ parted' \subseteq parted \cup {Len(calls) + 1}
          /\ BrowserOf[t] \in Browser
          /\ \/ wait' = [wait EXCEPT ![t] = @ \cup {Len(calls) + 1}] /\ UNCHANGED store
             \/ store' = [store EXCEPT ![BrowserOf[t]] = None] /\ UNCHANGED wait
      BY <1>2, Sent
    <2>2. DOMAIN calls \subseteq DOMAIN calls'
      BY <2>1 DEF TypeOK
    <2>3. wait' \in [Tab -> SUBSET Token] /\ store' \in [Browser -> Token \cup {None}]
      BY <2>1 DEF TypeOK
    <2>4. Len(calls) + 1 \in DOMAIN calls'
      BY <2>1 DEF TypeOK
    <2> QED
      BY <2>1, <2>2, <2>3, <2>4 DEF TypeOK, api
  <1>3. ASSUME NEW t \in Tab, Hears(t) PROVE TypeOK'
    <2>1. /\ UNCHANGED <<kind, api, calls, ended>> /\ BrowserOf[t] \in Browser
      BY <1>3, Heard
    <2>2. PICK i \in wait[t] :
            /\ wait' = [wait EXCEPT ![t] = @ \ {i}]
            /\ \/ store' = [store EXCEPT ![BrowserOf[t]] = i] /\ UNCHANGED late
               \/ store' = [store EXCEPT ![BrowserOf[t]] = None] /\ UNCHANGED late
               \/ UNCHANGED <<store, late>>
               \/ late' = late \cup {BrowserOf[t]} /\ UNCHANGED store
      BY <1>3, Heard
    <2>3. i \in Token
      BY DEF TypeOK
    <2>4. wait' \in [Tab -> SUBSET Token] /\ store' \in [Browser -> Token \cup {None}]
      BY <2>1, <2>2, <2>3 DEF TypeOK
    <2>5. late' \subseteq Browser
      BY <2>1, <2>2 DEF TypeOK
    <2> QED
      BY <2>1, <2>4, <2>5 DEF TypeOK, api, ended
  <1>4. ASSUME NEW i \in DOMAIN calls, Works(i) PROVE TypeOK'
    <2>1. /\ calls' \in Seq(Call) /\ DOMAIN calls' = DOMAIN calls
          /\ UNCHANGED <<kind, enabled, expired, browser>>
      BY <1>4, Worked
    <2>2. /\ DOMAIN rows' \subseteq DOMAIN calls
          /\ \A k \in DOMAIN rows' : rows'[k] \in [login: Token, state: {"active", "revoked"}]
      <3>1. CASE UNCHANGED rows
        BY <3>1 DEF TypeOK
      <3>2. ASSUME NEW S, AreRevoked(S) PROVE <2>2
        BY <3>2 DEF TypeOK, AreRevoked
      <3>3. CASE /\ DOMAIN rows' = DOMAIN rows \cup {i} /\ rows'[i] = Row(i)
                 /\ \A k \in DOMAIN rows \ {i} : rows'[k] = rows[k]
        <4>1. calls[i] \in Call
          BY DEF TypeOK
        <4>2. Row(i) \in [login: Token, state: {"active", "revoked"}]
          BY <4>1 DEF Row, Call
        <4> QED
          BY <3>3, <4>2 DEF TypeOK
      <3> QED
        BY <1>4, <3>1, <3>2, <3>3, Worked DEF AllClosed
    <2>3. closed' \in BOOLEAN /\ parted' \subseteq DOMAIN calls' /\ swept' \subseteq DOMAIN calls'
      BY <1>4, EndedType
    <2> QED
      BY <2>1, <2>2, <2>3 DEF TypeOK, browser
  <1>5. CASE Changes
    <2>1. UNCHANGED <<kind, calls, browser>> /\ enabled' \in BOOLEAN
      BY <1>5, Changed
    <2>2. /\ DOMAIN rows' \subseteq DOMAIN calls
          /\ \A k \in DOMAIN rows' : rows'[k] \in [login: Token, state: {"active", "revoked"}]
          /\ expired' \subseteq DOMAIN calls
      BY <1>5, Changed DEF TypeOK, AreRevoked, AllClosed
    <2>3. closed' \in BOOLEAN /\ parted' \subseteq DOMAIN calls' /\ swept' \subseteq DOMAIN calls'
      BY <1>5, EndedType
    <2> QED
      BY <2>1, <2>2, <2>3 DEF TypeOK, browser
  <1> QED
    BY <1>1, <1>2, <1>3, <1>4, <1>5, NextCases

LEMMA CallStep ==
  ASSUME SessionsAssumption, TypeOK, CallInv, HeldInv, [Next]_vars
  PROVE  CallInv'
  <1>1. CASE UNCHANGED calls
    BY <1>1 DEF CallInv
  <1>2. ASSUME NEW t \in Tab, Sends(t) PROVE CallInv'
    <2> DEFINE new == Len(calls) + 1
               b   == BrowserOf[t]
    <2>1. /\ Len(calls') = new /\ new \in Token
          /\ DOMAIN calls = 1..Len(calls) /\ DOMAIN calls' = 1..new
          /\ \A i \in DOMAIN calls : calls'[i] = calls[i]
      BY <1>2, Sent
    <2>2. Len(calls') <= MaxCalls
      BY <2>1 DEF Token, SessionsAssumption
    <2>3. /\ calls'[new].login <= new
          /\ calls'[new].op = "login" <=> calls'[new].token = None
          /\ calls'[new].op = "logout" => calls'[new].at \in {"start", "granted"}
          /\ calls'[new].token # None =>
               /\ calls'[new].token \in DOMAIN calls
               /\ calls[calls'[new].token].login = calls'[new].login
               /\ BrowserOf[calls[calls'[new].token].tab] = BrowserOf[calls'[new].tab]
      <3>1. /\ calls'[new].tab = t
            /\ \/ /\ calls'[new].op = "login" /\ calls'[new].token = None
                  /\ calls'[new].login = new
               \/ /\ store[b] \in DOMAIN calls /\ store[b] # None
                  /\ calls'[new].op \in {"refresh", "logout"} /\ calls'[new].token = store[b]
                  /\ calls'[new].login = calls[store[b]].login /\ calls'[new].at = "start"
        BY <1>2, Sent
      <3>2. new \in Nat
        BY <2>1 DEF Token
      <3>3. CASE calls'[new].op = "login" /\ calls'[new].token = None /\ calls'[new].login = new
        BY <3>2, <3>3
      <3>4. CASE /\ store[b] \in DOMAIN calls /\ store[b] # None
                 /\ calls'[new].op \in {"refresh", "logout"} /\ calls'[new].token = store[b]
                 /\ calls'[new].login = calls[store[b]].login /\ calls'[new].at = "start"
        <4>1. BrowserOf[calls[store[b]].tab] = b /\ b \in Browser
          BY <3>4 DEF HeldInv, Kept, SessionsAssumption
        <4>2. calls[store[b]].login <= store[b] /\ calls[store[b]].login \in Nat
          <5>1. calls[store[b]] \in Call
            BY <3>4 DEF TypeOK
          <5> QED
            BY <3>4, <5>1 DEF CallInv, Call, Token
        <4>3. calls'[new].login <= new
          <5>1. store[b] \in 1..Len(calls)
            BY <2>1, <3>4
          <5> HIDE DEF b
          <5> QED
            BY <3>2, <3>4, <4>2, <5>1
        <4> HIDE DEF new
        <4> QED
          BY <3>1, <3>4, <4>1, <4>3
      <3> QED
        BY <3>1, <3>3, <3>4
    <2>4. \A i \in DOMAIN calls' : i \in DOMAIN calls \/ i = new
      BY <2>1
    <2>5. DOMAIN calls \subseteq DOMAIN calls'
      BY <2>1
    <2> HIDE DEF new
    <2>6. ASSUME NEW i \in DOMAIN calls
          PROVE  /\ calls'[i].login <= i
                 /\ calls'[i].op = "login" <=> calls'[i].token = None
                 /\ calls'[i].op = "logout" => calls'[i].at \in {"start", "granted"}
                 /\ calls'[i].token # None =>
                      /\ calls'[i].token \in DOMAIN calls
                      /\ calls'[calls'[i].token].login = calls'[i].login
                      /\ BrowserOf[calls'[calls'[i].token].tab] = BrowserOf[calls'[i].tab]
      BY <2>1 DEF CallInv
    <2> QED
      BY <2>1, <2>2, <2>3, <2>4, <2>5, <2>6 DEF CallInv
  <1>3. ASSUME NEW i \in DOMAIN calls, Works(i) PROVE CallInv'
    <2>1. /\ Len(calls') = Len(calls) /\ DOMAIN calls' = DOMAIN calls
          /\ \A j \in DOMAIN calls \ {i} : calls'[j] = calls[j]
          /\ calls'[i].op = calls[i].op /\ calls'[i].tab = calls[i].tab
          /\ calls'[i].token = calls[i].token /\ calls'[i].login = calls[i].login
          /\ calls[i].op = "logout" => calls'[i].at \in {"start", "granted"}
      BY <1>3, Worked
    <2>2. \A j \in DOMAIN calls :
            /\ calls'[j].op = calls[j].op /\ calls'[j].tab = calls[j].tab
            /\ calls'[j].token = calls[j].token /\ calls'[j].login = calls[j].login
            /\ calls[j].op = "logout" => calls'[j].at \in {"start", "granted"}
      BY <2>1 DEF CallInv
    <2> QED
      BY <2>1, <2>2 DEF CallInv
  <1>4. (\E t \in Tab : Hears(t)) \/ Changes => UNCHANGED calls
    BY Heard, Changed
  <1> QED
    BY <1>1, <1>2, <1>3, <1>4, NextCases DEF vars

LEMMA RowStep ==
  ASSUME SessionsAssumption, TypeOK, CallInv, HeldInv, RowInv, [Next]_vars
  PROVE  RowInv'
  <1>1. CASE UNCHANGED <<calls, rows, expired>>
    BY <1>1 DEF RowInv, Issued
  <1>2. ASSUME NEW t \in Tab, Sends(t) PROVE RowInv'
    <2> DEFINE new == Len(calls) + 1
    <2>1. /\ DOMAIN calls = 1..Len(calls) /\ DOMAIN calls' = 1..new
          /\ \A i \in DOMAIN calls : calls'[i] = calls[i]
          /\ UNCHANGED api
          /\ calls'[new].at \in {"start", "issue"}
      BY <1>2, Sent
    <2>2. \A i \in DOMAIN calls' : i \in DOMAIN calls \/ i = new
      BY <2>1
    <2>3. DOMAIN rows \subseteq DOMAIN calls
      BY DEF TypeOK
    <2>4. rows' = rows /\ expired' = expired
      BY <2>1 DEF api
    <2> HIDE DEF new
    <2> QED
      BY <2>1, <2>2, <2>3, <2>4 DEF RowInv, Issued
  <1>3. ASSUME NEW i \in DOMAIN calls, Works(i) PROVE RowInv'
    <2>1. /\ DOMAIN calls' = DOMAIN calls /\ expired' = expired
          /\ calls[i].at # "granted"
          /\ \A j \in DOMAIN calls : calls'[j].op = calls[j].op /\ calls'[j].login = calls[j].login
          /\ \A j \in DOMAIN calls \ {i} : Issued(j)' <=> Issued(j)
      BY <1>3, Worked DEF Issued
    <2>2. ~Issued(i) /\ i \notin DOMAIN rows
      BY <2>1 DEF RowInv, Issued
    <2>3. CASE /\ ~Issued(i)' /\ DOMAIN rows' = DOMAIN rows
               /\ \A k \in DOMAIN rows : rows'[k].login = rows[k].login
      BY <2>1, <2>2, <2>3 DEF RowInv, TypeOK
    <2>4. CASE /\ Issued(i)' /\ DOMAIN rows' = DOMAIN rows \cup {i} /\ rows'[i] = Row(i)
               /\ \A k \in DOMAIN rows \ {i} : rows'[k] = rows[k]
      <3>1. rows'[i].login = calls'[i].login
        BY <2>1, <2>4 DEF Row
      <3> QED
        BY <2>1, <2>2, <2>4, <3>1 DEF RowInv, TypeOK
    <2> QED
      BY <1>3, <2>3, <2>4, Worked DEF Issued, AreRevoked, AllClosed
  <1>4. CASE Changes
    <2>1. \/ UNCHANGED <<calls, expired>> /\ AreRevoked(Active)
          \/ UNCHANGED <<calls, rows, expired>>
          \/ UNCHANGED <<calls, rows>> /\ expired \subseteq expired'
          \/ /\ UNCHANGED <<calls, expired>> /\ DOMAIN rows' = DOMAIN rows \ expired
             /\ \A k \in DOMAIN rows' : rows'[k] = rows[k]
      BY <1>4, Changed DEF AllClosed
    <2> QED
      BY <2>1 DEF RowInv, Issued, AreRevoked
  <1>5. \A t \in Tab : Hears(t) => UNCHANGED <<calls, rows, expired>>
    BY Heard DEF api
  <1> QED
    BY <1>1, <1>2, <1>3, <1>4, <1>5, NextCases DEF vars, api

LEMMA WaitStep ==
  ASSUME SessionsAssumption, TypeOK, CallInv, HeldInv, WaitInv, [Next]_vars
  PROVE  WaitInv'
  <1>1. CASE UNCHANGED <<calls, wait>>
    BY <1>1 DEF WaitInv
  <1>2. ASSUME NEW t \in Tab, Sends(t) PROVE WaitInv'
    <2> DEFINE new == Len(calls) + 1
    <2>1. /\ DOMAIN calls = 1..Len(calls) /\ DOMAIN calls' = 1..new
          /\ \A i \in DOMAIN calls : calls'[i] = calls[i]
          /\ calls'[new].tab = t
          /\ wait' = wait \/ (wait' = [wait EXCEPT ![t] = @ \cup {new}] /\ calls'[new].op # "logout")
      BY <1>2, Sent
    <2>2. \/ calls'[new].token = None
          \/ calls'[new].token = store[BrowserOf[t]] /\ store[BrowserOf[t]] # None
      BY <1>2, Sent
    <2>3. \A i \in DOMAIN calls' : i \in DOMAIN calls \/ i = new
      BY <2>1
    <2>4. DOMAIN calls \subseteq DOMAIN calls' /\ new \in DOMAIN calls' /\ new \notin DOMAIN calls
      <3>1. Len(calls) \in Nat
        BY DEF TypeOK
      <3> QED
        BY <2>1, <3>1
    <2>5. new # None
      BY DEF SessionsAssumption, TypeOK
    <2>6. calls'[new].token # new
      <3>1. BrowserOf[t] \in Browser
        BY DEF SessionsAssumption
      <3>2. store[BrowserOf[t]] # None => store[BrowserOf[t]] \in DOMAIN calls
        BY <3>1 DEF HeldInv, Kept
      <3> QED
        BY <2>2, <2>4, <2>5, <3>2
    <2>7. \A i \in DOMAIN calls : calls[i].token # new
      BY <2>4, <2>5 DEF CallInv
    <2> HIDE DEF new
    <2>8. ASSUME NEW s \in Tab, NEW j \in wait[s] PROVE calls'[new].token # j
      <3>1. j \in Token /\ j # None
        BY DEF TypeOK, Token, SessionsAssumption
      <3>2. BrowserOf[t] \in Browser
        BY DEF SessionsAssumption
      <3>3. j # store[BrowserOf[t]]
        BY <3>1, <3>2 DEF HeldInv, Kept
      <3> QED
        BY <2>2, <3>1, <3>3
    <2>9. \A s \in Tab : \A j \in wait'[s] : j \in wait[s] \/ (j = new /\ s = t /\ calls'[new].op # "logout")
      BY <2>1 DEF TypeOK
    <2> QED
      BY <2>1, <2>3, <2>4, <2>6, <2>7, <2>8, <2>9 DEF WaitInv
  <1>3. ASSUME NEW t \in Tab, Hears(t) PROVE WaitInv'
    <2>1. UNCHANGED calls /\ \E i \in wait[t] : wait' = [wait EXCEPT ![t] = @ \ {i}]
      BY <1>3, Heard
    <2>2. \A s \in Tab : wait'[s] \subseteq wait[s]
      BY <2>1 DEF TypeOK
    <2> QED
      BY <2>1, <2>2 DEF WaitInv
  <1>4. ASSUME NEW i \in DOMAIN calls, Works(i) PROVE WaitInv'
    <2>1. /\ DOMAIN calls' = DOMAIN calls /\ UNCHANGED browser
          /\ \A j \in DOMAIN calls :
               /\ calls'[j].op = calls[j].op /\ calls'[j].tab = calls[j].tab
               /\ calls'[j].token = calls[j].token
      BY <1>4, Worked
    <2> QED
      BY <2>1 DEF WaitInv, browser
  <1>5. CASE Changes
    BY <1>1, <1>5, Changed DEF browser
  <1> QED
    BY <1>1, <1>2, <1>3, <1>4, <1>5, NextCases DEF vars, browser

LEMMA HeldStep ==
  ASSUME SessionsAssumption, TypeOK, CallInv, HeldInv, WaitInv, [Next]_vars
  PROVE  HeldInv'
  <1> SUFFICES ASSUME NEW b \in Browser, NEW k, store'[b] = k, k # None
               PROVE  Kept(b, k)'
    BY DEF HeldInv, Kept, Issued
  <1>1. CASE UNCHANGED <<calls, store, wait, late>>
    BY <1>1 DEF HeldInv, Kept, Issued
  <1>2. ASSUME NEW t \in Tab, Sends(t) PROVE Kept(b, k)'
    <2> DEFINE new == Len(calls) + 1
    <2>1. /\ DOMAIN calls = 1..Len(calls) /\ DOMAIN calls' = 1..new
          /\ \A i \in DOMAIN calls : calls'[i] = calls[i]
          /\ late' = late /\ calls'[new].tab = t
      BY <1>2, Sent
    <2>2. \/ /\ calls'[new].token = None /\ UNCHANGED store
             /\ wait' = [wait EXCEPT ![t] = @ \cup {new}]
          \/ /\ calls'[new].op = "refresh" /\ UNCHANGED store
             /\ wait' = [wait EXCEPT ![t] = @ \cup {new}]
          \/ /\ calls'[new].token = store[BrowserOf[t]] /\ store[BrowserOf[t]] # None
             /\ store' = [store EXCEPT ![BrowserOf[t]] = None] /\ UNCHANGED wait
      BY <1>2, Sent
    <2>3. /\ \A i \in DOMAIN calls' : i \in DOMAIN calls \/ i = new
          /\ DOMAIN calls \subseteq DOMAIN calls' /\ new \notin DOMAIN calls
      <3>1. Len(calls) \in Nat
        BY DEF TypeOK
      <3> QED
        BY <2>1, <3>1
    <2>4. BrowserOf[t] \in Browser
      BY DEF SessionsAssumption
    <2> HIDE DEF new
    <2>5. store[b] = k
      BY <2>2, <2>4 DEF TypeOK
    <2>6. Kept(b, k)
      BY <2>5 DEF HeldInv
    <2>7. \A s \in Tab : wait[s] \subseteq wait'[s] /\ wait'[s] \subseteq wait[s] \cup {new}
      BY <2>2 DEF TypeOK
    <2>8. k # new
      BY <2>3, <2>6 DEF Kept
    <2>9. calls'[new].token = k => calls'[new].op = "refresh" /\ new \in wait'[t]
      <3>1. CASE calls'[new].token = store[BrowserOf[t]] /\ store' = [store EXCEPT ![BrowserOf[t]] = None]
        <4>1. BrowserOf[t] # b
          BY <2>4, <3>1 DEF TypeOK
        <4>2. calls'[new].token # k
          BY <2>2, <2>4, <2>6, <3>1, <4>1 DEF HeldInv, Kept
        <4> QED
          BY <4>2
      <3> QED
        BY <2>2, <3>1 DEF TypeOK
    <2>10. \A j \in DOMAIN calls : calls'[j].token = k =>
             calls'[j].op = "refresh" /\ (b \notin late => j \in wait'[calls'[j].tab])
      <3> SUFFICES ASSUME NEW j \in DOMAIN calls, calls[j].token = k
                   PROVE  calls[j].op = "refresh" /\ (b \notin late => j \in wait'[calls[j].tab])
        BY <2>1
      <3>1. calls[j].tab \in Tab
        BY CallFacts
      <3> QED
        BY <2>6, <2>7, <3>1 DEF Kept
    <2> QED
      BY <2>1, <2>3, <2>6, <2>7, <2>8, <2>9, <2>10 DEF Kept, Issued
  <1>3. ASSUME NEW t \in Tab, Hears(t) PROVE Kept(b, k)'
    <2>1. UNCHANGED calls /\ BrowserOf[t] \in Browser
      BY <1>3, Heard
    <2>2. PICK i \in wait[t] :
            /\ wait' = [wait EXCEPT ![t] = @ \ {i}]
            /\ \/ /\ calls[i].at = "granted"
                  /\ store' = [store EXCEPT ![BrowserOf[t]] = i] /\ UNCHANGED late
               \/ /\ calls[i].op = "refresh"
                  /\ store' = [store EXCEPT ![BrowserOf[t]] = None] /\ UNCHANGED late
               \/ /\ calls[i].op # "refresh" /\ UNCHANGED <<store, late>>
               \/ /\ late' = late \cup {BrowserOf[t]} /\ UNCHANGED store
      BY <1>3, Heard
    <2>3. /\ i \in DOMAIN calls /\ calls[i].tab = t /\ calls[i].op # "logout"
          /\ \A j \in DOMAIN calls : calls[j].token # i
      BY DEF WaitInv
    <2>4. \A s \in Tab : wait'[s] \subseteq wait[s] /\ wait[s] \subseteq wait'[s] \cup {i}
      BY <2>2 DEF TypeOK
    <2>5. \A j \in DOMAIN calls : calls[j].tab \in Tab
      BY CallFacts
    <2>6. CASE calls[i].at = "granted" /\ k = i /\ b = BrowserOf[t]
      <3>1. \A s \in Tab : i \in wait[s] => s = t
        BY <2>3 DEF WaitInv
      <3>2. i \notin wait'[t]
        BY <2>2 DEF TypeOK
      <3> QED
        BY <2>1, <2>3, <2>4, <2>6, <3>1, <3>2 DEF Kept, Issued
    <2>7. CASE store[b] = k /\ (b \notin late' => b \notin late /\ (calls[i].op = "refresh" => BrowserOf[t] # b))
      <3>1. Kept(b, k)
        BY <2>7 DEF HeldInv
      <3>2. ASSUME NEW j \in DOMAIN calls, calls[j].token = k, b \notin late'
            PROVE  j # i
        <4>1. calls[j].op = "refresh" /\ k \in DOMAIN calls /\ BrowserOf[calls[k].tab] = b
          BY <3>1, <3>2 DEF Kept
        <4>2. BrowserOf[calls[k].tab] = BrowserOf[calls[j].tab]
          BY <3>2 DEF CallInv
        <4> QED
          BY <2>3, <2>7, <3>2, <4>1, <4>2
      <3>3. \A j \in DOMAIN calls : calls[j].token = k =>
              calls[j].op = "refresh" /\ (b \notin late' => j \in wait'[calls[j].tab])
        BY <2>4, <2>5, <2>7, <3>1, <3>2 DEF Kept
      <3> QED
        BY <2>1, <2>4, <3>1, <3>3 DEF Kept, Issued
    <2>8. (calls[i].at = "granted" /\ k = i /\ b = BrowserOf[t]) \/ store[b] = k
      BY <2>1, <2>2 DEF TypeOK
    <2>9. ASSUME ~(calls[i].at = "granted" /\ k = i /\ b = BrowserOf[t]), b \notin late'
          PROVE  b \notin late /\ (calls[i].op = "refresh" => BrowserOf[t] # b)
      BY <2>1, <2>2, <2>9 DEF TypeOK
    <2> QED
      BY <2>6, <2>7, <2>8, <2>9
  <1>4. ASSUME NEW i \in DOMAIN calls, Works(i) PROVE Kept(b, k)'
    <2>1. /\ DOMAIN calls' = DOMAIN calls /\ UNCHANGED browser
          /\ calls[i].at # "granted"
          /\ \A j \in DOMAIN calls :
               /\ calls'[j].op = calls[j].op /\ calls'[j].tab = calls[j].tab
               /\ calls'[j].token = calls[j].token
          /\ \A j \in DOMAIN calls \ {i} : calls'[j] = calls[j]
      BY <1>4, Worked
    <2>2. Kept(b, k)
      BY <2>1 DEF HeldInv, browser
    <2>3. k # i
      BY <2>1, <2>2 DEF Kept, Issued
    <2>4. calls'[k].at = "granted"
      BY <2>1, <2>2, <2>3 DEF Kept, Issued
    <2> QED
      BY <2>1, <2>2, <2>4 DEF Kept, Issued, browser
  <1>5. CASE Changes
    BY <1>1, <1>5, Changed DEF browser
  <1> QED
    BY <1>1, <1>2, <1>3, <1>4, <1>5, NextCases DEF vars, browser

LEMMA RevokedStep ==
  ASSUME SessionsAssumption, TypeOK, CallInv, HeldInv, RevokedInv, [Next]_vars
  PROVE  RevokedInv'
  <1>1. CASE UNCHANGED <<calls, rows, closed>>
    BY <1>1 DEF RevokedInv
  <1>2. ASSUME NEW t \in Tab, Sends(t) PROVE RevokedInv'
    <2>1. /\ DOMAIN calls \subseteq DOMAIN calls' /\ UNCHANGED <<rows, closed>>
          /\ \A i \in DOMAIN calls : calls'[i] = calls[i]
      <3>1. /\ DOMAIN calls = 1..Len(calls) /\ DOMAIN calls' = 1..(Len(calls) + 1)
            /\ UNCHANGED <<api, closed>>
            /\ \A i \in DOMAIN calls : calls'[i] = calls[i]
        BY <1>2, Sent
      <3>2. Len(calls) \in Nat
        BY DEF TypeOK
      <3> QED
        BY <3>1, <3>2 DEF api
    <2> QED
      BY <2>1 DEF RevokedInv
  <1>3. ASSUME NEW i \in DOMAIN calls, Works(i) PROVE RevokedInv'
    <2>1. /\ DOMAIN calls' = DOMAIN calls
          /\ \A j \in DOMAIN calls : calls'[j].token = calls[j].token
      BY <1>3, Worked
    <2>2. \/ closed'
          \/ UNCHANGED <<rows, closed>>
          \/ AreRevoked({calls[i].token}) /\ UNCHANGED closed
          \/ /\ DOMAIN rows' = DOMAIN rows \cup {i} /\ rows'[i] = Row(i)
             /\ \A k \in DOMAIN rows \ {i} : rows'[k] = rows[k]
             /\ UNCHANGED closed
      BY <1>3, Worked DEF AllClosed, ended
    <2>3. CASE closed' \/ UNCHANGED <<rows, closed>>
      BY <2>1, <2>3 DEF RevokedInv
    <2>4. CASE AreRevoked({calls[i].token}) /\ UNCHANGED closed
      BY <2>1, <2>4 DEF RevokedInv, AreRevoked
    <2>5. CASE /\ DOMAIN rows' = DOMAIN rows \cup {i} /\ rows'[i] = Row(i)
               /\ \A k \in DOMAIN rows \ {i} : rows'[k] = rows[k]
               /\ UNCHANGED closed
      <3>1. rows'[i].state # "revoked"
        BY <2>5 DEF Row
      <3> QED
        BY <2>1, <2>5, <3>1 DEF RevokedInv
    <2> QED
      BY <2>2, <2>3, <2>4, <2>5
  <1>4. CASE Changes
    <2>1. UNCHANGED calls
          /\ \/ closed'
             \/ UNCHANGED <<rows, closed>>
             \/ /\ DOMAIN rows' \subseteq DOMAIN rows /\ UNCHANGED closed
                /\ \A k \in DOMAIN rows' : rows'[k] = rows[k]
      BY <1>4, Changed DEF AllClosed, ended
    <2> QED
      BY <2>1 DEF RevokedInv
  <1>5. \A t \in Tab : Hears(t) => UNCHANGED <<calls, rows, closed>>
    BY Heard DEF api, ended
  <1> QED
    BY <1>1, <1>2, <1>3, <1>4, <1>5, NextCases DEF vars, api, ended

-----------------------------------------------------------------------------
(* A login gets a live token when it is sent; then one replaces another.   *)
Replaces(n, k, i) ==
  /\ Live(n)' \subseteq (Live(n) \ {k}) \cup {i}
  /\ k = i \/ (calls[i].op = "refresh" /\ calls[i].token = k)

LEMMA LiveSteps ==
  ASSUME SessionsAssumption, TypeOK, CallInv, HeldInv, RowInv, [Next]_vars, NEW n \in Token
  PROVE  \/ Live(n)' \subseteq Live(n)
         \/ n = Len(calls) + 1 /\ Live(n)' \subseteq {n}
         \/ \E k \in Live(n) : \E i \in DOMAIN calls : Replaces(n, k, i)
  <1>1. CASE UNCHANGED <<calls, rows>>
    BY <1>1 DEF Live, Active, Pending
  <1>2. ASSUME NEW t \in Tab, Sends(t)
        PROVE  \/ Live(n)' \subseteq Live(n)
               \/ n = Len(calls) + 1 /\ Live(n)' \subseteq {n}
    <2> DEFINE new == Len(calls) + 1
    <2>1. /\ DOMAIN calls = 1..Len(calls) /\ DOMAIN calls' = 1..new
          /\ \A i \in DOMAIN calls : calls'[i] = calls[i]
          /\ calls'[new].at = "issue" => calls'[new].login = new
          /\ UNCHANGED api
      BY <1>2, Sent
    <2>2. \A i \in DOMAIN calls' : i \in DOMAIN calls \/ i = new
      BY <2>1
    <2>3. \A i \in DOMAIN calls : calls[i].login # new
      <3> SUFFICES ASSUME NEW i \in DOMAIN calls PROVE calls[i].login # new
        OBVIOUS
      <3>1. calls[i].login <= i /\ calls[i].login \in Nat
        BY CallFacts DEF CallInv, Token
      <3>2. i \in 1..Len(calls) /\ Len(calls) \in Nat
        BY <2>1 DEF TypeOK
      <3> QED
        BY <3>1, <3>2
    <2>4. UNCHANGED rows
      BY <2>1 DEF api
    <2> HIDE DEF new
    <2>5. Active' = Active
      BY <2>4 DEF Active
    <2>6. \A i \in Pending' : i \in Pending \/ (i = new /\ calls'[i].login = new)
      BY <2>1, <2>2 DEF Pending
    <2>7. CASE n # new
      BY <2>1, <2>4, <2>5, <2>6, <2>7 DEF Live, Pending
    <2>8. CASE n = new
      <3>1. \A k \in DOMAIN rows : rows[k].login # new
        BY <2>3 DEF RowInv, TypeOK
      <3>2. Live(n)' \subseteq {new}
        BY <2>1, <2>3, <2>4, <2>5, <2>6, <2>8, <3>1 DEF Live, Pending, Active
      <3> QED
        BY <2>8, <3>2 DEF new
    <2> QED
      BY <2>7, <2>8 DEF new
  <1>3. ASSUME NEW i \in DOMAIN calls, Works(i)
        PROVE  \/ Live(n)' \subseteq Live(n)
               \/ \E k \in Live(n) : Replaces(n, k, i)
    <2>1. /\ DOMAIN calls' = DOMAIN calls
          /\ \A j \in DOMAIN calls : calls'[j].login = calls[j].login
          /\ \A j \in DOMAIN calls \ {i} : calls'[j] = calls[j]
          /\ calls[i].at # "granted"
      BY <1>3, Worked
    <2>2. \A j \in DOMAIN calls \ {i} : j \in Pending' <=> j \in Pending
      BY <2>1 DEF Pending
    <2>3. Pending \subseteq DOMAIN calls /\ Pending' \subseteq DOMAIN calls
      BY <2>1 DEF Pending
    <2>4. ASSUME NEW S, AreRevoked(S)
          PROVE  /\ Active' = Active \ S
                 /\ \A k \in Active' : rows'[k].login = rows[k].login
      BY <2>4 DEF AreRevoked, Active
    <2>5. CASE calls'[i].at # "issue" /\ (UNCHANGED rows \/ \E S : AreRevoked(S))
      <3>1. /\ Active' \subseteq Active
            /\ \A k \in Active' : rows'[k].login = rows[k].login
        BY <2>4, <2>5 DEF Active
      <3>2. Pending' \subseteq Pending
        BY <2>2, <2>3, <2>5 DEF Pending
      <3> QED
        BY <2>1, <2>3, <3>1, <3>2 DEF Live
    <2>6. CASE /\ calls[i].at = "issue" /\ calls'[i].at = "granted"
               /\ DOMAIN rows' = DOMAIN rows \cup {i} /\ rows'[i] = Row(i)
               /\ \A k \in DOMAIN rows \ {i} : rows'[k] = rows[k]
      <3>1. rows'[i].login = calls[i].login /\ i \in Pending
        BY <2>6 DEF Row, Pending
      <3>2. \A k \in Active' : k = i \/ (k \in Active /\ rows'[k].login = rows[k].login)
        BY <2>6 DEF Active
      <3>3. Pending' \subseteq Pending
        BY <2>2, <2>3, <3>1
      <3>4. CASE n = calls[i].login
        <4>1. i \in Live(n) /\ Live(n)' \subseteq (Live(n) \ {i}) \cup {i}
          BY <2>1, <2>3, <3>1, <3>2, <3>3, <3>4 DEF Live
        <4> QED
          BY <4>1 DEF Replaces
      <3>5. CASE n # calls[i].login
        BY <2>1, <2>3, <3>1, <3>2, <3>3, <3>5 DEF Live
      <3> QED
        BY <3>4, <3>5
    <2>7. CASE /\ calls[i].op = "refresh" /\ calls[i].at = "start" /\ calls'[i].at = "issue"
               /\ calls[i].token \in DOMAIN rows /\ rows[calls[i].token].state = "active"
               /\ AreRevoked({calls[i].token})
      <3> DEFINE k == calls[i].token
      <3>1. k \in Active /\ rows[k].login = calls[i].login
        <4>1. k \in Active /\ k # None
          BY <2>7 DEF Active, CallInv
        <4>2. rows[k].login = calls[k].login
          BY <2>7 DEF RowInv
        <4> QED
          BY <4>1, <4>2 DEF CallInv
      <3>2. k \notin Pending
        BY <2>7 DEF RowInv, Issued, Pending
      <3>3. /\ Active' = Active \ {k}
            /\ \A j \in Active' : rows'[j].login = rows[j].login
        BY <2>4, <2>7
      <3>4. Pending' \subseteq Pending \cup {i}
        BY <2>2, <2>3
      <3> HIDE DEF k
      <3>5. CASE n = calls[i].login
        <4>1. k \in Live(n)
          BY <3>1, <3>5 DEF Live
        <4>2. Live(n)' \subseteq (Live(n) \ {k}) \cup {i}
          BY <2>1, <2>3, <3>2, <3>3, <3>4 DEF Live
        <4>3. calls[i].op = "refresh" /\ calls[i].token = k
          BY <2>7 DEF k
        <4> QED
          BY <4>1, <4>2, <4>3 DEF Replaces
      <3>6. CASE n # calls[i].login
        BY <2>1, <2>3, <3>3, <3>4, <3>6 DEF Live
      <3> QED
        BY <3>5, <3>6
    <2> QED
      BY <1>3, <2>5, <2>6, <2>7, Worked DEF AllClosed
  <1>4. CASE Changes
    <2>1. /\ UNCHANGED calls
          /\ \/ AreRevoked(Active)
             \/ UNCHANGED rows
             \/ /\ DOMAIN rows' \subseteq DOMAIN rows
                /\ \A k \in DOMAIN rows' : rows'[k] = rows[k]
      BY <1>4, Changed DEF AllClosed
    <2>2. /\ Active' \subseteq Active
          /\ \A k \in Active' : rows'[k].login = rows[k].login
      BY <2>1 DEF Active, AreRevoked
    <2> QED
      BY <2>1, <2>2 DEF Live, Pending
  <1>5. \A t \in Tab : Hears(t) => UNCHANGED <<calls, rows>>
    BY Heard DEF api
  <1> QED
    BY <1>1, <1>2, <1>3, <1>4, <1>5, NextCases DEF vars, api

LEMMA OneStep ==
  ASSUME SessionsAssumption, TypeOK, CallInv, HeldInv, RowInv, OneInv, [Next]_vars
  PROVE  OneInv'
  <1> SUFFICES ASSUME NEW n \in Token, NEW a \in Live(n)', NEW b \in Live(n)'
               PROVE  a = b
    BY DEF OneInv, Token
  <1>1. \A x, y \in Live(n) : x = y
    BY DEF OneInv
  <1>2. CASE \E k \in Live(n) : \E i \in DOMAIN calls : Replaces(n, k, i)
    BY <1>1, <1>2 DEF Replaces
  <1> QED
    BY <1>1, <1>2, LiveSteps

-----------------------------------------------------------------------------
(* A login without a live token gets none.                                 *)
LEMMA ReviveStep ==
  ASSUME SessionsAssumption, TypeOK, CallInv, HeldInv, RowInv, [Next]_vars,
         NEW n \in DOMAIN calls, Live(n) = {}
  PROVE  Live(n)' = {}
  <1>1. Len(calls) \in Nat /\ Len(calls) <= MaxCalls /\ MaxCalls \in Nat /\ n \in 1..Len(calls)
    BY DEF TypeOK, CallInv, SessionsAssumption
  <1>2. n \in Token /\ n # Len(calls) + 1
    BY <1>1 DEF Token
  <1> QED
    BY <1>2, LiveSteps DEF Replaces

(* A call keeps what it was sent with; only its progress changes.          *)
StaysSent ==
  /\ DOMAIN calls \subseteq DOMAIN calls'
  /\ \A j \in DOMAIN calls :
       /\ calls'[j].op = calls[j].op /\ calls'[j].token = calls[j].token
       /\ calls'[j].login = calls[j].login
       /\ calls[j].at = "granted" => calls'[j].at = "granted"
  /\ \A j \in DOMAIN calls' \ DOMAIN calls :
       /\ calls'[j].at \in {"start", "issue"}
       /\ calls'[j].token # None => \E b \in Browser : calls'[j].token = store[b]

LEMMA CallsStay ==
  ASSUME SessionsAssumption, TypeOK, CallInv, HeldInv, [Next]_vars
  PROVE  StaysSent
  <1>1. CASE UNCHANGED calls
    BY <1>1 DEF StaysSent
  <1>2. ASSUME NEW t \in Tab, Sends(t) PROVE StaysSent
    <2> DEFINE new == Len(calls) + 1
    <2>1. /\ DOMAIN calls = 1..Len(calls) /\ DOMAIN calls' = 1..new
          /\ \A i \in DOMAIN calls : calls'[i] = calls[i]
          /\ BrowserOf[t] \in Browser
          /\ calls'[new].at \in {"start", "issue"}
          /\ calls'[new].token = None \/ calls'[new].token = store[BrowserOf[t]]
      BY <1>2, Sent
    <2>2. DOMAIN calls \subseteq DOMAIN calls' /\ \A j \in DOMAIN calls' \ DOMAIN calls : j = new
      BY <2>1
    <2> HIDE DEF new
    <2> QED
      BY <2>1, <2>2 DEF StaysSent
  <1>3. ASSUME NEW i \in DOMAIN calls, Works(i) PROVE StaysSent
    BY <1>3, Worked DEF StaysSent
  <1>4. (\E t \in Tab : Hears(t)) \/ Changes => UNCHANGED calls
    BY Heard, Changed
  <1> QED
    BY <1>1, <1>2, <1>3, <1>4, NextCases DEF vars

(* A token no refresh has presented was granted, or is about to be.        *)
LEMMA TipStep ==
  ASSUME SessionsAssumption, TypeOK, CallInv, HeldInv, RowInv, OneInv, TipInv, [Next]_vars
  PROVE  TipInv'
  <1> SUFFICES ASSUME NEW k \in DOMAIN calls', Issued(k)', Unspent(k)'
               PROVE  Live(calls[k].login)' \subseteq {k}
    BY DEF TipInv
  <1>1. StaysSent
    BY CallsStay
  <1>0. PICK n : n = calls[k].login
    OBVIOUS
  <1>2. k \in DOMAIN calls /\ Unspent(k) /\ calls[k].login = n /\ calls'[k].login = n
    BY <1>0, <1>1 DEF StaysSent, Issued, Unspent
  <1>3. n \in Token /\ n # Len(calls) + 1
    <2>1. Len(calls) \in Nat /\ k \in 1..Len(calls)
      BY <1>2 DEF TypeOK
    <2> QED
      BY <1>2, <2>1, CallFacts DEF CallInv, Token
  <1>4. Live(n) \subseteq {k}
    <2>1. CASE Issued(k)
      BY <1>2, <2>1 DEF TipInv
    <2>2. CASE ~Issued(k)
      <3>1. calls'[k].at # calls[k].at /\ calls[k].op # "logout" /\ calls'[k].at = "granted"
        BY <1>1, <1>2, <2>2 DEF StaysSent, Issued
      <3>2. k \in Pending
        <4>1. ASSUME NEW t \in Tab, Sends(t) PROVE FALSE
          BY <1>2, <3>1, <4>1, Sent
        <4>2. ASSUME NEW i \in DOMAIN calls, Works(i) PROVE k = i /\ calls[i].at = "issue"
          BY <1>2, <3>1, <4>2, Worked
        <4>3. (\E t \in Tab : Hears(t)) \/ Changes => UNCHANGED calls
          BY Heard, Changed
        <4>4. \E i \in DOMAIN calls : Works(i)
          BY <3>1, <4>1, <4>3, NextCases DEF vars
        <4> QED
          BY <1>2, <4>2, <4>4 DEF Pending
      <3> QED
        BY <1>2, <1>3, <3>2 DEF OneInv, Live
    <2> QED
      BY <2>1, <2>2
  <1>5. ASSUME NEW x \in Live(n), NEW i \in DOMAIN calls, Replaces(n, x, i)
        PROVE  Live(n)' \subseteq {k}
    BY <1>2, <1>4, <1>5 DEF Replaces, Unspent
  <1>6. Live(n)' \subseteq {k}
    BY <1>3, <1>4, <1>5, LiveSteps
  <1> QED
    BY <1>2, <1>6 DEF Live, Active, Pending

(* What a browser at rest keeps was presented by nobody.                   *)
LEMMA KeptUnspent ==
  ASSUME SessionsAssumption, TypeOK, CallInv, HeldInv,
         NEW b \in Browser, b \notin late, store[b] # None, AtRest(b),
         NEW j \in DOMAIN calls, calls[j].token = store[b]
  PROVE  FALSE
  <1>1. Kept(b, store[b])
    BY DEF HeldInv
  <1>2. calls[j].op = "refresh" /\ j \in wait[calls[j].tab]
    BY <1>1 DEF Kept
  <1>3. BrowserOf[calls[j].tab] = b
    BY <1>1 DEF CallInv, Kept
  <1>4. calls[j].tab \in Tab
    BY CallFacts
  <1> QED
    BY <1>2, <1>3, <1>4 DEF Refreshing, AtRest

LEMMA PartStep ==
  ASSUME SessionsAssumption, TypeOK, CallInv, HeldInv, RowInv, TipInv, PartInv, [Next]_vars
  PROVE  PartInv'
  <1> SUFFICES ASSUME NEW i \in parted'
               PROVE  (/\ i \in DOMAIN calls /\ calls[i].op = "logout"
                       /\ Issued(calls[i].token) /\ Unspent(calls[i].token)
                       /\ calls[i].at = "granted" => Live(calls[i].login) = {})'
    BY DEF PartInv
  <1>1. StaysSent
    BY CallsStay
  <1>2. CASE i \in parted
    <2>a. PICK k, n : k = calls[i].token /\ n = calls[i].login
      OBVIOUS
    <2>1. /\ i \in DOMAIN calls /\ calls[i].op = "logout" /\ calls[i].token = k
          /\ calls[i].login = n /\ k \in DOMAIN calls /\ k # None
          /\ calls[k].login = n /\ Issued(k) /\ Unspent(k)
          /\ calls[i].at = "granted" => Live(n) = {}
      BY <1>2, <2>a DEF PartInv, CallInv
    <2>2. /\ i \in DOMAIN calls' /\ calls'[i].op = "logout" /\ calls'[i].token = k
          /\ calls'[i].login = n /\ Issued(k)'
      BY <1>1, <2>1 DEF StaysSent, Issued
    <2>3. n \in DOMAIN calls /\ k # None
      BY <2>1, LoginIsCall DEF CallInv
    <2>4. \A b \in Browser : store[b] # k
      <3> SUFFICES ASSUME NEW b \in Browser, store[b] = k PROVE FALSE
        OBVIOUS
      <3>1. Kept(b, k)
        BY <2>3 DEF HeldInv
      <3> QED
        BY <2>1, <3>1 DEF Kept
    <2>5. Unspent(k)'
      <3> SUFFICES ASSUME NEW j \in DOMAIN calls', calls'[j].token = k PROVE calls'[j].op = "logout"
        BY DEF Unspent
      <3>1. j \in DOMAIN calls
        BY <1>1, <2>3, <2>4 DEF StaysSent
      <3> QED
        BY <1>1, <2>1, <3>1 DEF StaysSent, Unspent
    <2>6. CASE calls[i].at = "granted"
      <3>1. Live(n)' = {}
        BY <2>1, <2>3, <2>6, ReviveStep
      <3> QED
        BY <2>2, <2>5, <3>1 DEF Issued, Unspent, Live, Active, Pending
    <2>7. ASSUME calls[i].at # "granted", calls'[i].at = "granted" PROVE Live(n)' = {}
      <3>1. ASSUME NEW t \in Tab, Sends(t) PROVE FALSE
        BY <2>1, <2>7, <3>1, Sent
      <3>2. ASSUME NEW j \in DOMAIN calls, Works(j)
            PROVE  /\ AreRevoked({k}) /\ DOMAIN calls' = DOMAIN calls
                   /\ \A m \in DOMAIN calls \ {i} : calls'[m] = calls[m]
        <4>1. /\ DOMAIN calls' = DOMAIN calls
              /\ \A m \in DOMAIN calls \ {j} : calls'[m] = calls[m]
              /\ calls[j].op = "logout" => AreRevoked({calls[j].token})
          BY <3>2, Worked
        <4>2. j = i
          BY <2>1, <2>7, <4>1
        <4> QED
          BY <2>1, <4>1, <4>2
      <3>3. (\E t \in Tab : Hears(t)) \/ Changes => UNCHANGED calls
        BY Heard, Changed
      <3>4. /\ AreRevoked({k}) /\ DOMAIN calls' = DOMAIN calls
            /\ \A m \in DOMAIN calls \ {i} : calls'[m] = calls[m]
        BY <2>7, <3>1, <3>2, <3>3, NextCases DEF vars
      <3>5. Live(n) \subseteq {k}
        BY <2>1 DEF TipInv
      <3>6. Active' = Active \ {k} /\ \A m \in Active' : rows'[m].login = rows[m].login
        BY <3>4 DEF AreRevoked, Active
      <3>7. /\ \A m \in Pending' : m \in Pending /\ calls'[m].login = calls[m].login
            /\ k \notin Pending
        BY <2>1, <2>7, <3>4 DEF Pending, Issued
      <3> QED
        BY <3>5, <3>6, <3>7 DEF Live
    <2> QED
      BY <2>2, <2>5, <2>6, <2>7 DEF Issued, Unspent, Live, Active, Pending
  <1>3. CASE i \notin parted
    <2>1. PICK t \in Tab : Sends(t)
      <3>1. \A j \in DOMAIN calls : Works(j) => UNCHANGED parted
        BY Worked DEF ended, AllClosed
      <3>2. \A t \in Tab : Hears(t) => UNCHANGED parted
        BY Heard DEF ended
      <3>3. Changes => UNCHANGED parted
        BY Changed DEF ended, AllClosed
      <3> QED
        BY <1>3, <3>1, <3>2, <3>3, NextCases DEF vars, ended
    <2>a. PICK new, b, k : new = Len(calls) + 1 /\ b = BrowserOf[t] /\ k = store[b]
      OBVIOUS
    <2>2. /\ DOMAIN calls = 1..Len(calls) /\ DOMAIN calls' = 1..new
          /\ \A j \in DOMAIN calls : calls'[j] = calls[j]
          /\ b \in Browser
          /\ i = new /\ calls'[new].op = "logout" /\ b \notin late /\ AtRest(b)
      BY <1>3, <2>1, <2>a, Sent
    <2>b. /\ k \in DOMAIN calls /\ k # None /\ store[b] = k
          /\ calls'[new].token = k /\ calls'[new].at = "start"
      <3>1. BrowserOf[t] \in Browser /\ calls'[Len(calls) + 1].op = "logout"
        BY <2>2, <2>a
      <3>2. /\ store[BrowserOf[t]] \in DOMAIN calls /\ store[BrowserOf[t]] # None
            /\ calls'[Len(calls) + 1].token = store[BrowserOf[t]]
            /\ calls'[Len(calls) + 1].at = "start"
        BY <2>1, <3>1, Sent
      <3> QED
        BY <2>a, <3>2
    <2>3. Kept(b, k)
      BY <2>2, <2>b DEF HeldInv
    <2>4. \A j \in DOMAIN calls' : j \in DOMAIN calls \/ j = new
      BY <2>2, <2>a
    <2>5. new \in DOMAIN calls'
      <3>1. Len(calls) \in Nat
        BY DEF TypeOK
      <3> QED
        BY <2>2, <2>b, <2>a, <3>1
    <2>6. \A j \in DOMAIN calls : calls[j].token # k
      BY <2>2, <2>b, KeptUnspent
    <2>7. Unspent(k)'
      BY <2>2, <2>b, <2>4, <2>6 DEF Unspent
    <2>8. Issued(k)'
      BY <2>2, <2>b, <2>3 DEF Kept, Issued
    <2> QED
      BY <2>2, <2>b, <2>5, <2>7, <2>8 DEF Issued, Unspent
  <1> QED
    BY <1>2, <1>3

LEMMA SweptStep ==
  ASSUME SessionsAssumption, TypeOK, CallInv, HeldInv, RowInv, SweptInv, [Next]_vars
  PROVE  SweptInv'
  <1> SUFFICES ASSUME NEW n \in swept' PROVE n \in DOMAIN calls' /\ Live(n)' = {}
    BY DEF SweptInv, Live, Active, Pending
  <1>1. CASE n \in swept
    BY <1>1, ReviveStep, CallsStay DEF SweptInv, StaysSent
  <1>2. CASE n \notin swept
    <2>1. AllClosed /\ DOMAIN calls' = DOMAIN calls
          /\ \A j \in Pending' : j \in Pending /\ calls'[j].login = calls[j].login
      <3>1. ASSUME NEW t \in Tab, Sends(t) \/ Hears(t) PROVE UNCHANGED swept
        BY <3>1, Sent, Heard DEF ended
      <3>2. ASSUME NEW i \in DOMAIN calls, Works(i), swept' # swept
            PROVE  /\ AllClosed /\ DOMAIN calls' = DOMAIN calls
                   /\ \A j \in Pending' : j \in Pending /\ calls'[j].login = calls[j].login
        <4>1. /\ AllClosed /\ DOMAIN calls' = DOMAIN calls /\ calls'[i].at = "refused"
              /\ \A j \in DOMAIN calls \ {i} : calls'[j] = calls[j]
          BY <3>2, Worked DEF ended
        <4> QED
          BY <4>1 DEF Pending
      <3>3. Changes /\ swept' # swept => AllClosed /\ UNCHANGED calls
        BY Changed DEF ended
      <3>4. UNCHANGED calls =>
              /\ DOMAIN calls' = DOMAIN calls
              /\ \A j \in Pending' : j \in Pending /\ calls'[j].login = calls[j].login
        BY DEF Pending
      <3> QED
        BY <1>2, <3>1, <3>2, <3>3, <3>4, NextCases DEF vars, ended
    <2>2. n \in {calls[k].login : k \in DOMAIN calls} /\ n \notin {calls[j].login : j \in Pending}
      BY <1>2, <2>1 DEF AllClosed
    <2>3. n \in DOMAIN calls
      <3>1. PICK k \in DOMAIN calls : n = calls[k].login
        BY <2>2
      <3> QED
        BY <3>1, LoginIsCall
    <2>4. Active' = {}
      BY <2>1 DEF AllClosed, AreRevoked, Active
    <2> QED
      BY <2>1, <2>2, <2>3, <2>4 DEF Live
  <1> QED
    BY <1>1, <1>2

-----------------------------------------------------------------------------
LEMMA InitInv == ASSUME SessionsAssumption, Init PROVE IInv
  <1>1. /\ calls = <<>> /\ rows = <<>> /\ calls \in Seq(Call) /\ Len(calls) = 0
        /\ DOMAIN calls = {} /\ DOMAIN rows = {}
    BY DEF Init
  <1>2. TypeOK
    BY <1>1 DEF Init, TypeOK
  <1>3. CallInv /\ RowInv /\ RevokedInv
    BY <1>1 DEF CallInv, RowInv, RevokedInv, SessionsAssumption
  <1>4. WaitInv /\ HeldInv
    BY DEF Init, WaitInv, HeldInv
  <1>5. OneInv
    BY <1>1 DEF OneInv, Live, Active, Pending
  <1>6. TipInv /\ PartInv /\ SweptInv
    BY <1>1 DEF Init, TipInv, PartInv, SweptInv
  <1> QED
    BY <1>2, <1>3, <1>4, <1>5, <1>6 DEF IInv

LEMMA NextInv == ASSUME SessionsAssumption, IInv, [Next]_vars PROVE IInv'
  BY TypeStep, CallStep, RowStep, WaitStep, HeldStep, RevokedStep, OneStep, TipStep, PartStep,
     SweptStep DEF IInv

LEMMA Inductive == ASSUME SessionsAssumption PROVE Spec => []IInv
  BY InitInv, NextInv, PTL DEF Spec

(* Calls, tokens and browsers keep their types, and a row or an expired    *)
(* token was issued by some call: the tables of /auth.                     *)
THEOREM TypeCorrect == ASSUME SessionsAssumption PROVE Spec => []TypeOK
  <1>1. IInv => TypeOK
    BY DEF IInv
  <1> QED
    BY <1>1, Inductive, PTL

(* Of all live tokens that are one, a login has one.                       *)
LEMMA OneToken == ASSUME IInv PROVE OneTokenPerLogin
  <1> SUFFICES ASSUME NEW n \in Token PROVE Cardinality(Live(n)) <= 1
    BY DEF OneTokenPerLogin
  <1>1. CASE Live(n) = {}
    <2>1. Cardinality(Live(n)) = 0
      BY <1>1, FS_EmptySet
    <2> QED
      BY <2>1
  <1>2. CASE Live(n) # {}
    <2>1. PICK a : a \in Live(n)
      BY <1>2
    <2>2. Live(n) = {a}
      BY <2>1 DEF IInv, OneInv
    <2>3. Cardinality(Live(n)) = 1
      BY <2>2, FS_Singleton
    <2> QED
      BY <2>3
  <1> QED
    BY <1>1, <1>2

(* A login has one live token at most, however many tabs and lost answers  *)
(* present its tokens: refresh consumes a token before it issues another.  *)
THEOREM LoginsHaveOneToken == ASSUME SessionsAssumption PROVE Spec => []OneTokenPerLogin
  <1>1. ASSUME IInv PROVE OneTokenPerLogin
    BY <1>1, OneToken
  <1> QED
    BY <1>1, Inductive, PTL

(* Who is logged out stays logged out: its tokens are revoked, and only a  *)
(* refresh that presents one of them gets another.                         *)
THEOREM LoggedOutForGood == ASSUME SessionsAssumption PROVE Spec => []OutForGood
  <1>1. IInv => OutForGood
    BY DEF IInv, PartInv, SweptInv, OutForGood
  <1> QED
    BY <1>1, Inductive, PTL

(* A kept token was presented by nobody, so nothing revoked it.            *)
LEMMA TokenWorks == ASSUME SessionsAssumption, IInv PROVE StoredTokenWorks
  <1> SUFFICES ASSUME NEW b \in Browser, b \notin late, ~closed, store[b] # None,
                      AtRest(b)
               PROVE  store[b] \in Active \cup expired
    BY DEF StoredTokenWorks
  <1> DEFINE k == store[b]
  <1>1. Kept(b, k)
    BY DEF IInv, HeldInv
  <1>2. k \in DOMAIN rows \cup expired
    BY <1>1 DEF IInv, RowInv, Kept
  <1>3. ASSUME NEW j \in DOMAIN calls, calls[j].token = k PROVE FALSE
    BY <1>3, KeptUnspent DEF IInv
  <1>4. k \in DOMAIN rows => rows[k].state = "active"
    BY <1>3 DEF IInv, RevokedInv, TypeOK
  <1> QED
    BY <1>2, <1>4 DEF Active

(* The token a browser keeps is one the API accepts, however its tabs      *)
(* interleave, unless answers were given up or all sessions were closed.   *)
THEOREM KeptTokensWork == ASSUME SessionsAssumption PROVE Spec => []StoredTokenWorks
  <1>1. ASSUME IInv PROVE StoredTokenWorks
    BY <1>1, TokenWorks
  <1> QED
    BY <1>1, Inductive, PTL
=============================================================================
