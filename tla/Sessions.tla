------------------------------ MODULE Sessions ------------------------------
(***************************************************************************)
(* The sessions of one account: the refresh tokens the API keeps, and the  *)
(* tabs of the browsers that hold one. Customers (web) and staff (admin)   *)
(* have twin implementations; kind says whose account this is.             *)
(*                                                                         *)
(* A call is one HTTP request to /auth. The API works on it in statements, *)
(* whether or not the tab still waits for it. A token is named after the   *)
(* call that issued it.                                                    *)
(***************************************************************************)
EXTENDS Naturals, FiniteSets, Sequences

CONSTANTS
  Tab,        \* tabs, each with its own refreshInFlight
  Browser,    \* one localStorage each
  BrowserOf,  \* the browser of a tab
  MaxCalls,   \* bound: calls in all
  MaxExpired, \* bound: refresh tokens that reach their thirty days
  None        \* no token

SessionsAssumption ==
  /\ BrowserOf \in [Tab -> Browser]
  /\ MaxCalls \in Nat /\ MaxExpired \in Nat
  /\ None \notin Nat

VARIABLES
  kind,     \* "customer" or "staff"
  enabled,  \* StaffUser.active
  rows,     \* RefreshToken, by the call that issued it
  expired,  \* the tokens whose JWT has expired
  calls,    \* the calls sent so far
  store,    \* the refresh token in localStorage; its access token may be stale at any time
  wait,     \* the calls a tab awaits the answer of
  late,     \* history: the browsers a tab of which gave up on an answer
  closed,   \* history: all sessions were closed by a replay or a new password
  parted,   \* history: the logouts sent by a browser at rest
  swept     \* history: the logins all sessions of which were closed, none being renewed

api     == <<enabled, rows, expired>>
browser == <<store, wait, late>>
ended   == <<closed, parted, swept>>
vars    == <<kind, api, calls, browser, ended>>

Token    == 1..MaxCalls
Op       == {"login", "refresh", "logout"}
At       == {"start", "purge", "issue", "granted", "refused"}
Call     == [op: Op, tab: Tab, token: Token \cup {None}, login: Token, at: At]
Active   == {k \in DOMAIN rows : rows[k].state = "active"}
Pending  == {i \in DOMAIN calls : calls[i].at = "issue"}

Refreshing(t) == \E i \in wait[t] : calls[i].op = "refresh"
AtRest(b)     == \A t \in Tab : BrowserOf[t] = b => ~Refreshing(t)

Send(t, op, token, login, at) ==
  /\ Len(calls) < MaxCalls
  /\ calls' = Append(calls, [op |-> op, tab |-> t, token |-> token, login |-> login, at |-> at])
Move(i, at)  == calls' = [calls EXCEPT ![i].at = at]
Revoke(S)    == rows' = [k \in DOMAIN rows |->
                           IF k \in S THEN [rows[k] EXCEPT !.state = "revoked"] ELSE rows[k]]
Keep(t, val) == store' = [store EXCEPT ![BrowserOf[t]] = val]
Drop(t, i)   == wait' = [wait EXCEPT ![t] = @ \ {i}]

Init ==
  /\ kind \in {"customer", "staff"}
  /\ enabled = TRUE
  /\ rows = <<>> /\ expired = {} /\ calls = <<>>
  /\ store = [b \in Browser |-> None]
  /\ wait = [t \in Tab |-> {}]
  /\ late = {} /\ closed = FALSE /\ parted = {} /\ swept = {}

-----------------------------------------------------------------------------
(* The browser.                                                            *)

(* login: the form of a visitor without a token.                           *)
Login(t) ==
  /\ store[BrowserOf[t]] = None
  /\ wait[t] = {}
  /\ Send(t, "login", None, Len(calls) + 1, "issue")
  /\ wait' = [wait EXCEPT ![t] = @ \cup {Len(calls) + 1}]
  /\ UNCHANGED <<kind, api, store, late, ended>>

(* refreshCustomerAccessToken, before a request whose access token is in   *)
(* its last 30 seconds, or after one that met a 401.                       *)
Refresh(t) ==
  LET held == store[BrowserOf[t]]
  IN  /\ held # None
      /\ ~Refreshing(t)
      /\ Send(t, "refresh", held, calls[held].login, "start")
      /\ wait' = [wait EXCEPT ![t] = @ \cup {Len(calls) + 1}]
      /\ UNCHANGED <<kind, api, store, late, ended>>

(* The access token alone is replaced, the consumed token stays.           *)
MutTakeTokens(t, i) == Keep(t, IF store[BrowserOf[t]] = None THEN i ELSE store[BrowserOf[t]])

(* setCustomerToken, setSession.                                           *)
TakeTokens(t, i) == Keep(t, i)

Granted(t) ==
  \E i \in wait[t] :
    /\ calls[i].at = "granted"
    /\ TakeTokens(t, i)
    /\ Drop(t, i)
    /\ UNCHANGED <<kind, api, calls, late, ended>>

(* An error: a refresh forgets the session (clearCustomerToken), a login   *)
(* only says so.                                                           *)
Refused(t) ==
  \E i \in wait[t] :
    /\ calls[i].at = "refused"
    /\ IF calls[i].op = "refresh" THEN Keep(t, None) ELSE UNCHANGED store
    /\ Drop(t, i)
    /\ UNCHANGED <<kind, api, calls, late, ended>>

(* The ten seconds of AbortSignal are over, or the network failed: the     *)
(* token stays, and so does the call, on its way or on the server.         *)
GiveUp(t) ==
  \E i \in wait[t] :
    /\ Drop(t, i)
    /\ late' = late \cup {BrowserOf[t]}
    /\ UNCHANGED <<kind, api, calls, store, ended>>

(* logout: the token is sent for revocation and nobody waits.              *)
Logout(t) ==
  LET held == store[BrowserOf[t]]
  IN  /\ held # None
      /\ Send(t, "logout", held, calls[held].login, "start")
      /\ Keep(t, None)
      /\ parted' = IF BrowserOf[t] \notin late /\ AtRest(BrowserOf[t])
                   THEN parted \cup {Len(calls) + 1} ELSE parted
      /\ UNCHANGED <<kind, api, wait, late, closed, swept>>

-----------------------------------------------------------------------------
(* The API.                                                                *)

(* A revoked token is taken for a fresh one.                               *)
MutSpent(k) == FALSE

(* What the row lock of refresh protects: was the token consumed?          *)
Spent(k) == rows[k].state = "revoked"

(* refresh, up to the end of its transaction: the JWT is verified, the     *)
(* row locked, read, and revoked.                                          *)
Consume(i) ==
  LET k == calls[i].token
  IN  /\ calls[i].op = "refresh" /\ calls[i].at = "start"
      /\ CASE k \in expired \/ k \notin DOMAIN rows -> Move(i, "refused") /\ UNCHANGED rows
           [] k \notin expired /\ k \in DOMAIN rows /\ Spent(k) -> Move(i, "purge") /\ UNCHANGED rows
           [] k \notin expired /\ k \in DOMAIN rows /\ ~Spent(k) -> Move(i, "issue") /\ Revoke({k})
      /\ UNCHANGED <<kind, enabled, expired, browser, ended>>

(* updateMany: the tokens there are, not the one a refresh that consumed   *)
(* its token is about to insert.                                           *)
CloseAll ==
  /\ Revoke(Active)
  /\ closed' = TRUE
  /\ swept' = swept \cup ({calls[k].login : k \in DOMAIN calls} \ {calls[i].login : i \in Pending})
  /\ UNCHANGED parted

(* A consumed token was presented again: every session is closed.          *)
Purge(i) ==
  /\ calls[i].at = "purge"
  /\ Move(i, "refused")
  /\ CloseAll
  /\ UNCHANGED <<kind, enabled, expired, browser>>

Row(i) == [login |-> calls[i].login, state |-> "active"]

(* issueTokens, for a login or a refresh; a staff account must be active.  *)
(* (It is read just before the row is inserted: a deactivation in between  *)
(* leaves what one just after does.)                                       *)
IssueTokens(i) ==
  /\ calls[i].at = "issue"
  /\ IF kind = "staff" /\ ~enabled
     THEN Move(i, "refused") /\ UNCHANGED rows
     ELSE /\ Move(i, "granted")
          /\ rows' = [k \in DOMAIN rows \cup {i} |-> IF k = i THEN Row(i) ELSE rows[k]]
  /\ UNCHANGED <<kind, enabled, expired, browser, ended>>

(* logout: the row is revoked whatever its state, and may be gone.         *)
RevokeOne(i) ==
  /\ calls[i].op = "logout" /\ calls[i].at = "start"
  /\ Move(i, "granted")
  /\ Revoke({calls[i].token})
  /\ UNCHANGED <<kind, enabled, expired, browser, ended>>

(* StaffAuthService.changePassword, StaffUsersService.resetPassword. (A    *)
(* customer's resetPassword leaves the sessions alone.)                    *)
ChangePassword ==
  /\ kind = "staff"
  /\ CloseAll
  /\ UNCHANGED <<kind, enabled, expired, calls, browser>>

(* StaffUsersService.update: the tokens stay, no new one is issued until   *)
(* the account is active again.                                            *)
SetActive ==
  /\ kind = "staff"
  /\ enabled' = ~enabled
  /\ UNCHANGED <<kind, rows, expired, calls, browser, ended>>

(* Thirty days; then the daily cleanup may delete the row.                 *)
Expire(k) ==
  /\ k \in DOMAIN rows \ expired
  /\ Cardinality(expired) < MaxExpired
  /\ expired' = expired \cup {k}
  /\ UNCHANGED <<kind, enabled, rows, calls, browser, ended>>

Cleanup ==
  /\ expired \cap DOMAIN rows # {}
  /\ rows' = [k \in DOMAIN rows \ expired |-> rows[k]]
  /\ UNCHANGED <<kind, enabled, expired, calls, browser, ended>>

-----------------------------------------------------------------------------
Answer(t) == Granted(t) \/ Refused(t)

(* Every call that may be sent was sent, and nobody waits.                 *)
Rest ==
  /\ Len(calls) = MaxCalls
  /\ \A t \in Tab : wait[t] = {}
  /\ UNCHANGED vars

Next ==
  \/ \E t \in Tab : Login(t) \/ Refresh(t) \/ Logout(t) \/ Answer(t) \/ GiveUp(t)
  \/ \E i \in DOMAIN calls : Consume(i) \/ Purge(i) \/ IssueTokens(i) \/ RevokeOne(i)
  \/ ChangePassword \/ SetActive \/ Cleanup
  \/ \E k \in DOMAIN rows : Expire(k)
  \/ Rest

Spec == Init /\ [][Next]_vars

-----------------------------------------------------------------------------
TypeOK ==
  /\ kind \in {"customer", "staff"}
  /\ enabled \in BOOLEAN
  /\ calls \in Seq(Call)
  /\ DOMAIN rows \subseteq DOMAIN calls
  /\ \A k \in DOMAIN rows : rows[k] \in [login: Token, state: {"active", "revoked"}]
  /\ expired \subseteq DOMAIN calls
  /\ store \in [Browser -> Token \cup {None}]
  /\ wait \in [Tab -> SUBSET Token]
  /\ late \subseteq Browser
  /\ closed \in BOOLEAN
  /\ parted \subseteq DOMAIN calls /\ swept \subseteq DOMAIN calls

Live(n) == {k \in Active : rows[k].login = n} \cup {i \in Pending : calls[i].login = n}

(* One login never leads to two sessions: whatever tabs, retries and lost  *)
(* answers present its tokens, it has one live token at most, issued or    *)
(* about to be.                                                            *)
OneTokenPerLogin == \A n \in Token : Cardinality(Live(n)) <= 1

(* Who is logged out stays logged out: once the API has worked on a logout *)
(* sent while no tab of the browser was refreshing, or has closed all      *)
(* sessions while no refresh of this login had consumed its token without  *)
(* having issued the next, the login has no token that works and will not  *)
(* be given one, whatever is sent, retried or answered late, and though a  *)
(* deactivated account is made active again. (A refresh under way at that  *)
(* moment does issue its token afterwards; a browser that gave up on one   *)
(* holds a token that is not the last.)                                    *)
OutForGood ==
  /\ \A i \in parted : calls[i].at = "granted" => Live(calls[i].login) = {}
  /\ \A n \in swept : Live(n) = {}

(* A client whose answers all came holds a token that works: however many  *)
(* of its tabs refresh, log in and log out, the token kept once none of    *)
(* them is refreshing is one the API accepts while the account is active,  *)
(* unless it ran its thirty days or all sessions were closed.              *)
StoredTokenWorks ==
  \A b \in Browser \ late :
    ~closed /\ store[b] # None /\ AtRest(b) => store[b] \in Active \cup expired
=============================================================================
