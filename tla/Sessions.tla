------------------------------- MODULE Sessions -------------------------------
(***************************************************************************)
(* TokenService and the AuthController's refresh and logout: a sign-in      *)
(* opens a family of refresh tokens, every refresh rotates the token in the *)
(* browser's cookie into a fresh one of the family, and a token that comes  *)
(* back after it was rotated or revoked ends the family.  Each step is one  *)
(* statement of the database, with no transaction around them; the browser  *)
(* may send several requests with one cookie, and answers come in any order *)
(* or never.                                                               *)
(*                                                                         *)
(* A request issues at most one token, so the token is named by the request *)
(* that issued it and a family by its sign-in.  Time passes in ticks; a row *)
(* and a cookie are kept by the ticks they have left.                      *)
(***************************************************************************)
EXTENDS Naturals

CONSTANTS
    Requests,   \* sign-ins, refreshes and logouts
    Browsers,
    Ttl,        \* JWT_REFRESH_TTL_DAYS
    None

ASSUME SessionsAssumption == Ttl \in Nat \ {0} /\ None \notin Requests

VARIABLES
    family,     \* auth_sessions: the family of a token; None: no such row
    rotated,    \* the tokens with a rotatedAt
    revoked,    \* the revokedReason of a token; "no": revokedAt is null
    left,       \* ticks before its expiresAt
    cookie,     \* mb_rt in each browser; None: it has none
    cookieLeft, \* ticks of its maxAge
    pc, by,     \* where a request stands, and whose it is
    presented,  \* the token it came with
    overlapped  \* tokens sent again with an earlier request still open

rows == <<family, rotated, revoked, left>>
jar == <<cookie, cookieLeft>>
vars == <<rows, jar, pc, by, presented, overlapped>>

Refreshing == {"refresh", "reuse", "valid", "marked"}
Open == Refreshing \cup {"signIn", "issued", "logout", "revoked"}
Stages == Open \cup {"idle", "done", "loggedOut", "reused", "refused", "lost"}
Reasons == {"no", "logout", "reuse"}

TypeOK ==
    /\ family \in [Requests -> Requests \cup {None}]
    /\ rotated \subseteq Requests
    /\ revoked \in [Requests -> Reasons]
    /\ left \in [Requests -> 0..Ttl]
    /\ cookie \in [Browsers -> Requests \cup {None}]
    /\ cookieLeft \in [Browsers -> 0..Ttl]
    /\ pc \in [Requests -> Stages]
    /\ by \in [Requests -> Browsers \cup {None}]
    /\ presented \in [Requests -> Requests \cup {None}]
    /\ overlapped \subseteq Requests

Init ==
    /\ family = [r \in Requests |-> None]
    /\ rotated = {}
    /\ revoked = [r \in Requests |-> "no"]
    /\ left = [r \in Requests |-> 0]
    /\ cookie = [b \in Browsers |-> None]
    /\ cookieLeft = [b \in Browsers |-> 0]
    /\ pc = [r \in Requests |-> "idle"]
    /\ by = [r \in Requests |-> None]
    /\ presented = [r \in Requests |-> None]
    /\ overlapped = {}

Go(r, stage) == pc' = [pc EXCEPT ![r] = stage]

Kin(f) == {t \in Requests : family[t] = f}
Live(t) == family[t] # None /\ t \notin rotated /\ revoked[t] = "no"

-----------------------------------------------------------------------------
(* What a browser sends: the cookie of that moment goes with it. *)
Send(r, b, kind) ==
    /\ pc[r] = "idle"
    /\ Go(r, kind)
    /\ by' = [by EXCEPT ![r] = b]
    /\ UNCHANGED <<rows, jar>>

SignIn(r, b) == Send(r, b, "signIn") /\ UNCHANGED <<presented, overlapped>>

(* Without a cookie refresh answers 401 and logout does nothing.            *)
SendCookie(r, b, kind) ==
    /\ cookie[b] # None
    /\ Send(r, b, kind)
    /\ presented' = [presented EXCEPT ![r] = cookie[b]]
    /\ overlapped' =
          IF \E o \in Requests : pc[o] \in Open /\ presented[o] = cookie[b]
          THEN overlapped \cup {cookie[b]} ELSE overlapped

refresh(r, b) == SendCookie(r, b, "refresh")
logout(r, b) == SendCookie(r, b, "logout")

-----------------------------------------------------------------------------
(* TokenService.rotate *)

Spent(t) == t \in rotated \/ revoked[t] # "no"

(* findUnique, and the checks on what it read: the row is there. *)
rotateRead(r) ==
    LET t == presented[r] IN
    /\ pc[r] = "refresh"
    /\ Go(r, IF Spent(t) THEN "reuse"
             ELSE IF left[t] = 0 THEN "refused" ELSE "valid")
    /\ UNCHANGED <<rows, jar, by, presented, overlapped>>

(* Slip: only the token that came back is revoked. *)
RevokedByReuseAlone(t) ==
    [revoked EXCEPT ![t] = IF revoked[t] = "no" THEN "reuse" ELSE revoked[t]]

RevokedByReuse(t) ==
    [u \in Requests |->
        IF u \in Kin(family[t]) /\ revoked[u] = "no" THEN "reuse" ELSE revoked[u]]

rotateReuse(r) ==
    /\ pc[r] = "reuse"
    /\ revoked' = RevokedByReuse(presented[r])
    /\ Go(r, "reused")
    /\ UNCHANGED <<family, rotated, left, jar, by, presented, overlapped>>

(* Slip: the old token stays good. *)
MarkNothing(t) == rotated

Marked(t) == rotated \cup {t}

(* The update names the row by its id only: it does not look again. *)
rotateMark(r) ==
    /\ pc[r] = "valid"
    /\ rotated' = Marked(presented[r])
    /\ Go(r, "marked")
    /\ UNCHANGED <<family, revoked, left, jar, by, presented, overlapped>>

(* TokenService.issue, after a sign-in or at the end of a rotation. *)
issue(r) ==
    /\ pc[r] \in {"signIn", "marked"}
    /\ family' = [family EXCEPT ![r] =
                     IF pc[r] = "signIn" THEN r ELSE family[presented[r]]]
    /\ left' = [left EXCEPT ![r] = Ttl]
    /\ Go(r, "issued")
    /\ UNCHANGED <<rotated, revoked, jar, by, presented, overlapped>>

(* TokenService.revoke: a logout.  Slip: it looks for the token as it came, *)
(* not for its hash, and finds no row.                                      *)
RevokedUnhashed(t) == revoked

RevokedByLogout(t) ==
    [revoked EXCEPT ![t] = IF revoked[t] = "no" THEN "logout" ELSE revoked[t]]

revoke(r) ==
    /\ pc[r] = "logout"
    /\ revoked' = RevokedByLogout(presented[r])
    /\ Go(r, "revoked")
    /\ UNCHANGED <<family, rotated, left, jar, by, presented, overlapped>>

-----------------------------------------------------------------------------
(* Answers.  Slip: only a sign-in sets the cookie. *)
CookieOfSignIn(r) == IF presented[r] = None THEN r ELSE cookie[by[r]]

Cookie(r) == r

setRefreshCookie(r) ==
    /\ pc[r] = "issued"
    /\ cookie' = [cookie EXCEPT ![by[r]] = Cookie(r)]
    /\ cookieLeft' = [cookieLeft EXCEPT ![by[r]] = Ttl]
    /\ Go(r, "done")
    /\ UNCHANGED <<rows, by, presented, overlapped>>

clearCookie(r) ==
    /\ pc[r] = "revoked"
    /\ cookie' = [cookie EXCEPT ![by[r]] = None]
    /\ cookieLeft' = [cookieLeft EXCEPT ![by[r]] = 0]
    /\ Go(r, "loggedOut")
    /\ UNCHANGED <<rows, by, presented, overlapped>>

(* The API stops, a statement fails, or the answer does not arrive: what    *)
(* was written stays written.                                              *)
Lose(r) ==
    /\ pc[r] \in Open
    /\ Go(r, "lost")
    /\ UNCHANGED <<rows, jar, by, presented, overlapped>>

Tick ==
    /\ \/ \E t \in Requests : left[t] > 0
       \/ \E b \in Browsers : cookieLeft[b] > 0
    /\ left' = [t \in Requests |-> IF left[t] = 0 THEN 0 ELSE left[t] - 1]
    /\ cookieLeft' = [b \in Browsers |->
                         IF cookieLeft[b] = 0 THEN 0 ELSE cookieLeft[b] - 1]
    /\ cookie' = [b \in Browsers |->
                     IF cookieLeft[b] <= 1 THEN None ELSE cookie[b]]
    /\ UNCHANGED <<family, rotated, revoked, pc, by, presented, overlapped>>

Handle(r) ==
    \/ rotateRead(r) \/ rotateReuse(r) \/ rotateMark(r) \/ issue(r)
    \/ revoke(r) \/ setRefreshCookie(r) \/ clearCookie(r) \/ Lose(r)

Next ==
    \/ \E r \in Requests :
          \/ \E b \in Browsers : SignIn(r, b) \/ refresh(r, b) \/ logout(r, b)
          \/ Handle(r)
    \/ Tick

Spec == Init /\ [][Next]_vars

-----------------------------------------------------------------------------
(* Properties.  A family is raced when a token of it was sent again before  *)
(* the request that had it was answered; it missed an answer when a request *)
(* of it was lost.                                                         *)
Raced(f) == \E t \in Kin(f) : t \in overlapped
MissedAnswer(f) ==
    \E r \in Requests : pc[r] = "lost" /\ presented[r] \in Kin(f)
LoggedOut(f) == \E t \in Kin(f) : revoked[t] = "logout"

Dead(f) == \A t \in Kin(f) : ~Live(t)

(* Rotation leaves a login one token at a time that works, whatever is lost *)
(* and wherever the API stops between marking the old token and writing the *)
(* new one, as long as the browser sends its cookie once at a time.         *)
OneLiveToken ==
    \A t, u \in Requests :
        Live(t) /\ Live(u) /\ family[t] = family[u] /\ ~Raced(family[t]) => t = u

(* A browser is told that its token was reused only after a logout, after   *)
(* two of its requests crossed, or after an answer was lost: one that       *)
(* refreshes in turn stays signed in, however often it does.                *)
ReuseHasCause ==
    \A r \in Requests :
        pc[r] = "reused" =>
            LET f == family[presented[r]] IN
            Raced(f) \/ MissedAnswer(f) \/ LoggedOut(f)

(* When the answer to a logout has arrived the login is over, none of its   *)
(* tokens works, unless another of its requests crossed the logout or an    *)
(* answer before it was lost.                                              *)
LogoutEnds ==
    \A r \in Requests :
        pc[r] = "loggedOut" =>
            LET f == family[presented[r]] IN
            Dead(f) \/ Raced(f) \/ MissedAnswer(f)

(* "the whole family is revoked": once a reuse was answered, no token of    *)
(* the login works, unless another of its requests crossed.                 *)
ReuseEndsLogin ==
    \A r \in Requests :
        pc[r] = "reused" =>
            Dead(family[presented[r]]) \/ Raced(family[presented[r]])
================================================================================
