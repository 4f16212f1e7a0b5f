--------------------------- MODULE Sessions_proofs ---------------------------
(***************************************************************************)
(* One working token in a login, and how a login ends, for any number of   *)
(* requests, browsers and logins.                                          *)
(*                                                                         *)
(* For the first: a step either issues a token or issues none; in the      *)
(* second case a family can only lose working tokens, in the first the     *)
(* rotation that issues has marked the last one.  For the second: until a  *)
(* login is raced its browser has one request of it open at a time, so the *)
(* token that works is the one in its cookie, in that request or in the    *)
(* answer to it.                                                           *)
(***************************************************************************)
EXTENDS Sessions, TLAPS

-----------------------------------------------------------------------------
(* The inductive invariant. *)

(* A request comes with a token that was issued, a browser keeps only such; *)
(* and a token is issued once.                                              *)
TokensWereIssued ==
    /\ \A b \in Browsers : cookie[b] # None => family[cookie[b]] # None
    /\ \A r \in Requests :
          /\ presented[r] # None => family[presented[r]] # None
          /\ pc[r] \in Refreshing => presented[r] # None
          /\ pc[r] \in {"idle", "signIn"} => presented[r] = None
          /\ pc[r] \in Refreshing \cup {"idle", "signIn"} => family[r] = None
          /\ pc[r] \in Open => by[r] \in Browsers
          /\ pc[r] = "issued" => family[r] # None
    /\ \A t \in Requests : family[t] # None => family[family[t]] # None

(* A token that two open requests have is one that overlapped. *)
SharedOverlapped ==
    \A r, o \in Requests :
        /\ pc[r] \in Open /\ pc[o] \in Open /\ r # o
        /\ presented[r] = presented[o] /\ presented[r] # None
        => presented[r] \in overlapped

Rotating(r) == pc[r] \in {"valid", "marked"}
FamilyOf(r) == family[presented[r]]

(* In a family that was not raced one request at a time rotates: what it    *)
(* read is the only token that may work, and once it is marked none does.   *)
RotationIsAlone ==
    /\ \A r \in Requests : Rotating(r) /\ ~Raced(FamilyOf(r)) =>
          \A t \in Kin(FamilyOf(r)) :
             Live(t) => pc[r] = "valid" /\ t = presented[r]
    /\ \A r, o \in Requests :
          Rotating(r) /\ Rotating(o) /\ FamilyOf(r) = FamilyOf(o)
             /\ ~Raced(FamilyOf(r)) => r = o

IInv ==
    TypeOK /\ TokensWereIssued /\ SharedOverlapped /\ RotationIsAlone /\ OneLiveToken

(* How a login ends needs more.  Its tokens are those of one browser, which *)
(* got each of them in an answer before it sent it.                         *)
OneBrowserEach ==
    /\ \A b \in Browsers : cookie[b] # None =>
          pc[cookie[b]] = "done" /\ by[cookie[b]] = b
    /\ \A r \in Requests :
          /\ presented[r] # None => pc[presented[r]] = "done" /\ by[presented[r]] = by[r]
          /\ family[r] # None =>
                /\ pc[r] \in {"issued", "done", "lost"} /\ by[r] = by[family[r]]
                /\ family[r] # r => pc[family[r]] = "done"
          /\ family[r] = None => revoked[r] = "no" /\ r \notin rotated
          /\ pc[r] = "issued" =>
                family[r] = IF presented[r] = None THEN r ELSE FamilyOf(r)
          /\ pc[r] \in {"logout", "revoked", "loggedOut", "reused"} => presented[r] # None

Serves(r, f) == pc[r] \in Open /\ presented[r] \in Kin(f)
Quiet(f) == \A r \in Requests : ~Serves(r, f)

(* While a request of a login is open, the browser has no newer token of    *)
(* it; so unless the login is raced no second one is open.                  *)
OneAtATime ==
    \A f \in Requests : ~Raced(f) =>
        \A r \in Requests : Serves(r, f) =>
            /\ \A o \in Requests : Serves(o, f) => o = r
            /\ \A b \in Browsers : cookie[b] \in Kin(f) => cookie[b] = presented[r]

(* Unless it missed an answer too, none of its tokens works but the one the *)
(* browser has, or that is on its way there.                                *)
OnlyTheLastWorks ==
    \A f \in Requests : ~Raced(f) /\ ~MissedAnswer(f) =>
        \A u \in Kin(f) : Live(u) =>
            /\ \A r \in Requests : Serves(r, f) =>
                  /\ pc[r] \notin {"marked", "revoked"}
                  /\ u = IF pc[r] = "issued" THEN r ELSE presented[r]
            /\ \A b \in Browsers : cookie[b] \in Kin(f) /\ Quiet(f) => u = cookie[b]

Calm(f) == ~Raced(f) /\ ~MissedAnswer(f) /\ ~LoggedOut(f)

(* And that one does work, unless it was logged out.                        *)
TheLastWorks ==
    \A f \in Requests : Calm(f) =>
        /\ \A u \in Kin(f) : revoked[u] = "no" /\ (pc[u] = "issued" => u \notin rotated)
        /\ \A r \in Requests : pc[r] \in {"reuse", "reused"} => presented[r] \notin Kin(f)
        /\ \A r \in Requests :
              Serves(r, f) /\ pc[r] = "refresh" => presented[r] \notin rotated
        /\ \A b \in Browsers :
              cookie[b] \in Kin(f) /\ Quiet(f) => cookie[b] \notin rotated

(* A login is over when none of its tokens works and none will be issued.   *)
Over(f) == Dead(f) /\ \A o \in Requests : Rotating(o) => FamilyOf(o) # f

EndedIsOver ==
    \A r \in Requests :
        /\ pc[r] = "reused" /\ ~Raced(FamilyOf(r)) => Over(FamilyOf(r))
        /\ pc[r] = "loggedOut" /\ ~Raced(FamilyOf(r)) /\ ~MissedAnswer(FamilyOf(r))
              => Over(FamilyOf(r))

LoginInv == OneBrowserEach /\ OneAtATime /\ OnlyTheLastWorks /\ TheLastWorks /\ EndedIsOver

-----------------------------------------------------------------------------
(* Before the first sign-in the invariant holds.                            *)
LEMMA InitInv == Init => IInv
<1> USE SessionsAssumption
<1> SUFFICES ASSUME Init PROVE IInv
  OBVIOUS
<1>1. TypeOK
  BY DEF Init, TypeOK, Stages, Open, Refreshing, Reasons
<1>2. TokensWereIssued
  BY DEF Init, TokensWereIssued, Open, Refreshing
<1>3. SharedOverlapped /\ RotationIsAlone /\ OneLiveToken
  BY DEF Init, SharedOverlapped, RotationIsAlone, Rotating, OneLiveToken, Live, Open, Refreshing
<1>4. QED BY <1>1, <1>2, <1>3 DEF IInv

(* Every step keeps the types.                                              *)
LEMMA TypeStep == IInv /\ [Next]_vars => TypeOK'
<1> USE SessionsAssumption DEF TypeOK, Stages, Open, Refreshing, Reasons
<1> SUFFICES ASSUME TypeOK, TokensWereIssued, [Next]_vars PROVE TypeOK'
  BY DEF IInv
<1>1. ASSUME NEW r \in Requests, NEW b \in Browsers, SignIn(r, b) PROVE TypeOK'
  BY <1>1 DEF SignIn, Send, Go, rows, jar
<1>2. ASSUME NEW r \in Requests, NEW b \in Browsers, refresh(r, b) \/ logout(r, b)
      PROVE TypeOK'
  BY <1>2 DEF refresh, logout, SendCookie, Send, Go, rows, jar
<1>3. ASSUME NEW r \in Requests, rotateRead(r) \/ Lose(r) PROVE TypeOK'
  BY <1>3 DEF rotateRead, Lose, Go, rows, jar
<1>4. ASSUME NEW r \in Requests, rotateReuse(r) PROVE TypeOK'
  BY <1>4 DEF rotateReuse, RevokedByReuse, Go, jar
<1>5. ASSUME NEW r \in Requests, rotateMark(r) PROVE TypeOK'
  <2>1. presented[r] \in Requests
    BY <1>5 DEF rotateMark, TokensWereIssued
  <2>2. QED BY <1>5, <2>1 DEF rotateMark, Marked, Go, jar
<1>6. ASSUME NEW r \in Requests, issue(r) PROVE TypeOK'
  <2>1. pc[r] = "marked" => presented[r] \in Requests
    BY DEF TokensWereIssued
  <2>2. QED BY <1>6, <2>1 DEF issue, Go, jar
<1>7. ASSUME NEW r \in Requests, revoke(r) PROVE TypeOK'
  BY <1>7 DEF revoke, RevokedByLogout, Go, jar
<1>8. ASSUME NEW r \in Requests, setRefreshCookie(r) \/ clearCookie(r) PROVE TypeOK'
  BY <1>8 DEF setRefreshCookie, clearCookie, Cookie, Go, rows
<1>9. CASE Tick
  BY <1>9 DEF Tick
<1>10. CASE UNCHANGED vars
  BY <1>10 DEF vars, rows, jar
<1>11. QED
  BY <1>1, <1>2, <1>3, <1>4, <1>5, <1>6, <1>7, <1>8, <1>9, <1>10 DEF Next, Handle

(* A token is in the family of another's request, and stays there. *)
LEMMA WrittenStep == IInv /\ [Next]_vars => TokensWereIssued'
<1> USE SessionsAssumption DEF TypeOK, Open, Refreshing
<1> SUFFICES ASSUME TypeOK, TokensWereIssued, [Next]_vars PROVE TokensWereIssued'
  BY DEF IInv
<1>1. ASSUME NEW r \in Requests, NEW b \in Browsers, SignIn(r, b)
      PROVE TokensWereIssued'
  BY <1>1 DEF SignIn, Send, Go, rows, jar, TokensWereIssued
<1>2. ASSUME NEW r \in Requests, NEW b \in Browsers, refresh(r, b) \/ logout(r, b)
      PROVE TokensWereIssued'
  BY <1>2 DEF refresh, logout, SendCookie, Send, Go, rows, jar, TokensWereIssued
<1>3. ASSUME NEW r \in Requests, rotateRead(r) \/ Lose(r) PROVE TokensWereIssued'
  BY <1>3 DEF rotateRead, Lose, Go, rows, jar, TokensWereIssued
<1>4. ASSUME NEW r \in Requests, rotateReuse(r) \/ rotateMark(r) \/ revoke(r)
      PROVE TokensWereIssued'
  BY <1>4 DEF rotateReuse, rotateMark, revoke, Go, jar, TokensWereIssued
<1>5. ASSUME NEW r \in Requests, issue(r) PROVE TokensWereIssued'
  <2>1. /\ \A t \in Requests : family[t] # None => t # r /\ family'[t] = family[t]
        /\ family'[r] \in Requests
    BY <1>5 DEF issue, TokensWereIssued
  <2>2. \A t \in Requests : family[t] # None => family[t] \in Requests
    OBVIOUS
  <2>3. \A t \in Requests : family'[t] # None => family'[family'[t]] # None
    <3>1. family'[family'[r]] # None
      BY <1>5, <2>1 DEF issue, TokensWereIssued
    <3>2. \A t \in Requests : t # r => family'[t] = family[t]
      BY <1>5 DEF issue
    <3>3. QED BY <2>1, <2>2, <3>1, <3>2 DEF TokensWereIssued
  <2>4. QED BY <1>5, <2>1, <2>3 DEF issue, Go, jar, TokensWereIssued
<1>6. ASSUME NEW r \in Requests, setRefreshCookie(r) \/ clearCookie(r)
      PROVE TokensWereIssued'
  BY <1>6 DEF setRefreshCookie, clearCookie, Cookie, Go, rows, TokensWereIssued
<1>7. CASE Tick
  BY <1>7 DEF Tick, TokensWereIssued
<1>8. CASE UNCHANGED vars
  BY <1>8 DEF vars, rows, jar, TokensWereIssued
<1>9. QED
  BY <1>1, <1>2, <1>3, <1>4, <1>5, <1>6, <1>7, <1>8 DEF Next, Handle

(* A token two requests came with is one that overlapped.                   *)
LEMMA OverlapStep == IInv /\ [Next]_vars => SharedOverlapped'
<1> USE DEF TypeOK, Open, Refreshing
<1> SUFFICES ASSUME TypeOK, TokensWereIssued, SharedOverlapped, [Next]_vars PROVE SharedOverlapped'
  BY DEF IInv
<1>1. ASSUME NEW r \in Requests, NEW b \in Browsers, SignIn(r, b)
      PROVE SharedOverlapped'
  BY <1>1 DEF SignIn, Send, Go, SharedOverlapped, TokensWereIssued
<1>2. ASSUME NEW r \in Requests, NEW b \in Browsers, refresh(r, b) \/ logout(r, b)
      PROVE SharedOverlapped'
  BY <1>2 DEF refresh, logout, SendCookie, Send, Go, SharedOverlapped
<1>3. ASSUME NEW r \in Requests, Handle(r) PROVE SharedOverlapped'
  BY <1>3 DEF Handle, rotateRead, rotateReuse, rotateMark, issue, revoke,
              setRefreshCookie, clearCookie, Lose, Go, SharedOverlapped
<1>4. CASE Tick \/ UNCHANGED vars
  BY <1>4 DEF Tick, vars, SharedOverlapped
<1>5. QED BY <1>1, <1>2, <1>3, <1>4 DEF Next

-----------------------------------------------------------------------------
(* What a raced family was, it stays; and it keeps its tokens. *)
LEMMA RacedStays ==
  ASSUME NEW f, overlapped \subseteq overlapped',
         \A t \in Kin(f) : t \in Kin(f)', Raced(f)
  PROVE  Raced(f)'
BY DEF Raced

(* A step that issues no token and begins no rotation. *)
LEMMA QuietStep ==
  ASSUME IInv,
         family' = family, overlapped \subseteq overlapped',
         \A t \in Requests : Live(t)' => Live(t),
         \A r \in Requests : Rotating(r)' =>
            Rotating(r) /\ pc'[r] = pc[r] /\ presented'[r] = presented[r]
  PROVE  RotationIsAlone' /\ OneLiveToken'
<1>1. \A f : Kin(f)' = Kin(f) /\ (Raced(f) => Raced(f)')
  BY DEF Kin, Raced
<1>2. OneLiveToken'
  BY <1>1 DEF IInv, OneLiveToken
<1>3. \A r \in Requests : Rotating(r)' => FamilyOf(r)' = FamilyOf(r)
  BY DEF FamilyOf
<1>4. ASSUME NEW r \in Requests, Rotating(r)', ~Raced(FamilyOf(r))',
             NEW t \in Kin(FamilyOf(r))', Live(t)'
      PROVE  pc'[r] = "valid" /\ t = presented'[r]
  <2>1. Rotating(r) /\ ~Raced(FamilyOf(r)) /\ t \in Kin(FamilyOf(r)) /\ t \in Requests
    BY <1>1, <1>3, <1>4 DEF Kin, FamilyOf, Raced
  <2>2. QED BY <1>4, <2>1 DEF IInv, RotationIsAlone
<1>5. ASSUME NEW r \in Requests, NEW o \in Requests, Rotating(r)', Rotating(o)',
             FamilyOf(r)' = FamilyOf(o)', ~Raced(FamilyOf(r))'
      PROVE  r = o
  <2>1. FamilyOf(r) = FamilyOf(o) /\ ~Raced(FamilyOf(r))
    BY <1>3, <1>5 DEF Kin, FamilyOf, Raced
  <2>2. QED BY <1>5, <2>1 DEF IInv, RotationIsAlone
<1>6. RotationIsAlone'
  BY <1>4, <1>5 DEF RotationIsAlone
<1>7. QED BY <1>2, <1>6

(* The rotation that begins has read a token that works: in its family no   *)
(* other rotates, or it would be the token of that one, which overlapped.   *)
LEMMA ReadStep ==
  ASSUME IInv, NEW r \in Requests, rotateRead(r)
  PROVE  RotationIsAlone' /\ OneLiveToken'
<1> DEFINE t == presented[r]
<1>1. /\ pc[r] = "refresh" /\ t \in Requests /\ family[t] # None
      /\ pc' \in [Requests -> Stages]
      /\ pc'[r] = "valid" => Live(t)
      /\ pc'[r] # "marked"
      /\ \A o \in Requests : o # r => pc'[o] = pc[o]
      /\ UNCHANGED <<family, rotated, revoked, presented, overlapped>>
  BY DEF IInv, TypeOK, TokensWereIssued, rotateRead, Go, Live, Spent, rows,
         Refreshing, Open, Stages
<1>2. /\ \A u \in Requests : Live(u)' = Live(u)
      /\ \A f : Kin(f)' = Kin(f) /\ Raced(f)' = Raced(f)
      /\ \A o \in Requests : FamilyOf(o)' = FamilyOf(o)
      /\ \A o \in Requests : o # r => Rotating(o)' = Rotating(o)
  BY <1>1 DEF Live, Kin, Raced, FamilyOf, Rotating
<1>3. CASE pc'[r] # "valid"
  <2>1. ~Rotating(r)'
    BY <1>1, <1>3 DEF Rotating
  <2>2. QED BY <1>1, <1>2, <2>1, QuietStep
<1>4. CASE pc'[r] = "valid"
  <2>1. ASSUME NEW u \in Kin(family[t]), Live(u), ~Raced(family[t]) PROVE u = t
    BY <1>1, <1>4, <2>1 DEF IInv, OneLiveToken, Kin
  <2>2. ASSUME NEW o \in Requests, o # r, Rotating(o), FamilyOf(o) = family[t],
               ~Raced(family[t])
        PROVE  FALSE
    <3>1. t \in Kin(FamilyOf(o)) /\ Live(t)
      BY <1>1, <1>4, <2>2 DEF Kin
    <3>2. pc[o] = "valid" /\ t = presented[o]
      BY <2>2, <3>1 DEF IInv, RotationIsAlone
    <3>3. t \in overlapped
      BY <1>1, <2>2, <3>2 DEF IInv, SharedOverlapped, TokensWereIssued,
                              Open, Refreshing
    <3>4. QED BY <2>2, <3>1, <3>3 DEF Raced
  <2>3. OneLiveToken'
    BY <1>1, <1>2 DEF IInv, OneLiveToken
  <2>4. ASSUME NEW o \in Requests, Rotating(o)', ~Raced(FamilyOf(o)),
               NEW u \in Kin(FamilyOf(o)), Live(u)
        PROVE  pc'[o] = "valid" /\ u = presented[o]
    <3>1. CASE o = r
      BY <1>4, <2>1, <2>4, <3>1 DEF FamilyOf
    <3>2. CASE o # r
      BY <1>1, <1>2, <2>4, <3>2 DEF IInv, RotationIsAlone
    <3>3. QED BY <3>1, <3>2
  <2>5. ASSUME NEW o \in Requests, NEW q \in Requests, Rotating(o)', Rotating(q)',
               FamilyOf(o) = FamilyOf(q), ~Raced(FamilyOf(o))
        PROVE  o = q
    BY <1>2, <2>2, <2>5 DEF IInv, RotationIsAlone, FamilyOf
  <2>6. RotationIsAlone'
    BY <1>1, <1>2, <2>4, <2>5 DEF RotationIsAlone, Kin
  <2>7. QED BY <2>3, <2>6
<1>5. QED BY <1>3, <1>4

(* The mark takes the only token left. *)
LEMMA MarkStep ==
  ASSUME IInv, NEW r \in Requests, rotateMark(r)
  PROVE  RotationIsAlone' /\ OneLiveToken'
<1> DEFINE t == presented[r]
<1>1. /\ pc[r] = "valid" /\ t \in Requests
      /\ pc'[r] = "marked"
      /\ \A o \in Requests : o # r => pc'[o] = pc[o]
      /\ rotated' = rotated \cup {t}
      /\ UNCHANGED <<family, revoked, presented, overlapped>>
  BY DEF IInv, TypeOK, TokensWereIssued, rotateMark, Marked, Go, Refreshing
<1>2. /\ \A u \in Requests : Live(u)' => Live(u) /\ u # t
      /\ \A f : Kin(f)' = Kin(f) /\ Raced(f)' = Raced(f)
      /\ \A o \in Requests : FamilyOf(o)' = FamilyOf(o)
      /\ \A o \in Requests : Rotating(o)' = Rotating(o)
  BY <1>1 DEF Live, Kin, Raced, FamilyOf, Rotating
<1>3. OneLiveToken'
  BY <1>1, <1>2 DEF IInv, OneLiveToken
<1>4. ASSUME NEW o \in Requests, Rotating(o), ~Raced(FamilyOf(o)),
             NEW u \in Kin(FamilyOf(o)), Live(u)'
      PROVE  pc'[o] = "valid" /\ u = presented[o]
  <2>1. u \in Requests /\ Live(u) /\ u # t
    BY <1>2, <1>4 DEF Kin
  <2>2. pc[o] = "valid" /\ u = presented[o]
    BY <1>4, <2>1 DEF IInv, RotationIsAlone
  <2>3. o # r
    BY <2>1, <2>2
  <2>4. QED BY <1>1, <2>2, <2>3
<1>5. RotationIsAlone'
  BY <1>1, <1>2, <1>4 DEF IInv, RotationIsAlone, Kin
<1>6. QED BY <1>3, <1>5

(* A token is issued where none works: in a family of its own, or after its *)
(* request has marked the last one, and is then the only one to rotate.     *)
LEMMA IssueStep ==
  ASSUME IInv, NEW r \in Requests, issue(r)
  PROVE  RotationIsAlone' /\ OneLiveToken'
<1> USE SessionsAssumption
<1> DEFINE f == family'[r]
<1>1. /\ pc[r] \in {"signIn", "marked"} /\ family[r] = None
      /\ f = IF pc[r] = "signIn" THEN r ELSE FamilyOf(r)
      /\ pc'[r] = "issued" /\ \A o \in Requests : o # r => pc'[o] = pc[o]
      /\ \A t \in Requests : t # r => family'[t] = family[t]
      /\ UNCHANGED <<rotated, revoked, presented, overlapped>>
  BY DEF IInv, TypeOK, TokensWereIssued, issue, Go, FamilyOf, Refreshing
<1>2. f # None /\ f \in Requests
  BY <1>1 DEF IInv, TypeOK, TokensWereIssued, FamilyOf, Refreshing
<1>3. /\ \A t \in Requests : t # r => Live(t)' = Live(t)
      /\ ~Live(r)
  BY <1>1 DEF Live
<1>4. /\ \A t \in Requests : Rotating(t)' => Rotating(t) /\ t # r
      /\ \A t \in Requests : Rotating(t)' => FamilyOf(t) # None
                                         /\ FamilyOf(t)' = FamilyOf(t)
  BY <1>1 DEF IInv, TypeOK, TokensWereIssued, Rotating, FamilyOf, Refreshing
<1>5. \A g : g # None => (\A t \in Kin(g) : t \in Kin(g)')
  BY <1>1 DEF Kin
<1>6. \A g : g # None /\ Raced(g) => Raced(g)'
  BY <1>1, <1>5, RacedStays
<1>7. \A t \in Kin(f) : ~Live(t) \/ Raced(f)
  <2>1. CASE pc[r] = "signIn"
    BY <1>1, <2>1, <1>2 DEF Kin, IInv, TokensWereIssued
  <2>2. CASE pc[r] = "marked"
    BY <1>1, <2>2 DEF IInv, RotationIsAlone, Rotating
  <2>3. QED BY <1>1, <2>1, <2>2
<1>8. ASSUME NEW o \in Requests, Rotating(o)', ~Raced(FamilyOf(o))
      PROVE  FamilyOf(o) # f
  <2>1. CASE pc[r] = "signIn"
    BY <1>1, <1>4, <1>8, <2>1 DEF FamilyOf, IInv, TypeOK, TokensWereIssued, Rotating,
       Refreshing
  <2>2. CASE pc[r] = "marked"
    BY <1>1, <1>4, <1>8, <2>2 DEF IInv, RotationIsAlone, Rotating
  <2>3. QED BY <1>1, <2>1, <2>2
<1>9. ASSUME NEW t \in Requests, NEW u \in Requests, Live(t)', Live(u)',
             family'[t] = family'[u], ~Raced(family[t])'
      PROVE  t = u
  <2>1. family'[t] # None
    BY <1>9 DEF Live
  <2>2. \A v \in Requests : family[v] = family'[t] => v \notin overlapped
    BY <1>1, <1>9, <2>1 DEF Raced, Kin
  <2>3. CASE t # r /\ u # r
    BY <1>1, <1>3, <1>9, <2>2, <2>3 DEF IInv, OneLiveToken, Raced, Kin
  <2>4. CASE t = r /\ u # r
    BY <1>1, <1>3, <1>7, <1>9, <2>2, <2>4 DEF Raced, Kin
  <2>5. CASE u = r /\ t # r
    BY <1>1, <1>3, <1>7, <1>9, <2>2, <2>5 DEF Raced, Kin
  <2>6. QED BY <2>3, <2>4, <2>5
<1>10. ASSUME NEW o \in Requests, Rotating(o)', ~Raced(FamilyOf(o))',
              NEW t \in Kin(FamilyOf(o))', Live(t)'
       PROVE  pc'[o] = "valid" /\ t = presented'[o]
  <2>1. ~Raced(FamilyOf(o))
    BY <1>1, <1>4, <1>5, <1>10 DEF Raced
  <2>2. t \in Requests /\ family'[t] = FamilyOf(o)
    BY <1>4, <1>10 DEF Kin
  <2>3. t # r /\ t \in Kin(FamilyOf(o)) /\ Live(t)
    BY <1>1, <1>3, <1>8, <1>10, <2>1, <2>2 DEF Kin
  <2>4. QED BY <1>1, <1>4, <1>10, <2>1, <2>3 DEF IInv, RotationIsAlone
<1>11. ASSUME NEW o \in Requests, NEW q \in Requests, Rotating(o)', Rotating(q)',
              FamilyOf(o)' = FamilyOf(q)', ~Raced(FamilyOf(o))'
       PROVE  o = q
  <2>1. ~Raced(FamilyOf(o))
    BY <1>1, <1>4, <1>5, <1>11 DEF Raced
  <2>2. QED BY <1>4, <1>11, <2>1 DEF IInv, RotationIsAlone
<1>12. RotationIsAlone'
  BY <1>10, <1>11 DEF RotationIsAlone
<1>13. OneLiveToken'
  BY <1>9 DEF OneLiveToken
<1>14. QED BY <1>12, <1>13

(* Every step leaves at most one working token to a login that was not      *)
(* raced.                                                                   *)
LEMMA RotationStep == IInv /\ [Next]_vars => RotationIsAlone' /\ OneLiveToken'
<1> SUFFICES ASSUME IInv, [Next]_vars PROVE RotationIsAlone' /\ OneLiveToken'
  OBVIOUS
<1>1. ASSUME NEW r \in Requests, NEW b \in Browsers,
             SignIn(r, b) \/ refresh(r, b) \/ logout(r, b)
      PROVE  RotationIsAlone' /\ OneLiveToken'
  <2>1. UNCHANGED rows /\ overlapped \subseteq overlapped'
    BY <1>1 DEF SignIn, refresh, logout, SendCookie, Send
  <2>2. /\ pc'[r] \in {"signIn", "refresh", "logout"}
        /\ \A o \in Requests : o # r => pc'[o] = pc[o] /\ presented'[o] = presented[o]
    BY <1>1 DEF SignIn, refresh, logout, SendCookie, Send, Go, IInv, TypeOK
  <2>3. QED BY <2>1, <2>2, QuietStep DEF rows, Live, Rotating
<1>2. ASSUME NEW r \in Requests, rotateReuse(r) \/ revoke(r)
      PROVE  RotationIsAlone' /\ OneLiveToken'
  <2>1. UNCHANGED <<family, rotated, presented, overlapped>>
    BY <1>2 DEF rotateReuse, revoke
  <2>2. \A t \in Requests : revoked'[t] = "no" => revoked[t] = "no"
    BY <1>2 DEF rotateReuse, revoke, RevokedByReuse, RevokedByLogout, IInv, TypeOK
  <2>3. /\ pc'[r] \in {"reused", "revoked"}
        /\ \A o \in Requests : o # r => pc'[o] = pc[o]
    BY <1>2 DEF rotateReuse, revoke, Go, IInv, TypeOK
  <2>4. QED BY <2>1, <2>2, <2>3, QuietStep DEF Live, Rotating
<1>3. ASSUME NEW r \in Requests, setRefreshCookie(r) \/ clearCookie(r) \/ Lose(r)
      PROVE  RotationIsAlone' /\ OneLiveToken'
  <2>1. UNCHANGED <<rows, presented, overlapped>>
    BY <1>3 DEF setRefreshCookie, clearCookie, Lose
  <2>2. /\ pc'[r] \in {"done", "loggedOut", "lost"}
        /\ \A o \in Requests : o # r => pc'[o] = pc[o]
    BY <1>3 DEF setRefreshCookie, clearCookie, Lose, Go, IInv, TypeOK
  <2>3. QED BY <2>1, <2>2, QuietStep DEF rows, Live, Rotating
<1>4. CASE Tick \/ UNCHANGED vars
  <2>1. UNCHANGED <<family, rotated, revoked, pc, presented, overlapped>>
    BY <1>4 DEF Tick, vars, rows
  <2>2. QED BY <2>1, QuietStep DEF Live, Rotating
<1>5. QED
  BY <1>1, <1>2, <1>3, <1>4, ReadStep, MarkStep, IssueStep DEF Next, Handle

(* Every step keeps the invariant.                                          *)
LEMMA InvStep == IInv /\ [Next]_vars => IInv'
BY TypeStep, WrittenStep, OverlapStep, RotationStep DEF IInv

(* The inductive invariant behind the one working token of a login.         *)
THEOREM Invariance == Spec => []IInv
BY InitInv, InvStep, PTL DEF Spec

(* Whatever is lost, wherever a rotation stops, and however many browsers   *)
(* and logins there are: a login that was not raced has at most one token   *)
(* that works.                                                              *)
THEOREM OneTokenPerLogin == Spec => []OneLiveToken
<1>1. IInv => OneLiveToken
  BY DEF IInv
<1>2. QED BY <1>1, Invariance, PTL
-----------------------------------------------------------------------------
(* How a login ends: one lemma for each part of the invariant. *)

(* A request that is sent is the only one of its login that is open. *)
LEMMA Sending ==
  ASSUME IInv, LoginInv, NEW r \in Requests, NEW b \in Browsers, refresh(r, b) \/ logout(r, b)
  PROVE  /\ UNCHANGED <<family, rotated, revoked, cookie>>
         /\ pc[r] = "idle" /\ presented[r] = None /\ pc'[r] \in {"refresh", "logout"}
         /\ cookie[b] \in Requests /\ presented'[r] = cookie[b] /\ by[cookie[b]] = b
         /\ \A o \in Requests : o # r => pc'[o] = pc[o] /\ presented'[o] = presented[o]
         /\ \A f \in Requests : ~Raced(f)' => ~Raced(f)
         /\ \A f \in Requests, o \in Requests : o # r => (Serves(o, f)' <=> Serves(o, f))
         /\ \A f \in Requests : Serves(r, f)' <=> cookie[b] \in Kin(f)
         /\ \A f \in Requests : ~Serves(r, f)
         /\ \A f \in Requests : cookie[b] \in Kin(f) /\ ~Raced(f)' => Quiet(f)
<1> USE SessionsAssumption DEF Open, Refreshing
<1>1. /\ UNCHANGED <<family, rotated, revoked, cookie>>
      /\ pc[r] = "idle" /\ pc'[r] \in {"refresh", "logout"}
      /\ cookie[b] # None /\ presented'[r] = cookie[b]
      /\ \A o \in Requests : o # r => pc'[o] = pc[o] /\ presented'[o] = presented[o]
      /\ overlapped \subseteq overlapped'
      /\ \A o \in Requests : pc[o] \in Open /\ presented[o] = cookie[b] => cookie[b] \in overlapped'
  BY DEF IInv, TypeOK, refresh, logout, SendCookie, Send, Go, rows, jar
<1>2. presented[r] = None /\ cookie[b] \in Requests /\ by[cookie[b]] = b
  BY <1>1 DEF IInv, TypeOK, TokensWereIssued, LoginInv, OneBrowserEach
<1>3. \A f : Kin(f)' = Kin(f)
  BY <1>1 DEF Kin
<1>4. \A f \in Requests : ~Raced(f)' => ~Raced(f)
  BY <1>1, <1>3 DEF Raced
<1>5. /\ \A f \in Requests, o \in Requests : o # r => (Serves(o, f)' <=> Serves(o, f))
      /\ \A f \in Requests : Serves(r, f)' <=> cookie[b] \in Kin(f)
      /\ \A f \in Requests : ~Serves(r, f)
  BY <1>1, <1>2, <1>3 DEF Serves, Kin
<1>6. ASSUME NEW f \in Requests, cookie[b] \in Kin(f), ~Raced(f)', NEW o \in Requests, Serves(o, f)
      PROVE  FALSE
  <2>1. cookie[b] = presented[o]
    BY <1>4, <1>6 DEF LoginInv, OneAtATime
  <2>2. cookie[b] \in overlapped'
    BY <1>1, <1>6, <2>1 DEF Serves
  <2>3. QED BY <1>3, <1>6, <2>2 DEF Raced
<1>7. QED BY <1>1, <1>2, <1>4, <1>5, <1>6 DEF Quiet

(* A reuse revokes tokens that were issued, and changes no browser.         *)
LEMMA ReuseRevokesIssued ==
  ASSUME IInv, LoginInv, NEW r \in Requests, rotateReuse(r)
  PROVE  OneBrowserEach'
<1>1. presented[r] \in Requests /\ family[presented[r]] # None
  BY SessionsAssumption DEF IInv, TypeOK, TokensWereIssued, rotateReuse, Refreshing
<1>2. \A u \in Requests : revoked'[u] # revoked[u] => family[u] # None
  BY <1>1 DEF rotateReuse, RevokedByReuse, Kin
<1>3. QED
  BY <1>1, <1>2, SessionsAssumption
 
 DEF rotateReuse, Go, jar, LoginInv, OneBrowserEach, IInv, TypeOK, FamilyOf, Open, Refreshing,
     Stages

(* A browser keeps and sends what it got in an answer. *)
LEMMA OneBrowserEachStep ==
  ASSUME IInv, LoginInv, [Next]_vars
  PROVE  OneBrowserEach'
<1>1. ASSUME NEW r \in Requests, rotateReuse(r) PROVE OneBrowserEach'
  BY <1>1, ReuseRevokesIssued
<1> USE SessionsAssumption
    DEF LoginInv, OneBrowserEach, TypeOK, TokensWereIssued, IInv, FamilyOf, Open, Refreshing,
        Stages
<1>2. ASSUME NEW r \in Requests, NEW b \in Browsers, SignIn(r, b) PROVE OneBrowserEach'
  BY <1>2 DEF SignIn, Send, Go, rows, jar
<1>3. ASSUME NEW r \in Requests, NEW b \in Browsers, refresh(r, b) \/ logout(r, b)
      PROVE  OneBrowserEach'
  BY <1>3 DEF refresh, logout, SendCookie, Send, Go, rows, jar
<1>4. ASSUME NEW r \in Requests, rotateRead(r) PROVE OneBrowserEach'
  BY <1>4 DEF rotateRead, Go, Spent, rows, jar
<1>5. ASSUME NEW r \in Requests, rotateMark(r) PROVE OneBrowserEach'
  BY <1>5 DEF rotateMark, Marked, Go, jar
<1>6. ASSUME NEW r \in Requests, issue(r) PROVE OneBrowserEach'
  BY <1>6 DEF issue, Go, jar
<1>7. ASSUME NEW r \in Requests, revoke(r) PROVE OneBrowserEach'
  BY <1>7 DEF revoke, RevokedByLogout, Go, jar
<1>8. ASSUME NEW r \in Requests, setRefreshCookie(r) PROVE OneBrowserEach'
  BY <1>8 DEF setRefreshCookie, Cookie, Go, rows
<1>9. ASSUME NEW r \in Requests, clearCookie(r) PROVE OneBrowserEach'
  BY <1>9 DEF clearCookie, Go, rows
<1>10. ASSUME NEW r \in Requests, Lose(r) PROVE OneBrowserEach'
  BY <1>10 DEF Lose, Go, rows, jar
<1>11. CASE Tick \/ UNCHANGED vars
  BY <1>11 DEF Tick, vars, rows, jar
<1> HIDE DEF LoginInv, OneBrowserEach, TypeOK, TokensWereIssued, IInv, FamilyOf, Open,
             Refreshing, Stages
<1>12. QED
  BY <1>1, <1>2, <1>3, <1>4, <1>5, <1>6, <1>7, <1>8, <1>9, <1>10, <1>11 DEF Next, Handle

(* A browser that sends its newest token while none is out has one request  *)
(* open.                                                                    *)
LEMMA SendingIsAlone ==
  ASSUME IInv, LoginInv, NEW r \in Requests, NEW b \in Browsers, refresh(r, b) \/ logout(r, b)
  PROVE  OneAtATime'
<1> SUFFICES ASSUME NEW f \in Requests, ~Raced(f)', NEW o \in Requests, Serves(o, f)'
             PROVE  /\ \A q \in Requests : Serves(q, f)' => q = o
                    /\ \A a \in Browsers : cookie'[a] \in Kin(f)' => cookie'[a] = presented'[o]
  BY DEF OneAtATime
<1>1. ~Raced(f) /\ Kin(f)' = Kin(f)
  BY Sending DEF Kin
<1>2. CASE o = r
  <2>1. cookie[b] \in Kin(f) /\ Quiet(f)
    BY Sending, <1>2
  <2>2. \A q \in Requests : Serves(q, f)' => q = o
    BY Sending, <1>2, <2>1 DEF Quiet
  <2>3. \A a \in Browsers : cookie[a] \in Kin(f) => a = b
    BY <2>1, SessionsAssumption DEF Kin, LoginInv, OneBrowserEach
  <2>4. QED BY Sending, <1>1, <1>2, <2>2, <2>3
<1>3. CASE o # r
  <2>1. Serves(o, f)
    BY Sending, <1>3
  <2>2. cookie[b] \notin Kin(f)
    BY Sending, <2>1 DEF Quiet
  <2>3. QED BY Sending, <1>1, <1>3, <2>1, <2>2 DEF LoginInv, OneAtATime
<1>4. QED BY <1>2, <1>3

(* The answer brings the token to the browser and ends the request.         *)
LEMMA AnswerEndsTheRequest ==
  ASSUME IInv, LoginInv, NEW r \in Requests, setRefreshCookie(r)
  PROVE  OneAtATime'
<1> USE SessionsAssumption DEF Open, Refreshing
<1>1. /\ pc[r] = "issued" /\ pc'[r] = "done" /\ \A o \in Requests : o # r => pc'[o] = pc[o]
      /\ cookie'[by[r]] = r /\ \A b \in Browsers : b # by[r] => cookie'[b] = cookie[b]
      /\ UNCHANGED <<family, presented, overlapped, by>>
      /\ family[r] # None
  BY DEF IInv, TypeOK, TokensWereIssued, setRefreshCookie, Cookie, Go, rows
<1>2. \A f : Kin(f)' = Kin(f) /\ Raced(f)' = Raced(f)
  BY <1>1 DEF Kin, Raced
<1>3. \A f \in Requests, o \in Requests : Serves(o, f)' <=> Serves(o, f) /\ o # r
  BY <1>1, <1>2 DEF Serves
<1>4. ASSUME NEW f \in Requests, ~Raced(f), r \in Kin(f), NEW o \in Requests, Serves(o, f), o # r
      PROVE  FALSE
  <2>1. CASE presented[r] = None
    <3>1. f = r /\ pc[r] = "issued"
      BY <1>1, <1>4, <2>1 DEF LoginInv, OneBrowserEach, Kin
    <3>2. presented[o] \in Requests /\ family[presented[o]] = r /\ pc[presented[o]] = "done"
      BY <1>4, <3>1 DEF Serves, Kin, LoginInv, OneBrowserEach
    <3>3. QED BY <3>1, <3>2 DEF LoginInv, OneBrowserEach
  <2>2. CASE presented[r] # None
    <3>1. Serves(r, f)
      BY <1>1, <1>4, <2>2 DEF LoginInv, OneBrowserEach, Kin, Serves, FamilyOf, IInv, TypeOK
    <3>2. QED BY <1>4, <3>1 DEF LoginInv, OneAtATime
  <2>3. QED BY <2>1, <2>2
<1>5. QED BY <1>1, <1>2, <1>3, <1>4 DEF OneAtATime, LoginInv

(* A request of a login that was not raced is its only one. *)
LEMMA OneAtATimeStep ==
  ASSUME IInv, LoginInv, [Next]_vars
  PROVE  OneAtATime'
<1>1. ASSUME NEW r \in Requests, NEW b \in Browsers, refresh(r, b) \/ logout(r, b)
      PROVE  OneAtATime'
  BY <1>1, SendingIsAlone
<1>2. ASSUME NEW r \in Requests, setRefreshCookie(r) PROVE OneAtATime'
  BY <1>2, AnswerEndsTheRequest
<1> USE SessionsAssumption
    DEF LoginInv, OneAtATime, Serves, Raced, Kin, OneBrowserEach, TypeOK, TokensWereIssued,
        IInv, Open, Refreshing
<1>3. ASSUME NEW r \in Requests, NEW b \in Browsers, SignIn(r, b) PROVE OneAtATime'
  BY <1>3 DEF SignIn, Send, Go, rows, jar
<1>4. ASSUME NEW r \in Requests, rotateRead(r) PROVE OneAtATime'
  BY <1>4 DEF rotateRead, Go, Spent, rows, jar
<1>5. ASSUME NEW r \in Requests, rotateReuse(r) PROVE OneAtATime'
  BY <1>5 DEF rotateReuse, RevokedByReuse, Go, jar
<1>6. ASSUME NEW r \in Requests, rotateMark(r) PROVE OneAtATime'
  BY <1>6 DEF rotateMark, Marked, Go, jar
<1>7. ASSUME NEW r \in Requests, issue(r) PROVE OneAtATime'
  BY <1>7 DEF issue, Go, jar
<1>8. ASSUME NEW r \in Requests, revoke(r) PROVE OneAtATime'
  BY <1>8 DEF revoke, RevokedByLogout, Go, jar
<1>9. ASSUME NEW r \in Requests, clearCookie(r) PROVE OneAtATime'
  BY <1>9 DEF clearCookie, Go, rows
<1>10. ASSUME NEW r \in Requests, Lose(r) PROVE OneAtATime'
  BY <1>10 DEF Lose, Go, rows, jar
<1>11. CASE Tick \/ UNCHANGED vars
  BY <1>11 DEF Tick, vars, rows, jar
<1> HIDE DEF LoginInv, OneAtATime, Serves, Raced, Kin, OneBrowserEach, TypeOK, TokensWereIssued,
             IInv, Open, Refreshing
<1>12. QED
  BY <1>1, <1>2, <1>3, <1>4, <1>5, <1>6, <1>7, <1>8, <1>9, <1>10, <1>11 DEF Next, Handle

(* What a browser sends is the token that works.                            *)
LEMMA SendingTheLast ==
  ASSUME IInv, LoginInv, NEW r \in Requests, NEW b \in Browsers, refresh(r, b) \/ logout(r, b)
  PROVE  OnlyTheLastWorks'
<1>1. ASSUME NEW f \in Requests, ~Raced(f)', ~MissedAnswer(f)'
      PROVE  ~Raced(f) /\ ~MissedAnswer(f)
  BY <1>1, Sending DEF MissedAnswer, Kin
<1>2. QED BY <1>1, Sending DEF OnlyTheLastWorks, LoginInv, Quiet, Kin, Live

(* What an answer brings is the token that works.                           *)
LEMMA AnswerBringsTheLast ==
  ASSUME IInv, LoginInv, NEW r \in Requests, setRefreshCookie(r)
  PROVE  OnlyTheLastWorks'
<1> USE SessionsAssumption DEF Open, Refreshing
<1>1. /\ pc[r] = "issued" /\ pc'[r] = "done" /\ \A o \in Requests : o # r => pc'[o] = pc[o]
      /\ cookie'[by[r]] = r /\ \A b \in Browsers : b # by[r] => cookie'[b] = cookie[b]
      /\ UNCHANGED <<family, presented, overlapped, by, rotated, revoked>>
      /\ family[r] # None
  BY DEF IInv, TypeOK, TokensWereIssued, setRefreshCookie, Cookie, Go, rows
<1>2. /\ \A f : Kin(f)' = Kin(f) /\ Raced(f)' = Raced(f) /\ (MissedAnswer(f) => MissedAnswer(f)')
      /\ \A u \in Requests : Live(u)' = Live(u)
  BY <1>1 DEF Kin, Raced, MissedAnswer, Live
<1>3. \A f \in Requests, o \in Requests : Serves(o, f)' <=> Serves(o, f) /\ o # r
  BY <1>1, <1>2 DEF Serves
<1>4. ASSUME NEW f \in Requests, ~Raced(f), ~MissedAnswer(f), NEW u \in Kin(f), Live(u),
             NEW b \in Browsers, cookie'[b] \in Kin(f), Quiet(f)'
      PROVE  u = cookie'[b]
  <2>1. CASE Quiet(f) /\ cookie'[b] # r
    BY <1>1, <1>4, <2>1 DEF LoginInv, OnlyTheLastWorks
  <2>2. CASE cookie'[b] = r
    <3>1. CASE presented[r] = None
      BY <1>1, <1>4, <2>2, <3>1 DEF LoginInv, OneBrowserEach, Kin
    <3>2. CASE presented[r] # None
      <4>1. Serves(r, f)
        BY <1>1, <1>4, <2>2, <3>2 DEF LoginInv, OneBrowserEach, Kin, Serves, FamilyOf, IInv, TypeOK
      <4>2. QED BY <1>1, <1>4, <2>2, <4>1 DEF LoginInv, OnlyTheLastWorks
    <3>3. QED BY <3>1, <3>2
  <2>3. CASE cookie'[b] # r /\ Serves(r, f)
    <3>1. b = by[r]
      <4>1. cookie[b] \in Kin(f) /\ by[cookie[b]] = b
        BY <1>1, <1>4, <2>3 DEF LoginInv, OneBrowserEach, Kin
      <4>2. presented[r] \in Kin(f) /\ by[presented[r]] = by[r]
        BY <2>3 DEF Serves, LoginInv, OneBrowserEach, Kin
      <4>3. QED BY <4>1, <4>2 DEF LoginInv, OneBrowserEach, Kin
    <3>2. QED BY <1>1, <2>3, <3>1
  <2>4. QED BY <1>3, <1>4, <2>1, <2>2, <2>3 DEF Quiet
<1>5. \A f \in Requests, o \in Requests : Serves(o, f)' =>
         presented'[o] = presented[o] /\ pc'[o] = pc[o]
  BY <1>1, <1>3
<1>6. SUFFICES ASSUME NEW f \in Requests, ~Raced(f)', ~MissedAnswer(f)', NEW u \in Kin(f)', Live(u)'
               PROVE  /\ \A o \in Requests : Serves(o, f)' =>
                             /\ pc'[o] \notin {"marked", "revoked"}
                             /\ u = IF pc'[o] = "issued" THEN o ELSE presented'[o]
                      /\ \A b \in Browsers : cookie'[b] \in Kin(f)' /\ Quiet(f)' => u = cookie'[b]
  BY DEF OnlyTheLastWorks
<1>7. ~Raced(f) /\ ~MissedAnswer(f) /\ u \in Kin(f) /\ u \in Requests /\ Live(u) /\ Kin(f)' = Kin(f)
  BY <1>2, <1>6 DEF Kin
<1>8. QED BY <1>3, <1>4, <1>5, <1>7 DEF OnlyTheLastWorks, LoginInv

(* What is issued belongs to a new login, or to the one the request rotates *)
(* in; no browser has it yet.                                               *)
LEMMA Issuing ==
  ASSUME IInv, LoginInv, NEW r \in Requests, issue(r)
  PROVE  /\ pc[r] \in {"signIn", "marked"} /\ pc'[r] = "issued"
         /\ \A o \in Requests : o # r => pc'[o] = pc[o]
         /\ UNCHANGED <<rotated, revoked, presented, overlapped, cookie>>
         /\ ~Live(r) /\ r \notin rotated /\ revoked[r] = "no"
         /\ \A t \in Requests : t # r => Live(t)' = Live(t)
         /\ \A f \in Requests : ~Raced(f)' => ~Raced(f)
         /\ \A f \in Requests : ~MissedAnswer(f)' => ~MissedAnswer(f)
         /\ \A f \in Requests : ~LoggedOut(f)' => ~LoggedOut(f)
         /\ \A f \in Requests : Kin(f)' \subseteq Kin(f) \cup {r}
         /\ \A f \in Requests : r \in Kin(f)' =>
               (f = r /\ Kin(f)' = {r}) \/ (pc[r] = "marked" /\ Serves(r, f))
         /\ \A o \in Requests, f \in Requests : Serves(o, f)' => Serves(o, f) /\ f # r
         /\ \A o \in Requests, f \in Requests : Serves(o, f) => Serves(o, f)'
         /\ \A b \in Browsers, f \in Requests :
               cookie[b] \in Kin(f)' => cookie[b] \in Kin(f) /\ f # r
<1> USE SessionsAssumption DEF Open, Refreshing
<1>1. /\ pc[r] \in {"signIn", "marked"} /\ family[r] = None
      /\ family'[r] = IF pc[r] = "signIn" THEN r ELSE FamilyOf(r)
      /\ pc'[r] = "issued" /\ \A o \in Requests : o # r => pc'[o] = pc[o]
      /\ \A t \in Requests : t # r => family'[t] = family[t]
      /\ UNCHANGED <<rotated, revoked, presented, overlapped, cookie>>
  BY DEF IInv, TypeOK, TokensWereIssued, issue, Go, FamilyOf, jar
<1>2. r \notin rotated /\ revoked[r] = "no" /\ ~Live(r)
      /\ \A t \in Requests : t # r => Live(t)' = Live(t)
  BY <1>1 DEF LoginInv, OneBrowserEach, Live
<1>3. \A f \in Requests : Kin(f) \subseteq Kin(f)' /\ Kin(f)' \subseteq Kin(f) \cup {r}
                           /\ Kin(f) \subseteq Requests \ {r}
  BY <1>1 DEF Kin
<1>4. \A f \in Requests :
        /\ ~Raced(f)' => ~Raced(f)
        /\ ~MissedAnswer(f)' => ~MissedAnswer(f)
        /\ ~LoggedOut(f)' => ~LoggedOut(f)
  BY <1>1, <1>3 DEF Raced, MissedAnswer, LoggedOut
<1>5. Kin(r) = {}
  BY <1>1 DEF LoginInv, OneBrowserEach, Kin
<1>6. \A o \in Requests : presented[o] # r
  BY <1>1 DEF LoginInv, OneBrowserEach
<1>7. \A b \in Browsers : cookie[b] # r
  BY <1>1 DEF LoginInv, OneBrowserEach
<1>8. \A f \in Requests : r \in Kin(f)' =>
         (f = r /\ Kin(f)' = {r}) \/ (pc[r] = "marked" /\ Serves(r, f))
  <2> SUFFICES ASSUME NEW f \in Requests, r \in Kin(f)'
               PROVE  (f = r /\ Kin(f)' = {r}) \/ (pc[r] = "marked" /\ Serves(r, f))
    OBVIOUS
  <2>1. CASE pc[r] = "signIn"
    <3>1. f = r
      BY <1>1, <2>1 DEF Kin
    <3>2. Kin(f) = {}
      BY <1>5, <3>1
    <3>3. \A t \in Kin(f)' : t = r
      BY <1>1, <3>2 DEF Kin
    <3>4. Kin(f)' = {r}
      BY <3>3
    <3>5. QED BY <3>1, <3>4
  <2>2. CASE pc[r] = "marked"
    BY <1>1, <2>2 DEF Kin, Serves, FamilyOf, IInv, TypeOK, TokensWereIssued
  <2>3. QED BY <1>1, <2>1, <2>2
<1>9. \A o \in Requests, f \in Requests : Serves(o, f)' => Serves(o, f) /\ f # r
  BY <1>1, <1>3, <1>5, <1>6 DEF Serves
<1>10. \A o \in Requests, f \in Requests : Serves(o, f) => Serves(o, f)'
  BY <1>1, <1>3 DEF Serves
<1>11. \A b \in Browsers, f \in Requests :
         cookie[b] \in Kin(f)' => cookie[b] \in Kin(f) /\ f # r
  BY <1>3, <1>5, <1>7
<1>12. QED BY <1>1, <1>2, <1>3, <1>4, <1>8, <1>9, <1>10, <1>11

(* What a rotation issues is the token that works.                          *)
LEMMA IssuingTheLast ==
  ASSUME IInv, LoginInv, NEW r \in Requests, issue(r)
  PROVE  OnlyTheLastWorks'
<1> SUFFICES ASSUME NEW f \in Requests, ~Raced(f)', ~MissedAnswer(f)', NEW u \in Kin(f)', Live(u)'
             PROVE  /\ \A o \in Requests : Serves(o, f)' =>
                         /\ pc'[o] \notin {"marked", "revoked"}
                         /\ u = IF pc'[o] = "issued" THEN o ELSE presented'[o]
                    /\ \A b \in Browsers : cookie'[b] \in Kin(f)' /\ Quiet(f)' => u = cookie'[b]
  BY DEF OnlyTheLastWorks
<1>1. ~Raced(f) /\ ~MissedAnswer(f) /\ u \in Requests
  BY Issuing DEF Kin
<1>2. CASE u = r
  <2>1. \A o \in Requests : Serves(o, f)' => o = r
    BY <1>1, <1>2, Issuing DEF LoginInv, OneAtATime
  <2>2. \A b \in Browsers : cookie'[b] \in Kin(f)' => ~Quiet(f)'
    BY <1>2, Issuing DEF Quiet
  <2>3. QED BY <1>2, <2>1, <2>2, Issuing
<1>3. CASE u # r
  <2>1. u \in Kin(f) /\ Live(u)
    BY <1>1, <1>3, Issuing
  <2>2. ~Serves(r, f)
    <3>1. pc[r] = "signIn" => presented[r] \notin Kin(f)
      BY SessionsAssumption DEF IInv, TokensWereIssued, Kin
    <3>2. QED BY <1>1, <2>1, <3>1, Issuing DEF LoginInv, OnlyTheLastWorks, Serves
  <2>3. Quiet(f)' => Quiet(f)
    BY Issuing DEF Quiet
  <2>4. \A o \in Requests : Serves(o, f)' =>
          Serves(o, f) /\ o # r /\ pc'[o] = pc[o] /\ presented'[o] = presented[o]
    BY <2>2, Issuing
  <2>5. \A b \in Browsers : cookie'[b] \in Kin(f)' => cookie[b] \in Kin(f) /\ cookie'[b] = cookie[b]
    BY Issuing
  <2>6. QED BY <1>1, <2>1, <2>3, <2>4, <2>5 DEF LoginInv, OnlyTheLastWorks
<1>4. QED BY <1>2, <1>3

(* Time may take a cookie away, and gives no browser another one.           *)
LEMMA TimeTakesOnlyCookies ==
  ASSUME IInv, LoginInv, Tick \/ UNCHANGED vars
  PROVE  OnlyTheLastWorks'
<1>1. /\ UNCHANGED <<family, rotated, revoked, pc, presented, overlapped>>
      /\ \A b \in Browsers : cookie'[b] \in {None, cookie[b]}
  BY DEF Tick, vars, rows, jar
<1>2. /\ \A f : /\ Kin(f)' = Kin(f) /\ Raced(f)' = Raced(f)
               /\ MissedAnswer(f)' = MissedAnswer(f) /\ Quiet(f)' = Quiet(f)
               /\ None \notin Kin(f)
      /\ \A u \in Requests : Live(u)' = Live(u)
      /\ \A o \in Requests, f \in Requests : Serves(o, f)' = Serves(o, f)
  BY <1>1, SessionsAssumption DEF Kin, Raced, MissedAnswer, Quiet, Serves, Live
<1>3. ASSUME NEW f \in Requests, NEW b \in Browsers, cookie'[b] \in Kin(f)'
      PROVE  cookie[b] \in Kin(f) /\ cookie'[b] = cookie[b]
  BY <1>1, <1>2, <1>3
<1>4. \A f \in Requests : \A u \in Kin(f)' : u \in Requests /\ u \in Kin(f)
  BY <1>2 DEF Kin
<1>5. QED BY <1>1, <1>2, <1>3, <1>4 DEF LoginInv, OnlyTheLastWorks

(* Each answer leaves the token it carries as the last that works. *)
LEMMA OnlyTheLastWorksStep ==
  ASSUME IInv, LoginInv, [Next]_vars
  PROVE  OnlyTheLastWorks'
<1>1. ASSUME NEW r \in Requests, NEW b \in Browsers, refresh(r, b) \/ logout(r, b)
      PROVE  OnlyTheLastWorks'
  BY <1>1, SendingTheLast
<1>2. ASSUME NEW r \in Requests, setRefreshCookie(r) PROVE OnlyTheLastWorks'
  BY <1>2, AnswerBringsTheLast
<1>3. ASSUME NEW r \in Requests, issue(r) PROVE OnlyTheLastWorks'
  BY <1>3, IssuingTheLast
<1>4. CASE Tick \/ UNCHANGED vars
  BY <1>4, TimeTakesOnlyCookies
<1> USE SessionsAssumption
    DEF LoginInv, OnlyTheLastWorks, OneAtATime, Quiet, MissedAnswer, Live, Serves, Raced, Kin,
        OneBrowserEach, TypeOK, TokensWereIssued, IInv, Open, Refreshing
<1>5. ASSUME NEW r \in Requests, NEW b \in Browsers, SignIn(r, b) PROVE OnlyTheLastWorks'
  BY <1>5 DEF SignIn, Send, Go, rows, jar
<1>6. ASSUME NEW r \in Requests, rotateRead(r) PROVE OnlyTheLastWorks'
  BY <1>6 DEF rotateRead, Go, Spent, rows, jar
<1>7. ASSUME NEW r \in Requests, rotateReuse(r) PROVE OnlyTheLastWorks'
  BY <1>7 DEF rotateReuse, RevokedByReuse, Go, jar
<1>8. ASSUME NEW r \in Requests, rotateMark(r) PROVE OnlyTheLastWorks'
  BY <1>8 DEF rotateMark, Marked, Go, jar
<1>9. ASSUME NEW r \in Requests, revoke(r) PROVE OnlyTheLastWorks'
  BY <1>9 DEF revoke, RevokedByLogout, Go, jar
<1>10. ASSUME NEW r \in Requests, clearCookie(r) PROVE OnlyTheLastWorks'
  BY <1>10 DEF clearCookie, Go, rows
<1>11. ASSUME NEW r \in Requests, Lose(r) PROVE OnlyTheLastWorks'
  BY <1>11 DEF Lose, Go, rows, jar
<1> HIDE DEF LoginInv, OnlyTheLastWorks, OneAtATime, Quiet, MissedAnswer, Live, Serves, Raced,
             Kin, OneBrowserEach, TypeOK, TokensWereIssued, IInv, Open, Refreshing
<1>12. QED
  BY <1>1, <1>2, <1>3, <1>4, <1>5, <1>6, <1>7, <1>8, <1>9, <1>10, <1>11 DEF Next, Handle

(* A token that works when it is sent is not taken for one that was reused. *)
LEMMA SendingWhatWorks ==
  ASSUME IInv, LoginInv, NEW r \in Requests, NEW b \in Browsers, refresh(r, b) \/ logout(r, b)
  PROVE  TheLastWorks'
<1>1. ASSUME NEW f \in Requests, Calm(f)'
      PROVE  Calm(f)
  BY <1>1, Sending DEF Calm, MissedAnswer, LoggedOut, Kin
<1>2. ASSUME NEW f \in Requests, Calm(f)', NEW o \in Requests, Serves(o, f)', pc'[o] = "refresh"
      PROVE  presented'[o] \notin rotated'
  <2>1. CASE o = r
    <3>1. cookie[b] \in Kin(f) /\ Quiet(f)
      BY <1>2, <2>1, Sending DEF Calm
    <3>2. QED BY <1>1, <1>2, <2>1, <3>1, Sending DEF TheLastWorks, LoginInv
  <2>2. QED BY <1>1, <1>2, <2>1, Sending DEF TheLastWorks, LoginInv
<1>3. QED BY <1>1, <1>2, Sending DEF TheLastWorks, LoginInv, Quiet, Kin

(* A token that is issued works.                                            *)
LEMMA IssuingWhatWorks ==
  ASSUME IInv, LoginInv, NEW r \in Requests, issue(r)
  PROVE  TheLastWorks'
<1> SUFFICES ASSUME NEW f \in Requests, Calm(f)'
             PROVE  /\ \A u \in Kin(f)' :
                          revoked'[u] = "no" /\ (pc'[u] = "issued" => u \notin rotated')
                    /\ \A o \in Requests :
                          pc'[o] \in {"reuse", "reused"} => presented'[o] \notin Kin(f)'
                    /\ \A o \in Requests :
                          Serves(o, f)' /\ pc'[o] = "refresh" => presented'[o] \notin rotated'
                    /\ \A b \in Browsers :
                          cookie'[b] \in Kin(f)' /\ Quiet(f)' => cookie'[b] \notin rotated'
  BY DEF TheLastWorks
<1>1. Calm(f) /\ UNCHANGED <<rotated, revoked, presented, cookie>>
  BY Issuing DEF Calm
<1>2. \A u \in Kin(f)' : u # r => u \in Kin(f) /\ pc'[u] = pc[u]
  BY Issuing DEF Kin
<1>3. \A u \in Kin(f)' : revoked'[u] = "no" /\ (pc'[u] = "issued" => u \notin rotated')
  BY <1>1, <1>2, Issuing DEF LoginInv, TheLastWorks
<1>4. \A o \in Requests : pc'[o] \in {"reuse", "reused"} => presented'[o] \notin Kin(f)'
  <2>1. \A o \in Requests : presented[o] # r
    BY SessionsAssumption, Issuing DEF LoginInv, OneBrowserEach
  <2>2. QED BY <1>1, <1>2, <2>1, Issuing DEF LoginInv, TheLastWorks
<1>5. \A o \in Requests : Serves(o, f)' /\ pc'[o] = "refresh" => presented'[o] \notin rotated'
  BY <1>1, Issuing DEF LoginInv, TheLastWorks
<1>6. \A b \in Browsers : cookie'[b] \in Kin(f)' /\ Quiet(f)' => cookie'[b] \notin rotated'
  BY <1>1, Issuing DEF LoginInv, TheLastWorks, Quiet
<1>7. QED BY <1>3, <1>4, <1>5, <1>6

(* And nothing but a logout or a reuse takes that one. *)
LEMMA TheLastWorksStep ==
  ASSUME IInv, LoginInv, [Next]_vars
  PROVE  TheLastWorks'
<1>1. ASSUME NEW r \in Requests, NEW b \in Browsers, refresh(r, b) \/ logout(r, b)
      PROVE  TheLastWorks'
  BY <1>1, SendingWhatWorks
<1>2. ASSUME NEW r \in Requests, issue(r) PROVE TheLastWorks'
  BY <1>2, IssuingWhatWorks
<1> USE SessionsAssumption
    DEF LoginInv, TheLastWorks, OneAtATime, Calm, LoggedOut, Quiet, MissedAnswer, Serves, Raced,
        Kin, OneBrowserEach, TypeOK, TokensWereIssued, IInv, Open, Refreshing
<1>3. ASSUME NEW r \in Requests, NEW b \in Browsers, SignIn(r, b) PROVE TheLastWorks'
  BY <1>3 DEF SignIn, Send, Go, rows, jar
<1>4. ASSUME NEW r \in Requests, rotateRead(r) PROVE TheLastWorks'
  BY <1>4 DEF rotateRead, Go, Spent, rows, jar
<1>5. ASSUME NEW r \in Requests, rotateReuse(r) PROVE TheLastWorks'
  BY <1>5 DEF rotateReuse, RevokedByReuse, Go, jar
<1>6. ASSUME NEW r \in Requests, rotateMark(r) PROVE TheLastWorks'
  BY <1>6 DEF rotateMark, Marked, Go, jar
<1>7. ASSUME NEW r \in Requests, revoke(r) PROVE TheLastWorks'
  BY <1>7 DEF revoke, RevokedByLogout, Go, jar
<1>8. ASSUME NEW r \in Requests, setRefreshCookie(r) PROVE TheLastWorks'
  BY <1>8 DEF setRefreshCookie, Cookie, Go, rows
<1>9. ASSUME NEW r \in Requests, clearCookie(r) PROVE TheLastWorks'
  BY <1>9 DEF clearCookie, Go, rows
<1>10. ASSUME NEW r \in Requests, Lose(r) PROVE TheLastWorks'
  BY <1>10 DEF Lose, Go, rows, jar
<1>11. CASE Tick \/ UNCHANGED vars
  BY <1>11 DEF Tick, vars, rows, jar
<1> HIDE DEF LoginInv, TheLastWorks, OneAtATime, Calm, LoggedOut, Quiet, MissedAnswer, Serves,
             Raced, Kin, OneBrowserEach, TypeOK, TokensWereIssued, IInv, Open, Refreshing
<1>12. QED
  BY <1>1, <1>2, <1>3, <1>4, <1>5, <1>6, <1>7, <1>8, <1>9, <1>10, <1>11 DEF Next, Handle

(* A request sent after a login has ended brings nothing of it back.        *)
LEMMA SendingAfterTheEnd ==
  ASSUME IInv, LoginInv, NEW r \in Requests, NEW b \in Browsers, refresh(r, b) \/ logout(r, b)
  PROVE  EndedIsOver'
<1>1. ASSUME NEW f \in Requests
      PROVE  /\ ~Raced(f)' => ~Raced(f) 
             /\ ~MissedAnswer(f)' => ~MissedAnswer(f)
             /\ Over(f) => Over(f)'
  BY <1>1, Sending DEF MissedAnswer, Kin, Over, Dead, Live, Rotating, FamilyOf
<1>2. ASSUME NEW o \in Requests, pc'[o] \in {"reused", "loggedOut"}
      PROVE  o # r /\ FamilyOf(o)' = FamilyOf(o) /\ FamilyOf(o) \in Requests
  BY <1>2, Sending, SessionsAssumption
  DEF FamilyOf, IInv, TypeOK, LoginInv, OneBrowserEach, TokensWereIssued
<1>3. QED BY <1>1, <1>2, Sending DEF EndedIsOver, LoginInv

(* Nor is a token issued in a login that has ended.                         *)
LEMMA NoneIsIssuedAfterTheEnd ==
  ASSUME IInv, LoginInv, NEW r \in Requests, issue(r)
  PROVE  EndedIsOver'
<1> USE SessionsAssumption DEF Open, Refreshing
<1>1. /\ pc[r] \in {"signIn", "marked"} /\ family[r] = None
      /\ family'[r] = IF pc[r] = "signIn" THEN r ELSE FamilyOf(r)
      /\ pc'[r] = "issued" /\ \A o \in Requests : o # r => pc'[o] = pc[o]
      /\ \A t \in Requests : t # r => family'[t] = family[t]
      /\ UNCHANGED <<rotated, revoked, presented, overlapped>>
  BY DEF IInv, TypeOK, TokensWereIssued, issue, Go, FamilyOf
<1>2. \A o \in Requests : presented[o] # None =>
        presented[o] \in Requests /\ presented[o] # r /\ FamilyOf(o) # r
          /\ FamilyOf(o) # None /\ FamilyOf(o)' = FamilyOf(o)
  BY <1>1 DEF LoginInv, OneBrowserEach, IInv, TypeOK, TokensWereIssued, FamilyOf
<1>3. \A o \in Requests : Rotating(o)' => Rotating(o) /\ presented[o] # None
  BY <1>1 DEF Rotating, IInv, TokensWereIssued
<1>4. ASSUME NEW f \in Requests, f # r, Over(f)
      PROVE  Over(f)'
  <2>1. family'[r] # f
    BY <1>1, <1>4 DEF Over, Rotating
  <2>2. Kin(f)' = Kin(f) /\ r \notin Kin(f)
    BY <1>1, <1>4, <2>1 DEF Kin
  <2>3. Dead(f)'
    BY <1>1, <1>4, <2>2 DEF Over, Dead, Live, Kin
  <2>4. QED BY <1>2, <1>3, <1>4, <2>3 DEF Over
<1>5. \A f \in Requests : f # r =>
        /\ ~Raced(f)' => ~Raced(f)
        /\ ~MissedAnswer(f)' => ~MissedAnswer(f)
  BY <1>1 DEF Raced, MissedAnswer, Kin
<1>6. \A o \in Requests : pc'[o] \in {"reused", "loggedOut"} =>
        /\ pc[o] = pc'[o]
        /\ FamilyOf(o) \in Requests /\ FamilyOf(o) # r /\ FamilyOf(o)' = FamilyOf(o)
  BY <1>1, <1>2 DEF LoginInv, OneBrowserEach, IInv, TypeOK, FamilyOf
<1>7. QED BY <1>4, <1>5, <1>6 DEF LoginInv, EndedIsOver

(* After a reuse or a logout nobody rotates, so nothing is issued. *)
LEMMA EndedIsOverStep ==
  ASSUME IInv, LoginInv, [Next]_vars
  PROVE  EndedIsOver'
<1>1. ASSUME NEW r \in Requests, NEW b \in Browsers, refresh(r, b) \/ logout(r, b)
      PROVE  EndedIsOver'
  BY <1>1, SendingAfterTheEnd
<1>2. ASSUME NEW r \in Requests, issue(r) PROVE EndedIsOver'
  BY <1>2, NoneIsIssuedAfterTheEnd
<1> USE SessionsAssumption
    DEF LoginInv, EndedIsOver, Over, Dead, Rotating, FamilyOf, OnlyTheLastWorks, OneAtATime,
        Quiet, MissedAnswer, Live, Serves, Raced, Kin, OneBrowserEach, TypeOK, TokensWereIssued,
        IInv, Open, Refreshing
<1>3. ASSUME NEW r \in Requests, NEW b \in Browsers, SignIn(r, b) PROVE EndedIsOver'
  BY <1>3 DEF SignIn, Send, Go, rows, jar
<1>4. ASSUME NEW r \in Requests, rotateRead(r) PROVE EndedIsOver'
  BY <1>4 DEF rotateRead, Go, Spent, rows, jar
<1>5. ASSUME NEW r \in Requests, rotateReuse(r) PROVE EndedIsOver'
  BY <1>5 DEF rotateReuse, RevokedByReuse, Go, jar
<1>6. ASSUME NEW r \in Requests, rotateMark(r) PROVE EndedIsOver'
  BY <1>6 DEF rotateMark, Marked, Go, jar
<1>7. ASSUME NEW r \in Requests, revoke(r) PROVE EndedIsOver'
  BY <1>7 DEF revoke, RevokedByLogout, Go, jar
<1>8. ASSUME NEW r \in Requests, setRefreshCookie(r) PROVE EndedIsOver'
  BY <1>8 DEF setRefreshCookie, Cookie, Go, rows
<1>9. ASSUME NEW r \in Requests, clearCookie(r) PROVE EndedIsOver'
  BY <1>9 DEF clearCookie, Go, rows
<1>10. ASSUME NEW r \in Requests, Lose(r) PROVE EndedIsOver'
  BY <1>10 DEF Lose, Go, rows, jar
<1>11. CASE Tick \/ UNCHANGED vars
  BY <1>11 DEF Tick, vars, rows, jar
<1> HIDE DEF LoginInv, EndedIsOver, Over, Dead, Rotating, FamilyOf, OnlyTheLastWorks,
             OneAtATime, Quiet, MissedAnswer, Live, Serves, Raced, Kin, OneBrowserEach, TypeOK,
             TokensWereIssued, IInv, Open, Refreshing
<1>12. QED
  BY <1>1, <1>2, <1>3, <1>4, <1>5, <1>6, <1>7, <1>8, <1>9, <1>10, <1>11 DEF Next, Handle

(* Before the first sign-in nothing of a login is anywhere.                 *)
LEMMA LoginInit == Init => LoginInv
BY SessionsAssumption
DEF Init, LoginInv, OneBrowserEach, OneAtATime, OnlyTheLastWorks, TheLastWorks, EndedIsOver,
    Serves, Kin, Open, Refreshing

(* Every step keeps what is said of how a login ends.                       *)
LEMMA LoginStep == IInv /\ LoginInv /\ [Next]_vars => LoginInv'
<1> SUFFICES ASSUME IInv, LoginInv, [Next]_vars PROVE LoginInv'
  OBVIOUS
<1>1. QED
  BY OneBrowserEachStep, OneAtATimeStep, OnlyTheLastWorksStep, TheLastWorksStep, EndedIsOverStep
  DEF LoginInv

(* The browser of a login that was not raced has its newest token, or that  *)
(* token is on its way in the one answer it waits for: the invariant behind *)
(* the three results about how a login ends.                                *)
THEOREM LoginsHold == Spec => []LoginInv
BY Invariance, LoginInit, LoginStep, PTL DEF Spec

(* A browser whose requests did not cross, that missed no answer and that   *)
(* did not log out, is never told that its token was reused.                *)
THEOREM ReuseIsEarned == Spec => []ReuseHasCause
<1>1. IInv /\ LoginInv => ReuseHasCause
  BY SessionsAssumption
  DEF IInv, TypeOK, TokensWereIssued, LoginInv, OneBrowserEach, TheLastWorks, Calm, Kin,
      ReuseHasCause
<1>2. QED BY <1>1, Invariance, LoginsHold, PTL

(* A logout that was answered left no token of the login that works, and    *)
(* none will be issued.                                                     *)
THEOREM LogoutIsFinal == Spec => []LogoutEnds
<1>1. LoginInv => LogoutEnds
  BY DEF LoginInv, EndedIsOver, Over, LogoutEnds, FamilyOf
<1>2. QED BY <1>1, LoginsHold, PTL

(* "the whole family is revoked": after a reuse was answered no token of    *)
(* the login works, and none will be issued.                                *)
THEOREM ReuseIsFinal == Spec => []ReuseEndsLogin
<1>1. LoginInv => ReuseEndsLogin
  BY DEF LoginInv, EndedIsOver, Over, ReuseEndsLogin, FamilyOf
<1>2. QED BY <1>1, LoginsHold, PTL
================================================================================
