-------------------------- MODULE AuthSessionsProofs --------------------------
(***************************************************************************)
(* Proofs about AuthSessions for every set of users and every finite set   *)
(* of tokens and of requests, either store and every pattern of failures.  *)
(***************************************************************************)
EXTENDS AuthSessions, FiniteSetTheorems, TLAPS

-----------------------------------------------------------------------------
(* The inductive invariant *)

\* No user, one without MFA, or one of whom a code was accepted, which the
\* MemoryStore has on record.
Solved(u) == u \in MFAUser => u \in solved /\ (backend = "memory" => u \in mfaLog)

\* Every stored token is of such a user, and the others are of nobody.
TokensSound ==
    \A t \in Token :
       /\ Solved(tokens[t].user)
       /\ tokens[t].state = "unused" => tokens[t].from = NoToken

\* What a request whose record is q holds between two calls: the user it gives
\* tokens to had a code accepted if one is needed; a refresh names a stored
\* token, which is revoked after the second call, unless that call failed; MFA
\* codes start without a token, and only users with MFA are challenged.
RequestSound(q) ==
    /\ q.at \in {"revoke", "user", "save"} => Solved(q.user)
    /\ q.at = "revoke" => q.old \in Token /\ tokens[q.old].state # "unused"
    /\ q.at \in {"user", "save"} /\ q.old \in Token /\ ~MayFail =>
         tokens[q.old].state = "revoked"
    /\ q.at = "auth.mfa.success" => q.user \in solved /\ q.old = NoToken
    /\ q.at = "auth.mfa.challenge" => q.user \in MFAUser

RequestsSound == \A r \in Request : RequestSound(req[r])

IInv == TypeOK /\ TokensSound /\ RequestsSound

-----------------------------------------------------------------------------
(* Operators *)

LEMMA IdleRecord == Idle \in RequestState /\ Idle.at = "idle"
  BY DEF Idle, RequestState, Point, AuditAction

LEMMA AtRecord ==
  ASSUME NEW p \in Point, NEW u \in User \cup {NoUser}, NEW t \in Token \cup {NoToken}
  PROVE  /\ At(p, u, t) \in RequestState
         /\ At(p, u, t).at = p /\ At(p, u, t).user = u /\ At(p, u, t).old = t
         /\ At(p, u, t).new = NoToken
  BY DEF At, RequestState

\* In memory no call fails.
LEMMA MemoryNeverFails == backend = "memory" => ~MayFail
  BY DEF MayFail

\* RevokeRefreshToken changes the state of one stored token only.
LEMMA RevokedRow ==
  ASSUME TypeOK, NEW t \in Token
  PROVE  /\ Revoked(t) \in [Token -> TokenRecord]
         /\ \A s \in Token :
               /\ Revoked(t)[s].user = tokens[s].user /\ Revoked(t)[s].from = tokens[s].from
               /\ Revoked(t)[s].expired = tokens[s].expired
               /\ Revoked(t)[s].state \in {tokens[s].state, "revoked"}
               /\ tokens[s].state = "unused" => Revoked(t)[s].state = "unused"
         /\ tokens[t].state # "unused" => Revoked(t)[t].state = "revoked"
<1>1. CASE tokens[t].state = "unused"
  BY <1>1 DEF Revoked, TypeOK
<1>2. CASE tokens[t].state # "unused"
  <2>1. Revoked(t) = [tokens EXCEPT ![t].state = "revoked"]
    BY <1>2 DEF Revoked
  <2>2. QED
    BY <1>2, <2>1 DEF TypeOK, TokenRecord
<1>3. QED
  BY <1>1, <1>2

-----------------------------------------------------------------------------
(* What one step leaves alone *)

\* The step of a request on the token it asks to be revoked, or none.
RevokesOrNot == tokens' = tokens \/ \E t \in Token : tokens' = Revoked(t)

\* The step that stores a token nobody has seen, given for the one of q.
StoresFor(q) ==
    \E t \in Token : /\ tokens[t].state = "unused"
                     /\ tokens' = [tokens EXCEPT ![t] =
                           [state |-> "live", expired |-> FALSE, user |-> q.user,
                            from |-> q.old]]

\* The step of time on one token.
Expires ==
    \E t \in Token : /\ tokens[t].state # "unused"
                     /\ tokens' = [tokens EXCEPT ![t].expired = TRUE]

\* How a step may change the tokens.
LEMMA TokenSteps ==
  ASSUME IInv, [Next]_vars
  PROVE  \/ RevokesOrNot
         \/ Expires
         \/ \E r \in Request : SaveRefreshToken(r) /\ StoresFor(req[r])
<1>1. ASSUME NEW r \in Request, RefreshRevoke(r) PROVE RevokesOrNot
  <2> PICK q \in RequestState : q = req[r]
    BY DEF IInv, TypeOK
  <2>1. q.at = "revoke" /\ RequestSound(q) /\ tokens' \in {tokens, Revoked(q.old)}
    BY <1>1 DEF RefreshRevoke, IInv, RequestsSound
  <2>2. q.old \in Token
    BY <2>1 DEF RequestSound
  <2>3. QED
    BY <2>1, <2>2 DEF RevokesOrNot
<1>2. ASSUME NEW r \in Request, Logout(r) PROVE RevokesOrNot
  BY <1>2 DEF Logout, RevokesOrNot, IInv, TypeOK
<1>3. ASSUME NEW r \in Request, SaveRefreshToken(r) PROVE RevokesOrNot \/ StoresFor(req[r])
  BY <1>3 DEF SaveRefreshToken, Fresh, StoresFor, RevokesOrNot
<1>4. ASSUME NEW t \in Token, ExpireToken(t) PROVE Expires
  BY <1>4 DEF ExpireToken, Expires
<1>5. ASSUME tokens' = tokens PROVE RevokesOrNot
  BY <1>5 DEF RevokesOrNot
<1>6. QED
  BY <1>1, <1>2, <1>3, <1>4, <1>5
     DEF Next, vars, Login, VerifyMFA, RefreshLookup, RefreshUser, RecordAudit,
         ExpireChallenge, Restart

\* A token that is stored keeps its user and the token it was given for, and
\* once revoked stays so; codes that were accepted stay accepted and on record.
LEMMA TokensStay ==
  ASSUME IInv, [Next]_vars
  PROVE  /\ backend' = backend /\ solved \subseteq solved' /\ mfaLog \subseteq mfaLog'
         /\ \A t \in Token : tokens[t].state # "unused" =>
               /\ tokens'[t].state # "unused"
               /\ tokens'[t].user = tokens[t].user /\ tokens'[t].from = tokens[t].from
               /\ tokens[t].state = "revoked" => tokens'[t].state = "revoked"
               /\ tokens[t].expired => tokens'[t].expired
<1> DEFINE Kept == \A t \in Token : tokens[t].state # "unused" =>
                      /\ tokens'[t].state # "unused"
                      /\ tokens'[t].user = tokens[t].user /\ tokens'[t].from = tokens[t].from
                      /\ tokens[t].state = "revoked" => tokens'[t].state = "revoked"
                      /\ tokens[t].expired => tokens'[t].expired
<1>1. backend' = backend /\ solved \subseteq solved' /\ mfaLog \subseteq mfaLog'
  BY DEF Next, vars, Login, VerifyMFA, Logout, RefreshLookup, RefreshRevoke, RefreshUser,
         SaveRefreshToken, RecordAudit, ExpireToken, ExpireChallenge, Restart
<1>2. ASSUME RevokesOrNot PROVE Kept
  BY <1>2, RevokedRow DEF RevokesOrNot, IInv, TypeOK
<1>3. ASSUME Expires PROVE Kept
  BY <1>3 DEF Expires, IInv, TypeOK, TokenRecord
<1>4. ASSUME NEW r \in Request, StoresFor(req[r]) PROVE Kept
  BY <1>4 DEF StoresFor, IInv, TypeOK
<1> HIDE DEF Kept
<1>5. Kept
  BY <1>2, <1>3, <1>4, TokenSteps
<1>6. QED
  BY <1>1, <1>5 DEF Kept

\* What a request holds stays sound whatever the step does to the tokens.
LEMMA SoundStays ==
  ASSUME IInv, [Next]_vars, NEW q \in RequestState, RequestSound(q)
  PROVE  RequestSound(q)'
<1>1. Solved(q.user) => Solved(q.user)'
  BY TokensStay DEF Solved
<1>2. MayFail' = MayFail /\ solved \subseteq solved'
  BY TokensStay DEF MayFail
<1>3. q.old \in Token => /\ tokens[q.old].state # "unused" => tokens'[q.old].state # "unused"
                         /\ tokens[q.old].state = "revoked" => tokens'[q.old].state = "revoked"
  BY TokensStay
<1>4. QED
  BY <1>1, <1>2, <1>3 DEF RequestSound

\* It is enough to look at the request that moves.
LEMMA OneMoves ==
  ASSUME IInv, [Next]_vars, NEW r \in Request, NEW p \in RequestState,
         req' = [req EXCEPT ![r] = p], RequestSound(p)'
  PROVE  req' \in [Request -> RequestState] /\ RequestsSound'
<1>1. req' \in [Request -> RequestState] /\ req'[r] = p
      /\ \A s \in Request : s # r => req'[s] = req[s]
  BY DEF IInv, TypeOK
<1>2. ASSUME NEW s \in Request PROVE RequestSound(req[s])'
  <2>1. CASE s = r
    BY <1>1, <2>1 DEF RequestSound
  <2>2. CASE s # r
    <3> PICK q \in RequestState : q = req[s]
      BY DEF IInv, TypeOK
    <3>1. RequestSound(q)'
      BY SoundStays DEF IInv, RequestsSound
    <3>2. QED
      BY <1>1, <2>2, <3>1 DEF RequestSound
  <2>3. QED
    BY <2>1, <2>2
<1>3. QED
  BY <1>1, <1>2 DEF RequestsSound, RequestSound

\* No request moves.
LEMMA NoneMoves ==
  ASSUME IInv, [Next]_vars, req' = req
  PROVE  req' \in [Request -> RequestState] /\ RequestsSound'
<1>1. ASSUME NEW s \in Request PROVE RequestSound(req[s])'
  <2> PICK q \in RequestState : q = req[s]
    BY DEF IInv, TypeOK
  <2>1. RequestSound(q)'
    BY SoundStays DEF IInv, RequestsSound
  <2>2. QED
    BY <2>1 DEF RequestSound
<1>2. QED
  BY <1>1 DEF IInv, TypeOK, RequestsSound

\* The rows stay sound unless a token is stored.
LEMMA RowsStay ==
  ASSUME IInv, [Next]_vars, RevokesOrNot \/ Expires,
         held' \subseteq Token, challenged' \subseteq MFAUser,
         solved' \subseteq MFAUser, mfaLog' \subseteq MFAUser,
         req' \in [Request -> RequestState], RequestsSound'
  PROVE  IInv'
<1>1. /\ tokens' \in [Token -> TokenRecord]
      /\ \A t \in Token : /\ tokens'[t].user = tokens[t].user
                          /\ tokens'[t].from = tokens[t].from
                          /\ tokens'[t].state = "unused" => tokens[t].state = "unused"
  <2>1. CASE RevokesOrNot
    <3>1. tokens \in [Token -> TokenRecord]
      BY DEF IInv, TypeOK
    <3>2. ASSUME NEW t \in Token, tokens' = Revoked(t)
          PROVE  /\ tokens' \in [Token -> TokenRecord]
                 /\ \A s \in Token :
                       /\ tokens'[s].user = tokens[s].user
                       /\ tokens'[s].from = tokens[s].from
                       /\ tokens'[s].state \in {tokens[s].state, "revoked"}
      BY <3>2, RevokedRow DEF IInv
    <3>3. /\ tokens' \in [Token -> TokenRecord]
          /\ \A s \in Token : /\ tokens'[s].user = tokens[s].user
                              /\ tokens'[s].from = tokens[s].from
                              /\ tokens'[s].state \in {tokens[s].state, "revoked"}
      <4>1. CASE tokens' = tokens
        BY <3>1, <4>1
      <4>2. CASE \E t \in Token : tokens' = Revoked(t)
        BY <3>2, <4>2
      <4>3. QED
        BY <2>1, <4>1, <4>2 DEF RevokesOrNot
    <3>4. QED
      BY <3>3
  <2>2. CASE Expires
    <3> PICK t \in Token : tokens' = [tokens EXCEPT ![t].expired = TRUE]
      BY <2>2 DEF Expires
    <3>1. PICK row \in TokenRecord : row = tokens[t]
      BY DEF IInv, TypeOK
    <3>2. PICK next \in TokenRecord :
             /\ next = [row EXCEPT !.expired = TRUE]
             /\ next.user = row.user /\ next.from = row.from /\ next.state = row.state
      <4> DEFINE e == [row EXCEPT !.expired = TRUE]
      <4>1. e \in TokenRecord /\ e.user = row.user /\ e.from = row.from /\ e.state = row.state
        BY DEF TokenRecord
      <4> HIDE DEF e
      <4>2. QED
        BY <4>1 DEF e
    <3>3. tokens' = [tokens EXCEPT ![t] = next]
      BY <3>1, <3>2 DEF IInv, TypeOK
    <3>4. QED
      BY <3>1, <3>2, <3>3 DEF IInv, TypeOK
  <2>3. QED
    BY <2>1, <2>2
<1>2. TypeOK'
  BY <1>1, TokensStay DEF IInv, TypeOK
<1>3. TokensSound'
  BY <1>1, TokensStay DEF IInv, TokensSound, Solved
<1>4. QED
  BY <1>2, <1>3 DEF IInv
-----------------------------------------------------------------------------
(* The invariant holds initially and every action preserves it *)

LEMMA InitIInv == Init => IInv
<1> SUFFICES ASSUME Init PROVE IInv
  OBVIOUS
<1>1. tokens \in [Token -> TokenRecord]
  BY DEF Init, TokenRecord
<1>2. \A r \in Request : req[r] = Idle
  BY DEF Init
<1>3. TypeOK
  BY <1>1, BackendsAssumption, IdleRecord DEF Init, TypeOK
<1>4. TokensSound
  BY UserAssumption DEF Init, TokensSound, Solved
<1>5. RequestsSound
  BY <1>2, IdleRecord DEF RequestsSound, RequestSound
<1>6. QED
  BY <1>3, <1>4, <1>5 DEF IInv

LEMMA LoginKeeps ==
  ASSUME IInv, [Next]_vars, NEW r \in Request, Login(r)
  PROVE  IInv'
<1> PICK u \in User, p \in Point :
       /\ p \in {AfterPassword(u), "auth.login.failure"}
       /\ req' = [req EXCEPT ![r] = At(p, u, NoToken)]
  BY DEF Login, AfterPassword, Point, AuditAction
<1>1. UNCHANGED <<backend, tokens, held, challenged, solved, mfaLog>>
  BY DEF Login
<1>2. PICK q \in RequestState :
         q = At(p, u, NoToken) /\ q.at = p /\ q.user = u /\ q.old = NoToken
  BY AtRecord
<1>3. /\ p \in {"auth.mfa.challenge", "save", "auth.login.failure"}
      /\ p = "auth.mfa.challenge" => u \in MFAUser
      /\ p = "save" => u \notin MFAUser
  BY DEF AfterPassword
<1>4. RequestSound(q)'
  BY <1>2, <1>3, TokenAssumption DEF RequestSound, Solved
<1>5. req' \in [Request -> RequestState] /\ RequestsSound'
  BY <1>2, <1>4, OneMoves
<1>6. QED
  BY <1>1, <1>5, RowsStay DEF RevokesOrNot, IInv, TypeOK

LEMMA VerifyMFAKeeps ==
  ASSUME IInv, [Next]_vars, NEW r \in Request, VerifyMFA(r)
  PROVE  IInv'
<1> PICK u \in challenged, p \in {"auth.mfa.success", "auth.mfa.verify"} :
       /\ p = "auth.mfa.success" => solved' = solved \cup {u}
       /\ p = "auth.mfa.verify" => solved' = solved
       /\ req' = [req EXCEPT ![r] = At(p, u, NoToken)]
  BY DEF VerifyMFA
<1>1. UNCHANGED <<backend, tokens, held, challenged, mfaLog>> /\ u \in MFAUser /\ u \in User
  BY UserAssumption DEF VerifyMFA, IInv, TypeOK
<1>2. p \in Point
  BY DEF Point, AuditAction
<1>3. PICK q \in RequestState :
         q = At(p, u, NoToken) /\ q.at = p /\ q.user = u /\ q.old = NoToken
  BY <1>1, <1>2, AtRecord
<1>4. RequestSound(q)'
  BY <1>3 DEF RequestSound
<1>5. req' \in [Request -> RequestState] /\ RequestsSound'
  BY <1>3, <1>4, OneMoves
<1>6. solved' \subseteq MFAUser
  BY <1>1 DEF IInv, TypeOK
<1>7. QED
  BY <1>1, <1>5, <1>6, RowsStay DEF RevokesOrNot, IInv, TypeOK

LEMMA LogoutKeeps ==
  ASSUME IInv, [Next]_vars, NEW r \in Request, Logout(r)
  PROVE  IInv'
<1> PICK u \in User : req' = [req EXCEPT ![r] = At("auth.logout", u, NoToken)]
  BY DEF Logout
<1>1. UNCHANGED <<backend, held, challenged, solved, mfaLog>> /\ RevokesOrNot
  BY DEF Logout, RevokesOrNot, IInv, TypeOK
<1>2. "auth.logout" \in Point
  BY DEF Point, AuditAction
<1>3. PICK q \in RequestState : q = At("auth.logout", u, NoToken) /\ q.at = "auth.logout"
  BY <1>2, AtRecord
<1>4. RequestSound(q)'
  BY <1>3 DEF RequestSound
<1>5. req' \in [Request -> RequestState] /\ RequestsSound'
  BY <1>3, <1>4, OneMoves
<1>6. QED
  BY <1>1, <1>5, RowsStay DEF IInv, TypeOK

LEMMA RefreshLookupKeeps ==
  ASSUME IInv, [Next]_vars, NEW r \in Request, RefreshLookup(r)
  PROVE  IInv'
<1> PICK t \in Token :
       Accepted(t) /\ req' = [req EXCEPT ![r] = At("revoke", tokens[t].user, t)]
  BY DEF RefreshLookup, IInv, TypeOK
<1>1. UNCHANGED <<backend, tokens, held, challenged, solved, mfaLog>>
  BY DEF RefreshLookup
<1>2. PICK u \in User \cup {NoUser} : u = tokens[t].user
  BY DEF IInv, TypeOK, TokenRecord
<1>3. "revoke" \in Point
  BY DEF Point
<1>4. PICK q \in RequestState :
         q = At("revoke", u, t) /\ q.at = "revoke" /\ q.user = u /\ q.old = t
  BY <1>3, AtRecord
<1>5. Solved(u)'
  BY <1>1, <1>2 DEF IInv, TokensSound, Solved
<1>6. RequestSound(q)'
  BY <1>1, <1>4, <1>5 DEF RequestSound, Accepted
<1>7. req' \in [Request -> RequestState] /\ RequestsSound'
  BY <1>2, <1>4, <1>6, OneMoves
<1>8. QED
  BY <1>1, <1>7, RowsStay DEF RevokesOrNot, IInv, TypeOK

LEMMA RefreshRevokeKeeps ==
  ASSUME IInv, [Next]_vars, NEW r \in Request, RefreshRevoke(r)
  PROVE  IInv'
<1> PICK q \in RequestState : q = req[r]
  BY DEF IInv, TypeOK
<1>1. /\ q.at = "revoke" /\ RequestSound(q)
      /\ UNCHANGED <<backend, held, challenged, solved, mfaLog>>
      /\ req' = [req EXCEPT ![r].at = "user"]
  BY DEF RefreshRevoke, IInv, RequestsSound
<1>2. PICK x \in Outcome : tokens' = IF x.applied THEN Revoked(q.old) ELSE tokens
  BY DEF RefreshRevoke
<1>3. q.old \in Token /\ tokens[q.old].state # "unused" /\ Solved(q.user)
  BY <1>1 DEF RequestSound
<1>4. ~MayFail => tokens'[q.old].state = "revoked"
  <2>1. ~MayFail => tokens' = Revoked(q.old)
    BY <1>2 DEF Outcome
  <2>2. QED
    BY <1>3, <2>1, RevokedRow DEF IInv
<1>5. RevokesOrNot
  BY <1>2, <1>3 DEF RevokesOrNot
<1>6. PICK p \in RequestState :
         p = [q EXCEPT !.at = "user"] /\ p.at = "user" /\ p.user = q.user /\ p.old = q.old
  <2> DEFINE e == [q EXCEPT !.at = "user"]
  <2>1. e \in RequestState /\ e.at = "user" /\ e.user = q.user /\ e.old = q.old
    BY DEF RequestState, Point
  <2> HIDE DEF e
  <2>2. QED
    BY <2>1 DEF e
<1>7. req' = [req EXCEPT ![r] = p]
  BY <1>1, <1>6 DEF IInv, TypeOK
<1>8. Solved(q.user)' /\ MayFail' = MayFail
  BY <1>1, <1>3 DEF Solved, MayFail
<1>9. RequestSound(p)'
  BY <1>4, <1>6, <1>8 DEF RequestSound
<1>10. req' \in [Request -> RequestState] /\ RequestsSound'
  BY <1>7, <1>9, OneMoves
<1>11. QED
  BY <1>1, <1>5, <1>10, RowsStay DEF IInv, TypeOK

LEMMA RefreshUserKeeps ==
  ASSUME IInv, [Next]_vars, NEW r \in Request, RefreshUser(r)
  PROVE  IInv'
<1> PICK q \in RequestState : q = req[r]
  BY DEF IInv, TypeOK
<1>1. /\ q.at = "user" /\ RequestSound(q)
      /\ UNCHANGED <<backend, tokens, held, challenged, solved, mfaLog>>
  BY DEF RefreshUser, IInv, RequestsSound
<1>2. PICK p \in RequestState :
         p = [q EXCEPT !.at = "save"] /\ p.at = "save" /\ p.user = q.user /\ p.old = q.old
  <2> DEFINE e == [q EXCEPT !.at = "save"]
  <2>1. e \in RequestState /\ e.at = "save" /\ e.user = q.user /\ e.old = q.old
    BY DEF RequestState, Point
  <2> HIDE DEF e
  <2>2. QED
    BY <2>1 DEF e
<1>3. req' = [req EXCEPT ![r] = p] \/ req' = [req EXCEPT ![r] = Idle]
  BY <1>2 DEF RefreshUser
<1>4. RequestSound(p)'
  BY <1>1, <1>2 DEF RequestSound, Solved, MayFail
<1>5. RequestSound(Idle)'
  BY IdleRecord DEF RequestSound
<1>6. req' \in [Request -> RequestState] /\ RequestsSound'
  BY <1>3, <1>4, <1>5, IdleRecord, OneMoves
<1>7. QED
  BY <1>1, <1>6, RowsStay DEF RevokesOrNot, IInv, TypeOK

LEMMA SaveRefreshTokenKeeps ==
  ASSUME IInv, [Next]_vars, NEW r \in Request, SaveRefreshToken(r)
  PROVE  IInv'
<1> PICK q \in RequestState : q = req[r]
  BY DEF IInv, TypeOK
<1>1. /\ q.at = "save" /\ RequestSound(q)
      /\ UNCHANGED <<backend, held, challenged, solved, mfaLog>>
  BY DEF SaveRefreshToken, IInv, RequestsSound
<1>2. PICK t \in Token, x \in Outcome :
         /\ tokens[t].state = "unused"
         /\ tokens' = IF x.applied
               THEN [tokens EXCEPT ![t] = [state |-> "live", expired |-> FALSE,
                                           user |-> q.user, from |-> q.old]]
               ELSE tokens
         /\ req' = [req EXCEPT ![r].at = "auth.login.success", ![r].new = t]
  BY DEF SaveRefreshToken, Fresh
<1>3. PICK p \in RequestState :
         /\ p = [q EXCEPT !.at = "auth.login.success", !.new = t]
         /\ p.at = "auth.login.success"
  <2> DEFINE e == [q EXCEPT !.at = "auth.login.success", !.new = t]
  <2>1. e \in RequestState /\ e.at = "auth.login.success"
    BY DEF RequestState, Point, AuditAction
  <2> HIDE DEF e
  <2>2. QED
    BY <2>1 DEF e
<1>4. req' = [req EXCEPT ![r] = p]
  BY <1>2, <1>3 DEF IInv, TypeOK
<1>5. RequestSound(p)'
  BY <1>3 DEF RequestSound
<1>6. req' \in [Request -> RequestState] /\ RequestsSound'
  BY <1>4, <1>5, OneMoves
<1>7. CASE tokens' = tokens
  BY <1>1, <1>6, <1>7, RowsStay DEF RevokesOrNot, IInv, TypeOK
<1>8. CASE tokens' # tokens
  <2> DEFINE new == [state |-> "live", expired |-> FALSE, user |-> q.user, from |-> q.old]
  <2>1. new \in TokenRecord /\ new.state = "live" /\ Solved(new.user)'
    BY <1>1 DEF TokenRecord, RequestState, RequestSound, Solved
  <2>2. tokens' = [tokens EXCEPT ![t] = new]
    BY <1>2, <1>8
  <2> HIDE DEF new
  <2>3. TypeOK'
    BY <1>1, <1>6, <2>1, <2>2 DEF IInv, TypeOK
  <2>4. TokensSound'
    BY <1>1, <2>1, <2>2 DEF IInv, TypeOK, TokensSound, Solved
  <2>5. QED
    BY <1>6, <2>3, <2>4 DEF IInv
<1>9. QED
  BY <1>7, <1>8

LEMMA RecordAuditKeeps ==
  ASSUME IInv, [Next]_vars, NEW r \in Request, RecordAudit(r)
  PROVE  IInv'
<1> PICK q \in RequestState : q = req[r]
  BY DEF IInv, TypeOK
<1>1. /\ q.at \in AuditAction /\ RequestSound(q)
      /\ mfaLog' = IF AuditRowKept /\ q.at = "auth.mfa.success"
                     THEN mfaLog \cup {q.user} ELSE mfaLog
      /\ held' = held \cup ({q.new} \ {NoToken})
      /\ challenged' = IF q.at = "auth.mfa.challenge" THEN challenged \cup {q.user} ELSE challenged
      /\ req' = [req EXCEPT ![r] = AfterAudit(q)]
      /\ UNCHANGED <<backend, tokens, solved>>
  BY DEF RecordAudit, IInv, RequestsSound
<1>2. /\ mfaLog' \subseteq MFAUser /\ held' \subseteq Token /\ challenged' \subseteq MFAUser
  BY <1>1 DEF IInv, TypeOK, RequestSound, RequestState
<1>3. PICK p \in RequestState : p = AfterAudit(q) /\ RequestSound(p)'
  <2>1. CASE q.at = "auth.mfa.success"
    <3> DEFINE e == [q EXCEPT !.at = "save"]
    <3>1. e \in RequestState /\ e.at = "save" /\ e.user = q.user /\ e.old = q.old
      BY DEF RequestState, Point
    <3>2. AfterAudit(q) = e
      BY <2>1 DEF AfterAudit
    <3> HIDE DEF e
    <3>3. q.user \in solved /\ q.old = NoToken
      BY <1>1, <2>1 DEF RequestSound
    <3>4. Solved(q.user)'
      BY <1>1, <2>1, <3>3 DEF Solved, AuditRowKept
    <3>5. RequestSound(e)'
      BY <3>1, <3>3, <3>4, TokenAssumption DEF RequestSound
    <3>6. QED
      BY <3>1, <3>2, <3>5
  <2>2. CASE q.at # "auth.mfa.success"
    <3>1. RequestSound(Idle)'
      BY IdleRecord DEF RequestSound
    <3>2. QED
      BY <2>2, <3>1, IdleRecord DEF AfterAudit
  <2>3. QED
    BY <2>1, <2>2
<1>4. req' \in [Request -> RequestState] /\ RequestsSound'
  BY <1>1, <1>3, OneMoves
<1>5. QED
  BY <1>1, <1>2, <1>4, RowsStay DEF RevokesOrNot, IInv, TypeOK

LEMMA NextIInv == IInv /\ [Next]_vars => IInv'
<1> SUFFICES ASSUME IInv, [Next]_vars PROVE IInv'
  OBVIOUS
<1>1. ASSUME NEW t \in Token, ExpireToken(t) PROVE IInv'
  BY <1>1, NoneMoves, RowsStay DEF ExpireToken, Expires, IInv, TypeOK
<1>2. ASSUME NEW u \in User, ExpireChallenge(u) PROVE IInv'
  BY <1>2, NoneMoves, RowsStay DEF ExpireChallenge, RevokesOrNot, IInv, TypeOK
<1>3. CASE Restart
  <2>1. req' \in [Request -> RequestState] /\ RequestsSound'
    BY <1>3, IdleRecord DEF Restart, RequestsSound, RequestSound
  <2>2. QED
    BY <1>3, <2>1, RowsStay DEF Restart, RevokesOrNot, IInv, TypeOK
<1>4. CASE UNCHANGED vars
  BY <1>4, NoneMoves, RowsStay DEF vars, RevokesOrNot, IInv, TypeOK
<1>5. QED
  BY <1>1, <1>2, <1>3, <1>4, LoginKeeps, VerifyMFAKeeps, LogoutKeeps, RefreshLookupKeeps,
     RefreshRevokeKeeps, RefreshUserKeeps, SaveRefreshTokenKeeps, RecordAuditKeeps
     DEF Next
-----------------------------------------------------------------------------
(* How a token is exchanged *)

Exchanges == {"revoke", "user", "save"}

\* No refresh of t begins with the step of request r.
LEMMA NoneBegins ==
  ASSUME IInv, NEW t \in Token, NEW r \in Request, NEW p, req' = [req EXCEPT ![r] = p],
         p.old = t /\ p.at \in Exchanges => req[r].old = t /\ req[r].at \in Exchanges
  PROVE  Refreshing(t)' \subseteq Refreshing(t)
<1>1. req'[r] = p /\ \A s \in Request : s # r => req'[s] = req[s]
  BY DEF IInv, TypeOK
<1>2. QED
  BY <1>1 DEF Refreshing, Exchanges

\* No step but SaveRefreshToken gives a token for another.
LEMMA SuccessorsStay ==
  ASSUME IInv, [Next]_vars, RevokesOrNot \/ Expires, NEW t \in Token
  PROVE  Successors(t)' = Successors(t)
<1>1. \A s \in Token : tokens'[s].from = tokens[s].from
  <2>1. CASE tokens' = tokens
    BY <2>1
  <2>2. ASSUME NEW s \in Token, tokens' = Revoked(s)
        PROVE  \A k \in Token : tokens'[k].from = tokens[k].from
    BY <2>2, RevokedRow DEF IInv
  <2>3. CASE Expires
    BY <2>3 DEF Expires, IInv, TypeOK, TokenRecord
  <2>4. QED
    BY <2>1, <2>2, <2>3 DEF RevokesOrNot
<1>2. QED
  BY <1>1 DEF Successors

\* The refreshes of token t that end with the step, or go on, or give the one
\* token they were asked for; or one begins, which finds t live.
LEMMA ExchangeSteps ==
  ASSUME IInv, [Next]_vars, NEW t \in Token
  PROVE  \/ Refreshing(t)' \subseteq Refreshing(t) /\ Successors(t)' = Successors(t)
         \/ Accepted(t) /\ Successors(t)' = Successors(t)
         \/ \E r \in Refreshing(t), s \in Token \ Successors(t) :
               /\ req[r].at = "save"
               /\ Refreshing(t)' = Refreshing(t) \ {r}
               /\ Successors(t)' \in {Successors(t), Successors(t) \cup {s}}
<1> DEFINE Ends == Refreshing(t)' \subseteq Refreshing(t) /\ Successors(t)' = Successors(t)
           Begins == Accepted(t) /\ Successors(t)' = Successors(t)
           Gives == \E r \in Refreshing(t), s \in Token \ Successors(t) :
                       /\ req[r].at = "save"
                       /\ Refreshing(t)' = Refreshing(t) \ {r}
                       /\ Successors(t)' \in {Successors(t), Successors(t) \cup {s}}
<1> USE DEF Exchanges
<1>1. ASSUME NEW r \in Request, NEW p, req' = [req EXCEPT ![r] = p], RevokesOrNot \/ Expires,
             p.old = t /\ p.at \in Exchanges => req[r].old = t /\ req[r].at \in Exchanges
      PROVE  Ends
  BY <1>1, NoneBegins, SuccessorsStay
<1>2. ASSUME req' = req, RevokesOrNot \/ Expires PROVE Ends
  BY <1>2, SuccessorsStay DEF Refreshing
<1>3. ASSUME NEW r \in Request, NEW p \in Point, NEW u \in User \cup {NoUser},
             req' = [req EXCEPT ![r] = At(p, u, NoToken)], RevokesOrNot
      PROVE  Ends
  <2> PICK q \in RequestState : q = At(p, u, NoToken) /\ q.old = NoToken
    BY AtRecord
  <2>1. req' = [req EXCEPT ![r] = q] /\ q.old # t
    BY <1>3, TokenAssumption
  <2>2. QED
    BY <1>1, <1>3, <2>1
<1>4. ASSUME NEW r \in Request, Login(r) PROVE Ends
  <2>1. PICK u \in User, p \in Point : req' = [req EXCEPT ![r] = At(p, u, NoToken)]
    BY <1>4 DEF Login, AfterPassword, Point, AuditAction
  <2>2. RevokesOrNot
    BY <1>4 DEF Login, RevokesOrNot
  <2>3. QED
    BY <1>3, <2>1, <2>2
<1>5. ASSUME NEW r \in Request, VerifyMFA(r) PROVE Ends
  <2>1. PICK u \in User, p \in Point : req' = [req EXCEPT ![r] = At(p, u, NoToken)]
    BY <1>5, UserAssumption DEF VerifyMFA, Point, AuditAction, IInv, TypeOK
  <2>2. RevokesOrNot
    BY <1>5 DEF VerifyMFA, RevokesOrNot
  <2>3. QED
    BY <1>3, <2>1, <2>2
<1>6. ASSUME NEW r \in Request, Logout(r) PROVE Ends
  <2>1. PICK u \in User : req' = [req EXCEPT ![r] = At("auth.logout", u, NoToken)]
    BY <1>6 DEF Logout
  <2>2. RevokesOrNot /\ "auth.logout" \in Point
    BY <1>6 DEF Logout, RevokesOrNot, Point, AuditAction, IInv, TypeOK
  <2>3. QED
    BY <1>3, <2>1, <2>2
<1>7. ASSUME NEW r \in Request, RefreshLookup(r) PROVE Ends \/ Begins
  <2>1. PICK s \in Token :
           Accepted(s) /\ req' = [req EXCEPT ![r] = At("revoke", tokens[s].user, s)]
    BY <1>7 DEF RefreshLookup, IInv, TypeOK
  <2>2. RevokesOrNot
    BY <1>7 DEF RefreshLookup, RevokesOrNot
  <2>3. At("revoke", tokens[s].user, s).old = s
    BY DEF At
  <2>4. CASE s = t
    BY <2>1, <2>2, <2>4, SuccessorsStay
  <2>5. CASE s # t
    BY <1>1, <2>1, <2>2, <2>3, <2>5
  <2>6. QED
    BY <2>4, <2>5
<1>8. ASSUME NEW r \in Request, RefreshRevoke(r) PROVE Ends
  <2> PICK q \in RequestState : q = req[r]
    BY DEF IInv, TypeOK
  <2>1. req' = [req EXCEPT ![r] = [q EXCEPT !.at = "user"]] /\ q.at = "revoke"
    BY <1>8 DEF RefreshRevoke, IInv, TypeOK
  <2>2. [q EXCEPT !.at = "user"].old = q.old
    BY DEF RequestState
  <2>3. q.old \in Token
    BY <2>1 DEF IInv, RequestsSound, RequestSound
  <2>4. RevokesOrNot
    BY <1>8, <2>3 DEF RefreshRevoke, RevokesOrNot
  <2>5. QED
    BY <1>1, <2>1, <2>2, <2>4
<1>9. ASSUME NEW r \in Request, RefreshUser(r) PROVE Ends
  <2> PICK q \in RequestState : q = req[r]
    BY DEF IInv, TypeOK
  <2>1. /\ q.at = "user"
        /\ \/ req' = [req EXCEPT ![r] = [q EXCEPT !.at = "save"]]
           \/ req' = [req EXCEPT ![r] = Idle]
    BY <1>9 DEF RefreshUser
  <2>2. [q EXCEPT !.at = "save"].old = q.old
    BY DEF RequestState
  <2>3. RevokesOrNot
    BY <1>9 DEF RefreshUser, RevokesOrNot
  <2>4. CASE req' = [req EXCEPT ![r] = [q EXCEPT !.at = "save"]]
    BY <1>1, <2>1, <2>2, <2>3, <2>4
  <2>5. CASE req' = [req EXCEPT ![r] = Idle]
    BY <1>1, <2>3, <2>5, IdleRecord
  <2>6. QED
    BY <2>1, <2>4, <2>5
<1>10. ASSUME NEW r \in Request, SaveRefreshToken(r) PROVE Ends \/ Gives
  <2> PICK q \in RequestState : q = req[r]
    BY DEF IInv, TypeOK
  <2>1. PICK s \in Token, x \in Outcome :
           /\ tokens[s].state = "unused"
           /\ tokens' = IF x.applied
                 THEN [tokens EXCEPT ![s] = [state |-> "live", expired |-> FALSE,
                                             user |-> q.user, from |-> q.old]]
                 ELSE tokens
           /\ req' = [req EXCEPT ![r].at = "auth.login.success", ![r].new = s]
    BY <1>10 DEF SaveRefreshToken, Fresh
  <2>2. q.at = "save" /\ tokens[s].from = NoToken
    BY <1>10, <2>1 DEF SaveRefreshToken, IInv, TokensSound
  <2>3. s \notin Successors(t)
    BY <2>2, TokenAssumption DEF Successors
  <2>4. /\ req'[r].at = "auth.login.success"
        /\ \A k \in Request : k # r => req'[k] = req[k]
    BY <2>1 DEF IInv, TypeOK, RequestState
  <2>5. Refreshing(t)' = Refreshing(t) \ {r}
    BY <2>4 DEF Refreshing
  <2>6. /\ \A k \in Token : k # s => tokens'[k].from = tokens[k].from
        /\ tokens'[s].from \in {NoToken, q.old}
    BY <2>1, <2>2 DEF IInv, TypeOK
  <2>7. CASE q.old = t
    <3>1. Successors(t)' \in {Successors(t), Successors(t) \cup {s}}
      BY <2>3, <2>6, <2>7, TokenAssumption DEF Successors
    <3>2. r \in Refreshing(t)
      BY <2>2, <2>7 DEF Refreshing
    <3>3. QED
      BY <2>2, <2>3, <2>5, <3>1, <3>2
  <2>8. CASE q.old # t
    <3>1. Successors(t)' = Successors(t)
      BY <2>2, <2>6, <2>8, TokenAssumption DEF Successors
    <3>2. QED
      BY <2>5, <3>1
  <2>9. QED
    BY <2>7, <2>8
<1>11. ASSUME NEW r \in Request, RecordAudit(r) PROVE Ends
  <2> PICK q \in RequestState : q = req[r]
    BY DEF IInv, TypeOK
  <2>1. req' = [req EXCEPT ![r] = AfterAudit(q)] /\ RevokesOrNot
    BY <1>11 DEF RecordAudit, RevokesOrNot
  <2>2. CASE q.at = "auth.mfa.success"
    <3>1. AfterAudit(q).old = NoToken
      BY <2>2 DEF AfterAudit, IInv, RequestsSound, RequestSound, RequestState
    <3>2. QED
      BY <1>1, <2>1, <3>1, TokenAssumption
  <2>3. CASE q.at # "auth.mfa.success"
    BY <1>1, <2>1, <2>3, IdleRecord DEF AfterAudit
  <2>4. QED
    BY <2>2, <2>3
<1>12. ASSUME Restart PROVE Ends
  <2>1. Refreshing(t)' = {}
    BY <1>12, IdleRecord DEF Restart, Refreshing
  <2>2. QED
    BY <1>12, <2>1, SuccessorsStay DEF Restart, RevokesOrNot
<1>13. ASSUME NEW s \in Token, ExpireToken(s) PROVE Ends
  <2>1. Expires /\ req' = req
    BY <1>13 DEF ExpireToken, Expires
  <2>2. QED
    BY <1>2, <2>1
<1>14. ASSUME tokens' = tokens, req' = req PROVE Ends
  BY <1>2, <1>14 DEF RevokesOrNot
<1> HIDE DEF Ends, Begins, Gives
<1>15. Ends \/ Begins \/ Gives
  BY <1>4, <1>5, <1>6, <1>7, <1>8, <1>9, <1>10, <1>11, <1>12, <1>13, <1>14
     DEF Next, vars, ExpireChallenge
<1>16. QED
  BY <1>15 DEF Ends, Begins, Gives
-----------------------------------------------------------------------------
(* What a step does to the counts *)

\* As long as calls succeed a token for which another was given is revoked, so
\* no refresh begins with it; until then nothing was given, and the refreshes
\* under way are requests.
SuccessorsRevoked ==
    ~MayFail => \A t \in Token : Successors(t) # {} => tokens[t].state = "revoked"

CountsInv == SuccessorsRevoked /\ SuccessorsBounded

LEMMA RefreshingCount ==
  ASSUME NEW t \in Token
  PROVE  /\ IsFiniteSet(Refreshing(t)) /\ IsFiniteSet(Successors(t))
         /\ Cardinality(Refreshing(t)) \in Nat /\ Cardinality(Successors(t)) \in Nat
         /\ Cardinality(Refreshing(t)) <= Cardinality(Request)
<1>1. Refreshing(t) \subseteq Request /\ Successors(t) \subseteq Token
  BY DEF Refreshing, Successors
<1>2. QED
  BY <1>1, TokenAssumption, FS_Subset, FS_CardinalityType

LEMMA InitCounts == Init => CountsInv
<1> SUFFICES ASSUME Init PROVE CountsInv
  OBVIOUS
<1>1. \A t \in Token : Successors(t) = {}
  BY TokenAssumption DEF Init, Successors
<1>2. \A t \in Token : Cardinality(Successors(t)) = 0
  BY <1>1, FS_EmptySet
<1>3. Cardinality(Request) \in Nat
  BY TokenAssumption, FS_CardinalityType
<1>4. QED
  BY <1>1, <1>2, <1>3, RefreshingCount DEF CountsInv, SuccessorsRevoked, SuccessorsBounded

LEMMA NextCounts == IInv /\ IInv' /\ CountsInv /\ [Next]_vars => CountsInv'
<1> SUFFICES ASSUME IInv, IInv', CountsInv, [Next]_vars, ~MayFail, NEW t \in Token
             PROVE  /\ Successors(t)' # {} => tokens'[t].state = "revoked"
                    /\ Cardinality(Successors(t)') + Cardinality(Refreshing(t)')
                         <= Cardinality(Request)
  BY TokensStay DEF CountsInv, SuccessorsRevoked, SuccessorsBounded, MayFail
<1> DEFINE before == Cardinality(Successors(t))
<1>1. /\ Successors(t) # {} => tokens[t].state = "revoked"
      /\ before + Cardinality(Refreshing(t)) <= Cardinality(Request)
  BY DEF CountsInv, SuccessorsRevoked, SuccessorsBounded
<1>2. /\ IsFiniteSet(Refreshing(t)) /\ IsFiniteSet(Successors(t))
      /\ Cardinality(Refreshing(t)) \in Nat /\ before \in Nat
      /\ Cardinality(Request) \in Nat
  BY RefreshingCount, TokenAssumption, FS_CardinalityType
<1>3. /\ Cardinality(Refreshing(t)') \in Nat
      /\ Cardinality(Refreshing(t)') <= Cardinality(Request)
  <2>1. Refreshing(t)' \subseteq Request
    BY DEF Refreshing
  <2>2. QED
    BY <2>1, TokenAssumption, FS_Subset, FS_CardinalityType
<1>4. tokens[t].state = "revoked" => tokens'[t].state = "revoked"
  BY TokensStay
<1>5. CASE Refreshing(t)' \subseteq Refreshing(t) /\ Successors(t)' = Successors(t)
  <2>1. Cardinality(Refreshing(t)') <= Cardinality(Refreshing(t))
    BY <1>2, <1>5, FS_Subset
  <2>2. Cardinality(Successors(t)') = before
    BY <1>5
  <2>3. QED
    BY <1>1, <1>2, <1>3, <1>4, <1>5, <2>1, <2>2
<1>6. CASE Accepted(t) /\ Successors(t)' = Successors(t)
  <2>1. Successors(t) = {}
    BY <1>1, <1>6 DEF Accepted
  <2>2. Cardinality(Successors(t)') = 0
    BY <1>6, <2>1, FS_EmptySet
  <2>3. QED
    BY <1>2, <1>3, <1>6, <2>1, <2>2
<1>7. ASSUME NEW r \in Refreshing(t), NEW s \in Token \ Successors(t),
             req[r].at = "save", Refreshing(t)' = Refreshing(t) \ {r},
             Successors(t)' \in {Successors(t), Successors(t) \cup {s}}
      PROVE  /\ tokens'[t].state = "revoked"
             /\ Cardinality(Successors(t)') + Cardinality(Refreshing(t)')
                  <= Cardinality(Request)
  <2>1. r \in Request /\ req[r].old = t
    BY DEF Refreshing
  <2>2. tokens[t].state = "revoked"
    BY <1>7, <2>1 DEF IInv, RequestsSound, RequestSound
  <2>3. Cardinality(Refreshing(t)') = Cardinality(Refreshing(t)) - 1
    BY <1>2, <1>7, FS_RemoveElement
  <2>4. Cardinality(Successors(t) \cup {s}) = before + 1
    BY <1>2, <1>7, FS_AddElement
  <2>5. Cardinality(Successors(t)') \in {before, before + 1}
    BY <1>7, <2>4
  <2>6. QED
    BY <1>1, <1>2, <1>4, <2>2, <2>3, <2>5
<1>8. QED
  BY <1>5, <1>6, <1>7, ExchangeSteps

-----------------------------------------------------------------------------
(* Theorems *)

\* Tokens, challenges and requests keep their shape, every user who is given a
\* token had a code accepted if one is needed, and what a request holds between
\* two calls stays valid.
THEOREM InvariantHolds == Spec => []IInv
  BY InitIInv, NextIInv, PTL DEF Spec

\* Type correctness of the tables and of what requests hold.
THEOREM TypeCorrect == Spec => []TypeOK
  BY InvariantHolds, PTL DEF IInv

\* A user with MFA holds a refresh token only if a code of theirs was accepted,
\* however often Refresh rotated it since; the MemoryStore has that on record.
THEOREM MFAIsRequired == Spec => []MFARequired
<1>1. IInv => MFARequired
  BY DEF IInv, TypeOK, TokensSound, Solved, MFARequired
<1>2. QED
  BY <1>1, InvariantHolds, PTL

\* As long as calls succeed one token is exchanged by Refresh no more often than
\* there are requests at a time, for any finite number of them.
THEOREM ExchangesAreBounded == Spec => []SuccessorsBounded
<1>1. CountsInv => SuccessorsBounded
  BY DEF CountsInv
<1>2. QED
  BY <1>1, InitCounts, NextCounts, InvariantHolds, PTL DEF Spec

\* Once a token is revoked or expired and no Refresh that found it live is under
\* way, Refresh never exchanges it again and nothing brings it back.
THEOREM SpentStaysSpent == Spec => SpentIsFinal
<1>1. ASSUME IInv, IInv', [Next]_vars, NEW t \in Token, Spent(t), Refreshing(t) = {}
      PROVE  Spent(t)' /\ Refreshing(t)' = {} /\ Successors(t)' = Successors(t)
  <2>1. Refreshing(t)' = {} /\ Successors(t)' = Successors(t)
    BY <1>1, ExchangeSteps DEF Spent, Accepted
  <2>2. /\ tokens'[t].state \in {"live", "revoked"}
        /\ tokens[t].state = "revoked" => tokens'[t].state = "revoked"
        /\ tokens[t].expired => tokens'[t].expired
    BY <1>1, TokensStay DEF Spent, IInv, TypeOK, TokenRecord
  <2>3. QED
    BY <1>1, <2>1, <2>2 DEF Spent
<1>2. IInv /\ IInv' /\ [Next]_vars =>
         [\A t \in Token :
             Spent(t) /\ Refreshing(t) = {} =>
                /\ Spent(t)' /\ Refreshing(t)' = {}
                /\ Successors(t)' = Successors(t)]_vars
  BY <1>1
<1>3. QED
  BY <1>2, InvariantHolds, PTL DEF Spec, SpentIsFinal
=============================================================================
