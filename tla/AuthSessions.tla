---------------------------- MODULE AuthSessions ----------------------------
(***************************************************************************)
(* The account row and the refresh tokens of one e-mail address, under     *)
(* concurrent requests of the /auth routes.  Every request is one          *)
(* PostgreSQL transaction at READ COMMITTED: a plain select sees what is   *)
(* committed, a write (and SELECT ... FOR UPDATE) waits for the row locks  *)
(* of others and keeps its own to the end.                                 *)
(*                                                                         *)
(* Passwords and salts are values; an auth_hash, and the key that wraps    *)
(* the vault key, are the pair they are derived from.  A refresh token is  *)
(* a value nobody can guess: it is issued once, at its insert.             *)
(***************************************************************************)
EXTENDS Naturals, FiniteSets

CONSTANTS Req,     \* requests the server works on at the same time
          Token,   \* refresh tokens that can be issued (bounds the issuing requests)
          Pw, Salt,
          Absent   \* no row; a field the client did not send

Hash == [pw : Pw, salt : Salt]

(* The columns of "users" that matter here; id tells two registrations of  *)
(* the same address apart.                                                 *)
User == [id : Token, auth : Hash, vkey : Hash, salt : Salt]

(* The columns of "refresh_tokens", and where the token comes from: the    *)
(* token it replaced and the first token of that login.                    *)
TokenRow == [owner : Token, revoked : BOOLEAN,
             from : Token \cup {Absent}, root : Token]

ASSUME AbsentIsNoValue == /\ Absent \notin Token /\ Absent \notin Salt
                          /\ Absent \notin User  /\ Absent \notin TokenRow
ASSUME ModesAreNoTokens == Token \cap {"key", "upd", "del"} = {}

VARIABLES
  user,     \* the committed account row, or Absent
  tokens,   \* the committed token rows
  issued,   \* tokens ever generated
  expired,  \* tokens whose expires_at has passed
  pc,       \* the next statement of each request
  job,      \* what each request was asked
  tx        \* its transaction: what it read, will write, and has locked

vars == <<user, tokens, issued, expired, pc, job, tx>>

Ops == {"register", "login", "refresh", "logout", "rekey", "delete"}

(* hash: the auth_hash sent; new, salt: the body of a rekey (or register); *)
(* token: the refresh token sent; known: the tokens when it was sent.      *)
Job == [op : Ops \cup {"none"}, hash : Hash \cup {Absent},
        new : Hash \cup {Absent}, salt : Salt \cup {Absent},
        token : Token \cup {Absent}, known : SUBSET Token]

(* Locks: a token row; the user row for a key-share lock (a foreign key),  *)
(* an update that leaves its key alone, a delete (or its insert).          *)
Lock == Token \cup {"key", "upd", "del"}

Tx == [user : User \cup {Absent}, seen : SUBSET Token,
       issue : Token \cup {Absent}, held : SUBSET Lock]

NoJob == [op |-> "none", hash |-> Absent, new |-> Absent, salt |-> Absent,
          token |-> Absent, known |-> {}]
NoTx  == [user |-> Absent, seen |-> {}, issue |-> Absent, held |-> {}]

Stored == {t \in Token : tokens[t] # Absent}
LiveTokens == {t \in Stored : ~tokens[t].revoked}

-----------------------------------------------------------------------------
(* Row locks.                                                              *)

Clash(a, b) ==
    \/ a = b /\ a # "key"
    \/ {a, b} \in {{"upd", "del"}, {"key", "del"}}

(* The locks the next statement of a request needs.                        *)
Wants(r) ==
    CASE pc[r] = "lock"    -> {job[r].token}
      [] pc[r] = "insert"  -> {IF job[r].op = "register" THEN "del" ELSE "key"}
      [] pc[r] = "user"    -> {IF job[r].op = "rekey" THEN "upd" ELSE "del"}
      [] pc[r] = "write"   -> tx[r].seen
      [] pc[r] = "cascade" -> {t \in Stored : tokens[t].owner = tx[r].user.id}
      [] OTHER             -> {}

Blocks(q, r) == q # r /\ \E a \in Wants(r), b \in tx[q].held : Clash(a, b)

(* A mutant: refresh reads its token without FOR UPDATE.                   *)
GrantedWithoutForUpdate(r) == pc[r] = "lock" \/ \A q \in Req : ~Blocks(q, r)

Granted(r) == \A q \in Req : ~Blocks(q, r)

Deadlocked(r) == \E q \in Req : Blocks(q, r) /\ Blocks(r, q)

-----------------------------------------------------------------------------
Init ==
    /\ user = Absent
    /\ tokens = [t \in Token |-> Absent]
    /\ issued = {}
    /\ expired = {}
    /\ pc = [r \in Req |-> "idle"]
    /\ job = [r \in Req |-> NoJob]
    /\ tx = [r \in Req |-> NoTx]

Revoked == Stored \ LiveTokens

(* The bound: every request under way that may issue a token will find one.*)
MayIssue(asked) == \/ asked.op \in {"register", "login"}
                   \/ asked.op = "refresh" /\ asked.token \notin Revoked

TokenLeft == Cardinality({r \in Req : MayIssue(job[r]) /\ tx[r].issue = Absent})
                < Cardinality(Token \ issued)

Begin(r, first, asked) ==
    /\ pc[r] = "idle"
    /\ MayIssue(asked) => TokenLeft
    /\ pc' = [pc EXCEPT ![r] = first]
    /\ job' = [job EXCEPT ![r] = [asked EXCEPT !.known = Stored]]
    /\ UNCHANGED <<user, tokens, issued, expired, tx>>

BeginRegister(r) ==
    \E h \in Hash : Begin(r, "read", [NoJob EXCEPT !.op = "register", !.new = h])

BeginLogin(r) ==
    \E h \in Hash : Begin(r, "read", [NoJob EXCEPT !.op = "login", !.hash = h])

BeginRefresh(r) ==
    \E t \in issued : Begin(r, "lock", [NoJob EXCEPT !.op = "refresh", !.token = t])

BeginLogout(r) ==
    \E t \in issued : Begin(r, "read", [NoJob EXCEPT !.op = "logout", !.token = t])

(* A client that sends no new salt derived the new hash with the old one.  *)
BeginRekey(r) ==
    \E h \in Hash, p \in Pw, s \in Salt \cup {Absent} :
        Begin(r, "read",
              [NoJob EXCEPT !.op = "rekey", !.hash = h, !.salt = s,
                 !.new = [pw |-> p, salt |-> IF s = Absent THEN h.salt ELSE s]])

BeginDelete(r) ==
    \E h \in Hash : Begin(r, "read", [NoJob EXCEPT !.op = "delete", !.hash = h])

(* The request gives up everything it holds; nothing it wrote stays.       *)
End(r) ==
    /\ pc' = [pc EXCEPT ![r] = "idle"]
    /\ job' = [job EXCEPT ![r] = NoJob]
    /\ tx' = [tx EXCEPT ![r] = NoTx]
    /\ UNCHANGED <<user, tokens, issued, expired>>

Go(r, next, state) ==
    /\ pc' = [pc EXCEPT ![r] = next]
    /\ tx' = [tx EXCEPT ![r] = state]
    /\ UNCHANGED <<user, tokens, expired, job>>

-----------------------------------------------------------------------------
(* The account row is read and the credential checked.                     *)

Accepted(r) == IF job[r].op = "register" THEN user = Absent
               ELSE user # Absent /\ user.auth = job[r].hash

AfterRead(op) == CASE op \in {"register", "login"} -> "insert"
                   [] op = "rekey"                 -> "user"
                   [] op = "delete"                -> "select"

ReadUser(r) ==
    /\ pc[r] = "read" /\ job[r].op # "logout"
    /\ Accepted(r)
    /\ Go(r, AfterRead(job[r].op), [tx[r] EXCEPT !.user = user])
    /\ UNCHANGED issued

RejectUser(r) ==
    /\ pc[r] = "read" /\ job[r].op # "logout"
    /\ ~Accepted(r)
    /\ End(r)

(* Logout reads the token without a lock.                                  *)
ReadToken(r) ==
    /\ pc[r] = "read" /\ job[r].op = "logout"
    /\ Go(r, "write", [tx[r] EXCEPT !.seen = {job[r].token} \cap LiveTokens])
    /\ UNCHANGED issued

(* Refresh: SELECT ... FOR UPDATE of the token presented.                  *)
Holding(r, locks) == [tx[r] EXCEPT !.held = @ \cup locks]

Rotatable(t) == t \in LiveTokens \ expired
Reused(t)    == t \in Revoked

LockToken(r) ==
    /\ pc[r] = "lock" /\ Granted(r)
    /\ LET t == job[r].token
       IN  \/ /\ Rotatable(t)
              /\ Go(r, "insert", [Holding(r, {t}) EXCEPT !.seen = {t}])
           \/ /\ Reused(t)
              /\ Go(r, "select", Holding(r, {t}))
    /\ UNCHANGED issued

RefuseToken(r) ==
    /\ pc[r] = "lock" /\ Granted(r)
    /\ ~Rotatable(job[r].token) /\ ~Reused(job[r].token)
    /\ End(r)

(* A mutant: the token's user_id is no foreign key.                        *)
RowThereUnchecked(r) ==
    CASE job[r].op = "register" -> user = Absent
      [] job[r].op = "rekey"    -> user # Absent /\ user.id = tx[r].user.id
      [] OTHER                  -> TRUE

(* The account row of the transaction is still there: its foreign key or   *)
(* its UPDATE finds it, the unique e-mail of a new one is free.            *)
RowThere(r) ==
    CASE job[r].op = "register" -> user = Absent
      [] job[r].op = "refresh"  -> user # Absent
      [] OTHER                  -> user # Absent /\ user.id = tx[r].user.id

(* INSERT of the token (and of the account before it).                     *)
Insert(r) ==
    /\ pc[r] = "insert" /\ Granted(r) /\ RowThere(r)
    /\ \E t \in Token \ issued :
         /\ issued' = issued \cup {t}
         /\ Go(r, "commit", [Holding(r, Wants(r)) EXCEPT !.issue = t])

(* Rekey: UPDATE of the account row, before its tokens are selected.       *)
UpdateUser(r) ==
    /\ pc[r] = "user" /\ job[r].op = "rekey" /\ Granted(r) /\ RowThere(r)
    /\ Go(r, "select", Holding(r, Wants(r)))
    /\ UNCHANGED issued

(* The tokens a wipe or a rekey will revoke, or the delete of the account  *)
(* will delete.                                                            *)
Owner(r) == IF job[r].op = "refresh" THEN tokens[job[r].token].owner
            ELSE tx[r].user.id

(* A mutant: only the token presented is revoked.                          *)
OfRequest(r) == {t \in Stored : t = job[r].token}

OfOwner(r) == {t \in Stored : tokens[t].owner = Owner(r)}

(* A mutant: a deletion, too, selects only the live tokens and leaves the  *)
(* others to the cascade.                                                  *)
SelectLiveTokens(r) ==
    /\ pc[r] = "select"
    /\ Go(r, "write", [tx[r] EXCEPT !.seen = OfOwner(r) \cap LiveTokens])
    /\ UNCHANGED issued

SelectTokens(r) ==
    /\ pc[r] = "select"
    /\ Go(r, "write", [tx[r] EXCEPT
            !.seen = IF job[r].op = "delete" THEN OfOwner(r)
                     ELSE OfOwner(r) \cap LiveTokens])
    /\ UNCHANGED issued

(* UPDATE of revoked_at by primary key, or DELETE; a row that is gone is   *)
(* an error for the UPDATE only.                                           *)
RowsThere(r) == job[r].op = "delete" \/ tx[r].seen \subseteq Stored

WriteTokens(r) ==
    /\ pc[r] = "write" /\ Granted(r) /\ RowsThere(r)
    /\ Go(r, IF job[r].op = "delete" THEN "user" ELSE "commit", Holding(r, Wants(r)))
    /\ UNCHANGED issued

(* DELETE of the account row, then its foreign keys ON DELETE CASCADE.     *)
DeleteUser(r) ==
    /\ pc[r] = "user" /\ job[r].op = "delete" /\ Granted(r)
    /\ Go(r, "cascade", Holding(r, Wants(r)))
    /\ UNCHANGED issued

Cascade(r) ==
    /\ pc[r] = "cascade" /\ Granted(r)
    /\ Go(r, "commit", [Holding(r, Wants(r)) EXCEPT !.seen = @ \cup Wants(r)])
    /\ UNCHANGED issued

-----------------------------------------------------------------------------
(* Commit.                                                                 *)

(* An UPDATE sets only the columns the session changed.                    *)
Column(loaded, sent, newest) == IF sent = loaded THEN newest ELSE sent

(* Mutants: a rekey without a salt stores none; a rekey keeps the old one. *)
RekeyedWithNoSalt(r) ==
    [id |-> user.id, auth |-> job[r].new, vkey |-> job[r].new, salt |-> job[r].salt]

RekeyedWithOldSalt(r) ==
    [id |-> user.id, auth |-> job[r].new, vkey |-> job[r].new, salt |-> user.salt]

(* The wrapped vault key is a fresh ciphertext in every rekey.             *)
Rekeyed(r) ==
    [id   |-> user.id,
     auth |-> Column(tx[r].user.auth, job[r].new, user.auth),
     vkey |-> job[r].new,
     salt |-> IF job[r].salt = Absent THEN user.salt
              ELSE Column(tx[r].user.salt, job[r].salt, user.salt)]

NewUser(r) ==
    CASE job[r].op = "register" -> [id |-> tx[r].issue, auth |-> job[r].new,
                                    vkey |-> job[r].new, salt |-> job[r].new.salt]
      [] job[r].op = "rekey"    -> Rekeyed(r)
      [] job[r].op = "delete" /\ user # Absent /\ user.id = tx[r].user.id -> Absent
      [] OTHER                  -> user

NewRow(r) ==
    [owner   |-> IF job[r].op = "register" THEN tx[r].issue ELSE Owner(r),
     revoked |-> FALSE,
     from    |-> job[r].token,
     root    |-> IF job[r].op = "refresh" THEN tokens[job[r].token].root
                 ELSE tx[r].issue]

Commit(r) ==
    /\ pc[r] = "commit"
    /\ user' = NewUser(r)
    /\ tokens' = [t \in Token |->
         IF t = tx[r].issue THEN NewRow(r)
         ELSE IF t \notin tx[r].seen THEN tokens[t]
         ELSE IF job[r].op = "delete" THEN Absent
         ELSE [tokens[t] EXCEPT !.revoked = TRUE]]
    /\ pc' = [pc EXCEPT ![r] = "reply"]
    /\ tx' = [tx EXCEPT ![r].held = {}]
    /\ UNCHANGED <<issued, expired, job>>

Reply(r) == pc[r] = "reply" /\ End(r)

(* Unique violation, foreign key violation, or an UPDATE that matched no   *)
(* row: 500, and get_db rolls back.                                        *)
StatementError(r) ==
    /\ Granted(r)
    /\ \/ pc[r] = "insert" /\ ~RowThere(r)
       \/ pc[r] = "user" /\ job[r].op = "rekey" /\ ~RowThere(r)
       \/ pc[r] = "write" /\ ~RowsThere(r)
    /\ End(r)

(* PostgreSQL ends a deadlock by failing one of its transactions.          *)
Victim(r) == Deadlocked(r) /\ End(r)

(* A crash or a lost connection.                                           *)
Abort(r) == pc[r] \notin {"idle", "reply"} /\ End(r)

(* Time passes.                                                            *)
Expire(t) ==
    /\ t \in Stored \ expired
    /\ expired' = expired \cup {t}
    /\ UNCHANGED <<user, tokens, issued, pc, job, tx>>

Proceed(r) ==
    \/ ReadUser(r) \/ RejectUser(r) \/ ReadToken(r)
    \/ LockToken(r) \/ RefuseToken(r) \/ Insert(r)
    \/ UpdateUser(r) \/ SelectTokens(r) \/ WriteTokens(r)
    \/ DeleteUser(r) \/ Cascade(r)
    \/ Commit(r) \/ Reply(r) \/ StatementError(r) \/ Victim(r)

Next ==
    \/ \E r \in Req : \/ BeginRegister(r) \/ BeginLogin(r) \/ BeginRefresh(r)
                      \/ BeginLogout(r) \/ BeginRekey(r) \/ BeginDelete(r)
                      \/ Proceed(r) \/ Abort(r)
    \/ \E t \in Token : Expire(t)

Spec == Init /\ [][Next]_vars

-----------------------------------------------------------------------------
(* PROPERTIES *)

(* Every variable has its type.                                            *)
TypeOK ==
    /\ user \in User \cup {Absent}
    /\ tokens \in [Token -> TokenRow \cup {Absent}]
    /\ issued \subseteq Token
    /\ expired \subseteq Token
    /\ pc \in [Req -> {"idle", "read", "lock", "insert", "user", "select",
                       "write", "cascade", "commit", "reply"}]
    /\ job \in [Req -> Job]
    /\ tx \in [Req -> Tx]

(* Rotation is one for one: however often and concurrently the tokens of a *)
(* login are presented, at most one of them can still be exchanged.        *)
OneLivePerLogin ==
    \A t, u \in LiveTokens : tokens[t].root = tokens[u].root => t = u

(* A token that was rotated, logged out, wiped or rekeyed away is never    *)
(* exchanged again, by no request that was under way at the time either.   *)
Children(t) == {u \in Stored : tokens[u].from = t}

RevokedIsBarren ==
    [][\A t \in Revoked : Children(t)' \subseteq Children(t)]_vars

(* Once a reuse of a rotated token, or a rekey, is answered, every token   *)
(* that existed when the request arrived is revoked, or gone.              *)
Wiped(r) == /\ pc[r] = "reply"
            /\ \/ job[r].op = "rekey"
               \/ job[r].op = "refresh" /\ tx[r].issue = Absent

WipeCoversKnown ==
    \A r \in Req : Wiped(r) => job[r].known \cap LiveTokens = {}

(* No token outlives its account: a login or a refresh that races the      *)
(* deletion leaves nothing behind.                                         *)
TokensHaveOwner ==
    \A t \in Stored : user # Absent /\ tokens[t].owner = user.id

(* Deadlocks are between two: in every group of requests under way, one    *)
(* waits for nobody of the group (nor for the locks of a request that has  *)
(* ended), or two of them wait for each other, which PostgreSQL ends.  So  *)
(* refreshes, wipes, rekeys and deletions never wait in a longer circle,   *)
(* and of all requests under way somebody can always go on.                *)
UnderWay == {r \in Req : pc[r] # "idle"}

DeadlocksArePairs ==
    \A group \in SUBSET UnderWay : group # {} =>
        \E r \in group : \/ \A q \in Req : Blocks(q, r) => q \in UnderWay \ group
                        \/ \E q \in group : Blocks(q, r) /\ Blocks(r, q)

(* README.md: prelogin returns the salt "so a new client can derive        *)
(* auth_hash before calling login", and /auth/me the wrapped key "so       *)
(* clients can unwrap the vault key after login": the stored salt is the   *)
(* one the stored auth_hash was derived with, and the stored vault key     *)
(* opens with that credential.  Holds when rekeys do not overlap.          *)
CredentialsAgree ==
    user # Absent => user.auth.salt = user.salt /\ user.vkey = user.auth

(* README.md: "Reuse of an already-rotated refresh token revokes all       *)
(* refresh tokens for that user": when the wipe has committed, no token of *)
(* the login whose token was reused is live.                               *)
ReuseEndsTheLogin ==
    [][\A r \in Req : Commit(r) /\ job[r].op = "refresh" /\ tx[r].issue = Absent =>
         \A t \in Stored' :
             tokens'[t].root = tokens[job[r].token].root => tokens'[t].revoked]_vars

(* README.md: on a rekey "Existing refresh tokens are revoked so other     *)
(* devices must log in again": when the rekey has committed, none is live. *)
RekeyEndsSessions ==
    [][\A r \in Req : Commit(r) /\ job[r].op = "rekey" => LiveTokens' = {}]_vars
=============================================================================
