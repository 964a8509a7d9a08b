------------------------------ MODULE ApiAccess ------------------------------
(* Who gets into the AI platform: its API keys (backend/app/api_keys.py), the *)
(* two middlewares every request passes (tenant_isolation.py, auth.py), and   *)
(* the device grant (backend/app/routers/auth.py).  The handlers of one      *)
(* process interleave at their awaits; Google's verification blocks them all. *)
EXTENDS Integers, Sequences, FiniteSets, Functions

CONSTANTS
    Tenants,        \* tenants of keys and of sessions
    Nobody,         \* no tenant
    Requests,       \* HTTP requests
    UserCodes,      \* short codes that people type: used again once removed
    Clients,        \* client_ids of devices
    Subjects,       \* subjects of Google's ID tokens
    Lifetime,       \* ticks until a key, a session and a device code expire
    MaxKeys, MaxGrants,     \* bounds: keys made, device codes made
    MaxHour         \* bound: last tick of the clock

VARIABLES
    hour,       \* the clock
    keys,       \* APIKeyManager._keys, in the order of their making
    index,      \* the keys in _hash_index
    tokens,     \* session tokens in circulation
    request,    \* requests on their way through the middlewares
    grants,     \* DEVICE_AUTHORIZATIONS_BY_DEVICE_CODE
    by_user,    \* DEVICE_AUTHORIZATIONS_BY_USER_CODE
    verifying,  \* the approval that waits for Google, if any
    made,       \* device codes made so far
    trail       \* approvals and tokens of device codes, in order

keyVars == <<keys, index, tokens, request>>
grantVars == <<grants, by_user, verifying, made, trail>>

NoKey == 0
NoToken == [tenant |-> Nobody, expires |-> 0]
NoRequest == [at |-> "idle", key |-> NoKey, token |-> NoToken, context |-> Nobody, tenant |-> Nobody]
Idle == [code |-> 0, subject |-> Nobody]

\* A session token may be at hand from before; nobody can log in without one.
Init == /\ hour = 0
        /\ keys = <<>> /\ index = {}
        /\ \E S \in SUBSET Tenants : tokens = {[tenant |-> t, expires |-> 1] : t \in S}
        /\ request = [r \in Requests |-> NoRequest]
        /\ grants = <<>> /\ by_user = <<>> /\ verifying = Idle /\ made = 0 /\ trail = <<>>

\* A session that is over is as good as none.
Tick == /\ hour < MaxHour /\ hour' = hour + 1
        /\ tokens' = {token \in tokens : hour' < token.expires}
        /\ UNCHANGED <<keys, index, request, grantVars>>

-----------------------------------------------------------------------------
(* API keys.                                                               *)

\* revived (no field of the code): made by rotating a key that was not active.
Key(tenant, from, revived) == [tenant |-> tenant, status |-> "active", expires |-> hour + Lifetime,
                               rotated_from |-> from, revived |-> revived]

CreateKey(t) ==
    /\ Len(keys) < MaxKeys
    /\ keys' = Append(keys, Key(t, NoKey, FALSE))
    /\ index' = index \cup {Len(keys')}
    /\ UNCHANGED <<hour, tokens, request, grantVars>>

\* rotate_key: a key of any status, a revoked one too, gets a successor.
\* Mutant: the predecessor stays as it is.
RotateKey_Both(k) ==
    /\ Len(keys) < MaxKeys
    /\ keys' = Append(keys, Key(keys[k].tenant, k, keys[k].status # "active"))
    /\ index' = index \cup {Len(keys')}
    /\ UNCHANGED <<hour, tokens, request, grantVars>>
RotateKey(k) ==
    /\ Len(keys) < MaxKeys
    /\ keys' = Append([keys EXCEPT ![k].status = "rotated"],
                      Key(keys[k].tenant, k, keys[k].status # "active"))
    /\ index' = (index \ {k}) \cup {Len(keys')}
    /\ UNCHANGED <<hour, tokens, request, grantVars>>

RevokeKey(k) ==
    /\ keys[k].status # "revoked"
    /\ keys' = [keys EXCEPT ![k].status = "revoked"]
    /\ index' = index \ {k}
    /\ UNCHANGED <<hour, tokens, request, grantVars>>

\* validate_key; a key found too old is marked.  A budget never binds: nothing
\* calls record_usage.
TooOld(k) == k \in index /\ keys[k].status = "active" /\ hour > keys[k].expires
ValidKey(k) == /\ k \in index
               /\ keys[k].status = "active" /\ hour <= keys[k].expires
Validate(k) == /\ TooOld(k)
               /\ keys' = [keys EXCEPT ![k].status = "expired"]
               /\ UNCHANGED <<hour, index, tokens, request, grantVars>>

-----------------------------------------------------------------------------
(* The middlewares: first the tenant's context, from the key if there is    *)
(* one, then the session, unless a key has given the context.              *)

Decodes(token) == token \in tokens

\* An unknown key raises inside the middleware: the request ends.
Isolate(r, k, token) ==
    LET context == IF k # NoKey THEN keys[k].tenant
                   ELSE IF Decodes(token) THEN token.tenant ELSE Nobody
    IN /\ request[r].at = "idle"
       /\ request' = [request EXCEPT ![r] =
            IF k # NoKey /\ ~ValidKey(k) THEN [NoRequest EXCEPT !.at = "raised"]
            ELSE [at |-> "isolated", key |-> k, token |-> token, context |-> context, tenant |-> context]]
       /\ keys' = IF k # NoKey /\ TooOld(k) THEN [keys EXCEPT ![k].status = "expired"] ELSE keys
       /\ UNCHANGED <<hour, index, tokens, grantVars>>

\* Mutant: the session counts although a key has given the context.
ByKey_Never(r) == FALSE
ByKey(r) == request[r].context # Nobody /\ request[r].key # NoKey

Authenticate(r) ==
    /\ request[r].at = "isolated"
    /\ request' = [request EXCEPT
         ![r].at = IF ByKey(r) \/ Decodes(request[r].token) THEN "through" ELSE "refused",
         ![r].key = NoKey, ![r].token = NoToken,
         ![r].tenant = IF ~ByKey(r) /\ Decodes(request[r].token) THEN request[r].token.tenant ELSE @]
    /\ UNCHANGED <<hour, keys, index, tokens, grantVars>>

\* The request's route logs somebody in, for the tenant that the body names.
Login(r, t) ==
    /\ request[r].at = "through"
    /\ tokens' = tokens \cup {[tenant |-> t, expires |-> hour + Lifetime]}
    /\ request' = [request EXCEPT ![r] = NoRequest]
    /\ UNCHANGED <<hour, keys, index, grantVars>>

Ends(r) ==
    /\ request[r].at \in {"raised", "refused", "through"}
    /\ request' = [request EXCEPT ![r] = NoRequest]
    /\ UNCHANGED <<hour, keys, index, tokens, grantVars>>

-----------------------------------------------------------------------------
(* The device grant.  While an approval waits for Google nothing else runs. *)

Expired(code) == grants[code].expires <= hour
Keep(f, S) == [x \in DOMAIN f \cap S |-> f[x]]
\* Mutant: the user's code stays.
Remove_HalfDone(codes) ==
    /\ grants' = Keep(grants, DOMAIN grants \ codes)
    /\ UNCHANGED by_user
Remove(codes) ==
    /\ grants' = Keep(grants, DOMAIN grants \ codes)
    /\ by_user' = Keep(by_user, DOMAIN by_user \ {grants[c].user_code : c \in codes})

\* authorize_device: the expired ones go first, then a user code that is free.
AuthorizeDevice(client, u) ==
    LET live == {c \in DOMAIN grants : ~Expired(c)}
        named == {v \in DOMAIN by_user : by_user[v] \in live}
        new == made + 1
    IN /\ verifying = Idle /\ made < MaxGrants /\ u \notin named
       /\ made' = new
       /\ grants' = [c \in live \cup {new} |-> IF c # new THEN grants[c] ELSE
                       [client |-> client, user_code |-> u, status |-> "pending", subject |-> Nobody,
                        expires |-> hour + Lifetime]]
       /\ by_user' = [v \in named \cup {u} |-> IF v = u THEN new ELSE by_user[v]]
       /\ UNCHANGED <<hour, keyVars, verifying, trail>>

\* authorize_device_with_google: an expired one goes, a pending one is
\* verified; one that is approved already answers so.
TypeCode(u, subject) ==
    LET code == by_user[u] IN
      /\ verifying = Idle /\ u \in DOMAIN by_user /\ code \in DOMAIN grants
      /\ \/ Expired(code) /\ Remove({code}) /\ UNCHANGED verifying
         \/ /\ ~Expired(code) /\ grants[code].status = "pending"
            /\ verifying' = [code |-> code, subject |-> subject]
            /\ UNCHANGED <<grants, by_user>>
      /\ UNCHANGED <<hour, keyVars, made, trail>>

\* The approval comes however long Google took.
Verified ==
    LET code == verifying.code IN
      /\ verifying # Idle /\ verifying' = Idle
      /\ grants' = [grants EXCEPT ![code].status = "approved", ![code].subject = verifying.subject]
      /\ trail' = Append(trail, [what |-> "approved", code |-> code, subject |-> verifying.subject, at |-> hour])
      /\ UNCHANGED <<hour, keyVars, by_user, made>>
Declined == verifying # Idle /\ verifying' = Idle /\ UNCHANGED <<hour, keyVars, grants, by_user, made, trail>>

\* device_token.
RedeemExpired(code) ==
    /\ verifying = Idle /\ code \in DOMAIN grants /\ Expired(code)
    /\ Remove({code})
    /\ UNCHANGED <<hour, keyVars, verifying, made, trail>>
Redeem(code, client) ==
    /\ verifying = Idle /\ code \in DOMAIN grants /\ ~Expired(code)
    /\ grants[code].client = client /\ grants[code].status = "approved"
    /\ trail' = Append(trail, [what |-> "token", code |-> code, subject |-> grants[code].subject, at |-> hour])
    /\ Remove({code})
    /\ UNCHANGED <<hour, keyVars, verifying, made>>

KeysNext ==
    \/ Tick
    \/ \E t \in Tenants : CreateKey(t)
    \/ \E k \in DOMAIN keys : RotateKey(k) \/ RevokeKey(k) \/ Validate(k)
RequestsNext ==
    \/ KeysNext
    \/ \E r \in Requests, k \in {NoKey} \cup DOMAIN keys, token \in {NoToken} \cup tokens : Isolate(r, k, token)
    \/ \E r \in Requests : Authenticate(r) \/ Ends(r) \/ \E t \in Tenants : Login(r, t)
GrantsNext ==
    \/ Tick \/ Verified \/ Declined
    \/ \E client \in Clients, u \in UserCodes : AuthorizeDevice(client, u)
    \/ \E u \in DOMAIN by_user, s \in Subjects : TypeCode(u, s)
    \/ \E code \in DOMAIN grants : RedeemExpired(code) \/ \E client \in Clients : Redeem(code, client)

-----------------------------------------------------------------------------
TypeOK ==
    /\ \A k \in DOMAIN keys : /\ keys[k].status \in {"active", "rotated", "revoked", "expired"}
                              /\ keys[k].tenant \in Tenants
    /\ \A r \in Requests : /\ request[r].at \in {"idle", "raised", "isolated", "refused", "through"}
                           /\ request[r].context \in Tenants \cup {Nobody}
    /\ \A c \in DOMAIN grants : grants[c].status \in {"pending", "approved"}

Root(k) ==
    LET root[j \in DOMAIN keys] == IF keys[j].rotated_from = NoKey THEN j ELSE root[keys[j].rotated_from]
    IN  root[k]

(* Of a key and those rotated from it, and so on, one is active at a time,  *)
(* unless one was rotated that was not (api_keys.py:205); and a request     *)
(* that gets through runs under one tenant, whichever middleware is asked   *)
(* (tenant_isolation.py:75-91, auth.py:27-60).                              *)
OneLiveKey == \A k, l \in DOMAIN keys :
    /\ k # l /\ Root(k) = Root(l) /\ keys[k].status = "active" /\ keys[l].status = "active"
    => \E m \in DOMAIN keys : Root(m) = Root(k) /\ keys[m].revived
OneTenant == \A r \in Requests :
    request[r].at = "through" => request[r].context = request[r].tenant

(* The trail of a device code is: nothing, or its approval, and at most one *)
(* token, for the subject that approved it, within its life; and the two    *)
(* maps name each other's codes (routers/auth.py:94-198).                   *)
GrantsTell ==
    /\ {<<grants[c].user_code, c>> : c \in DOMAIN grants} = {<<u, by_user[u]>> : u \in DOMAIN by_user}
    /\ \A c \in 1 .. made :
         LET told == SelectSeq(trail, LAMBDA e : e.code = c) IN
           /\ Len(told) <= 2
           /\ Len(told) >= 1 => told[1].what = "approved"
           /\ Len(told) = 2 => /\ told[2].what = "token" /\ told[2].subject = told[1].subject
                               /\ told[2].at - told[1].at < Lifetime /\ c \notin DOMAIN grants
=============================================================================
