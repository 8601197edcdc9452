------------------------- MODULE UpstreamCredentials -------------------------
(***************************************************************************)
(* The way of an OCI upstream's credentials: from the row in the control   *)
(* plane, re-encrypted for one proxy into its tenant bundle, through the   *)
(* proxy's bundle cache, to the registry, where a bearer token takes their *)
(* place in the proxy's token cache.  One tenant with one OCI upstream.    *)
(*                                                                         *)
(* A worker is a goroutine that executes an OCI request of a proxy.  Each  *)
(* database query, RPC answer, HTTP exchange and critical section of a     *)
(* mutex is one step; administrators update the row in between.            *)
(***************************************************************************)
EXTENDS Naturals, FiniteSets, SecretEnvelopes

CONSTANTS Proxies, Workers,
          KeyOf,           \* proxy -> the key pair of its client certificate
          Authorized,      \* proxies the control plane allows for the tenant
          Repositories,
          Configs,         \* upstream configurations: host, type, username, secret
          Realms,          \* token endpoints that registries may name
          IncludeUpstreamAuth,  \* the bundle transport is secure
          StoreKeys,       \* keys the control plane may be started with
          Lifetimes,       \* expires_in of issued tokens; 0 is absent
          DefaultTTL, Skew, MaxEntries,
          MaxUpdates, MaxTime   \* bounds

ASSUME CredentialsAssumption ==
    /\ KeyOf \in [Proxies -> [kind : KeyKinds, id : Nat]]
    /\ None \notin KeyKinds \cup {ecdhCurveForPublicKey(k) : k \in {"p256", "p384", "p521"}}
    /\ \A c \in Configs : c.type \in {"none", "basic", "bearer_token"}
    /\ None \notin Realms
    /\ Lifetimes \subseteq Nat /\ DefaultTTL \in Nat /\ Skew \in Nat
    /\ MaxEntries \in Nat \ {0}
    /\ MaxUpdates \in Nat /\ MaxTime \in Nat

VARIABLES row,       \* the upstream's row; its secret in a version-1 envelope
          storeKey,  \* the control plane's secret key
          stored,    \* history: the (host, secret) pairs the row ever had
          updates,
          bundle,    \* proxy -> the cached upstream of its bundle, or None
          fresh,     \* proxy -> whether the refresh interval has not passed
          tokens,    \* proxy -> token cache: key -> [token, expires]
          work,      \* worker -> its request
          sent,      \* history: secrets shown: to whom, and for which upstream
          named,     \* history: (registry, realm) pairs of bearer challenges
          raced,     \* history: a secret was rewrapped after its row had changed
          now

vars == <<row, storeKey, stored, updates, bundle, fresh, tokens, work, sent, named, raced, now>>

NoWork == [pc |-> "idle", proxy |-> None, repo |-> None, last |-> None, meta |-> None, upstream |-> None,
           realm |-> None, token |-> None, ttl |-> 0]

proxyState == <<bundle, fresh, tokens>>
controlState == <<row, storeKey, stored, updates>>

-----------------------------------------------------------------------------
(* Control plane.                                                          *)

Configured(type) == type # "none"

\* The row as UpstreamRepository stores it; "version" stands for updated_at.
StoredRow(c, key, n) ==
    [host |-> c.host, type |-> c.type, user |-> c.user,
     secret |-> IF Configured(c.type) THEN Encrypt(key, c.secret) ELSE None,
     version |-> n]

\* What the row pairs with its host.
SecretOf(r) == IF Configured(r.type) THEN r.secret.plain ELSE None
Pair(r) == <<r.host, SecretOf(r)>>

\* Update replaces the credentials only if the request has some: a request
\* without an auth section keeps them, also when it changes the host.
UpdateUpstream(c, auth) ==
    /\ updates < MaxUpdates
    /\ updates' = updates + 1
    /\ row' = IF auth THEN StoredRow(c, storeKey, updates + 1)
              ELSE [row EXCEPT !.host = c.host, !.version = updates + 1]
    /\ stored' = stored \cup {Pair(row')}
    /\ UNCHANGED <<storeKey, proxyState, work, sent, named, raced, now>>

\* The control plane restarts with another secret key: stored secrets do
\* not open any more.
ReplaceStoreKey(k) ==
    /\ updates < MaxUpdates
    /\ updates' = updates + 1
    /\ k # storeKey
    /\ storeKey' = k
    /\ UNCHANGED <<row, stored, proxyState, work, sent, named, raced, now>>

\* ListBundleByTenant: everything but the secret.
attachBundleAuthMetadata(r) ==
    [host |-> r.host, type |-> r.type, user |-> r.user, version |-> r.version, secret |-> None]

\* Mutant: any client certificate will do.
Bugauthorized(x) == x \in Proxies

\* TenantAuthorizationInterceptor: by the identities of the client certificate.
authorized(x) == x \in Authorized

\* RewrapUpstreamAuthSecret: the secret the row has now, for the peer's key.
RewrapUpstreamAuthSecret(x) ==
    IF ~Configured(row.type) \/ Decrypt(storeKey, row.secret) = None THEN None
    ELSE EncryptForPublicKey(KeyOf[x], Decrypt(storeKey, row.secret))

-----------------------------------------------------------------------------
(* The proxy's bundle cache.                                               *)

\* The request goes on with (a clone of) the bundle's upstream.
Proceed(x, r, u) == [NoWork EXCEPT !.pc = "send", !.proxy = x, !.repo = r, !.upstream = u]

\* A fresh entry is used at once, a missing or old one is refreshed first.
GetTenantBundle(w, x, r) ==
    /\ work[w].pc = "idle"
    /\ work' = [work EXCEPT ![w] =
            IF bundle[x] # None /\ fresh[x]
            THEN Proceed(x, r, bundle[x])
            ELSE [NoWork EXCEPT !.pc = "list", !.proxy = x, !.repo = r, !.last = bundle[x]]]
    /\ UNCHANGED <<controlState, proxyState, sent, named, raced, now>>

\* Last-known-good, else the request fails.
RefreshFailed(w) ==
    IF work[w].last # None THEN Proceed(work[w].proxy, work[w].repo, work[w].last)
    ELSE NoWork

\* The server side up to the listing of the upstreams.
ServeTenantBundle(w) ==
    LET x == work[w].proxy  meta == attachBundleAuthMetadata(row) IN
    /\ work[w].pc = "list"
    /\ work' = [work EXCEPT ![w] =
            IF ~authorized(x) \/ (Configured(meta.type) /\ ~IncludeUpstreamAuth)
            THEN RefreshFailed(w)
            ELSE [work[w] EXCEPT !.pc = IF Configured(meta.type) THEN "rewrap" ELSE "store",
                                 !.meta = meta]]
    /\ UNCHANGED <<controlState, proxyState, sent, named, raced, now>>

toBundleUpstreamAuth(w) ==
    LET secret == RewrapUpstreamAuthSecret(work[w].proxy) IN
    /\ work[w].pc = "rewrap"
    /\ work' = [work EXCEPT ![w] =
            IF secret = None THEN RefreshFailed(w)
            ELSE [work[w] EXCEPT !.pc = "store", !.meta.secret = secret]]
    /\ raced' = (raced \/ row.version # work[w].meta.version)
    /\ UNCHANGED <<controlState, proxyState, sent, named, now>>

\* The answer may also be lost.
LoseAnswer(w) ==
    /\ work[w].pc \in {"list", "rewrap", "store"}
    /\ work' = [work EXCEPT ![w] = RefreshFailed(w)]
    /\ UNCHANGED <<controlState, proxyState, sent, named, raced, now>>

\* Mutant: the credentials of the entry that is replaced are kept.
BugStoreBundle(w) ==
    LET x == work[w].proxy
        merged == IF bundle[x] # None /\ bundle[x].secret # None /\ work[w].meta.secret # None
                  THEN [work[w].meta EXCEPT !.secret = bundle[x].secret]
                  ELSE work[w].meta
    IN
    /\ work[w].pc = "store"
    /\ bundle' = [bundle EXCEPT ![x] = merged]
    /\ fresh' = [fresh EXCEPT ![x] = TRUE]
    /\ work' = [work EXCEPT ![w] = Proceed(x, work[w].repo, merged)]
    /\ UNCHANGED <<controlState, tokens, sent, named, raced, now>>

\* ToDomain, then store under the lock; the request goes on with a clone.
StoreBundle(w) ==
    /\ work[w].pc = "store"
    /\ bundle' = [bundle EXCEPT ![work[w].proxy] = work[w].meta]
    /\ fresh' = [fresh EXCEPT ![work[w].proxy] = TRUE]
    /\ work' = [work EXCEPT ![w] = Proceed(work[w].proxy, work[w].repo, work[w].meta)]
    /\ UNCHANGED <<controlState, tokens, sent, named, raced, now>>

IntervalPasses(x) ==
    /\ fresh[x]
    /\ fresh' = [fresh EXCEPT ![x] = FALSE]
    /\ UNCHANGED <<controlState, bundle, tokens, work, sent, named, raced, now>>

-----------------------------------------------------------------------------
(* Requests to the registry.                                               *)

\* A static bearer token is never replaced by a cached one.
canUseCachedBearer(u) == u.type # "bearer_token"

principal(u) == IF u.type = "none" THEN "anonymous" ELSE u.user

\* Mutant: the principal is not part of the key.
BugbearerTokenCacheKey(u, r) == <<u.host, r>>

bearerTokenCacheKey(u, r) == <<u.host, r, principal(u)>>

Get(x, key) ==
    IF key \in DOMAIN tokens[x] /\ tokens[x][key].expires > now THEN tokens[x][key].token
    ELSE None

\* An expired entry that was looked up goes.
AfterGet(x, key) ==
    [k \in {j \in DOMAIN tokens[x] : j = key => tokens[x][j].expires > now} |-> tokens[x][k]]

Shorten(ttl) == IF ttl > Skew THEN ttl - Skew ELSE ttl

\* Mutants: what has expired is dropped, but nothing when that is nothing;
\* a full cache is dropped without looking for what has expired.
BugSet(x, key, token, ttl) ==
    LET live == {k \in DOMAIN tokens[x] : tokens[x][k].expires > now}
        swept == IF Cardinality(DOMAIN tokens[x]) < MaxEntries THEN DOMAIN tokens[x] ELSE live
    IN [k \in swept \cup {key} |->
            IF k = key THEN [token |-> token, expires |-> now + Shorten(ttl)] ELSE tokens[x][k]]

BugSetClears(x, key, token, ttl) ==
    LET kept == IF Cardinality(DOMAIN tokens[x]) < MaxEntries THEN DOMAIN tokens[x] ELSE {}
    IN [k \in kept \cup {key} |->
            IF k = key THEN [token |-> token, expires |-> now + Shorten(ttl)] ELSE tokens[x][k]]

\* A full cache drops what has expired, and everything when that is nothing.
Set(x, key, token, ttl) ==
    LET live == {k \in DOMAIN tokens[x] : tokens[x][k].expires > now}
        swept == IF Cardinality(DOMAIN tokens[x]) < MaxEntries THEN DOMAIN tokens[x] ELSE live
        kept == IF Cardinality(swept) < MaxEntries THEN swept ELSE {}
    IN [k \in kept \cup {key} |->
            IF k = key THEN [token |-> token, expires |-> now + Shorten(ttl)] ELSE tokens[x][k]]

resolveAuthSecret(x, u) == IF u.secret = None THEN None ELSE ResolveSecret(KeyOf[x], u.secret)

\* The credentials of upstream u go to a host.
Show(x, u, to) ==
    sent \cup {[to |-> to, host |-> u.host, type |-> u.type, secret |-> resolveAuthSecret(x, u)]}

\* A cached token, else the credentials themselves.
doOCIRequest(w) ==
    LET x == work[w].proxy  u == work[w].upstream  key == bearerTokenCacheKey(u, work[w].repo)
        cached == IF canUseCachedBearer(u) THEN Get(x, key) ELSE None
    IN
    /\ work[w].pc = "send"
    /\ tokens' = [tokens EXCEPT ![x] = IF canUseCachedBearer(u) THEN AfterGet(x, key) ELSE @]
    /\ IF cached # None \/ ~Configured(u.type)
       THEN /\ work' = [work EXCEPT ![w].pc = "sent", ![w].token = cached]
            /\ UNCHANGED sent
       ELSE IF resolveAuthSecret(x, u) = None
       THEN /\ work' = [work EXCEPT ![w] = NoWork]
            /\ UNCHANGED sent
       ELSE /\ work' = [work EXCEPT ![w].pc = "sent"]
            /\ sent' = Show(x, u, u.host)
    /\ UNCHANGED <<controlState, bundle, fresh, named, raced, now>>

\* The registry (external) may serve or reject whatever it is shown: an
\* expired token is one it rejects.
RegistryServes(w) ==
    /\ work[w].pc = "sent"
    /\ work' = [work EXCEPT ![w] = NoWork]
    /\ UNCHANGED <<controlState, proxyState, sent, named, raced, now>>

\* 401, with a bearer challenge that names a realm, or without one.
RegistryRejects(w, realm) ==
    /\ work[w].pc = "sent"
    /\ work' = [work EXCEPT ![w] =
            IF realm # None
            THEN [work[w] EXCEPT !.pc = "token", !.token = None, !.realm = realm]
            ELSE NoWork]
    /\ named' = IF realm # None THEN named \cup {<<work[w].upstream.host, realm>>} ELSE named
    /\ UNCHANGED <<controlState, proxyState, sent, raced, now>>

\* The realm is asked for a token, whatever host it is on.  Only basic
\* credentials go there.
requestBearerToken(w, lifetime) ==
    LET x == work[w].proxy  u == work[w].upstream IN
    /\ work[w].pc = "token"
    /\ u.type = "basic" => resolveAuthSecret(x, u) # None
    /\ sent' = IF u.type = "basic" THEN Show(x, u, work[w].realm) ELSE sent
    /\ work' = [work EXCEPT ![w].pc = "retry",
                            ![w].token = [host |-> u.host, repo |-> work[w].repo,
                                          principal |-> IF u.type = "basic" THEN u.user
                                                        ELSE "anonymous"],
                            ![w].ttl = IF lifetime = 0 THEN DefaultTTL ELSE lifetime]
    /\ UNCHANGED <<controlState, proxyState, named, raced, now>>

TokenEndpointFails(w) ==
    /\ work[w].pc = "token"
    /\ work' = [work EXCEPT ![w] = NoWork]
    /\ UNCHANGED <<controlState, proxyState, sent, named, raced, now>>

\* The retry was served: the token is kept for the next request.
RetryServed(w) ==
    LET x == work[w].proxy  u == work[w].upstream IN
    /\ work[w].pc = "retry"
    /\ tokens' = IF canUseCachedBearer(u)
                 THEN [tokens EXCEPT ![x] = Set(x, bearerTokenCacheKey(u, work[w].repo),
                                                work[w].token, work[w].ttl)]
                 ELSE tokens
    /\ work' = [work EXCEPT ![w] = NoWork]
    /\ UNCHANGED <<controlState, bundle, fresh, sent, named, raced, now>>

RetryRejected(w) ==
    /\ work[w].pc = "retry"
    /\ work' = [work EXCEPT ![w] = NoWork]
    /\ UNCHANGED <<controlState, proxyState, sent, named, raced, now>>

Tick ==
    /\ now < MaxTime
    /\ now' = now + 1
    /\ UNCHANGED <<controlState, proxyState, work, sent, named, raced>>

-----------------------------------------------------------------------------
Init ==
    /\ storeKey \in StoreKeys
    /\ \E c \in Configs : row = StoredRow(c, storeKey, 0)
    /\ stored = {Pair(row)}
    /\ updates = 0
    /\ bundle = [x \in Proxies |-> None]
    /\ fresh = [x \in Proxies |-> FALSE]
    /\ tokens = [x \in Proxies |-> <<>>]
    /\ work = [w \in Workers |-> NoWork]
    /\ sent = {}
    /\ named = {}
    /\ raced = FALSE
    /\ now = 0

WorkerStep(w) ==
    \/ \E x \in Proxies, r \in Repositories : GetTenantBundle(w, x, r)
    \/ ServeTenantBundle(w)
    \/ toBundleUpstreamAuth(w)
    \/ LoseAnswer(w)
    \/ StoreBundle(w)
    \/ doOCIRequest(w)
    \/ RegistryServes(w)
    \/ \E realm \in Realms \cup {None} : RegistryRejects(w, realm)
    \/ \E lifetime \in Lifetimes : requestBearerToken(w, lifetime)
    \/ TokenEndpointFails(w)
    \/ RetryServed(w)
    \/ RetryRejected(w)

Next ==
    \/ \E c \in Configs, auth \in BOOLEAN : UpdateUpstream(c, auth)
    \/ \E k \in StoreKeys : ReplaceStoreKey(k)
    \/ \E w \in Workers : WorkerStep(w)
    \/ \E x \in Proxies : IntervalPasses(x)
    \/ Tick

Spec == Init /\ [][Next]_vars

-----------------------------------------------------------------------------
(* Properties.                                                             *)

PCs == {"idle", "list", "rewrap", "store", "send", "sent", "token", "retry"}
Hosts == {c.host : c \in Configs}
Principals == {"anonymous"} \cup {c.user : c \in Configs}

UpstreamRecord ==
    [host : Hosts, type : {c.type : c \in Configs}, user : {c.user : c \in Configs},
     version : Nat,
     secret : {None} \cup {EncryptForPublicKey(KeyOf[x], c.secret) : x \in Proxies, c \in Configs}]
Token == [host : Hosts, repo : Repositories, principal : Principals]
Work ==
    [pc : PCs, proxy : Proxies \cup {None}, repo : Repositories \cup {None},
     last : UpstreamRecord \cup {None}, meta : UpstreamRecord \cup {None},
     upstream : UpstreamRecord \cup {None}, realm : Realms \cup {None}, token : Token \cup {None}, ttl : Nat]

\* Rows, bundles, requests and cached tokens are made of what configurations
\* and keys allow.
TypeOK ==
    /\ storeKey \in StoreKeys
    /\ row \in {[StoredRow(c, k, n) EXCEPT !.host = h] :
                   c \in Configs, k \in StoreKeys, n \in 0..MaxUpdates, h \in Hosts}
    /\ updates \in 0..MaxUpdates /\ now \in 0..MaxTime
    /\ bundle \in [Proxies -> UpstreamRecord \cup {None}]
    /\ fresh \in [Proxies -> BOOLEAN]
    /\ tokens = [x \in Proxies |-> tokens[x]]
    /\ \A x \in Proxies :
         /\ tokens[x] \in [DOMAIN tokens[x] -> [token : Token, expires : Nat]]
         /\ DOMAIN tokens[x] \subseteq Hosts \X Repositories \X Principals
    /\ work \in [Workers -> Work]
    /\ named \subseteq Hosts \X Realms
    /\ raced \in BOOLEAN

\* Whoever is shown a secret is the registry whose row held that secret at some
\* time, because an administrator stored it there or kept it while moving the
\* upstream there, or a realm which that registry named in a challenge, which
\* sees basic credentials only.  The exception is a row that changed between the
\* two queries that assemble a bundle (BundleService lists the upstreams, the
\* rewrapper reads the secret again).
SecretsStayWithTheirHost ==
    ~raced => \A s \in sent :
        /\ <<s.host, s.secret>> \in stored
        /\ s.to # s.host => s.type = "basic" /\ <<s.host, s.to>> \in named

\* What a proxy caches was made for it: it is authorized for the tenant,
\* the credentials open with its own private key, and they are credentials
\* the row had.
BundleForItsProxy ==
    \A x \in Proxies :
        bundle[x] # None =>
            /\ x \in Authorized
            /\ Configured(bundle[x].type) =>
                 \E pair \in stored : /\ resolveAuthSecret(x, bundle[x]) # None
                                   /\ resolveAuthSecret(x, bundle[x]) = pair[2]

\* The token a request presents was issued for its registry, its repository
\* and its own principal, whatever updates of the upstream the workers of
\* the proxy see in which order.
TokensKeptApart ==
    \A w \in Workers :
        work[w].pc \in {"sent", "retry"} /\ work[w].token # None =>
            /\ work[w].token.host = work[w].upstream.host
            /\ work[w].token.repo = work[w].repo
            /\ canUseCachedBearer(work[w].upstream) =>
                    work[w].token.principal = principal(work[w].upstream)

\* The token cache never outgrows its limit.
TokenCacheBounded == \A x \in Proxies : Cardinality(DOMAIN tokens[x]) <= MaxEntries

\* A token that has not expired is only dropped when the cache is full of
\* such tokens.
LiveTokensKept ==
    [][\A x \in Proxies : \A k \in DOMAIN tokens[x] :
        tokens[x][k].expires > now /\ k \notin DOMAIN tokens'[x] =>
            Cardinality({j \in DOMAIN tokens[x] : tokens[x][j].expires > now}) >= MaxEntries]_vars
=============================================================================
