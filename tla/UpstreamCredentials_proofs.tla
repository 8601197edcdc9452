--------------------- MODULE UpstreamCredentials_proofs ---------------------
(***************************************************************************)
(* What happens to an upstream's credentials for any number of proxies,    *)
(* workers, configurations and keys.  The invariant says what is held in   *)
(* every place a secret passes through: the row, the answer under way, the *)
(* bundle cache, its last-known-good copy and the request itself.          *)
(***************************************************************************)
EXTENDS UpstreamCredentials, FiniteSetTheorems, TLAPS

\* Upstream u may be in the hands of proxy x: the secret opens with x's key
\* to one that was stored, and stored with u's host unless a row changed
\* between the two queries.  S and r are the values of stored and raced.
Held(x, u, S, r) ==
    /\ x \in Authorized
    /\ Configured(u.type) =>
         /\ resolveAuthSecret(x, u) # None
         /\ \E pair \in S : resolveAuthSecret(x, u) = pair[2]
         /\ r \/ <<u.host, resolveAuthSecret(x, u)>> \in S

\* The token of a request belongs to it.
TokenFits(a) ==
    /\ a.token.host = a.upstream.host
    /\ a.token.repo = a.repo
    /\ canUseCachedBearer(a.upstream) => a.token.principal = principal(a.upstream)

\* One worker; R, n and N are the row, the number of updates and the realms
\* that were named.  What was listed from the row is no newer than it, and as
\* old only if it is the same.
GoodWork(a, S, r, R, n, N) ==
    /\ a.pc # "idle" => a.proxy \in Proxies /\ a.repo \in Repositories
    /\ a.pc \in {"send", "sent", "token", "retry"} =>
         a.upstream \in UpstreamRecord /\ Held(a.proxy, a.upstream, S, r)
    /\ a.last # None => Held(a.proxy, a.last, S, r)
    /\ a.pc \in {"rewrap", "store"} => a.meta \in UpstreamRecord /\ a.proxy \in Authorized
    /\ a.pc = "rewrap" => /\ a.meta.version <= n
                          /\ a.meta.version = R.version => a.meta.host = R.host
    /\ a.pc = "store" => Held(a.proxy, a.meta, S, r)
    /\ a.pc = "sent" /\ a.token # None => TokenFits(a)
    /\ a.pc = "send" => a.token = None
    /\ a.pc = "token" => a.realm \in Realms /\ <<a.upstream.host, a.realm>> \in N
    /\ a.pc = "retry" => a.token \in Token /\ TokenFits(a)

CacheType(t) ==
    /\ t \in [DOMAIN t -> [token : Token, expires : Nat]]
    /\ DOMAIN t \subseteq Hosts \X Repositories \X Principals

\* One token cache: within its limit, each token under its own key.
GoodCache(t) ==
    /\ CacheType(t)
    /\ IsFiniteSet(DOMAIN t) /\ Cardinality(DOMAIN t) <= MaxEntries
    /\ \A k \in DOMAIN t : t[k].token = [host |-> k[1], repo |-> k[2], principal |-> k[3]]

\* What was shown: secrets of their host, to it or to a realm that it named.
Shown(P, S, N) ==
    \A s \in P :
        /\ <<s.host, s.secret>> \in S
        /\ s.to # s.host => s.type = "basic" /\ <<s.host, s.to>> \in N

\* The credentials of one configuration, perhaps with the host of another.
RowInv ==
    /\ Pair(row) \in stored
    /\ \E c \in Configs, k \in StoreKeys, n \in 0..updates, h \in Hosts :
           row = [StoredRow(c, k, n) EXCEPT !.host = h]

\* The inductive invariant.
CredentialsInv ==
    /\ TypeOK
    /\ RowInv
    /\ \A x \in Proxies : bundle[x] # None => Held(x, bundle[x], stored, raced)
    /\ \A x \in Proxies : GoodCache(tokens[x])
    /\ \A w \in Workers : GoodWork(work[w], stored, raced, row, updates, named)
    /\ SecretsStayWithTheirHost

-----------------------------------------------------------------------------
\* The algorithm in a hybrid envelope is that of the key it was made for.
LEMMA CurveOfAlgorithm ==
    ASSUME NEW kind \in {"p256", "p384", "p521"}
    PROVE  ecdhCurveForAlgorithm(ecdhCurveForPublicKey(kind)) = kind
<1>1. /\ ecdhCurveForPublicKey("p256") = "ecies-p256-aes256gcm"
      /\ ecdhCurveForPublicKey("p384") = "ecies-p384-aes256gcm"
      /\ ecdhCurveForPublicKey("p521") = "ecies-p521-aes256gcm"
  BY DEF ecdhCurveForPublicKey
<1>2. \A j \in {"p256", "p384", "p521"} :
          ecdhCurveForPublicKey(j) = ecdhCurveForPublicKey(kind) => j = kind
  BY <1>1
<1> DEFINE alg == ecdhCurveForPublicKey(kind)
           chosen == CHOOSE j \in {"p256", "p384", "p521"} : ecdhCurveForPublicKey(j) = alg
<1>3. chosen \in {"p256", "p384", "p521"} /\ ecdhCurveForPublicKey(chosen) = alg BY Zenon
<1>4. chosen = kind BY <1>2, <1>3
<1> QED BY <1>4 DEF ecdhCurveForAlgorithm

\* What was encrypted for a key pair opens with it.
LEMMA RoundTrip ==
    ASSUME NEW key \in [kind : KeyKinds, id : Nat], NEW plain,
           EncryptForPublicKey(key, plain) # None
    PROVE  ResolveSecret(key, EncryptForPublicKey(key, plain)) = plain
<1>1. CASE key.kind = "rsa"
  BY <1>1 DEF EncryptForPublicKey, encryptRSA, HybridEnvelope, ResolveSecret, IsHybridEnvelope,
              DecryptWithPrivateKey, decryptRSA
<1>2. CASE key.kind # "rsa"
  <2>1. ecdhCurveForPublicKey(key.kind) # None
    BY <1>2 DEF EncryptForPublicKey, encryptEC
  <2>2. key.kind \in {"p256", "p384", "p521"}
    BY <1>2, <2>1 DEF ecdhCurveForPublicKey, KeyKinds
  <2>3. ecdhCurveForAlgorithm(ecdhCurveForPublicKey(key.kind)) = key.kind
    BY <2>2, CurveOfAlgorithm
  <2>4. key.kind # None BY <2>2, CredentialsAssumption DEF KeyKinds
  <2> DEFINE env == EncryptForPublicKey(key, plain)
  <2>5. /\ env.version = 2 /\ env.alg = ecdhCurveForPublicKey(key.kind)
        /\ env.for = key /\ env.plain = plain
    BY <1>2, <2>1 DEF EncryptForPublicKey, encryptEC, HybridEnvelope
  <2> HIDE DEF env
  <2>6. ResolveSecret(key, env) = decryptEC(key, env)
    BY <1>2, <2>2, <2>3, <2>4, <2>5 DEF ResolveSecret, IsHybridEnvelope, DecryptWithPrivateKey
  <2>7. decryptEC(key, env) = plain BY <2>3, <2>5 DEF decryptEC
  <2> QED BY <2>6, <2>7 DEF env
<1> QED BY <1>1, <1>2

LEMMA NoWorkIsGood ==
    NoWork \in Work /\ \A S, r, R, n, N : GoodWork(NoWork, S, r, R, n, N)
<1>1. NoWork \in Work BY DEF NoWork, Work, PCs
<1>2. /\ NoWork.pc = "idle" /\ NoWork.last = None
  BY DEF NoWork
<1> QED BY <1>1, <1>2 DEF GoodWork

\* A secret that may be held stays so as pairs are stored and races happen.
LEMMA HeldStays ==
    ASSUME NEW x, NEW u, NEW S, NEW T, NEW r \in BOOLEAN, NEW q \in BOOLEAN,
           S \subseteq T, r => q, Held(x, u, S, r)
    PROVE  Held(x, u, T, q)
BY DEF Held

LEMMA GoodWorkStays ==
    ASSUME NEW a, NEW S, NEW T, NEW r \in BOOLEAN, NEW q \in BOOLEAN, NEW R, NEW n,
           NEW N, NEW M, S \subseteq T, r => q, N \subseteq M, GoodWork(a, S, r, R, n, N)
    PROVE  GoodWork(a, T, q, R, n, M)
<1>1. \A x, u : Held(x, u, S, r) => Held(x, u, T, q) BY HeldStays
<1> QED BY <1>1 DEF GoodWork

\* A worker that proceeds with an upstream it may hold.
LEMMA ProceedIsGood ==
    ASSUME NEW x \in Proxies, NEW r \in Repositories, NEW u \in UpstreamRecord,
           NEW S, NEW q, NEW R, NEW n, NEW N, Held(x, u, S, q)
    PROVE  Proceed(x, r, u) \in Work /\ GoodWork(Proceed(x, r, u), S, q, R, n, N)
<1> DEFINE a == Proceed(x, r, u)
<1>1. a \in Work BY DEF Proceed, NoWork, Work, PCs
<1>2. /\ a.pc = "send" /\ a.proxy = x /\ a.repo = r /\ a.upstream = u /\ a.last = None
      /\ a.token = None
  BY DEF Proceed, NoWork
<1> HIDE DEF a
<1>3. GoodWork(a, S, q, R, n, N) BY <1>2 DEF GoodWork
<1> QED BY <1>1, <1>3 DEF a

-----------------------------------------------------------------------------
\* What the invariant says of one worker.
LEMMA WorkerFacts ==
    ASSUME CredentialsInv, NEW w \in Workers
    PROVE  /\ work[w] \in Work /\ GoodWork(work[w], stored, raced, row, updates, named)
           /\ work \in [Workers -> Work]
           /\ raced \in BOOLEAN /\ updates \in 0..MaxUpdates /\ now \in 0..MaxTime
           /\ bundle \in [Proxies -> UpstreamRecord \cup {None}] /\ fresh \in [Proxies -> BOOLEAN]
BY DEF CredentialsInv, TypeOK

\* A worker moves on while the row stays as it is.
LEMMA WorkerMoves ==
    ASSUME CredentialsInv, NEW w \in Workers, NEW a \in Work,
           GoodWork(a, stored, raced', row, updates, named'),
           work' = [work EXCEPT ![w] = a],
           UNCHANGED <<controlState, now>>,
           named \subseteq named', named' \subseteq Hosts \X Realms,
           raced' \in BOOLEAN, raced => raced',
           bundle' \in [Proxies -> UpstreamRecord \cup {None}],
           \A x \in Proxies : bundle'[x] # None => Held(x, bundle'[x], stored, raced'),
           fresh' \in [Proxies -> BOOLEAN],
           tokens' = [x \in Proxies |-> tokens'[x]],
           \A x \in Proxies : GoodCache(tokens'[x]),
           ~raced' => Shown(sent', stored, named')
    PROVE  CredentialsInv'
<1>1. TypeOK /\ raced \in BOOLEAN /\ work \in [Workers -> Work] BY DEF CredentialsInv, TypeOK
<1>2. row' = row /\ storeKey' = storeKey /\ stored' = stored /\ updates' = updates /\ now' = now
  BY DEF controlState
<1>3. \A x \in Proxies :
        /\ tokens'[x] \in [DOMAIN tokens'[x] -> [token : Token, expires : Nat]]
        /\ DOMAIN tokens'[x] \subseteq Hosts \X Repositories \X Principals
  BY DEF GoodCache, CacheType
<1>4. work' \in [Workers -> Work] BY <1>1
<1>5. TypeOK' BY <1>1, <1>2, <1>3, <1>4 DEF TypeOK
<1>6. RowInv' BY <1>2 DEF CredentialsInv, RowInv, Pair, SecretOf
<1>7. ASSUME NEW v \in Workers PROVE GoodWork(work'[v], stored, raced', row, updates, named')
  <2>1. CASE v = w BY <1>1, <2>1
  <2>2. CASE v # w
    <3>1. work'[v] = work[v] BY <1>1, <2>2
    <3>2. GoodWork(work[v], stored, raced, row, updates, named) BY DEF CredentialsInv
    <3>3. GoodWork(work[v], stored, raced', row, updates, named') BY <1>1, <3>2, GoodWorkStays
    <3> QED BY <3>1, <3>3
  <2> QED BY <2>1, <2>2
<1>8. (\A v \in Workers : GoodWork(work[v], stored, raced, row, updates, named))' BY <1>2, <1>7
<1>9. (\A x \in Proxies : bundle[x] # None => Held(x, bundle[x], stored, raced))' BY <1>2
<1>10. SecretsStayWithTheirHost' BY <1>2 DEF SecretsStayWithTheirHost, Shown
<1> QED BY <1>5, <1>6, <1>8, <1>9, <1>10 DEF CredentialsInv

\* A worker moves on and nothing else happens.
LEMMA WorkerOnly ==
    ASSUME CredentialsInv, NEW w \in Workers, NEW a \in Work,
           GoodWork(a, stored, raced, row, updates, named),
           work' = [work EXCEPT ![w] = a],
           UNCHANGED <<controlState, proxyState, named, raced, now>>,
           ~raced => Shown(sent', stored, named)
    PROVE  CredentialsInv'
<1>1. bundle' = bundle /\ fresh' = fresh /\ tokens' = tokens /\ raced' = raced
  BY DEF proxyState
<1>2. /\ raced' \in BOOLEAN /\ bundle' \in [Proxies -> UpstreamRecord \cup {None}]
      /\ fresh' \in [Proxies -> BOOLEAN] /\ tokens' = [x \in Proxies |-> tokens'[x]]
  BY <1>1 DEF CredentialsInv, TypeOK
<1>3. /\ \A x \in Proxies : bundle'[x] # None => Held(x, bundle'[x], stored, raced')
      /\ \A x \in Proxies : GoodCache(tokens'[x])
  BY <1>1 DEF CredentialsInv
<1>4. GoodWork(a, stored, raced', row, updates, named) BY <1>1
<1>5. raced => raced' BY <1>1
<1>6. named' = named /\ named' \subseteq Hosts \X Realms BY DEF CredentialsInv, TypeOK
<1>7. ~raced' => Shown(sent', stored, named') BY <1>1, <1>6
<1>8. GoodWork(a, stored, raced', row, updates, named') BY <1>4, <1>6
<1> QED BY <1>2, <1>3, <1>5, <1>6, <1>7, <1>8, WorkerMoves

\* A request that ends, and a step after which nothing is sent.
LEMMA WorkerEnds ==
    ASSUME CredentialsInv, NEW w \in Workers, work' = [work EXCEPT ![w] = NoWork],
           UNCHANGED <<controlState, proxyState, sent, named, raced, now>>
    PROVE  CredentialsInv'
<1>1. ~raced => Shown(sent', stored, named) BY DEF CredentialsInv, SecretsStayWithTheirHost, Shown
<1> QED BY <1>1, NoWorkIsGood, WorkerOnly

LEMMA RefreshFailedIsGood ==
    ASSUME CredentialsInv, NEW w \in Workers, work[w].pc # "idle"
    PROVE  RefreshFailed(w) \in Work
           /\ GoodWork(RefreshFailed(w), stored, raced, row, updates, named)
<1>1. work[w] \in Work /\ GoodWork(work[w], stored, raced, row, updates, named) BY WorkerFacts
<1>2. work[w].proxy \in Proxies /\ work[w].repo \in Repositories BY <1>1 DEF GoodWork
<1>3. CASE work[w].last = None
  BY <1>3, NoWorkIsGood DEF RefreshFailed
<1>4. CASE work[w].last # None
  <2>1. work[w].last \in UpstreamRecord BY <1>1, <1>4 DEF Work
  <2>2. Held(work[w].proxy, work[w].last, stored, raced) BY <1>1, <1>4 DEF GoodWork
  <2> QED BY <1>2, <1>4, <2>1, <2>2, ProceedIsGood DEF RefreshFailed
<1> QED BY <1>3, <1>4

LEMMA LoseAnswerKeeps ==
    ASSUME CredentialsInv, NEW w \in Workers, LoseAnswer(w)
    PROVE  CredentialsInv'
<1>1. RefreshFailed(w) \in Work /\ GoodWork(RefreshFailed(w), stored, raced, row, updates, named)
  BY RefreshFailedIsGood DEF LoseAnswer
<1>2. ~raced => Shown(sent', stored, named) BY DEF LoseAnswer, CredentialsInv, SecretsStayWithTheirHost, Shown
<1> HIDE DEF RefreshFailed
<1> QED BY <1>1, <1>2, WorkerOnly DEF LoseAnswer

LEMMA GetTenantBundleKeeps ==
    ASSUME CredentialsInv, NEW w \in Workers, NEW x \in Proxies, NEW r \in Repositories,
           GetTenantBundle(w, x, r)
    PROVE  CredentialsInv'
<1>1. bundle[x] \in UpstreamRecord \cup {None}
      /\ (bundle[x] # None => Held(x, bundle[x], stored, raced))
  BY DEF CredentialsInv, TypeOK
<1> DEFINE a == IF bundle[x] # None /\ fresh[x]
                THEN Proceed(x, r, bundle[x])
                ELSE [NoWork EXCEPT !.pc = "list", !.proxy = x, !.repo = r, !.last = bundle[x]]
<1>2. work' = [work EXCEPT ![w] = a] BY DEF GetTenantBundle
<1>3. ~raced => Shown(sent', stored, named)
  BY DEF GetTenantBundle, CredentialsInv, SecretsStayWithTheirHost, Shown
<1>4. a \in Work /\ GoodWork(a, stored, raced, row, updates, named)
  <2>1. CASE bundle[x] # None /\ fresh[x] BY <1>1, <2>1, ProceedIsGood
  <2>2. CASE ~(bundle[x] # None /\ fresh[x])
    <3> DEFINE b == [NoWork EXCEPT !.pc = "list", !.proxy = x, !.repo = r, !.last = bundle[x]]
    <3>1. b \in Work BY <1>1 DEF NoWork, Work, PCs
    <3>2. b.pc = "list" /\ b.proxy = x /\ b.repo = r /\ b.last = bundle[x] BY DEF NoWork
    <3>3. a = b BY <2>2
    <3> HIDE DEF a, b
    <3>4. GoodWork(b, stored, raced, row, updates, named) BY <1>1, <3>2 DEF GoodWork
    <3> QED BY <3>1, <3>3, <3>4
  <2> QED BY <2>1, <2>2
<1> HIDE DEF a
<1> QED BY <1>2, <1>3, <1>4, WorkerOnly DEF GetTenantBundle

-----------------------------------------------------------------------------
(* The control plane's answer.                                             *)

\* The row as far as the bundle shows it.
LEMMA RowFacts ==
    ASSUME CredentialsInv
    PROVE  \E c \in Configs, k \in StoreKeys, n \in 0..updates :
             /\ row.host \in Hosts /\ row.type = c.type /\ row.user = c.user /\ row.version = n
             /\ Configured(c.type) => /\ row.secret = Encrypt(k, c.secret)
                                      /\ <<row.host, c.secret>> \in stored
             /\ n \in Nat
<1>1. PICK c \in Configs, k \in StoreKeys, n \in 0..updates, h \in Hosts :
          row = [StoredRow(c, k, n) EXCEPT !.host = h]
  BY DEF CredentialsInv, RowInv
<1>2. /\ row.host = h /\ row.type = c.type /\ row.user = c.user /\ row.version = n
      /\ Configured(c.type) => row.secret = Encrypt(k, c.secret)
  BY <1>1 DEF StoredRow
<1>3. Configured(c.type) => <<row.host, c.secret>> \in stored
  <2>1. Pair(row) \in stored BY DEF CredentialsInv, RowInv
  <2> QED BY <1>2, <2>1 DEF Pair, SecretOf, Encrypt
<1> QED BY <1>2, <1>3

LEMMA ListedIsTyped ==
    ASSUME CredentialsInv
    PROVE  /\ attachBundleAuthMetadata(row) \in UpstreamRecord
           /\ attachBundleAuthMetadata(row).version = row.version
           /\ attachBundleAuthMetadata(row).host = row.host
           /\ attachBundleAuthMetadata(row).type = row.type
           /\ row.version <= updates
<1>1. PICK c \in Configs, k \in StoreKeys, n \in 0..updates :
             /\ row.host \in Hosts /\ row.type = c.type /\ row.user = c.user /\ row.version = n
             /\ n \in Nat
  BY RowFacts
<1>2. row.version <= updates BY <1>1 DEF CredentialsInv, TypeOK
<1>3. attachBundleAuthMetadata(row) \in UpstreamRecord
  BY <1>1 DEF attachBundleAuthMetadata, UpstreamRecord
<1> QED BY <1>2, <1>3 DEF attachBundleAuthMetadata

LEMMA ServeTenantBundleKeeps ==
    ASSUME CredentialsInv, NEW w \in Workers, ServeTenantBundle(w)
    PROVE  CredentialsInv'
<1>1. work[w] \in Work /\ GoodWork(work[w], stored, raced, row, updates, named) BY WorkerFacts
<1>2. work[w].pc = "list" /\ work[w].proxy \in Proxies /\ work[w].repo \in Repositories
  BY <1>1 DEF GoodWork, ServeTenantBundle
<1> DEFINE meta == attachBundleAuthMetadata(row)
           refused == ~authorized(work[w].proxy) \/ (Configured(meta.type) /\ ~IncludeUpstreamAuth)
           b == [work[w] EXCEPT !.pc = IF Configured(meta.type) THEN "rewrap" ELSE "store",
                                !.meta = meta]
           a == IF refused THEN RefreshFailed(w) ELSE b
<1>3. work' = [work EXCEPT ![w] = a] BY DEF ServeTenantBundle
<1>4. ~raced => Shown(sent', stored, named)
  BY DEF ServeTenantBundle, CredentialsInv, SecretsStayWithTheirHost, Shown
<1>5. /\ meta \in UpstreamRecord /\ meta.version = row.version /\ meta.host = row.host
      /\ row.version <= updates
  BY ListedIsTyped
<1> HIDE DEF meta
<1>6. CASE refused
  <2>1. a \in Work /\ GoodWork(a, stored, raced, row, updates, named)
    BY <1>2, <1>6, RefreshFailedIsGood
  <2> HIDE DEF a
  <2> QED BY <1>3, <1>4, <2>1, WorkerOnly DEF ServeTenantBundle
<1>7. CASE ~refused
  <2>1. work[w].proxy \in Authorized BY <1>7 DEF authorized
  <2>2. b \in Work BY <1>1, <1>5 DEF Work, PCs
  <2>3. /\ b.pc = IF Configured(meta.type) THEN "rewrap" ELSE "store"
        /\ b.meta = meta /\ b.proxy = work[w].proxy /\ b.repo = work[w].repo
        /\ b.last = work[w].last
    BY <1>1 DEF Work
  <2>4. work[w].last # None => Held(work[w].proxy, work[w].last, stored, raced)
    BY <1>1 DEF GoodWork
  <2>5. a = b BY <1>7
  <2> HIDE DEF b, a
  <2>6. ~Configured(meta.type) => Held(work[w].proxy, meta, stored, raced)
    BY <2>1 DEF Held
  <2>7. GoodWork(b, stored, raced, row, updates, named)
    <3>1. CASE Configured(meta.type)
      BY <1>2, <1>5, <2>1, <2>3, <2>4, <3>1 DEF GoodWork
    <3>2. CASE ~Configured(meta.type)
      BY <1>2, <1>5, <2>1, <2>3, <2>4, <2>6, <3>2 DEF GoodWork
    <3> QED BY <3>1, <3>2
  <2> QED BY <1>3, <1>4, <2>2, <2>5, <2>7, WorkerOnly DEF ServeTenantBundle
<1> QED BY <1>6, <1>7

\* What the rewrapper returns opens, for the proxy it is for, to the secret
\* the row has now.
LEMMA RewrappedSecret ==
    ASSUME CredentialsInv, NEW x \in Proxies, RewrapUpstreamAuthSecret(x) # None
    PROVE  \E c \in Configs :
             /\ RewrapUpstreamAuthSecret(x) = EncryptForPublicKey(KeyOf[x], c.secret)
             /\ ResolveSecret(KeyOf[x], RewrapUpstreamAuthSecret(x)) = c.secret
             /\ c.secret # None
             /\ <<row.host, c.secret>> \in stored
<1>1. PICK c \in Configs, k \in StoreKeys, n \in 0..updates :
             /\ row.host \in Hosts /\ row.type = c.type /\ row.user = c.user /\ row.version = n
             /\ Configured(c.type) => /\ row.secret = Encrypt(k, c.secret)
                                      /\ <<row.host, c.secret>> \in stored
             /\ n \in Nat
  BY RowFacts
<1>2. Configured(row.type) /\ Decrypt(storeKey, row.secret) # None
  BY DEF RewrapUpstreamAuthSecret
<1>3. row.secret = Encrypt(k, c.secret) BY <1>1, <1>2
<1>4. Decrypt(storeKey, row.secret) = c.secret BY <1>2, <1>3 DEF Decrypt, Encrypt
<1>5. RewrapUpstreamAuthSecret(x) = EncryptForPublicKey(KeyOf[x], c.secret)
  BY <1>2, <1>4 DEF RewrapUpstreamAuthSecret
<1>6. KeyOf[x] \in [kind : KeyKinds, id : Nat] BY CredentialsAssumption
<1>7. ResolveSecret(KeyOf[x], EncryptForPublicKey(KeyOf[x], c.secret)) = c.secret
  BY <1>5, <1>6, RoundTrip
<1> QED BY <1>1, <1>2, <1>4, <1>5, <1>7

LEMMA RewrapKeeps ==
    ASSUME CredentialsInv, NEW w \in Workers, toBundleUpstreamAuth(w)
    PROVE  CredentialsInv'
<1>1. work[w] \in Work /\ GoodWork(work[w], stored, raced, row, updates, named) /\ raced \in BOOLEAN
  BY WorkerFacts
<1>2. /\ work[w].pc = "rewrap" /\ work[w].proxy \in Proxies /\ work[w].repo \in Repositories
      /\ work[w].meta \in UpstreamRecord /\ work[w].proxy \in Authorized
      /\ work[w].meta.version = row.version => work[w].meta.host = row.host
      /\ work[w].last # None => Held(work[w].proxy, work[w].last, stored, raced)
  BY <1>1 DEF GoodWork, toBundleUpstreamAuth
<1> DEFINE x == work[w].proxy
           secret == RewrapUpstreamAuthSecret(x)
           b == [work[w] EXCEPT !.pc = "store", !.meta.secret = secret]
           a == IF secret = None THEN RefreshFailed(w) ELSE b
<1>3. work' = [work EXCEPT ![w] = a] BY DEF toBundleUpstreamAuth
<1>4. /\ raced' = (raced \/ row.version # work[w].meta.version)
      /\ UNCHANGED <<controlState, proxyState, sent, named, now>>
  BY DEF toBundleUpstreamAuth
<1>5. raced' \in BOOLEAN /\ (raced => raced') BY <1>1, <1>4
<1>6. /\ bundle' \in [Proxies -> UpstreamRecord \cup {None}] /\ fresh' \in [Proxies -> BOOLEAN]
      /\ tokens' = [y \in Proxies |-> tokens'[y]] /\ \A y \in Proxies : GoodCache(tokens'[y])
  BY <1>4 DEF proxyState, CredentialsInv, TypeOK
<1>7. \A y \in Proxies : bundle'[y] # None => Held(y, bundle'[y], stored, raced')
  <2>1. bundle' = bundle BY <1>4 DEF proxyState
  <2>2. \A y \in Proxies : bundle[y] # None => Held(y, bundle[y], stored, raced)
    BY DEF CredentialsInv
  <2>3. \A y, u : Held(y, u, stored, raced) => Held(y, u, stored, raced')
    BY <1>1, <1>5, HeldStays
  <2> QED BY <2>1, <2>2, <2>3
<1>8. ~raced' => Shown(sent', stored, named)
  BY <1>4, <1>5 DEF CredentialsInv, SecretsStayWithTheirHost, Shown
<1>9. a \in Work /\ GoodWork(a, stored, raced', row, updates, named)
  <2>1. CASE secret = None
    <3>1. a \in Work /\ GoodWork(a, stored, raced, row, updates, named)
      BY <1>2, <2>1, RefreshFailedIsGood
    <3> HIDE DEF a
    <3> QED BY <1>1, <1>5, <3>1, GoodWorkStays
  <2>2. CASE secret # None
    <3>1. PICK c \in Configs :
             /\ secret = EncryptForPublicKey(KeyOf[x], c.secret)
             /\ ResolveSecret(KeyOf[x], secret) = c.secret
             /\ c.secret # None
             /\ <<row.host, c.secret>> \in stored
      BY <1>2, <2>2, RewrappedSecret
    <3> HIDE DEF secret
    <3> DEFINE m == [work[w].meta EXCEPT !.secret = secret]
    <3>2. m \in UpstreamRecord BY <1>2, <3>1 DEF UpstreamRecord
    <3>3. m.secret = secret /\ m.host = work[w].meta.host /\ m.type = work[w].meta.type
      BY <1>2 DEF UpstreamRecord
    <3>4. b \in Work /\ b.pc = "store" /\ b.meta = m /\ b.proxy = x /\ b.repo = work[w].repo
          /\ b.last = work[w].last
      <4>1. b = [work[w] EXCEPT !.pc = "store", !.meta = m] BY <1>1 DEF Work
      <4> HIDE DEF m, b
      <4> QED BY <1>1, <3>2, <4>1 DEF Work, PCs
    <3>5. a = b BY <2>2
    <3> HIDE DEF m, b, a
    <3>6. resolveAuthSecret(x, m) = c.secret BY <2>2, <3>1, <3>3 DEF resolveAuthSecret
    <3>7. raced' \/ m.host = row.host BY <1>2, <1>4, <3>3
    <3>8. Held(x, m, stored, raced')
      <4>1. \E pair \in stored : resolveAuthSecret(x, m) = pair[2] BY <3>1, <3>6
      <4>2. raced' \/ <<m.host, resolveAuthSecret(x, m)>> \in stored BY <3>1, <3>6, <3>7
      <4>3. resolveAuthSecret(x, m) # None BY <3>1, <3>6
      <4> QED BY <1>2, <4>1, <4>2, <4>3 DEF Held
    <3>9. work[w].last # None => Held(x, work[w].last, stored, raced')
      BY <1>1, <1>2, <1>5, HeldStays
    <3>10. GoodWork(b, stored, raced', row, updates, named)
      BY <1>2, <3>2, <3>4, <3>8, <3>9 DEF GoodWork
    <3> QED BY <3>4, <3>5, <3>10
  <2> QED BY <2>1, <2>2
<1> HIDE DEF a
<1>10. named' = named /\ named' \subseteq Hosts \X Realms
  <2>1. named' = named BY <1>4
  <2>2. named \subseteq Hosts \X Realms BY DEF CredentialsInv, TypeOK
  <2> QED BY <2>1, <2>2
<1> QED BY <1>3, <1>4, <1>5, <1>6, <1>7, <1>8, <1>9, <1>10, WorkerMoves

LEMMA StoreBundleKeeps ==
    ASSUME CredentialsInv, NEW w \in Workers, StoreBundle(w)
    PROVE  CredentialsInv'
<1>1. work[w] \in Work /\ GoodWork(work[w], stored, raced, row, updates, named) /\ raced \in BOOLEAN
      /\ bundle \in [Proxies -> UpstreamRecord \cup {None}] /\ fresh \in [Proxies -> BOOLEAN]
  BY WorkerFacts
<1> DEFINE x == work[w].proxy  m == work[w].meta
<1>2. /\ x \in Proxies /\ work[w].repo \in Repositories /\ m \in UpstreamRecord
      /\ Held(x, m, stored, raced)
  BY <1>1 DEF GoodWork, StoreBundle
<1>3. /\ bundle' = [bundle EXCEPT ![x] = m] /\ fresh' = [fresh EXCEPT ![x] = TRUE]
      /\ work' = [work EXCEPT ![w] = Proceed(x, work[w].repo, m)]
      /\ UNCHANGED <<controlState, tokens, sent, named, raced, now>>
  BY DEF StoreBundle
<1> DEFINE a == Proceed(x, work[w].repo, m)
<1>4. a \in Work /\ GoodWork(a, stored, raced, row, updates, named) BY <1>2, ProceedIsGood
<1> HIDE DEF a, x, m
<1>5. bundle' \in [Proxies -> UpstreamRecord \cup {None}] /\ fresh' \in [Proxies -> BOOLEAN]
  BY <1>1, <1>2, <1>3
<1>6. \A y \in Proxies : bundle'[y] # None => Held(y, bundle'[y], stored, raced)
  <2> SUFFICES ASSUME NEW y \in Proxies, bundle'[y] # None
               PROVE  Held(y, bundle'[y], stored, raced) OBVIOUS
  <2>1. CASE y = x BY <1>1, <1>2, <1>3, <2>1
  <2>2. CASE y # x BY <1>1, <1>3, <2>2 DEF CredentialsInv
  <2> QED BY <2>1, <2>2
<1>7. tokens' = [y \in Proxies |-> tokens'[y]] /\ \A y \in Proxies : GoodCache(tokens'[y])
  BY <1>3 DEF CredentialsInv, TypeOK
<1>8. raced' = raced /\ (~raced => Shown(sent', stored, named))
  BY <1>3 DEF CredentialsInv, SecretsStayWithTheirHost, Shown
<1>9. work' = [work EXCEPT ![w] = a] BY <1>3 DEF a
<1>10. UNCHANGED <<controlState, now>> /\ raced' \in BOOLEAN /\ (raced => raced') BY <1>1, <1>3
<1>11. named' = named /\ named' \subseteq Hosts \X Realms BY <1>3 DEF CredentialsInv, TypeOK
<1> QED BY <1>4, <1>5, <1>6, <1>7, <1>8, <1>9, <1>10, <1>11, WorkerMoves

-----------------------------------------------------------------------------
(* The token cache.                                                        *)

\* A part of a cache is a cache.
LEMMA PartOfCache ==
    ASSUME NEW t, GoodCache(t), NEW K \in SUBSET DOMAIN t
    PROVE  GoodCache([k \in K |-> t[k]])
<1> DEFINE p == [k \in K |-> t[k]]
<1>1. DOMAIN p = K /\ \A k \in K : p[k] = t[k] OBVIOUS
<1> HIDE DEF p
<1>2. p = [k \in DOMAIN p |-> p[k]] BY DEF p
<1>3. CacheType(p) BY <1>1, <1>2 DEF GoodCache, CacheType
<1>4. IsFiniteSet(DOMAIN t) /\ Cardinality(DOMAIN t) <= MaxEntries BY DEF GoodCache
<1>5. IsFiniteSet(K) /\ Cardinality(K) <= Cardinality(DOMAIN t) BY <1>4, FS_Subset
<1>6. Cardinality(K) \in Nat /\ Cardinality(DOMAIN t) \in Nat BY <1>4, <1>5, FS_CardinalityType
<1>7. Cardinality(K) <= MaxEntries BY <1>4, <1>5, <1>6, CredentialsAssumption
<1>8. \A k \in DOMAIN p : p[k].token = [host |-> k[1], repo |-> k[2], principal |-> k[3]]
  BY <1>1 DEF GoodCache
<1> QED BY <1>1, <1>3, <1>5, <1>7, <1>8 DEF GoodCache, p

LEMMA AfterGetIsGood ==
    ASSUME CredentialsInv, NEW x \in Proxies, NEW key
    PROVE  GoodCache(AfterGet(x, key))
<1>1. GoodCache(tokens[x]) BY DEF CredentialsInv
<1>2. {j \in DOMAIN tokens[x] : j = key => tokens[x][j].expires > now} \in SUBSET DOMAIN tokens[x]
  OBVIOUS
<1> QED BY <1>1, <1>2, PartOfCache DEF AfterGet

\* Setting an entry keeps the cache within its limit, and drops what has not
\* expired only from a cache full of it.
LEMMA SetIsGood ==
    ASSUME CredentialsInv, NEW x \in Proxies,
           NEW key \in Hosts \X Repositories \X Principals,
           NEW token \in Token, NEW ttl \in Nat,
           token = [host |-> key[1], repo |-> key[2], principal |-> key[3]]
    PROVE  /\ GoodCache(Set(x, key, token, ttl))
           /\ \A k \in DOMAIN tokens[x] :
                tokens[x][k].expires > now /\ k \notin DOMAIN Set(x, key, token, ttl) =>
                  Cardinality({j \in DOMAIN tokens[x] : tokens[x][j].expires > now}) >= MaxEntries
<1> DEFINE t == tokens[x]
           live == {k \in DOMAIN t : t[k].expires > now}
           swept == IF Cardinality(DOMAIN t) < MaxEntries THEN DOMAIN t ELSE live
           kept == IF Cardinality(swept) < MaxEntries THEN swept ELSE {}
           s == Set(x, key, token, ttl)
           new == [token |-> token, expires |-> now + Shorten(ttl)]
<1>1. GoodCache(t) /\ now \in Nat BY DEF CredentialsInv, TypeOK
<1>2. s = [k \in kept \cup {key} |-> IF k = key THEN new ELSE t[k]] BY DEF Set
<1>3. DOMAIN s = kept \cup {key} /\ s[key] = new
      /\ \A k \in kept : k # key => s[k] = t[k]
  BY <1>2
<1>4. s = [k \in DOMAIN s |-> s[k]] BY <1>2, <1>3
<1>5. Shorten(ttl) \in Nat BY CredentialsAssumption DEF Shorten
<1>6. new \in [token : Token, expires : Nat] /\ new.token = token BY <1>1, <1>5
<1>7. IsFiniteSet(DOMAIN t) /\ Cardinality(DOMAIN t) <= MaxEntries /\ CacheType(t)
      /\ \A k \in DOMAIN t : t[k].token = [host |-> k[1], repo |-> k[2], principal |-> k[3]]
  BY <1>1 DEF GoodCache
<1>8. live \subseteq DOMAIN t /\ swept \subseteq DOMAIN t /\ kept \subseteq DOMAIN t OBVIOUS
<1>9. IsFiniteSet(live) /\ IsFiniteSet(swept) /\ IsFiniteSet(kept) BY <1>7, <1>8, FS_Subset
<1>10. Cardinality(live) \in Nat /\ Cardinality(swept) \in Nat /\ Cardinality(kept) \in Nat
       /\ Cardinality(DOMAIN t) \in Nat
  BY <1>7, <1>9, FS_CardinalityType
<1>11. MaxEntries \in Nat /\ MaxEntries > 0 BY CredentialsAssumption
<1>12. Cardinality(kept) < MaxEntries
  <2>1. CASE Cardinality(swept) < MaxEntries BY <2>1
  <2>2. CASE ~(Cardinality(swept) < MaxEntries) BY <1>11, <2>2, FS_EmptySet
  <2> QED BY <2>1, <2>2
<1>13. ASSUME NEW k \in DOMAIN t, t[k].expires > now, k \notin kept \cup {key}
       PROVE  Cardinality(live) >= MaxEntries
  <2>1. k \in live BY <1>13
  <2>2. k \in swept BY <1>13, <2>1
  <2>3. ~(Cardinality(swept) < MaxEntries) BY <1>13, <2>2
  <2>4. swept = live BY <2>3
  <2> QED BY <1>10, <1>11, <2>3, <2>4
<1> HIDE DEF live, swept, kept, s, new, t
<1>14. IsFiniteSet(kept \cup {key})
       /\ Cardinality(kept \cup {key}) \in {Cardinality(kept), Cardinality(kept) + 1}
  BY <1>9, <1>10, FS_AddElement
<1>15. IsFiniteSet(DOMAIN s) /\ Cardinality(DOMAIN s) <= MaxEntries
  BY <1>3, <1>10, <1>11, <1>12, <1>14
<1>16. CacheType(s)
  <2>1. DOMAIN s \subseteq Hosts \X Repositories \X Principals BY <1>3, <1>7, <1>8 DEF CacheType
  <2>2. ASSUME NEW k \in DOMAIN s PROVE s[k] \in [token : Token, expires : Nat]
    <3>1. CASE k = key BY <1>3, <1>6, <3>1
    <3>2. CASE k # key BY <1>3, <1>7, <1>8, <3>2 DEF CacheType
    <3> QED BY <3>1, <3>2
  <2> QED BY <1>4, <2>1, <2>2 DEF CacheType
<1>17. ASSUME NEW k \in DOMAIN s
       PROVE  s[k].token = [host |-> k[1], repo |-> k[2], principal |-> k[3]]
  <2>1. CASE k = key BY <1>3, <1>6, <2>1
  <2>2. CASE k # key BY <1>3, <1>7, <1>8, <2>2
  <2> QED BY <2>1, <2>2
<1>18. GoodCache(s) BY <1>15, <1>16, <1>17 DEF GoodCache
<1>19. \A k \in DOMAIN t : t[k].expires > now /\ k \notin DOMAIN s => Cardinality(live) >= MaxEntries
  BY <1>3, <1>13
<1> QED BY <1>18, <1>19 DEF s, t, live

\* The key under which a request looks for its token.
LEMMA KeyType ==
    ASSUME NEW u \in UpstreamRecord, NEW r \in Repositories
    PROVE  /\ bearerTokenCacheKey(u, r) \in Hosts \X Repositories \X Principals
           /\ bearerTokenCacheKey(u, r)[1] = u.host /\ bearerTokenCacheKey(u, r)[2] = r
           /\ bearerTokenCacheKey(u, r)[3] = principal(u)
<1>1. u.host \in Hosts /\ u.user \in {c.user : c \in Configs} BY DEF UpstreamRecord
<1>2. principal(u) \in Principals BY <1>1 DEF principal, Principals
<1> QED BY <1>1, <1>2 DEF bearerTokenCacheKey

\* A token the cache returns belongs to the request.
LEMMA GetFits ==
    ASSUME CredentialsInv, NEW x \in Proxies, NEW u \in UpstreamRecord, NEW r \in Repositories,
           Get(x, bearerTokenCacheKey(u, r)) # None
    PROVE  /\ Get(x, bearerTokenCacheKey(u, r)) \in Token
           /\ Get(x, bearerTokenCacheKey(u, r)).host = u.host
           /\ Get(x, bearerTokenCacheKey(u, r)).repo = r
           /\ Get(x, bearerTokenCacheKey(u, r)).principal = principal(u)
<1> DEFINE key == bearerTokenCacheKey(u, r)  t == tokens[x]
<1>1. key \in DOMAIN t /\ Get(x, key) = t[key].token BY DEF Get
<1>2. key[1] = u.host /\ key[2] = r /\ key[3] = principal(u) BY KeyType
<1>3. GoodCache(t) BY DEF CredentialsInv
<1> HIDE DEF key, t
<1>4. t[key].token = [host |-> key[1], repo |-> key[2], principal |-> key[3]]
      /\ t[key].token \in Token
  BY <1>1, <1>3 DEF GoodCache, CacheType
<1>5. Get(x, key) = [host |-> u.host, repo |-> r, principal |-> principal(u)]
  BY <1>1, <1>2, <1>4
<1> QED BY <1>1, <1>4, <1>5 DEF key

-----------------------------------------------------------------------------
(* Requests to the registry.                                               *)

LEMMA RegistryKeeps ==
    ASSUME CredentialsInv, NEW w \in Workers,
           \/ RegistryServes(w)
           \/ TokenEndpointFails(w)
           \/ RetryRejected(w)
    PROVE  CredentialsInv'
BY WorkerEnds DEF RegistryServes, TokenEndpointFails, RetryRejected

LEMMA RegistryRejectsKeeps ==
    ASSUME CredentialsInv, NEW w \in Workers, NEW realm \in Realms \cup {None},
           RegistryRejects(w, realm)
    PROVE  CredentialsInv'
<1>1. /\ work[w] \in Work /\ GoodWork(work[w], stored, raced, row, updates, named)
      /\ raced \in BOOLEAN /\ bundle \in [Proxies -> UpstreamRecord \cup {None}]
      /\ fresh \in [Proxies -> BOOLEAN]
  BY WorkerFacts
<1> DEFINE a == [work[w] EXCEPT !.pc = "token", !.token = None, !.realm = realm]
<1>2. CASE realm # None
  <2>1. /\ work' = [work EXCEPT ![w] = a] /\ UNCHANGED <<controlState, proxyState, sent, raced, now>>
        /\ work[w].pc = "sent"
        /\ named' = named \cup {<<work[w].upstream.host, realm>>}
    BY <1>2 DEF RegistryRejects
  <2>2. a \in Work BY <1>1 DEF Work, PCs
  <2>3. /\ a.pc = "token" /\ a.proxy = work[w].proxy /\ a.repo = work[w].repo
        /\ a.upstream = work[w].upstream /\ a.last = work[w].last /\ a.realm = realm
    BY <1>1 DEF Work
  <2> HIDE DEF a
  <2>4. work[w].upstream \in UpstreamRecord /\ work[w].upstream.host \in Hosts
    BY <1>1, <2>1 DEF GoodWork, UpstreamRecord
  <2>5. named \subseteq named' /\ named' \subseteq Hosts \X Realms
    BY <1>2, <2>1, <2>4 DEF CredentialsInv, TypeOK
  <2>6. GoodWork(a, stored, raced, row, updates, named')
    BY <1>1, <1>2, <2>1, <2>3 DEF GoodWork
  <2>7. bundle' = bundle /\ fresh' = fresh /\ tokens' = tokens /\ raced' = raced /\ sent' = sent
    BY <2>1 DEF proxyState
  <2>8. ~raced' => Shown(sent', stored, named')
    BY <2>5, <2>7 DEF CredentialsInv, SecretsStayWithTheirHost, Shown
  <2>9. /\ tokens' = [y \in Proxies |-> tokens'[y]] /\ \A y \in Proxies : GoodCache(tokens'[y])
        /\ \A y \in Proxies : bundle'[y] # None => Held(y, bundle'[y], stored, raced')
    BY <2>7 DEF CredentialsInv, TypeOK
  <2>10. /\ raced' \in BOOLEAN /\ (raced => raced')
         /\ bundle' \in [Proxies -> UpstreamRecord \cup {None}] /\ fresh' \in [Proxies -> BOOLEAN]
         /\ GoodWork(a, stored, raced', row, updates, named') /\ UNCHANGED <<controlState, now>>
    BY <1>1, <2>1, <2>6, <2>7
  <2> QED BY <2>1, <2>2, <2>5, <2>8, <2>9, <2>10, WorkerMoves
<1>3. CASE realm = None
  <2>1. work' = [work EXCEPT ![w] = NoWork]
        /\ UNCHANGED <<controlState, proxyState, sent, named, raced, now>>
    BY <1>3 DEF RegistryRejects
  <2> QED BY <2>1, WorkerEnds
<1> QED BY <1>2, <1>3

\* A secret is shown to the registry it was stored with, or to a realm that
\* registry named.
LEMMA ShowIsFine ==
    ASSUME CredentialsInv, NEW x, NEW u, NEW to, Held(x, u, stored, raced), Configured(u.type),
           to # u.host => u.type = "basic" /\ <<u.host, to>> \in named
    PROVE  ~raced => Shown(Show(x, u, to), stored, named)
<1> SUFFICES ASSUME ~raced PROVE Shown(Show(x, u, to), stored, named) OBVIOUS
<1> DEFINE new == [to |-> to, host |-> u.host, type |-> u.type, secret |-> resolveAuthSecret(x, u)]
<1>1. /\ new.to = to /\ new.host = u.host /\ new.type = u.type
      /\ new.secret = resolveAuthSecret(x, u)
  OBVIOUS
<1>2. Show(x, u, to) = sent \cup {new} BY DEF Show
<1> HIDE DEF new
<1>3. Shown(sent, stored, named) BY DEF CredentialsInv, SecretsStayWithTheirHost, Shown
<1>4. <<u.host, resolveAuthSecret(x, u)>> \in stored BY DEF Held
<1> QED BY <1>1, <1>2, <1>3, <1>4 DEF Shown

LEMMA TokensAfterGet ==
    ASSUME CredentialsInv, NEW x \in Proxies, NEW key, NEW t,
           t = tokens[x] \/ t = AfterGet(x, key),
           tokens' = [tokens EXCEPT ![x] = t]
    PROVE  tokens' = [y \in Proxies |-> tokens'[y]] /\ \A y \in Proxies : GoodCache(tokens'[y])
<1>1. tokens = [y \in Proxies |-> tokens[y]] /\ \A y \in Proxies : GoodCache(tokens[y])
  BY DEF CredentialsInv, TypeOK
<1>2. GoodCache(t) BY <1>1, AfterGetIsGood
<1>3. DOMAIN tokens = Proxies BY <1>1
<1>4. \A y \in Proxies : tokens'[y] = IF y = x THEN t ELSE tokens[y] BY <1>3
<1>5. tokens' = [y \in Proxies |-> tokens'[y]] BY <1>3
<1> QED BY <1>1, <1>2, <1>4, <1>5

LEMMA doOCIRequestKeeps ==
    ASSUME CredentialsInv, NEW w \in Workers, doOCIRequest(w)
    PROVE  CredentialsInv'
<1> DEFINE x == work[w].proxy
           u == work[w].upstream
           r == work[w].repo
           key == bearerTokenCacheKey(u, r)
           cached == IF canUseCachedBearer(u) THEN Get(x, key) ELSE None
           t == IF canUseCachedBearer(u) THEN AfterGet(x, key) ELSE tokens[x]
<1>1. /\ work[w] \in Work /\ GoodWork(work[w], stored, raced, row, updates, named)
      /\ work \in [Workers -> Work] /\ raced \in BOOLEAN
      /\ bundle \in [Proxies -> UpstreamRecord \cup {None}] /\ fresh \in [Proxies -> BOOLEAN]
  BY WorkerFacts
<1>2. work[w].pc = "send" BY DEF doOCIRequest
<1>3. /\ x \in Proxies /\ r \in Repositories /\ u \in UpstreamRecord
      /\ Held(x, u, stored, raced) /\ work[w].token = None
      /\ work[w].last # None => Held(x, work[w].last, stored, raced)
  BY <1>1, <1>2 DEF GoodWork
<1>4. /\ tokens' = [tokens EXCEPT ![x] = t]
      /\ UNCHANGED <<controlState, bundle, fresh, named, raced, now>>
  BY DEF doOCIRequest
<1>5. tokens' = [y \in Proxies |-> tokens'[y]] /\ \A y \in Proxies : GoodCache(tokens'[y])
  <2>1. t = tokens[x] \/ t = AfterGet(x, key) OBVIOUS
  <2> HIDE DEF t, key, x
  <2> QED BY <1>3, <1>4, <2>1, TokensAfterGet
<1>6. cached # None =>
        cached \in Token /\ cached.host = u.host /\ cached.repo = r /\ cached.principal = principal(u)
  BY <1>3, GetFits
<1>7. ~raced => Shown(sent, stored, named) BY DEF CredentialsInv, SecretsStayWithTheirHost, Shown
<1>8. \E a \in Work :
        /\ work' = [work EXCEPT ![w] = a]
        /\ GoodWork(a, stored, raced, row, updates, named)
        /\ ~raced => Shown(sent', stored, named)
  <2>1. CASE cached # None \/ ~Configured(u.type)
    <3> DEFINE a == [work[w] EXCEPT !.pc = "sent", !.token = cached]
    <3>1. work' = [work EXCEPT ![w].pc = "sent", ![w].token = cached] /\ sent' = sent
      BY <2>1 DEF doOCIRequest
    <3> HIDE DEF cached, x, u, r
    <3>2. work' = [work EXCEPT ![w] = a] BY <1>1, <3>1
    <3>3. a \in Work BY <1>1, <1>6 DEF Work, PCs
    <3>4. /\ a.pc = "sent" /\ a.proxy = x /\ a.repo = r /\ a.upstream = u
          /\ a.last = work[w].last /\ a.token = cached
      BY <1>1 DEF Work, x, u, r
    <3> HIDE DEF a
    <3>5. a.token # None => TokenFits(a) BY <1>6, <3>4 DEF TokenFits
    <3>6. GoodWork(a, stored, raced, row, updates, named) BY <1>3, <3>4, <3>5 DEF GoodWork
    <3> QED BY <1>7, <3>1, <3>2, <3>3, <3>6
  <2>2. CASE ~(cached # None \/ ~Configured(u.type)) /\ resolveAuthSecret(x, u) = None
    <3>1. work' = [work EXCEPT ![w] = NoWork] /\ sent' = sent BY <2>2 DEF doOCIRequest
    <3> QED BY <1>7, <3>1, NoWorkIsGood
  <2>3. CASE ~(cached # None \/ ~Configured(u.type)) /\ resolveAuthSecret(x, u) # None
    <3> DEFINE a == [work[w] EXCEPT !.pc = "sent"]
    <3>1. work' = [work EXCEPT ![w].pc = "sent"] /\ sent' = Show(x, u, u.host)
      BY <2>3 DEF doOCIRequest
    <3>2. ~raced => Shown(sent', stored, named) BY <1>3, <2>3, <3>1, ShowIsFine
    <3> HIDE DEF cached, x, u, r
    <3>3. work' = [work EXCEPT ![w] = a] BY <1>1, <3>1
    <3>4. a \in Work BY <1>1 DEF Work, PCs
    <3>5. /\ a.pc = "sent" /\ a.proxy = x /\ a.repo = r /\ a.upstream = u
          /\ a.last = work[w].last /\ a.token = None
      BY <1>1, <1>3 DEF Work, x, u, r
    <3> HIDE DEF a
    <3>6. GoodWork(a, stored, raced, row, updates, named) BY <1>3, <3>5 DEF GoodWork, TokenFits
    <3> QED BY <3>2, <3>3, <3>4, <3>6
  <2> QED BY <2>1, <2>2, <2>3
<1>9. PICK a \in Work :
        /\ work' = [work EXCEPT ![w] = a]
        /\ GoodWork(a, stored, raced, row, updates, named)
        /\ ~raced => Shown(sent', stored, named)
  BY <1>8
<1>10. /\ raced' = raced /\ bundle' = bundle /\ fresh' = fresh /\ UNCHANGED <<controlState, now>>
  BY <1>4
<1>11. \A y \in Proxies : bundle'[y] # None => Held(y, bundle'[y], stored, raced')
  BY <1>10 DEF CredentialsInv
<1>12. /\ raced' \in BOOLEAN /\ (raced => raced')
       /\ bundle' \in [Proxies -> UpstreamRecord \cup {None}] /\ fresh' \in [Proxies -> BOOLEAN]
       /\ GoodWork(a, stored, raced', row, updates, named) /\ (~raced' => Shown(sent', stored, named))
  BY <1>1, <1>9, <1>10
<1>13. named' = named /\ named' \subseteq Hosts \X Realms BY <1>4 DEF CredentialsInv, TypeOK
<1> QED BY <1>5, <1>9, <1>10, <1>11, <1>12, <1>13, WorkerMoves

LEMMA requestBearerTokenKeeps ==
    ASSUME CredentialsInv, NEW w \in Workers, NEW lifetime \in Lifetimes,
           requestBearerToken(w, lifetime)
    PROVE  CredentialsInv'
<1> DEFINE x == work[w].proxy
           u == work[w].upstream
           r == work[w].repo
           token == [host |-> u.host, repo |-> r,
                     principal |-> IF u.type = "basic" THEN u.user ELSE "anonymous"]
           ttl == IF lifetime = 0 THEN DefaultTTL ELSE lifetime
           a == [work[w] EXCEPT !.pc = "retry", !.token = token, !.ttl = ttl]
<1>1. /\ work[w] \in Work /\ GoodWork(work[w], stored, raced, row, updates, named)
      /\ work \in [Workers -> Work]
  BY WorkerFacts
<1>2. work[w].pc = "token" BY DEF requestBearerToken
<1>3. /\ x \in Proxies /\ r \in Repositories /\ u \in UpstreamRecord
      /\ Held(x, u, stored, raced) /\ <<u.host, work[w].realm>> \in named
      /\ work[w].last # None => Held(x, work[w].last, stored, raced)
  BY <1>1, <1>2 DEF GoodWork
<1>4. /\ work' = [work EXCEPT ![w].pc = "retry", ![w].token = token, ![w].ttl = ttl]
      /\ sent' = IF u.type = "basic" THEN Show(x, u, work[w].realm) ELSE sent
      /\ UNCHANGED <<controlState, proxyState, named, raced, now>>
  BY DEF requestBearerToken
<1>5. ~raced => Shown(sent', stored, named)
  <2>1. CASE u.type = "basic"
    <3>1. Configured(u.type) BY <2>1 DEF Configured
    <3> QED BY <1>3, <1>4, <2>1, <3>1, ShowIsFine
  <2>2. CASE u.type # "basic" BY <1>4, <2>2 DEF CredentialsInv, SecretsStayWithTheirHost, Shown
  <2> QED BY <2>1, <2>2
<1>6. token \in Token /\ token.host = u.host /\ token.repo = r
      /\ token.principal = IF u.type = "basic" THEN u.user ELSE "anonymous"
  BY <1>3 DEF Token, Principals, UpstreamRecord
<1>7. u.type \in {"none", "basic", "bearer_token"}
  BY <1>3, CredentialsAssumption DEF UpstreamRecord
<1>8. canUseCachedBearer(u) => token.principal = principal(u)
  BY <1>6, <1>7 DEF canUseCachedBearer, principal
<1>9. ttl \in Nat BY CredentialsAssumption
<1> HIDE DEF token, ttl, x, u, r
<1>10. work' = [work EXCEPT ![w] = a] BY <1>1, <1>4
<1>11. a \in Work BY <1>1, <1>6, <1>9 DEF Work, PCs
<1>12. /\ a.pc = "retry" /\ a.proxy = x /\ a.repo = r /\ a.upstream = u
       /\ a.last = work[w].last /\ a.token = token
  BY <1>1 DEF Work, x, u, r
<1> HIDE DEF a
<1>13. TokenFits(a) BY <1>6, <1>8, <1>12 DEF TokenFits
<1>14. GoodWork(a, stored, raced, row, updates, named) BY <1>3, <1>6, <1>12, <1>13 DEF GoodWork
<1> QED BY <1>4, <1>5, <1>10, <1>11, <1>14, WorkerOnly

\* What a retry that was served puts in the cache.
LEMMA RetrySets ==
    ASSUME CredentialsInv, NEW w \in Workers, RetryServed(w), canUseCachedBearer(work[w].upstream)
    PROVE  LET key == bearerTokenCacheKey(work[w].upstream, work[w].repo) IN
             /\ work[w].proxy \in Proxies
             /\ key \in Hosts \X Repositories \X Principals
             /\ work[w].token \in Token /\ work[w].ttl \in Nat
             /\ work[w].token = [host |-> key[1], repo |-> key[2], principal |-> key[3]]
<1> DEFINE u == work[w].upstream  r == work[w].repo  token == work[w].token
           key == bearerTokenCacheKey(u, r)
<1>1. work[w] \in Work /\ GoodWork(work[w], stored, raced, row, updates, named) BY WorkerFacts
<1>2. work[w].pc = "retry" BY DEF RetryServed
<1>3. /\ work[w].proxy \in Proxies /\ r \in Repositories /\ u \in UpstreamRecord
      /\ token \in Token /\ TokenFits(work[w])
  BY <1>1, <1>2 DEF GoodWork
<1>4. /\ key \in Hosts \X Repositories \X Principals
      /\ key[1] = u.host /\ key[2] = r /\ key[3] = principal(u)
  BY <1>3, KeyType
<1>5. token.host = u.host /\ token.repo = r /\ token.principal = principal(u)
  BY <1>3 DEF TokenFits
<1>6. token = [host |-> key[1], repo |-> key[2], principal |-> key[3]]
  <2> HIDE DEF u, r, token, key
  <2> QED BY <1>3, <1>4, <1>5 DEF Token
<1>7. work[w].ttl \in Nat BY <1>1 DEF Work
<1> QED BY <1>3, <1>4, <1>6, <1>7

LEMMA RetryServedKeeps ==
    ASSUME CredentialsInv, NEW w \in Workers, RetryServed(w)
    PROVE  CredentialsInv'
<1> DEFINE x == work[w].proxy
           u == work[w].upstream
           key == bearerTokenCacheKey(u, work[w].repo)
           s == Set(x, key, work[w].token, work[w].ttl)
<1>1. /\ work' = [work EXCEPT ![w] = NoWork]
      /\ UNCHANGED <<controlState, bundle, fresh, sent, named, raced, now>>
      /\ tokens' = IF canUseCachedBearer(u) THEN [tokens EXCEPT ![x] = s] ELSE tokens
  BY DEF RetryServed
<1>2. tokens = [y \in Proxies |-> tokens[y]] /\ \A y \in Proxies : GoodCache(tokens[y])
  BY DEF CredentialsInv, TypeOK
<1>3. canUseCachedBearer(u) => GoodCache(s) BY RetrySets, SetIsGood
<1>4. tokens' = [y \in Proxies |-> tokens'[y]] /\ \A y \in Proxies : GoodCache(tokens'[y])
  <2> HIDE DEF s, x, u
  <2>1. CASE canUseCachedBearer(u)
    <3>1. DOMAIN tokens = Proxies BY <1>2
    <3>2. \A y \in Proxies : tokens'[y] = IF y = x THEN s ELSE tokens[y] BY <1>1, <2>1, <3>1
    <3>3. tokens' = [y \in Proxies |-> tokens'[y]] BY <1>1, <2>1, <3>1
    <3> QED BY <1>2, <1>3, <2>1, <3>2, <3>3
  <2>2. CASE ~canUseCachedBearer(u) BY <1>1, <1>2, <2>2
  <2> QED BY <2>1, <2>2
<1>5. /\ raced' = raced /\ bundle' = bundle /\ fresh' = fresh /\ UNCHANGED <<controlState, now>>
  BY <1>1
<1>6. \A y \in Proxies : bundle'[y] # None => Held(y, bundle'[y], stored, raced')
  BY <1>5 DEF CredentialsInv
<1>7. /\ raced' \in BOOLEAN /\ (raced => raced')
      /\ bundle' \in [Proxies -> UpstreamRecord \cup {None}] /\ fresh' \in [Proxies -> BOOLEAN]
  BY <1>5, WorkerFacts
<1>8. ~raced' => Shown(sent', stored, named) BY <1>1 DEF CredentialsInv, SecretsStayWithTheirHost, Shown
<1>9. named' = named /\ named' \subseteq Hosts \X Realms BY <1>1 DEF CredentialsInv, TypeOK
<1> QED BY <1>1, <1>4, <1>5, <1>6, <1>7, <1>8, <1>9, NoWorkIsGood, WorkerMoves

-----------------------------------------------------------------------------
(* The control plane and the clock.                                        *)

\* A step that leaves the proxies and their workers alone.
LEMMA ControlStep ==
    ASSUME CredentialsInv, UNCHANGED <<bundle, tokens, work, sent, named, raced>>,
           fresh' \in [Proxies -> BOOLEAN],
           storeKey' \in StoreKeys, updates' \in 0..MaxUpdates, now' \in 0..MaxTime,
           RowInv', stored \subseteq stored',
           \A w \in Workers : GoodWork(work[w], stored, raced, row', updates', named)
    PROVE  CredentialsInv'
<1>1. raced \in BOOLEAN BY DEF CredentialsInv, TypeOK
<1>2. \A x, u : Held(x, u, stored, raced) => Held(x, u, stored', raced) BY <1>1, HeldStays
<1>3. \A w \in Workers : GoodWork(work[w], stored', raced, row', updates', named)
  BY <1>1, GoodWorkStays
<1>4. (\A w \in Workers : GoodWork(work[w], stored, raced, row, updates, named))' BY <1>3
<1>5. (\A x \in Proxies : bundle[x] # None => Held(x, bundle[x], stored, raced))'
  BY <1>2 DEF CredentialsInv
<1>6. (\A x \in Proxies : GoodCache(tokens[x]))' BY DEF CredentialsInv
<1>7. SecretsStayWithTheirHost' BY DEF CredentialsInv, SecretsStayWithTheirHost, Shown
<1>8. row' \in {[StoredRow(c, k, n) EXCEPT !.host = h] :
                   c \in Configs, k \in StoreKeys, n \in 0..MaxUpdates, h \in Hosts}
  <2>1. PICK c \in Configs, k \in StoreKeys, n \in 0..updates', h \in Hosts :
            row' = [StoredRow(c, k, n) EXCEPT !.host = h]
    BY DEF RowInv
  <2>2. n \in 0..MaxUpdates BY <2>1, CredentialsAssumption
  <2> QED BY <2>1, <2>2
<1>9. TypeOK' BY <1>8 DEF CredentialsInv, TypeOK
<1> QED BY <1>4, <1>5, <1>6, <1>7, <1>9 DEF CredentialsInv

\* Whether its credentials are new or kept, the row is one of a configuration.
LEMMA UpdatedRow ==
    ASSUME CredentialsInv, NEW c \in Configs, NEW auth \in BOOLEAN, UpdateUpstream(c, auth)
    PROVE  RowInv' /\ row'.version = updates + 1
<1>1. /\ updates \in 0..MaxUpdates /\ storeKey \in StoreKeys /\ updates' = updates + 1
      /\ stored' = stored \cup {Pair(row')}
  BY DEF CredentialsInv, TypeOK, UpdateUpstream
<1>2. c.host \in Hosts /\ updates + 1 \in 0..updates' BY <1>1, CredentialsAssumption DEF Hosts
<1>3. Pair(row') \in stored' BY <1>1
<1>4. CASE auth
  <2>1. row' = StoredRow(c, storeKey, updates + 1) BY <1>4 DEF UpdateUpstream
  <2>2. row' = [StoredRow(c, storeKey, updates + 1) EXCEPT !.host = c.host]
    BY <2>1 DEF StoredRow
  <2>3. row'.version = updates + 1 BY <2>1 DEF StoredRow
  <2> QED BY <1>1, <1>2, <1>3, <2>2, <2>3 DEF RowInv, Pair, SecretOf
<1>5. CASE ~auth
  <2>1. row' = [row EXCEPT !.host = c.host, !.version = updates + 1] BY <1>5 DEF UpdateUpstream
  <2>2. PICK d \in Configs, k \in StoreKeys, n \in 0..updates, h \in Hosts :
            row = [StoredRow(d, k, n) EXCEPT !.host = h]
    BY DEF CredentialsInv, RowInv
  <2> DEFINE s == IF Configured(d.type) THEN Encrypt(k, d.secret) ELSE None
  <2>3. row' = [StoredRow(d, k, updates + 1) EXCEPT !.host = c.host]
    <3>1. row = [host |-> h, type |-> d.type, user |-> d.user, secret |-> s, version |-> n]
      BY <2>2 DEF StoredRow
    <3>2. StoredRow(d, k, updates + 1) =
             [host |-> d.host, type |-> d.type, user |-> d.user, secret |-> s, version |-> updates + 1]
      BY DEF StoredRow
    <3> HIDE DEF s
    <3>3. row' = [host |-> c.host, type |-> d.type, user |-> d.user, secret |-> s,
                  version |-> updates + 1]
      BY <2>1, <3>1
    <3> QED BY <3>2, <3>3
  <2>4. row'.version = updates + 1 BY <2>3 DEF StoredRow
  <2> QED BY <1>2, <1>3, <2>3, <2>4 DEF RowInv, Pair, SecretOf
<1> QED BY <1>4, <1>5

LEMMA UpdateUpstreamKeeps ==
    ASSUME CredentialsInv, NEW c \in Configs, NEW auth \in BOOLEAN, UpdateUpstream(c, auth)
    PROVE  CredentialsInv'
<1>1. /\ updates \in 0..MaxUpdates /\ storeKey \in StoreKeys /\ now \in 0..MaxTime
      /\ fresh \in [Proxies -> BOOLEAN]
  BY DEF CredentialsInv, TypeOK
<1>2. /\ updates < MaxUpdates /\ updates' = updates + 1
      /\ stored \subseteq stored'
      /\ storeKey' = storeKey /\ UNCHANGED <<bundle, fresh, tokens, work, sent, named, raced, now>>
  BY DEF UpdateUpstream, proxyState
<1>3. updates' \in 0..MaxUpdates  BY <1>1, <1>2, CredentialsAssumption
<1>4. RowInv' BY UpdatedRow
<1>5. row'.version = updates + 1 BY UpdatedRow
<1>6. ASSUME NEW w \in Workers PROVE GoodWork(work[w], stored, raced, row', updates', named)
  <2>1. GoodWork(work[w], stored, raced, row, updates, named) /\ work[w] \in Work BY WorkerFacts
  <2>2. work[w].pc = "rewrap" => /\ work[w].meta.version <= updates'
                                 /\ work[w].meta.version # row'.version
    <3> SUFFICES ASSUME work[w].pc = "rewrap"
                 PROVE  work[w].meta.version <= updates' /\ work[w].meta.version # row'.version
      OBVIOUS
    <3>1. work[w].meta \in UpstreamRecord /\ work[w].meta.version <= updates BY <2>1 DEF GoodWork
    <3>2. work[w].meta.version \in Nat BY <3>1 DEF UpstreamRecord
    <3> QED BY <1>1, <1>2, <1>5, <3>1, <3>2
  <2> QED BY <2>1, <2>2 DEF GoodWork
<1> QED BY <1>1, <1>2, <1>3, <1>4, <1>6, ControlStep

LEMMA ReplaceStoreKeyKeeps ==
    ASSUME CredentialsInv, NEW k \in StoreKeys, ReplaceStoreKey(k)
    PROVE  CredentialsInv'
<1>1. /\ updates \in 0..MaxUpdates /\ now \in 0..MaxTime /\ fresh \in [Proxies -> BOOLEAN]
  BY DEF CredentialsInv, TypeOK
<1>2. /\ updates < MaxUpdates /\ updates' = updates + 1 /\ storeKey' = k
      /\ row' = row /\ stored' = stored /\ UNCHANGED <<bundle, fresh, tokens, work, sent, named, raced, now>>
  BY DEF ReplaceStoreKey, proxyState
<1>3. updates' \in 0..MaxUpdates /\ 0..updates \subseteq 0..updates'
  BY <1>1, <1>2, CredentialsAssumption
<1>4. RowInv' BY <1>2, <1>3 DEF RowInv, CredentialsInv, Pair, SecretOf
<1>5. ASSUME NEW w \in Workers PROVE GoodWork(work[w], stored, raced, row', updates', named)
  <2>1. GoodWork(work[w], stored, raced, row, updates, named) /\ work[w] \in Work BY WorkerFacts
  <2>2. work[w].pc = "rewrap" => work[w].meta.version <= updates'
    <3> SUFFICES ASSUME work[w].pc = "rewrap" PROVE work[w].meta.version <= updates' OBVIOUS
    <3>1. work[w].meta \in UpstreamRecord /\ work[w].meta.version <= updates BY <2>1 DEF GoodWork
    <3>2. work[w].meta.version \in Nat BY <3>1 DEF UpstreamRecord
    <3> QED BY <1>1, <1>2, <3>1, <3>2
  <2> QED BY <1>2, <2>1, <2>2 DEF GoodWork
<1> QED BY <1>1, <1>2, <1>3, <1>4, <1>5, ControlStep

LEMMA PassingTimeKeeps ==
    ASSUME CredentialsInv, Tick \/ \E x \in Proxies : IntervalPasses(x)
    PROVE  CredentialsInv'
<1>1. /\ storeKey \in StoreKeys /\ updates \in 0..MaxUpdates /\ now \in 0..MaxTime
      /\ fresh \in [Proxies -> BOOLEAN] /\ RowInv
      /\ \A w \in Workers : GoodWork(work[w], stored, raced, row, updates, named)
  BY DEF CredentialsInv, TypeOK
<1>2. /\ row' = row /\ storeKey' = storeKey /\ stored' = stored /\ updates' = updates
      /\ UNCHANGED <<bundle, tokens, work, sent, named, raced>>
  BY DEF Tick, IntervalPasses, controlState, proxyState
<1>3. now' \in 0..MaxTime /\ fresh' \in [Proxies -> BOOLEAN]
  <2>1. CASE Tick BY <1>1, <2>1, CredentialsAssumption DEF Tick, proxyState
  <2>2. CASE \E x \in Proxies : IntervalPasses(x) BY <1>1, <2>2 DEF IntervalPasses
  <2> QED BY <2>1, <2>2
<1>4. RowInv' BY <1>1, <1>2 DEF RowInv, Pair, SecretOf
<1> QED BY <1>1, <1>2, <1>3, <1>4, ControlStep

LEMMA InitIsGood == Init => CredentialsInv
<1> SUFFICES ASSUME Init PROVE CredentialsInv OBVIOUS
<1>1. PICK c \in Configs : row = StoredRow(c, storeKey, 0)
  BY DEF Init
<1>2. /\ row = [StoredRow(c, storeKey, 0) EXCEPT !.host = c.host] /\ c.host \in Hosts
      /\ RowInv
  <2>1. row = [StoredRow(c, storeKey, 0) EXCEPT !.host = c.host] BY <1>1 DEF StoredRow
  <2>2. c.host \in Hosts BY DEF Hosts
  <2>3. Pair(row) \in stored /\ updates = 0 /\ storeKey \in StoreKeys BY DEF Init
  <2> QED BY <2>1, <2>2, <2>3 DEF RowInv
<1>3. /\ updates = 0 /\ bundle = [x \in Proxies |-> None] /\ fresh = [x \in Proxies |-> FALSE]
      /\ tokens = [x \in Proxies |-> <<>>] /\ work = [w \in Workers |-> NoWork] /\ sent = {} /\ named = {}
      /\ raced = FALSE /\ now = 0 /\ storeKey \in StoreKeys
  BY DEF Init
<1>4. GoodCache(<<>>)
  <2>1. DOMAIN <<>> = {} OBVIOUS
  <2>2. IsFiniteSet({}) /\ Cardinality({}) = 0 BY FS_EmptySet
  <2>3. CacheType(<<>>) BY <2>1 DEF CacheType
  <2> QED BY <2>1, <2>2, <2>3, CredentialsAssumption DEF GoodCache
<1>5. \A x \in Proxies : GoodCache(tokens[x]) BY <1>3, <1>4
<1>6. row \in {[StoredRow(d, k, n) EXCEPT !.host = h] :
                  d \in Configs, k \in StoreKeys, n \in 0..MaxUpdates, h \in Hosts}
  <2>1. 0 \in 0..MaxUpdates /\ storeKey \in StoreKeys BY <1>3, CredentialsAssumption
  <2>2. \E d \in Configs, k \in StoreKeys, n \in 0..MaxUpdates, h \in Hosts :
            row = [StoredRow(d, k, n) EXCEPT !.host = h]
    BY <1>2, <2>1
  <2> QED BY <2>2
<1>7. tokens = [x \in Proxies |-> tokens[x]] BY <1>3
<1>8. work \in [Workers -> Work]
      /\ \A w \in Workers : GoodWork(work[w], stored, raced, row, updates, named)
  BY <1>3, NoWorkIsGood
<1>9. \A x \in Proxies :
        /\ tokens[x] \in [DOMAIN tokens[x] -> [token : Token, expires : Nat]]
        /\ DOMAIN tokens[x] \subseteq Hosts \X Repositories \X Principals
  BY <1>5 DEF GoodCache, CacheType
<1>10. TypeOK
  <2>1. 0 \in 0..MaxUpdates /\ 0 \in 0..MaxTime BY CredentialsAssumption
  <2>2. /\ bundle \in [Proxies -> UpstreamRecord \cup {None}] /\ fresh \in [Proxies -> BOOLEAN]
        /\ raced \in BOOLEAN /\ storeKey \in StoreKeys
        /\ updates \in 0..MaxUpdates /\ now \in 0..MaxTime /\ named \subseteq Hosts \X Realms
    BY <1>3, <2>1
  <2> QED BY <1>6, <1>7, <1>8, <1>9, <2>2 DEF TypeOK
<1> QED BY <1>2, <1>3, <1>5, <1>8, <1>10 DEF CredentialsInv, SecretsStayWithTheirHost, Shown

LEMMA NextKeeps == CredentialsInv /\ [Next]_vars => CredentialsInv'
<1> SUFFICES ASSUME CredentialsInv, [Next]_vars PROVE CredentialsInv' OBVIOUS
<1>1. CASE UNCHANGED vars
  <2>1. /\ UNCHANGED <<bundle, tokens, work, sent, named, raced>>
        /\ row' = row /\ storeKey' = storeKey /\ stored' = stored /\ updates' = updates
        /\ fresh' = fresh /\ now' = now
    BY <1>1 DEF vars
  <2>2. /\ storeKey' \in StoreKeys /\ updates' \in 0..MaxUpdates /\ now' \in 0..MaxTime
        /\ fresh' \in [Proxies -> BOOLEAN]
    BY <2>1 DEF CredentialsInv, TypeOK
  <2>3. RowInv' BY <2>1 DEF RowInv, CredentialsInv, Pair, SecretOf
  <2>4. \A w \in Workers : GoodWork(work[w], stored, raced, row', updates', named)
    BY <2>1 DEF CredentialsInv
  <2> QED BY <2>1, <2>2, <2>3, <2>4, ControlStep
<1>2. CASE \E c \in Configs, auth \in BOOLEAN : UpdateUpstream(c, auth) BY <1>2, UpdateUpstreamKeeps
<1>3. CASE \E k \in StoreKeys : ReplaceStoreKey(k) BY <1>3, ReplaceStoreKeyKeeps
<1>4. ASSUME NEW w \in Workers, WorkerStep(w) PROVE CredentialsInv'
  BY <1>4, GetTenantBundleKeeps, ServeTenantBundleKeeps, RewrapKeeps, LoseAnswerKeeps,
     StoreBundleKeeps, doOCIRequestKeeps, RegistryKeeps, RegistryRejectsKeeps,
     requestBearerTokenKeeps, RetryServedKeeps
  DEF WorkerStep
<1>5. CASE Tick \/ \E x \in Proxies : IntervalPasses(x) BY <1>5, PassingTimeKeeps
<1> QED BY <1>1, <1>2, <1>3, <1>4, <1>5 DEF Next

-----------------------------------------------------------------------------
\* Everywhere a secret passes through holds what it may hold, in every
\* reachable state (row, RPC answer, CachedBundleProvider, OCI request).
THEOREM CredentialsInvariance == Spec => []CredentialsInv
BY InitIsGood, NextKeeps, PTL DEF Spec

\* Rows, bundles, requests and token caches keep their shapes.
THEOREM CredentialsTypeCorrect == Spec => []TypeOK
<1>1. CredentialsInv => TypeOK BY DEF CredentialsInv
<1> QED BY <1>1, CredentialsInvariance, PTL

\* Unless a row changes between the two queries that assemble a bundle, a
\* secret reaches only a registry whose row held it (an update without an auth
\* section keeps it with the new host), or, as basic credentials, a realm that
\* this registry named in a challenge, whichever bundle, last-known-good copy
\* or request under way it comes from.
THEOREM SecretsReachOnlyTheirHost == Spec => []SecretsStayWithTheirHost
<1>1. CredentialsInv => SecretsStayWithTheirHost BY DEF CredentialsInv
<1> QED BY <1>1, CredentialsInvariance, PTL

\* A cached bundle belongs to an authorized proxy, and its credentials open
\* with that proxy's key to a secret that was stored.
THEOREM BundlesAreForTheirProxy == Spec => []BundleForItsProxy
<1>1. CredentialsInv => BundleForItsProxy BY DEF CredentialsInv, Held, BundleForItsProxy
<1> QED BY <1>1, CredentialsInvariance, PTL

\* A bearer token is presented only to the registry, for the repository and
\* on behalf of the principal it was issued for.
THEOREM TokensBelongToTheirRequest == Spec => []TokensKeptApart
<1>1. CredentialsInv => TokensKeptApart
  BY DEF CredentialsInv, GoodWork, TokenFits, TokensKeptApart
<1> QED BY <1>1, CredentialsInvariance, PTL

\* Set never leaves more entries than the limit, whatever expired before.
THEOREM TokenCacheStaysBounded == Spec => []TokenCacheBounded
<1>1. CredentialsInv => TokenCacheBounded BY DEF CredentialsInv, GoodCache, TokenCacheBounded
<1> QED BY <1>1, CredentialsInvariance, PTL

\* Neither a lookup nor Set drops a token that has not expired, unless the
\* cache is full of such tokens.
THEOREM LiveTokensAreKept == Spec => LiveTokensKept
<1> DEFINE Kept(x) ==
        \A k \in DOMAIN tokens[x] :
            tokens[x][k].expires > now /\ k \notin DOMAIN tokens'[x] =>
                Cardinality({j \in DOMAIN tokens[x] : tokens[x][j].expires > now}) >= MaxEntries
<1>1. ASSUME CredentialsInv, [Next]_vars, NEW x \in Proxies PROVE Kept(x)
  <2>1. CASE tokens' = tokens BY <2>1
  <2>2. ASSUME NEW w \in Workers, doOCIRequest(w) PROVE Kept(x)
    <3> DEFINE p == work[w].proxy
               key == bearerTokenCacheKey(work[w].upstream, work[w].repo)
               t == IF canUseCachedBearer(work[w].upstream) THEN AfterGet(p, key) ELSE tokens[p]
    <3>1. tokens' = [tokens EXCEPT ![p] = t] BY <2>2 DEF doOCIRequest
    <3>2. \A k \in DOMAIN tokens[p] : tokens[p][k].expires > now => k \in DOMAIN t
      BY DEF AfterGet
    <3>3. DOMAIN tokens = Proxies
      <4>1. tokens = [y \in Proxies |-> tokens[y]] BY <1>1 DEF CredentialsInv, TypeOK
      <4> QED BY <4>1
    <3> HIDE DEF p, key, t
    <3>4. tokens'[x] = IF x = p THEN t ELSE tokens[x] BY <3>1, <3>3
    <3> QED BY <3>2, <3>4
  <2>3. ASSUME NEW w \in Workers, RetryServed(w) PROVE Kept(x)
    <3> DEFINE p == work[w].proxy
               u == work[w].upstream
               key == bearerTokenCacheKey(u, work[w].repo)
               s == Set(p, key, work[w].token, work[w].ttl)
    <3>1. CASE ~canUseCachedBearer(u) BY <2>1, <2>3, <3>1 DEF RetryServed
    <3>2. CASE canUseCachedBearer(u)
      <4>1. tokens' = [tokens EXCEPT ![p] = s] BY <2>3, <3>2 DEF RetryServed
      <4>2. \A k \in DOMAIN tokens[p] :
              tokens[p][k].expires > now /\ k \notin DOMAIN s =>
                Cardinality({j \in DOMAIN tokens[p] : tokens[p][j].expires > now}) >= MaxEntries
        BY <1>1, <2>3, <3>2, RetrySets, SetIsGood
      <4>3. DOMAIN tokens = Proxies
        <5>1. tokens = [y \in Proxies |-> tokens[y]] BY <1>1 DEF CredentialsInv, TypeOK
        <5> QED BY <5>1
      <4> HIDE DEF p, u, key, s
      <4>4. CASE x = p
        <5>1. tokens'[x] = s BY <4>1, <4>3, <4>4
        <5> QED BY <4>2, <4>4, <5>1
      <4>5. CASE x # p
        <5>1. tokens'[x] = tokens[x] BY <4>1, <4>3, <4>5
        <5> QED BY <5>1
      <4> QED BY <4>4, <4>5
    <3> QED BY <3>1, <3>2
  <2>4. tokens' = tokens \/ \E w \in Workers : doOCIRequest(w) \/ RetryServed(w)
    BY <1>1 DEF Next, WorkerStep, vars, proxyState, UpdateUpstream, ReplaceStoreKey, IntervalPasses,
        Tick, GetTenantBundle, ServeTenantBundle, toBundleUpstreamAuth, LoseAnswer, StoreBundle,
        RegistryServes, RegistryRejects, requestBearerToken, TokenEndpointFails, RetryRejected
  <2> QED BY <2>1, <2>2, <2>3, <2>4
<1>2. CredentialsInv /\ [Next]_vars => [\A x \in Proxies : Kept(x)]_vars BY <1>1
<1> QED BY <1>2, CredentialsInvariance, PTL DEF Spec, LiveTokensKept
=============================================================================
