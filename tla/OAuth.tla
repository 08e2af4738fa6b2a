-------------------------------- MODULE OAuth --------------------------------
(***************************************************************************)
(* Signing in with an identity provider: the flow that a sealed cookie in  *)
(* the browser ties together, the callback with its exchanges, the cache   *)
(* of the provider's signing keys that all callbacks of a process share,   *)
(* and the accounts that the provider's subjects are linked to.            *)
(*                                                                         *)
(* A flow's state, nonce and code verifier are fresh and secret, so that   *)
(* they are the number of the flow.  The provider, the browsers and the    *)
(* rest of the application are external.                                   *)
(*                                                                         *)
(* A definition named X_Something is a faulty variant of X, there to show  *)
(* that a property depends on X; no specification uses it.                 *)
(***************************************************************************)
EXTENDS Naturals, Sequences, FiniteSets

CONSTANTS
    Browsers,
    Subjects, Emails,
    Email,         \* of each subject, at the provider
    Verified,      \* subjects whose address the provider has verified
    LocalEmail,    \* of the account that exists from the start
    AutoCreate,    \* OAuthExtension(auto_create_users=...)
    Https,         \* the scheme the server sees
    Kids,          \* signing keys
    Ttl,           \* of the cached keys
    MaxFetch,      \* bound: how long the response with the keys is under way
    Slots,
    BumpSlots,     \* requests and commands that raise a version
    MaxFlows,      \* bound: sign-ins started
    MaxUsers,      \* bound: accounts ever created
    MaxVersion,    \* bound: version bumps
    MaxChanges,    \* bound: what operators have changed about accounts at a time
    NoOne, NoKid

ASSUME OAuthAssumption ==
    /\ Email \in [Subjects -> Emails] /\ LocalEmail \in Emails
    /\ Verified \subseteq Subjects
    /\ AutoCreate \in BOOLEAN /\ Https \in BOOLEAN
    /\ Ttl \in Nat \ {0} /\ MaxFetch \in Nat /\ MaxFlows \in Nat /\ MaxUsers \in Nat \ {0}
    /\ MaxVersion \in Nat /\ MaxChanges \in Nat
    /\ NoOne \notin Subjects \cup Slots /\ NoKid \notin Kids

Flows == 1..MaxFlows
Uids == 1..MaxUsers
MaxSince == Ttl + MaxFetch

VARIABLES
    cookie,      \* per browser: the flow in its state cookie, or 0
    flows,       \* the flows started
    published,   \* the keys the provider publishes
    since,       \* per key: how long it has not been published (up to MaxSince)
    keys, age,   \* the cache: its keys, and how old it is (up to Ttl)
    lock,        \* the slot that holds the cache's lock
    answer,      \* the keys in the response to it that is under way, or none
    took,        \* how long that response has been under way
    users,       \* the sequence of accounts ever created
    link,        \* external_identities: per subject the account, or 0
    bump,        \* per bump slot: the account and the version it has loaded
    req,         \* per slot: the callback in it
    logins       \* history: what was minted

idp == <<published, since>>
cache == <<keys, age, lock, answer, took>>
accounts == <<users, link, bump>>
vars == <<cookie, flows, published, since, keys, age, lock, answer, took, users, link, bump,
          req, logins>>

(* The browser that started it, who signed in, and whether there is a code *)
(* for it that can be exchanged.                                           *)
Flow == [browser : Browsers, who : Subjects \cup {NoOne}, code : {"none", "fresh", "spent"}]

(* An account, and the subject that a sign-in has created it for or that   *)
(* the operator has linked to it.                                          *)
User == [email : Emails, active : BOOLEAN, version : 0..MaxVersion, there : BOOLEAN,
         origin : Subjects \cup {NoOne}]

(* "flow" is the one of the cookie, "code" the one whose code came with    *)
(* it; "was" and "floor" are the account linked on arrival and its version.*)
Callback == [browser : Browsers, flow : Flows, code : Flows,
             pc : {"exchange", "key", "lock", "fetch", "answer", "lookup", "create", "version"},
             kid : Kids \cup {NoKid}, stale : 0..MaxSince,
             user : 0..MaxUsers, was : 0..MaxUsers, floor : 0..MaxVersion]

Login == [flow : Flows, browser : Browsers, subject : Subjects, user : Uids,
          version : 0..MaxVersion, floor : 0..MaxVersion, stale : 0..MaxSince]

(* The row as a handler that raises the version has loaded it. *)
Bump == [user : Uids, version : 0..MaxVersion]

TypeOK ==
    /\ cookie \in [Browsers -> 0..Len(flows)]
    /\ Len(flows) <= MaxFlows /\ \A f \in 1..Len(flows) : flows[f] \in Flow
    /\ published \in (SUBSET Kids) \ {{}} /\ since \in [Kids -> 0..MaxSince]
    /\ keys \subseteq Kids /\ age \in 0..Ttl /\ lock \in Slots \cup {NoOne}
    /\ answer \subseteq Kids /\ took \in 0..MaxFetch
    /\ Len(users) <= MaxUsers /\ \A u \in 1..Len(users) : users[u] \in User
    /\ link \in [Subjects -> 0..Len(users)]
    /\ bump \in [BumpSlots -> Bump \cup {NoOne}]
    /\ req \in [Slots -> Callback \cup {NoOne}]
    /\ logins \subseteq Login

Account(email, origin) ==
    [email |-> email, active |-> TRUE, version |-> 0, there |-> TRUE, origin |-> origin]

(* The operator may have linked the first account to a subject. *)
Init ==
    /\ cookie = [b \in Browsers |-> 0]
    /\ flows = <<>>
    /\ published \in {{k} : k \in Kids}
    /\ since = [k \in Kids |-> IF k \in published THEN 0 ELSE MaxSince]
    /\ keys = {} /\ age = Ttl /\ lock = NoOne /\ answer = {} /\ took = 0
    /\ \E linked \in Subjects \cup {NoOne} :
          /\ users = <<Account(LocalEmail, linked)>>
          /\ link = [s \in Subjects |-> IF s = linked THEN 1 ELSE 0]
    /\ bump = [j \in BumpSlots |-> NoOne]
    /\ req = [s \in Slots |-> NoOne]
    /\ logins = {}

-----------------------------------------------------------------------------
(* Login and the provider *)

(* /login seals a new flow into the cookie, over one that may be there. *)
Start(b) ==
    /\ Len(flows) < MaxFlows
    /\ flows' = Append(flows, [browser |-> b, who |-> NoOne, code |-> "none"])
    /\ cookie' = [cookie EXCEPT ![b] = Len(flows) + 1]
    /\ UNCHANGED <<idp, cache, accounts, req, logins>>

(* Somebody signs in at the provider, which redirects back with a code. *)
SignIn(f) ==
    /\ flows[f].code = "none"
    /\ \E who \in Subjects : flows' = [flows EXCEPT ![f] = [@ EXCEPT !.who = who, !.code = "fresh"]]
    /\ UNCHANGED <<cookie, idp, cache, accounts, req, logins>>

Rotate ==
    /\ \E new \in (SUBSET Kids) \ {{}} :
         /\ published' = new
         /\ since' = [k \in Kids |-> IF k \in new THEN 0 ELSE since[k]]
    /\ UNCHANGED <<cookie, flows, cache, accounts, req, logins>>

AtMost(bound, n) == IF n < bound THEN n + 1 ELSE n

(* The client gives up a response in the end (httpx's timeout). *)
Tick ==
    /\ answer # {} => took < MaxFetch
    /\ since' = [k \in Kids |-> IF k \in published THEN 0 ELSE AtMost(MaxSince, since[k])]
    /\ age' = AtMost(Ttl, age)
    /\ took' = IF answer = {} THEN took ELSE took + 1
    /\ UNCHANGED <<cookie, flows, published, keys, lock, answer, accounts, req, logins>>

-----------------------------------------------------------------------------
(* The callback *)

(* clear_state_cookie sends no Secure attribute, and browsers ignore such  *)
(* a header for a __Host- cookie, which it is over https.                  *)
Cleared(b) == IF Https THEN cookie ELSE [cookie EXCEPT ![b] = 0]

Goto(s, changes) == req' = [req EXCEPT ![s] = changes]

(* What is under way for the holder of the lock is dropped with it. *)
Release(s) ==
    IF lock = s
    THEN lock' = NoOne /\ answer' = {} /\ took' = 0
    ELSE UNCHANGED <<lock, answer, took>>

(* _fail, which any step of a callback may come to, also when the cookie   *)
(* has expired; and an exception that is not handled.                      *)
Fail(s) ==
    /\ req[s] # NoOne
    /\ cookie' \in {cookie, Cleared(req[s].browser)}
    /\ req' = [req EXCEPT ![s] = NoOne]
    /\ Release(s)
    /\ UNCHANGED <<flows, idp, keys, age, accounts, logins>>

(* The flow is the one of the cookie; state has to be the same. *)
FlowOf(b, state) == IF cookie[b] = state THEN cookie[b] ELSE 0

Version(u) == IF u = 0 THEN 0 ELSE IF users[u].there THEN users[u].version ELSE 0

(* A browser comes with a state and a code: those of one redirect of the   *)
(* provider, or of two that somebody has put together.                     *)
Arrive(s, b) ==
    /\ req[s] = NoOne
    /\ \E state, code \in 1..Len(flows) :
         /\ flows[code].who # NoOne
         /\ FlowOf(b, state) # 0
         /\ Goto(s, [browser |-> b, flow |-> FlowOf(b, state), code |-> code, pc |-> "exchange",
                     kid |-> NoKid, stale |-> 0, user |-> 0,
                     was |-> link[flows[code].who],
                     floor |-> Version(link[flows[code].who])])
    /\ UNCHANGED <<cookie, flows, idp, cache, accounts, logins>>

(* exchange_code: the provider takes a code once.  (One that also compares *)
(* the verifier of the cookie's flow refuses other codes: Fail.)  The ID   *)
(* token is signed with a published key.                                   *)
Exchange(s) ==
    /\ req[s] # NoOne /\ req[s].pc = "exchange"
    /\ flows[req[s].code].code = "fresh"
    /\ flows' = [flows EXCEPT ![req[s].code].code = "spent"]
    /\ \E k \in published : Goto(s, [req[s] EXCEPT !.kid = k, !.pc = "key"])
    /\ UNCHANGED <<cookie, idp, cache, accounts, logins>>

Known_NoTtl(k) == k \in keys

(* The cache is inside its time to live and has the key. *)
Known(k) == age < Ttl /\ k \in keys

KeyVerified(q) == [q EXCEPT !.stale = since[q.kid], !.pc = "lookup"]

(* get_key without the lock, and behind it. *)
UseKey(s) ==
    /\ req[s] # NoOne /\ req[s].pc = "key"
    /\ Goto(s, IF Known(req[s].kid) THEN KeyVerified(req[s]) ELSE [req[s] EXCEPT !.pc = "lock"])
    /\ UNCHANGED <<cookie, flows, idp, cache, accounts, logins>>

Locked(s) ==
    /\ req[s] # NoOne /\ req[s].pc = "lock"
    /\ lock = NoOne
    /\ IF Known(req[s].kid)
       THEN Goto(s, KeyVerified(req[s])) /\ UNCHANGED lock
       ELSE Goto(s, [req[s] EXCEPT !.pc = "fetch"]) /\ lock' = s
    /\ UNCHANGED <<cookie, flows, idp, keys, age, answer, took, accounts, logins>>

(* _refresh_locked: the provider answers with the keys it publishes,       *)
Fetch(s) ==
    /\ req[s] # NoOne /\ req[s].pc = "fetch"
    /\ answer' = published
    /\ took' = 0
    /\ Goto(s, [req[s] EXCEPT !.pc = "answer"])
    /\ UNCHANGED <<cookie, flows, idp, keys, age, lock, accounts, logins>>

(* and when the answer has come they replace all others, and their time to *)
(* live begins.  A key that is still missing is an error.                  *)
Store(s) ==
    /\ req[s] # NoOne /\ req[s].pc = "answer"
    /\ keys' = answer
    /\ age' = 0
    /\ Release(s)
    /\ IF req[s].kid \in answer
       THEN Goto(s, KeyVerified(req[s])) /\ UNCHANGED cookie
       ELSE Goto(s, NoOne) /\ cookie' = Cleared(req[s].browser)
    /\ UNCHANGED <<flows, idp, accounts, logins>>

-----------------------------------------------------------------------------
(* find_or_create_by_external_identity, and the tokens *)

Taken(email) == \E u \in 1..Len(users) : users[u].there /\ users[u].email = email

NonceMatches_Any(q) == TRUE

(* The last check of verify_id_token: the token, which has the nonce of    *)
(* the flow that its code is of, is for the flow of the cookie.            *)
NonceMatches(q) == q.code = q.flow

Lookup_ByEmail(s) ==
    /\ req[s] # NoOne /\ req[s].pc = "lookup"
    /\ NonceMatches(req[s])
    /\ LET q == req[s]
           who == flows[q.code].who
           same == {u \in 1..Len(users) : users[u].there /\ users[u].email = Email[who]}
       IN IF link[who] = 0 /\ same # {}
          THEN \E u \in same : Goto(s, [q EXCEPT !.user = u, !.pc = "version"])
          ELSE Goto(s, [q EXCEPT !.user = link[who],
                                 !.pc = IF link[who] = 0 THEN "create" ELSE "version"])
    /\ UNCHANGED <<cookie, flows, idp, cache, accounts, logins>>

(* The transaction reads: an account that is linked and active, or none at *)
(* all and everything there for a new one.  The rest is Fail.              *)
Lookup(s) ==
    /\ req[s] # NoOne /\ req[s].pc = "lookup"
    /\ NonceMatches(req[s])
    /\ LET q == req[s]
           who == flows[q.code].who
           u == link[who]
       IN IF u # 0
          THEN /\ users[u].active
               /\ Goto(s, [q EXCEPT !.user = u, !.pc = "version"])
          ELSE /\ AutoCreate /\ who \in Verified /\ ~Taken(Email[who])
               /\ Goto(s, [q EXCEPT !.pc = "create"])
    /\ UNCHANGED <<cookie, flows, idp, cache, accounts, logins>>

Unique_Unchecked(who) == TRUE

(* users.email, and provider with subject, are unique. *)
Unique(who) == ~Taken(Email[who]) /\ link[who] = 0

(* It writes: both rows or none, an IntegrityError is not handled.  (It    *)
(* can only fail when the other side has committed.)                       *)
Create(s) ==
    /\ req[s] # NoOne /\ req[s].pc = "create"
    /\ LET q == req[s]
           who == flows[q.code].who
       IN IF Unique(who)
          THEN /\ Len(users) < MaxUsers
               /\ users' = Append(users, Account(Email[who], who))
               /\ link' = [link EXCEPT ![who] = Len(users) + 1]
               /\ Goto(s, [q EXCEPT !.user = Len(users) + 1, !.pc = "version"])
          ELSE /\ Goto(s, NoOne)
               /\ UNCHANGED <<users, link>>
    /\ UNCHANGED <<cookie, flows, idp, cache, bump, logins>>

Minted_Zero(u) == 0

(* _read_token_version, in a session of its own; 0 if the row is gone. *)
Minted(u) == Version(u)

Mint(s) ==
    /\ req[s] # NoOne /\ req[s].pc = "version"
    /\ LET q == req[s]
       IN logins' = logins \cup
             {[flow |-> q.code, browser |-> q.browser, subject |-> flows[q.code].who, user |-> q.user,
               version |-> Minted(q.user), floor |-> IF q.user = q.was THEN q.floor ELSE 0,
               stale |-> q.stale]}
    /\ cookie' = Cleared(req[s].browser)
    /\ Goto(s, NoOne)
    /\ UNCHANGED <<flows, idp, cache, accounts>>

-----------------------------------------------------------------------------
(* The rest of the application *)

(* An account is created locally, or by an invitation. *)
Provision ==
    /\ Len(users) < MaxUsers
    /\ \E e \in Emails : ~Taken(e) /\ users' = Append(users, Account(e, NoOne))
    /\ UNCHANGED <<cookie, flows, idp, cache, link, bump, req, logins>>

Changes ==
    Cardinality({u \in 1..Len(users) : ~users[u].there})
    + Cardinality({u \in 1..Len(users) : ~users[u].active})
    + Cardinality({u \in 1..Len(users) : users[u].version > 0})

(* logout-all, a password reset, disable and anonymise load the row, and   *)
LoadBump(j, u) ==
    /\ bump[j] = NoOne
    /\ users[u].there /\ users[u].version < MaxVersion /\ Changes < MaxChanges
    /\ bump' = [bump EXCEPT ![j] = [user |-> u, version |-> users[u].version]]
    /\ UNCHANGED <<cookie, flows, idp, cache, users, link, req, logins>>

(* write a version one higher than they have loaded, or roll back.         *)
SaveBump(j) ==
    /\ bump[j] # NoOne
    /\ bump' = [bump EXCEPT ![j] = NoOne]
    /\ LET u == bump[j].user
       IN \/ /\ users[u].there /\ bump[j].version < MaxVersion
             /\ users' = [users EXCEPT ![u].version = bump[j].version + 1]
          \/ UNCHANGED users
    /\ UNCHANGED <<cookie, flows, idp, cache, link, req, logins>>

(* An operator switches the account. *)
Switch(u) ==
    /\ users[u].there
    /\ users[u].active => Changes < MaxChanges
    /\ users' = [users EXCEPT ![u].active = ~@]
    /\ UNCHANGED <<cookie, flows, idp, cache, link, bump, req, logins>>

(* The identity goes with the account (ON DELETE CASCADE). *)
Delete(u) ==
    /\ users[u].there /\ Changes < MaxChanges
    /\ users' = [users EXCEPT ![u].there = FALSE]
    /\ link' = [s \in Subjects |-> IF link[s] = u THEN 0 ELSE link[s]]
    /\ UNCHANGED <<cookie, flows, idp, cache, bump, req, logins>>

-----------------------------------------------------------------------------

Step(s) ==
    \/ Fail(s) \/ Exchange(s) \/ UseKey(s) \/ Locked(s) \/ Fetch(s) \/ Store(s)
    \/ Lookup(s) \/ Create(s) \/ Mint(s)

Next ==
    \/ \E b \in Browsers : Start(b) \/ \E s \in Slots : Arrive(s, b)
    \/ \E f \in 1..Len(flows) : SignIn(f)
    \/ \E s \in Slots : Step(s)
    \/ \E u \in 1..Len(users) : Switch(u) \/ Delete(u) \/ \E j \in BumpSlots : LoadBump(j, u)
    \/ \E j \in BumpSlots : SaveBump(j)
    \/ Rotate \/ Tick \/ Provision

Spec == Init /\ [][Next]_vars

-----------------------------------------------------------------------------
(* Properties *)

(* A sign-in ends in the browser that started it and nowhere else, for     *)
(* whoever signed in there at the provider, and once: over https the state *)
(* cookie outlives the callback, so that a reload comes with both again,   *)
(* and a state may come with the code of another flow.                     *)
BoundToBrowser ==
    \A l \in logins :
        /\ flows[l.flow].browser = l.browser
        /\ flows[l.flow].who = l.subject
        /\ \A m \in logins : m.flow = l.flow => m = l

(* "Auto-linking by email is a known account-takeover vector": a subject   *)
(* gets into the account that its own first sign-in has created or that    *)
(* the operator has linked to it, whatever the addresses are.              *)
NeverByEmail == \A l \in logins : users[l.user].origin = l.subject

(* "An IdP's stable subject identifier maps to at most one framework       *)
(* user", and an address to one account, however first sign-ins overlap;   *)
(* two accounts of one subject follow each other.                          *)
OneAccount ==
    \A u, v \in 1..Len(users) :
        u # v /\ users[u].there /\ users[v].there =>
            /\ users[u].email # users[v].email
            /\ users[u].origin # NoOne => users[u].origin # users[v].origin

(* A token of a sign-in is not from before a logout-all that preceded its  *)
(* callback ("immortal across logout-all"), if versions are raised one at  *)
(* a time.                                                                 *)
VersionIsCurrent == \A l \in logins : users[l.user].there => l.version >= l.floor

(* A key is accepted for less than the time to live and the time a fetch   *)
(* takes after the provider has withdrawn it, whoever refreshed the cache  *)
(* meanwhile: the time to live begins when the answer has come.            *)
KeyWasPublished == \A l \in logins : l.stale < Ttl + MaxFetch
=============================================================================
