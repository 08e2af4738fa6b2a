----------------------------- MODULE OAuthProofs -----------------------------
(***************************************************************************)
(* Proofs about OAuth for any browsers, subjects, keys, time to live,      *)
(* number of flows, accounts and callbacks in flight.  That a token is as  *)
(* new as its callback holds when versions are raised one at a time        *)
(* (SerialBumps).                                                          *)
(***************************************************************************)
EXTENDS OAuth, SequenceTheorems, TLAPS

-----------------------------------------------------------------------------
(* What is always there *)

(* Who has signed in at the provider has a code, and stays. *)
SignedIn == \A f \in 1..Len(flows) : flows[f].who # NoOne => flows[f].code # "none"

(* A callback has a flow somebody has signed in, a key once the code is    *)
(* exchanged, and an account at the end.                                   *)
Steps ==
    \A s \in Slots : req[s] # NoOne =>
        /\ req[s].code <= Len(flows) /\ req[s].flow <= Len(flows)
        /\ flows[req[s].code].who \in Subjects
        /\ req[s].pc # "exchange" => req[s].kid \in Kids
        /\ req[s].user <= Len(users) /\ req[s].was <= Len(users)
        /\ req[s].pc = "version" => req[s].user \in 1..Len(users)

Logged == \A l \in logins : l.flow <= Len(flows) /\ l.user <= Len(users)

Loaded == \A j \in BumpSlots : bump[j] # NoOne => bump[j].user <= Len(users)

TypeInv ==
    /\ TypeOK
    /\ flows \in Seq(Flow) /\ users \in Seq(User)
    /\ SignedIn /\ Steps /\ Logged /\ Loaded

(* Flows and accounts never go, nor do those who have signed in. *)
Onwards ==
    /\ flows' \in Seq(Flow) /\ Len(flows') <= MaxFlows
    /\ Len(flows) <= Len(flows')
    /\ users' \in Seq(User) /\ Len(users') <= MaxUsers
    /\ Len(users) <= Len(users')
    /\ \A f \in 1..Len(flows) :
          /\ flows'[f].browser = flows[f].browser
          /\ flows[f].who # NoOne => flows'[f].who = flows[f].who

(* One callback goes on, or none. *)
Moved(s, n) == \A o \in Slots : req'[o] = IF o = s THEN n ELSE req[o]

Stays(q, n) ==
    /\ n.browser = q.browser /\ n.flow = q.flow /\ n.code = q.code
    /\ n.was = q.was /\ n.floor = q.floor

-----------------------------------------------------------------------------
(* Sequences and records *)

LEMMA Lengths == TypeInv => Len(flows) \in Nat /\ Len(users) \in Nat
BY LenProperties DEF TypeInv

LEMMA Moves ==
    ASSUME TypeInv, NEW s \in Slots, NEW n, Goto(s, n)
    PROVE  Moved(s, n)
BY DEF Goto, Moved, TypeInv, TypeOK

LEMMA MovesType ==
    ASSUME TypeInv, NEW s \in Slots, NEW n \in Callback \cup {NoOne}, Goto(s, n)
    PROVE  req' \in [Slots -> Callback \cup {NoOne}]
BY DEF Goto, TypeInv, TypeOK

LEMMA SameFlows ==
    ASSUME TypeInv, UNCHANGED <<flows, users>> PROVE Onwards
BY Lengths DEF Onwards, TypeInv, TypeOK

LEMMA OneFlow ==
    ASSUME TypeInv, NEW f \in 1..Len(flows), NEW x \in Flow, flows' = [flows EXCEPT ![f] = x]
    PROVE  /\ flows' \in Seq(Flow) /\ Len(flows') = Len(flows)
           /\ \A g \in 1..Len(flows) : flows'[g] = IF g = f THEN x ELSE flows[g]
BY ExceptSeq DEF TypeInv

LEMMA OneUser ==
    ASSUME TypeInv, NEW u \in 1..Len(users), NEW x \in User, users' = [users EXCEPT ![u] = x]
    PROVE  /\ users' \in Seq(User) /\ Len(users') = Len(users)
           /\ \A v \in 1..Len(users) : users'[v] = IF v = u THEN x ELSE users[v]
BY ExceptSeq DEF TypeInv

LEMMA NewFlow ==
    ASSUME TypeInv, NEW x \in Flow, flows' = Append(flows, x)
    PROVE  /\ flows' \in Seq(Flow) /\ Len(flows') = Len(flows) + 1
           /\ \A g \in 1..Len(flows) : flows'[g] = flows[g]
           /\ flows'[Len(flows) + 1] = x
BY AppendProperties DEF TypeInv

LEMMA NewUser ==
    ASSUME TypeInv, NEW x \in User, users' = Append(users, x)
    PROVE  /\ users' \in Seq(User) /\ Len(users') = Len(users) + 1
           /\ \A v \in 1..Len(users) : users'[v] = users[v]
           /\ users'[Len(users) + 1] = x
BY AppendProperties DEF TypeInv

LEMMA AccountType ==
    ASSUME NEW e \in Emails, NEW o \in Subjects \cup {NoOne} PROVE Account(e, o) \in User
BY OAuthAssumption DEF Account, User

(* A slot that is in use. *)
LEMMA Busy ==
    ASSUME TypeInv, NEW s \in Slots, req[s] # NoOne
    PROVE  /\ req[s] \in Callback
           /\ req[s].code \in 1..Len(flows) /\ flows[req[s].code] \in Flow
           /\ req[s].flow \in 1..Len(flows)
           /\ flows[req[s].code].who \in Subjects
<1>1. req[s] \in Callback
  BY DEF TypeInv, TypeOK
<1>2. req[s].code \in 1..Len(flows) /\ req[s].flow \in 1..Len(flows)
  BY <1>1, Lengths DEF Callback, Flows, TypeInv, Steps
<1> QED
  BY <1>1, <1>2, ElementOfSeq DEF TypeInv, Steps

Exchanged(q, k) == [q EXCEPT !.kid = k, !.pc = "key"]

Found(q, u) == [q EXCEPT !.user = u, !.pc = "version"]

LEMMA ExchangedRecord ==
    ASSUME NEW q \in Callback, NEW k \in Kids, NEW n, n = Exchanged(q, k)
    PROVE  /\ n \in Callback /\ Stays(q, n)
           /\ n.kid = k /\ n.pc = "key" /\ n.stale = q.stale /\ n.user = q.user
BY DEF Callback, Stays, Exchanged

LEMMA VerifiedRecord ==
    ASSUME NEW q \in Callback, since[q.kid] \in 0..MaxSince, NEW n, n = KeyVerified(q)
    PROVE  /\ n \in Callback /\ Stays(q, n)
           /\ n.kid = q.kid /\ n.pc = "lookup" /\ n.stale = since[q.kid] /\ n.user = q.user
BY DEF Callback, Stays, KeyVerified

LEMMA NextRecord ==
    ASSUME NEW q \in Callback, NEW p \in {"lock", "fetch", "answer", "create"},
           NEW n, n = [q EXCEPT !.pc = p]
    PROVE  /\ n \in Callback /\ Stays(q, n)
           /\ n.kid = q.kid /\ n.pc = p /\ n.stale = q.stale /\ n.user = q.user
BY DEF Callback, Stays

LEMMA FoundRecord ==
    ASSUME NEW q \in Callback, NEW u \in Uids, NEW n, n = Found(q, u)
    PROVE  /\ n \in Callback /\ Stays(q, n)
           /\ n.kid = q.kid /\ n.pc = "version" /\ n.stale = q.stale /\ n.user = u
<1>1. u \in 0..MaxUsers
  BY OAuthAssumption DEF Uids
<1> QED
  BY <1>1 DEF Callback, Stays, Found

-----------------------------------------------------------------------------
(* Type correctness *)

(* What a step has to do to keep its callback in order. *)
LEMMA StepsKept ==
    ASSUME TypeInv, Onwards, NEW s \in Slots, NEW n, Moved(s, n),
           n # NoOne => /\ n.code \in 1..Len(flows) /\ flows[n.code].who \in Subjects
                        /\ n.flow \in 1..Len(flows)
                        /\ n.pc # "exchange" => n.kid \in Kids
                        /\ n.user \in 0..Len(users') /\ n.was \in 0..Len(users)
                        /\ n.pc = "version" => n.user # 0
    PROVE  Steps'
<1>1. Len(flows) \in Nat /\ Len(users) \in Nat /\ Len(flows') \in Nat /\ Len(users') \in Nat
  BY Lengths, LenProperties DEF Onwards
<1>2. ASSUME NEW o \in Slots, req[o] # NoOne
      PROVE  /\ req[o].code \in 1..Len(flows) /\ flows[req[o].code].who \in Subjects
             /\ req[o].flow \in 1..Len(flows)
             /\ req[o].user \in Nat /\ req[o].was \in Nat
             /\ req[o].user <= Len(users) /\ req[o].was <= Len(users)
  BY <1>2, Busy DEF TypeInv, Steps, Callback
<1>3. NoOne \notin Subjects
  BY OAuthAssumption
<1>4. ASSUME NEW o \in Slots, o # s, req'[o] # NoOne
      PROVE  /\ req'[o].code <= Len(flows') /\ req'[o].flow <= Len(flows')
             /\ flows'[req'[o].code].who \in Subjects
             /\ req'[o].pc # "exchange" => req'[o].kid \in Kids
             /\ req'[o].user <= Len(users') /\ req'[o].was <= Len(users')
             /\ req'[o].pc = "version" => req'[o].user \in 1..Len(users')
  <2>1. req'[o] = req[o]
    BY <1>4 DEF Moved
  <2>2. /\ flows'[req[o].code].who = flows[req[o].code].who
        /\ req[o].code <= Len(flows') /\ req[o].flow <= Len(flows')
    BY <1>1, <1>2, <1>3, <1>4, <2>1 DEF Onwards
  <2>3. req[o].user <= Len(users') /\ req[o].was <= Len(users')
    BY <1>1, <1>2, <1>4, <2>1 DEF Onwards
  <2>4. req[o].pc = "version" => req[o].user \in 1..Len(users')
    BY <1>1, <1>4, <2>1, <2>3 DEF TypeInv, Steps
  <2> QED
    BY <1>2, <1>4, <2>1, <2>2, <2>3, <2>4 DEF TypeInv, Steps
<1>5. ASSUME n # NoOne
      PROVE  /\ n.code <= Len(flows') /\ n.flow <= Len(flows')
             /\ flows'[n.code].who \in Subjects
             /\ n.user <= Len(users') /\ n.was <= Len(users')
             /\ n.pc = "version" => n.user \in 1..Len(users')
  BY <1>1, <1>3, <1>5 DEF Onwards
<1> QED
  BY <1>4, <1>5 DEF Steps, Moved

LEMMA StepsIdle ==
    ASSUME TypeInv, Onwards, UNCHANGED req PROVE Steps'
<1> SUFFICES ASSUME NEW s \in Slots PROVE Steps'
  BY DEF Steps
<1>1. Moved(s, req[s])
  BY DEF Moved
<1>2. Len(users) \in Nat /\ Len(users') \in Nat /\ Len(users) <= Len(users')
  BY Lengths, LenProperties DEF Onwards
<1>3. req[s] # NoOne =>
        /\ req[s].code \in 1..Len(flows) /\ flows[req[s].code].who \in Subjects
        /\ req[s].flow \in 1..Len(flows)
        /\ req[s].pc # "exchange" => req[s].kid \in Kids
        /\ req[s].user \in 0..Len(users') /\ req[s].was \in 0..Len(users)
        /\ req[s].pc = "version" => req[s].user # 0
  BY <1>2, Busy DEF TypeInv, Steps, Callback
<1> QED
  BY <1>1, <1>3, StepsKept

LEMMA LoggedKept ==
    ASSUME TypeInv, Onwards, UNCHANGED logins PROVE Logged'
<1>1. Len(flows) \in Nat /\ Len(users) \in Nat /\ Len(flows') \in Nat /\ Len(users') \in Nat
  BY Lengths, LenProperties DEF Onwards
<1>2. \A l \in logins : l.flow \in Nat /\ l.user \in Nat
  BY DEF TypeInv, TypeOK, Login, Flows, Uids
<1> QED
  BY <1>1, <1>2 DEF TypeInv, Logged, Onwards

LEMMA LoadedKept ==
    ASSUME TypeInv, Onwards, UNCHANGED bump PROVE Loaded'
<1>1. Len(users) \in Nat /\ Len(users') \in Nat
  BY Lengths, LenProperties DEF Onwards
<1>2. \A j \in BumpSlots : bump[j] # NoOne => bump[j].user \in Nat
  BY DEF TypeInv, TypeOK, Bump, Uids
<1> QED
  BY <1>1, <1>2 DEF TypeInv, Loaded, Onwards

LEMMA CookieCleared ==
    ASSUME TypeInv, NEW b
    PROVE  /\ Cleared(b) \in [Browsers -> 0..Len(flows)]
           /\ \A c \in Browsers : Cleared(b)[c] \in {0, cookie[c]}
<1>1. cookie \in [Browsers -> 0..Len(flows)] /\ 0 \in 0..Len(flows)
  BY Lengths DEF TypeInv, TypeOK
<1> QED
  BY <1>1 DEF Cleared

LEMMA ReleaseType ==
    ASSUME TypeInv, NEW s \in Slots, Release(s)
    PROVE  lock' \in Slots \cup {NoOne} /\ answer' \subseteq Kids /\ took' \in 0..MaxFetch
BY OAuthAssumption DEF Release, TypeInv, TypeOK

LEMMA InitTypeInv == Init => TypeInv
<1> SUFFICES ASSUME Init PROVE TypeInv
  OBVIOUS
<1>1. PICK linked \in Subjects \cup {NoOne} :
         /\ users = <<Account(LocalEmail, linked)>>
         /\ link = [s \in Subjects |-> IF s = linked THEN 1 ELSE 0]
  BY DEF Init
<1>2. users \in Seq(User) /\ Len(users) = 1
  <2>1. Account(LocalEmail, linked) \in User
    BY AccountType, OAuthAssumption
  <2> QED
    BY <1>1, <2>1
<1>3. flows \in Seq(Flow) /\ Len(flows) = 0
  BY DEF Init
<1>9. cookie \in [Browsers -> 0..Len(flows)]
  <2>1. 0 \in 0..Len(flows)
    BY <1>3
  <2> QED
    BY <2>1 DEF Init
<1>10. published \in (SUBSET Kids) \ {{}}
  <2>1. PICK k \in Kids : published = {k}
    BY DEF Init
  <2>2. published \subseteq Kids /\ published # {}
    BY <2>1
  <2> QED
    BY <2>2
<1>4. /\ keys \subseteq Kids /\ lock \in Slots \cup {NoOne}
      /\ answer \subseteq Kids /\ took \in 0..MaxFetch
      /\ bump \in [BumpSlots -> Bump \cup {NoOne}]
      /\ req \in [Slots -> Callback \cup {NoOne}]
      /\ logins \subseteq Login
  BY <1>2, <1>3, OAuthAssumption DEF Init
<1>7. since \in [Kids -> 0..MaxSince] /\ age \in 0..Ttl
  <2>1. 0 \in 0..MaxSince /\ MaxSince \in 0..MaxSince /\ Ttl \in 0..Ttl
    BY OAuthAssumption DEF MaxSince
  <2> QED
    BY <2>1 DEF Init
<1>8. link \in [Subjects -> 0..Len(users)]
  BY <1>1, <1>2
<1>5. \A u \in 1..Len(users) : users[u] \in User
  BY <1>2, ElementOfSeq
<1>6. TypeOK
  BY <1>2, <1>3, <1>4, <1>5, <1>7, <1>8, <1>9, <1>10, OAuthAssumption DEF TypeOK
<1> QED
  BY <1>2, <1>3, <1>6 DEF TypeInv, SignedIn, Steps, Logged, Loaded, Init

LEMMA StartTypeInv ==
    ASSUME TypeInv, NEW b \in Browsers, Start(b) PROVE TypeInv' /\ Onwards
<1> DEFINE x == [browser |-> b, who |-> NoOne, code |-> "none"]
<1>1. x \in Flow /\ flows' = Append(flows, x) /\ x.who = NoOne
  BY DEF Flow, Start
<1> HIDE DEF x
<1>2. /\ flows' \in Seq(Flow) /\ Len(flows') = Len(flows) + 1
      /\ \A g \in 1..Len(flows) : flows'[g] = flows[g]
      /\ flows'[Len(flows) + 1] = x
  BY <1>1, NewFlow
<1>3. Len(flows) \in Nat /\ Len(users) \in Nat
  BY Lengths
<1>4. UNCHANGED <<published, since, keys, age, lock, answer, took,
                  users, link, bump, req, logins>>
  BY DEF Start, idp, cache, accounts
<1>5. Onwards
  BY <1>2, <1>3, <1>4, OAuthAssumption DEF Onwards, Start, TypeInv, TypeOK
<1>6. cookie' \in [Browsers -> 0..Len(flows')]
  <2>1. cookie \in [Browsers -> 0..Len(flows)]
    BY DEF TypeInv, TypeOK
  <2>2. cookie' = [cookie EXCEPT ![b] = Len(flows) + 1]
    BY DEF Start
  <2> QED
    BY <1>2, <1>3, <2>1, <2>2
<1>7. SignedIn'
  BY <1>1, <1>2, <1>3 DEF TypeInv, SignedIn
<1>8. Steps'
  BY <1>4, <1>5, StepsIdle
<1>9. \A f \in 1..Len(flows') : flows'[f] \in Flow
  BY <1>2, ElementOfSeq
<1>10. TypeOK'
  BY <1>4, <1>5, <1>6, <1>9 DEF TypeInv, TypeOK, Onwards
<1> QED
  BY <1>2, <1>4, <1>5, <1>7, <1>8, <1>10, LoggedKept, LoadedKept DEF TypeInv

LEMMA SignInTypeInv ==
    ASSUME TypeInv, NEW f \in 1..Len(flows), SignIn(f) PROVE TypeInv' /\ Onwards
<1>1. PICK who \in Subjects : flows' = [flows EXCEPT ![f] = [@ EXCEPT !.who = who, !.code = "fresh"]]
  BY DEF SignIn
<1>2. flows[f] \in Flow /\ flows[f].code = "none" /\ flows[f].who = NoOne
  BY ElementOfSeq DEF TypeInv, SignedIn, SignIn
<1> DEFINE x == [flows[f] EXCEPT !.who = who, !.code = "fresh"]
<1>3. x \in Flow /\ x.browser = flows[f].browser /\ x.who = who /\ x.code = "fresh"
  BY <1>2 DEF Flow
<1>4. flows' = [flows EXCEPT ![f] = x]
  BY <1>1
<1> HIDE DEF x
<1>5. /\ flows' \in Seq(Flow) /\ Len(flows') = Len(flows)
      /\ \A g \in 1..Len(flows) : flows'[g] = IF g = f THEN x ELSE flows[g]
  BY <1>3, <1>4, OneFlow
<1>6. UNCHANGED <<cookie, published, since, keys, age, lock, answer, took,
                  users, link, bump, req, logins>>
  BY DEF SignIn, idp, cache, accounts
<1>7. Onwards
  <2>1. \A g \in 1..Len(flows) :
           /\ flows'[g].browser = flows[g].browser
           /\ flows[g].who # NoOne => flows'[g].who = flows[g].who
    BY <1>2, <1>3, <1>5
  <2>2. Len(flows') <= MaxFlows /\ Len(users') <= MaxUsers /\ users' \in Seq(User)
    BY <1>5, <1>6 DEF TypeInv, TypeOK
  <2> QED
    BY <1>5, <1>6, <2>1, <2>2, Lengths DEF Onwards
<1>8. SignedIn'
  BY <1>3, <1>5 DEF TypeInv, SignedIn
<1>9. \A g \in 1..Len(flows') : flows'[g] \in Flow
  BY <1>5, ElementOfSeq
<1>10. TypeOK'
  BY <1>5, <1>6, <1>7, <1>9 DEF TypeInv, TypeOK, Onwards
<1> QED
  BY <1>5, <1>6, <1>7, <1>8, <1>10, StepsIdle, LoggedKept, LoadedKept DEF TypeInv

(* The provider's keys and the clock. *)
LEMMA Ticks ==
    ASSUME NEW m \in Nat, NEW n \in 0..m
    PROVE  AtMost(m, n) \in 0..m /\ (n < m => AtMost(m, n) = n + 1) /\ (n = m => AtMost(m, n) = m)
BY DEF AtMost

LEMMA IdpTypeInv ==
    ASSUME TypeInv, Rotate \/ Tick PROVE TypeInv' /\ Onwards
<1>1. UNCHANGED <<cookie, flows, keys, lock, answer, users, link, bump, req, logins>>
  BY DEF Rotate, Tick, cache, accounts
<1>2. Onwards
  BY <1>1, SameFlows
<1>3. /\ published' \in (SUBSET Kids) \ {{}} /\ since' \in [Kids -> 0..MaxSince]
      /\ age' \in 0..Ttl /\ took' \in 0..MaxFetch
  <2>1. /\ published \in (SUBSET Kids) \ {{}} /\ since \in [Kids -> 0..MaxSince] /\ age \in 0..Ttl
        /\ took \in 0..MaxFetch /\ Ttl \in Nat /\ MaxFetch \in Nat
        /\ MaxSince \in Nat /\ 0 \in 0..MaxSince
    BY OAuthAssumption DEF TypeInv, TypeOK, MaxSince
  <2>2. (\A n \in 0..MaxSince : AtMost(MaxSince, n) \in 0..MaxSince) /\ AtMost(Ttl, age) \in 0..Ttl
    BY <2>1, Ticks
  <2>3. CASE Rotate
    BY <2>1, <2>3 DEF Rotate, cache
  <2>4. CASE Tick
    <3>1. took' \in 0..MaxFetch
      BY <2>1, <2>4 DEF Tick
    <3> QED
      BY <2>1, <2>2, <2>4, <3>1 DEF Tick
  <2> QED
    BY <2>3, <2>4
<1>4. TypeOK'
  BY <1>1, <1>3 DEF TypeInv, TypeOK
<1>5. SignedIn'
  BY <1>1 DEF TypeInv, SignedIn
<1> QED
  BY <1>1, <1>2, <1>4, <1>5, StepsIdle, LoggedKept, LoadedKept DEF TypeInv

(* A step of a callback, unless it writes flows, accounts or logins. *)
LEMMA CallbackTypeInv ==
    ASSUME TypeInv, UNCHANGED <<flows, published, since, users, link, bump, logins>>,
           NEW s \in Slots, NEW n \in Callback \cup {NoOne}, Goto(s, n),
           cookie' \in [Browsers -> 0..Len(flows)],
           keys' \subseteq Kids, age' \in 0..Ttl, lock' \in Slots \cup {NoOne},
           answer' \subseteq Kids, took' \in 0..MaxFetch,
           n # NoOne => /\ n.code \in 1..Len(flows) /\ flows[n.code].who \in Subjects
                        /\ n.flow \in 1..Len(flows)
                        /\ n.pc # "exchange" => n.kid \in Kids
                        /\ n.user \in 0..Len(users) /\ n.was \in 0..Len(users)
                        /\ n.pc = "version" => n.user # 0
    PROVE  TypeInv' /\ Onwards
<1>1. Onwards
  BY SameFlows
<1>2. Moved(s, n) /\ req' \in [Slots -> Callback \cup {NoOne}]
  BY Moves, MovesType
<1>3. Steps'
  BY <1>1, <1>2, StepsKept
<1>4. TypeOK'
  BY <1>2 DEF TypeInv, TypeOK
<1>5. SignedIn'
  BY DEF TypeInv, SignedIn
<1> QED
  BY <1>1, <1>3, <1>4, <1>5, LoggedKept, LoadedKept DEF TypeInv

LEMMA FailTypeInv ==
    ASSUME TypeInv, NEW s \in Slots, Fail(s) PROVE TypeInv' /\ Onwards
<1>1. UNCHANGED <<flows, published, since, keys, age, users, link, bump, logins>> /\ Goto(s, NoOne)
  BY DEF Fail, idp, accounts, Goto
<1>2. cookie' \in [Browsers -> 0..Len(flows)]
  BY CookieCleared DEF Fail, TypeInv, TypeOK
<1>3. lock' \in Slots \cup {NoOne} /\ answer' \subseteq Kids /\ took' \in 0..MaxFetch
  BY ReleaseType DEF Fail
<1>4. keys' \subseteq Kids /\ age' \in 0..Ttl
  BY <1>1 DEF TypeInv, TypeOK
<1> QED
  BY <1>1, <1>2, <1>3, <1>4, CallbackTypeInv

LEMMA VersionType ==
    ASSUME TypeInv, NEW u \in 0..Len(users) PROVE Version(u) \in 0..MaxVersion
<1>1. CASE u = 0
  BY <1>1, OAuthAssumption DEF Version
<1>2. CASE u # 0
  <2>1. users[u] \in User
    BY <1>2, Lengths, ElementOfSeq DEF TypeInv
  <2> QED
    BY <2>1, OAuthAssumption DEF Version, User
<1> QED
  BY <1>1, <1>2

(* The callback that arrives is the one of the browser's cookie. *)
LEMMA ArriveEffect ==
    ASSUME TypeInv, NEW s \in Slots, NEW b \in Browsers, Arrive(s, b)
    PROVE  \E n \in Callback :
        /\ Goto(s, n) /\ n.browser = b /\ n.pc = "exchange" /\ n.stale = 0
        /\ n.flow \in 1..Len(flows) /\ cookie[b] = n.flow
        /\ n.code \in 1..Len(flows) /\ flows[n.code].who \in Subjects /\ n.user = 0
        /\ n.was = link[flows[n.code].who] /\ n.was \in 0..Len(users)
        /\ n.floor = Version(n.was)
<1>1. PICK state \in 1..Len(flows), code \in 1..Len(flows) :
         /\ flows[code].who # NoOne
         /\ FlowOf(b, state) # 0
         /\ Goto(s, [browser |-> b, flow |-> FlowOf(b, state), code |-> code, pc |-> "exchange",
                     kid |-> NoKid, stale |-> 0, user |-> 0,
                     was |-> link[flows[code].who],
                     floor |-> Version(link[flows[code].who])])
  BY DEF Arrive
<1>2. FlowOf(b, state) = state /\ cookie[b] = state
  BY <1>1 DEF FlowOf
<1>3. flows[code].who \in Subjects
  <2>1. flows[code] \in Flow
    BY ElementOfSeq DEF TypeInv
  <2> QED
    BY <1>1, <2>1 DEF Flow
<1> DEFINE was == link[flows[code].who]
<1>4. was \in 0..Len(users) /\ Version(was) \in 0..MaxVersion
  BY <1>3, VersionType DEF TypeInv, TypeOK
<1>5. state \in Flows /\ code \in Flows /\ was \in 0..MaxUsers
  BY <1>4, Lengths, OAuthAssumption DEF Flows, TypeInv, TypeOK
<1> DEFINE n == [browser |-> b, flow |-> state, code |-> code, pc |-> "exchange",
                 kid |-> NoKid, stale |-> 0, user |-> 0, was |-> was, floor |-> Version(was)]
<1>6. n \in Callback
  <2>1. 0 \in 0..MaxSince /\ 0 \in 0..MaxUsers
    BY OAuthAssumption DEF MaxSince
  <2> HIDE DEF was
  <2> QED
    BY <1>4, <1>5, <2>1 DEF Callback
<1> QED
  BY <1>1, <1>2, <1>3, <1>4, <1>6

LEMMA ArriveTypeInv ==
    ASSUME TypeInv, NEW s \in Slots, NEW b \in Browsers, Arrive(s, b) PROVE TypeInv' /\ Onwards
<1>1. PICK n \in Callback :
        /\ Goto(s, n) /\ n.pc = "exchange"
        /\ n.code \in 1..Len(flows) /\ n.flow \in 1..Len(flows)
        /\ flows[n.code].who \in Subjects /\ n.user = 0 /\ n.was \in 0..Len(users)
  BY ArriveEffect
<1>2. UNCHANGED <<cookie, flows, published, since, keys, age, lock, answer, took,
                  users, link, bump, logins>>
  BY DEF Arrive, idp, cache, accounts
<1>3. /\ cookie' \in [Browsers -> 0..Len(flows)]
      /\ keys' \subseteq Kids /\ age' \in 0..Ttl /\ lock' \in Slots \cup {NoOne}
      /\ answer' \subseteq Kids /\ took' \in 0..MaxFetch
  BY <1>2 DEF TypeInv, TypeOK
<1>4. n.user \in 0..Len(users)
  BY <1>1, Lengths
<1> QED
  BY <1>1, <1>2, <1>3, <1>4, CallbackTypeInv

(* The exchange spends the code of the flow and gives the callback a key   *)
(* that is published.                                                      *)
LEMMA ExchangeEffect ==
    ASSUME TypeInv, NEW s \in Slots, Exchange(s)
    PROVE  /\ req[s].code \in 1..Len(flows)
           /\ flows[req[s].code].code = "fresh"
           /\ req[s] # NoOne /\ req[s].pc = "exchange"
           /\ flows' \in Seq(Flow) /\ Len(flows') = Len(flows)
           /\ \A g \in 1..Len(flows) :
                 /\ flows'[g].who = flows[g].who /\ flows'[g].browser = flows[g].browser
                 /\ flows'[g].code = IF g = req[s].code THEN "spent" ELSE flows[g].code
           /\ \E n \in Callback : /\ Goto(s, n) /\ Stays(req[s], n) /\ n.kid \in published
                                  /\ n.pc = "key" /\ n.stale = req[s].stale
                                  /\ n.user = req[s].user
<1> DEFINE q == req[s]
<1> DEFINE f == req[s].code
<1>1. /\ q # NoOne /\ q.pc = "exchange" /\ flows[f].code = "fresh"
      /\ flows' = [flows EXCEPT ![f].code = "spent"]
      /\ \E k \in published : Goto(s, [q EXCEPT !.kid = k, !.pc = "key"])
  BY DEF Exchange
<1>2. q \in Callback /\ f \in 1..Len(flows) /\ flows[f] \in Flow
  BY <1>1, Busy
<1> DEFINE x == [flows[f] EXCEPT !.code = "spent"]
<1>3. x \in Flow /\ x.who = flows[f].who /\ x.browser = flows[f].browser /\ x.code = "spent"
  BY <1>2 DEF Flow
<1>4. flows' = [flows EXCEPT ![f] = x]
  BY <1>1
<1>5. PICK k \in published : Goto(s, [q EXCEPT !.kid = k, !.pc = "key"])
  BY <1>1
<1> DEFINE n == Exchanged(q, k)
<1>6. k \in Kids
  BY DEF TypeInv, TypeOK
<1>7. /\ n \in Callback /\ Stays(q, n)
      /\ n.kid = k /\ n.pc = "key" /\ n.stale = q.stale /\ n.user = q.user
  BY <1>2, <1>6, ExchangedRecord
<1>8. \E m \in Callback : /\ Goto(s, m) /\ Stays(q, m) /\ m.kid \in published
                          /\ m.pc = "key" /\ m.stale = q.stale /\ m.user = q.user
  BY <1>5, <1>7 DEF Exchanged
<1> HIDE DEF x
<1>9. /\ flows' \in Seq(Flow) /\ Len(flows') = Len(flows)
      /\ \A g \in 1..Len(flows) : flows'[g] = IF g = f THEN x ELSE flows[g]
  BY <1>2, <1>3, <1>4, OneFlow
<1> QED
  BY <1>1, <1>2, <1>3, <1>8, <1>9

LEMMA ExchangeTypeInv ==
    ASSUME TypeInv, NEW s \in Slots, Exchange(s) PROVE TypeInv' /\ Onwards
<1>1. PICK n \in Callback :
        /\ Goto(s, n) /\ Stays(req[s], n) /\ n.kid \in published
        /\ n.pc = "key" /\ n.user = req[s].user
  BY ExchangeEffect
<1>2. /\ req[s] # NoOne /\ req[s].code \in 1..Len(flows)
      /\ flows' \in Seq(Flow) /\ Len(flows') = Len(flows)
      /\ \A g \in 1..Len(flows) :
            /\ flows'[g].who = flows[g].who /\ flows'[g].browser = flows[g].browser
            /\ flows'[g].code = IF g = req[s].code THEN "spent" ELSE flows[g].code
  BY ExchangeEffect
<1>3. UNCHANGED <<cookie, published, since, keys, age, lock, answer, took,
                  users, link, bump, logins>>
  BY DEF Exchange, idp, cache, accounts
<1>4. Onwards
  BY <1>2, <1>3, Lengths DEF Onwards, TypeInv, TypeOK
<1>5. Moved(s, n) /\ req' \in [Slots -> Callback \cup {NoOne}]
  BY <1>1, Moves, MovesType
<1>6. /\ n.code \in 1..Len(flows) /\ flows[n.code].who \in Subjects /\ n.kid \in Kids
      /\ n.flow \in 1..Len(flows)
      /\ n.user \in 0..Len(users) /\ n.was \in 0..Len(users) /\ n.pc # "version"
  <2>1. req[s].user \in 0..Len(users) /\ req[s].was \in 0..Len(users)
    BY <1>2, Busy, Lengths DEF TypeInv, Steps, Callback
  <2> QED
    BY <1>1, <1>2, <2>1, Busy DEF Stays, TypeInv, TypeOK
<1>7. Steps'
  BY <1>3, <1>4, <1>5, <1>6, StepsKept
<1>8. SignedIn'
  BY <1>2 DEF TypeInv, SignedIn
<1>9. \A g \in 1..Len(flows') : flows'[g] \in Flow
  BY <1>2, ElementOfSeq
<1>10. TypeOK'
  BY <1>2, <1>3, <1>4, <1>5, <1>9 DEF TypeInv, TypeOK, Onwards
<1> QED
  BY <1>2, <1>3, <1>4, <1>7, <1>8, <1>10, LoggedKept, LoadedKept DEF TypeInv

(* A callback behind the exchange, up to its end. *)
LEMMA Underway ==
    ASSUME TypeInv, NEW s \in Slots, req[s] # NoOne, req[s].pc # "exchange"
    PROVE  /\ req[s] \in Callback /\ req[s].kid \in Kids
           /\ req[s].code \in 1..Len(flows) /\ flows[req[s].code].who \in Subjects
           /\ req[s].flow \in 1..Len(flows)
           /\ req[s].user \in 0..Len(users) /\ req[s].was \in 0..Len(users)
           /\ req[s].pc = "version" => req[s].user # 0
           /\ since[req[s].kid] \in 0..MaxSince
<1>1. /\ req[s] \in Callback /\ req[s].flow \in 1..Len(flows)
      /\ req[s].code \in 1..Len(flows) /\ flows[req[s].code].who \in Subjects
  BY Busy
<1>2. /\ req[s].kid \in Kids
      /\ req[s].user <= Len(users) /\ req[s].was <= Len(users)
      /\ req[s].pc = "version" => req[s].user \in 1..Len(users)
  BY DEF TypeInv, Steps
<1>3. req[s].user \in Nat /\ req[s].was \in Nat
  BY <1>1 DEF Callback
<1>4. since[req[s].kid] \in 0..MaxSince
  BY <1>2 DEF TypeInv, TypeOK
<1> QED
  BY <1>1, <1>2, <1>3, <1>4, Lengths

(* The ways to a key: the callback goes on with one that the cache has     *)
(* while it is fresh or that the answer has, asks or waits, or fails.      *)
LEMMA KeyEffect ==
    ASSUME TypeInv, NEW s \in Slots, UseKey(s) \/ Locked(s) \/ Fetch(s) \/ Store(s)
    PROVE  /\ req[s] # NoOne /\ req[s].pc \in {"key", "lock", "fetch", "answer"}
           /\ \E n \in Callback \cup {NoOne} :
                 /\ Goto(s, n)
                 /\ n # NoOne =>
                       /\ Stays(req[s], n) /\ n.kid = req[s].kid /\ n.user = req[s].user
                       /\ \/ /\ n.pc \in {"lock", "fetch", "answer"}
                             /\ n.stale = req[s].stale
                          \/ /\ n.pc = "lookup" /\ n.stale = since[req[s].kid]
                             /\ \/ Known(req[s].kid)
                                \/ req[s].kid \in answer
<1> DEFINE q == req[s]
<1> DEFINE Good(n) ==
        n # NoOne => /\ Stays(q, n) /\ n.kid = q.kid /\ n.user = q.user
                     /\ \/ /\ n.pc \in {"lock", "fetch", "answer"}
                           /\ n.stale = q.stale
                        \/ /\ n.pc = "lookup" /\ n.stale = since[q.kid]
                           /\ \/ Known(q.kid)
                              \/ q.kid \in answer
<1>1. q # NoOne /\ q.pc \in {"key", "lock", "fetch", "answer"}
  BY DEF UseKey, Locked, Fetch, Store
<1>2. q \in Callback /\ since[q.kid] \in 0..MaxSince
  BY <1>1, Underway
<1>3. KeyVerified(q) \in Callback /\ (Known(q.kid) \/ q.kid \in answer => Good(KeyVerified(q)))
  BY <1>2, VerifiedRecord
<1>4. \A p \in {"lock", "fetch", "answer"} :
         [q EXCEPT !.pc = p] \in Callback /\ Good([q EXCEPT !.pc = p])
  BY <1>2, NextRecord
<1>5. Good(NoOne)
  OBVIOUS
<1>6. CASE UseKey(s)
  <2>1. Goto(s, IF Known(q.kid) THEN KeyVerified(q) ELSE [q EXCEPT !.pc = "lock"])
    BY <1>6 DEF UseKey
  <2> HIDE DEF Good
  <2>2. \E n \in Callback \cup {NoOne} : Goto(s, n) /\ Good(n)
    BY <1>3, <1>4, <2>1
  <2> QED
    BY <1>1, <2>2 DEF Good
<1>7. CASE Locked(s)
  <2>1. \/ Known(q.kid) /\ Goto(s, KeyVerified(q))
        \/ Goto(s, [q EXCEPT !.pc = "fetch"])
    BY <1>7 DEF Locked
  <2> HIDE DEF Good
  <2>2. \E n \in Callback \cup {NoOne} : Goto(s, n) /\ Good(n)
    BY <1>3, <1>4, <2>1
  <2> QED
    BY <1>1, <2>2 DEF Good
<1>8. CASE Fetch(s)
  <2>1. Goto(s, [q EXCEPT !.pc = "answer"])
    BY <1>8 DEF Fetch
  <2> HIDE DEF Good
  <2>2. \E n \in Callback \cup {NoOne} : Goto(s, n) /\ Good(n)
    BY <1>4, <2>1
  <2> QED
    BY <1>1, <2>2 DEF Good
<1>9. CASE Store(s)
  <2>1. \/ q.kid \in answer /\ Goto(s, KeyVerified(q))
        \/ Goto(s, NoOne)
    BY <1>9 DEF Store
  <2> HIDE DEF Good
  <2>2. \E n \in Callback \cup {NoOne} : Goto(s, n) /\ Good(n)
    BY <1>3, <1>5, <2>1
  <2> QED
    BY <1>1, <2>2 DEF Good
<1> QED
  BY <1>6, <1>7, <1>8, <1>9

LEMMA KeyTypeInv ==
    ASSUME TypeInv, NEW s \in Slots, UseKey(s) \/ Locked(s) \/ Fetch(s) \/ Store(s)
    PROVE  TypeInv' /\ Onwards
<1>1. PICK n \in Callback \cup {NoOne} :
        /\ Goto(s, n)
        /\ n # NoOne => /\ Stays(req[s], n) /\ n.kid = req[s].kid /\ n.user = req[s].user
                        /\ n.pc \in {"lock", "fetch", "answer", "lookup"}
  BY KeyEffect
<1>2. req[s] # NoOne /\ req[s].pc # "exchange"
  BY KeyEffect
<1>3. UNCHANGED <<flows, published, since, users, link, bump, logins>>
  BY DEF UseKey, Locked, Fetch, Store, idp, accounts
<1>4. /\ keys' \subseteq Kids /\ age' \in 0..Ttl /\ lock' \in Slots \cup {NoOne}
      /\ answer' \subseteq Kids /\ took' \in 0..MaxFetch
  <2>1. 0 \in 0..Ttl /\ 0 \in 0..MaxFetch
    BY OAuthAssumption
  <2>2. CASE UseKey(s) \/ Locked(s) \/ Fetch(s)
    BY <2>1, <2>2 DEF UseKey, Locked, Fetch, cache, idp, TypeInv, TypeOK
  <2>3. CASE Store(s)
    BY <2>1, <2>3, ReleaseType DEF Store, TypeInv, TypeOK
  <2> QED
    BY <2>2, <2>3
<1>6. cookie' \in [Browsers -> 0..Len(flows)]
  <2>1. cookie' = cookie \/ cookie' = Cleared(req[s].browser)
    BY DEF UseKey, Locked, Fetch, Store
  <2> QED
    BY <2>1, CookieCleared DEF TypeInv, TypeOK
<1>7. n # NoOne => /\ n.code \in 1..Len(flows) /\ flows[n.code].who \in Subjects
                   /\ n.flow \in 1..Len(flows)
                   /\ n.pc # "exchange" => n.kid \in Kids
                   /\ n.user \in 0..Len(users) /\ n.was \in 0..Len(users)
                   /\ n.pc = "version" => n.user # 0
  BY <1>1, <1>2, Underway DEF Stays
<1> QED
  BY <1>1, <1>3, <1>4, <1>6, <1>7, CallbackTypeInv

-----------------------------------------------------------------------------
(* The end of a callback, and the rest of the application *)

LEMMA LookupEffect ==
    ASSUME TypeInv, NEW s \in Slots, Lookup(s)
    PROVE  /\ req[s] # NoOne /\ req[s].pc = "lookup"
           /\ UNCHANGED <<cookie, flows, published, since, keys, age, lock, answer, took,
                          users, link, bump, logins>>
           /\ req[s].code = req[s].flow
           /\ \E n \in Callback :
                 /\ Goto(s, n) /\ Stays(req[s], n) /\ n.kid = req[s].kid
                 /\ n.stale = req[s].stale
                 /\ \/ /\ n.pc = "version" /\ n.user = link[flows[req[s].code].who]
                       /\ n.user \in 1..Len(users)
                    \/ n.pc = "create" /\ n.user = req[s].user
<1> DEFINE q == req[s]
<1> DEFINE who == flows[q.code].who
<1>1. q # NoOne /\ q.pc = "lookup" /\ q.code = q.flow
  BY DEF Lookup, NonceMatches
<1>2. q \in Callback /\ who \in Subjects
  BY <1>1, Underway
<1>3. link[who] \in 0..Len(users) /\ Len(users) \in Nat /\ Len(users) <= MaxUsers
  BY <1>2, Lengths DEF TypeInv, TypeOK
<1>4. \/ link[who] # 0 /\ Goto(s, Found(q, link[who]))
      \/ Goto(s, [q EXCEPT !.pc = "create"])
  BY DEF Lookup, Found
<1>5. CASE link[who] # 0 /\ Goto(s, Found(q, link[who]))
  <2>1. link[who] \in Uids /\ link[who] \in 1..Len(users)
    BY <1>3, <1>5, OAuthAssumption DEF Uids
  <2> DEFINE n == Found(q, link[who])
  <2>2. /\ n \in Callback /\ Stays(q, n)
        /\ n.kid = q.kid /\ n.pc = "version" /\ n.stale = q.stale /\ n.user = link[who]
    BY <1>2, <2>1, FoundRecord
  <2> QED
    BY <1>1, <1>5, <2>1, <2>2 DEF Lookup, idp, cache, accounts
<1>6. CASE Goto(s, [q EXCEPT !.pc = "create"])
  <2> DEFINE n == [q EXCEPT !.pc = "create"]
  <2>1. /\ n \in Callback /\ Stays(q, n)
        /\ n.kid = q.kid /\ n.pc = "create" /\ n.stale = q.stale /\ n.user = q.user
    BY <1>2, NextRecord
  <2> QED
    BY <1>1, <1>6, <2>1 DEF Lookup, idp, cache, accounts
<1> QED
  BY <1>4, <1>5, <1>6

LEMMA LookupTypeInv ==
    ASSUME TypeInv, NEW s \in Slots, Lookup(s) PROVE TypeInv' /\ Onwards
<1>1. PICK n \in Callback :
        /\ Goto(s, n) /\ Stays(req[s], n) /\ n.kid = req[s].kid
        /\ n.stale = req[s].stale
        /\ \/ /\ n.pc = "version" /\ n.user = link[flows[req[s].code].who]
              /\ n.user \in 1..Len(users)
           \/ n.pc = "create" /\ n.user = req[s].user
  BY LookupEffect
<1>2. UNCHANGED <<cookie, flows, published, since, keys, age, lock, answer, took,
                  users, link, bump, logins>>
  BY LookupEffect
<1>3. req[s] # NoOne /\ req[s].pc # "exchange"
  BY LookupEffect
<1>4. /\ cookie' \in [Browsers -> 0..Len(flows)]
      /\ keys' \subseteq Kids /\ age' \in 0..Ttl /\ lock' \in Slots \cup {NoOne}
      /\ answer' \subseteq Kids /\ took' \in 0..MaxFetch
  BY <1>2 DEF TypeInv, TypeOK
<1>5. /\ n.code \in 1..Len(flows) /\ flows[n.code].who \in Subjects
      /\ n.flow \in 1..Len(flows)
      /\ n.pc # "exchange" => n.kid \in Kids
      /\ n.user \in 0..Len(users) /\ n.was \in 0..Len(users)
      /\ n.pc = "version" => n.user # 0
  BY <1>1, <1>3, Underway, Lengths DEF Stays
<1> QED
  BY <1>1, <1>2, <1>4, <1>5, CallbackTypeInv

(* Create makes an account and its link, or neither. *)
LEMMA CreateEffect ==
    ASSUME TypeInv, NEW s \in Slots, Create(s)
    PROVE  /\ req[s] # NoOne /\ req[s].pc = "create"
           /\ UNCHANGED <<cookie, flows, published, since, keys, age, lock, answer, took, bump,
                          logins>>
           /\ \/ Goto(s, NoOne) /\ UNCHANGED <<users, link>>
              \/ /\ Unique(flows[req[s].code].who)
                 /\ Len(users) < MaxUsers
                 /\ users' = Append(users, Account(Email[flows[req[s].code].who],
                                                   flows[req[s].code].who))
                 /\ link' = [link EXCEPT ![flows[req[s].code].who] = Len(users) + 1]
                 /\ \E n \in Callback :
                       /\ Goto(s, n) /\ Stays(req[s], n) /\ n.kid = req[s].kid
                       /\ n.stale = req[s].stale
                       /\ n.pc = "version" /\ n.user = Len(users) + 1
<1> DEFINE q == req[s]
<1>1. q # NoOne /\ q.pc = "create"
  BY DEF Create
<1>2. UNCHANGED <<cookie, flows, published, since, keys, age, lock, answer, took, bump, logins>>
  BY DEF Create, idp, cache
<1>3. CASE Unique(flows[q.code].who)
  <2>1. /\ Len(users) < MaxUsers
        /\ users' = Append(users, Account(Email[flows[q.code].who], flows[q.code].who))
        /\ link' = [link EXCEPT ![flows[q.code].who] = Len(users) + 1]
        /\ Goto(s, Found(q, Len(users) + 1))
    BY <1>3 DEF Create, Found
  <2>2. Len(users) + 1 \in Uids
    BY <2>1, Lengths, OAuthAssumption DEF Uids
  <2> DEFINE n == Found(q, Len(users) + 1)
  <2>3. /\ n \in Callback /\ Stays(q, n) /\ n.kid = q.kid /\ n.pc = "version"
        /\ n.stale = q.stale /\ n.user = Len(users) + 1
    BY <1>1, <2>2, Underway, FoundRecord
  <2> QED
    BY <1>1, <1>2, <1>3, <2>1, <2>3
<1>4. CASE ~Unique(flows[q.code].who)
  BY <1>1, <1>2, <1>4 DEF Create, accounts
<1> QED
  BY <1>3, <1>4

LEMMA CreateTypeInv ==
    ASSUME TypeInv, NEW s \in Slots, Create(s) PROVE TypeInv' /\ Onwards
<1>1. /\ req[s] # NoOne /\ req[s].pc # "exchange"
      /\ UNCHANGED <<cookie, flows, published, since, keys, age, lock, answer, took, bump, logins>>
  BY CreateEffect
<1>2. /\ cookie' \in [Browsers -> 0..Len(flows)]
      /\ keys' \subseteq Kids /\ age' \in 0..Ttl /\ lock' \in Slots \cup {NoOne}
      /\ answer' \subseteq Kids /\ took' \in 0..MaxFetch
  BY <1>1 DEF TypeInv, TypeOK
<1>3. CASE Goto(s, NoOne) /\ UNCHANGED <<users, link>>
  BY <1>1, <1>2, <1>3, CallbackTypeInv
<1>4. CASE ~UNCHANGED <<users, link>> \/ ~Goto(s, NoOne)
  <2> DEFINE who == flows[req[s].code].who
  <2>1. /\ Len(users) < MaxUsers
        /\ users' = Append(users, Account(Email[who], who))
        /\ link' = [link EXCEPT ![who] = Len(users) + 1]
    BY <1>4, CreateEffect
  <2>2. PICK n \in Callback :
          /\ Goto(s, n) /\ Stays(req[s], n) /\ n.kid = req[s].kid
          /\ n.pc = "version" /\ n.user = Len(users) + 1
    BY <1>4, CreateEffect
  <2>3. who \in Subjects
    BY <1>1, Underway
  <2>4. Account(Email[who], who) \in User
    BY <2>3, AccountType, OAuthAssumption
  <2>5. users' \in Seq(User) /\ Len(users') = Len(users) + 1 /\ Len(users) \in Nat
    BY <2>1, <2>4, NewUser, Lengths
  <2>6. Onwards
    BY <1>1, <2>1, <2>5, Lengths, OAuthAssumption DEF Onwards, TypeInv, TypeOK
  <2>7. Moved(s, n) /\ req' \in [Slots -> Callback \cup {NoOne}]
    BY <2>2, Moves, MovesType
  <2>8. /\ n.code \in 1..Len(flows) /\ flows[n.code].who \in Subjects /\ n.kid \in Kids
        /\ n.flow \in 1..Len(flows)
        /\ n.user \in 0..Len(users') /\ n.was \in 0..Len(users) /\ n.user # 0
    BY <1>1, <2>2, <2>5, Underway DEF Stays
  <2>9. Steps'
    BY <2>6, <2>7, <2>8, StepsKept
  <2>10. link' \in [Subjects -> 0..Len(users')]
    <3> DEFINE m == Len(users)
    <3>1. link \in [Subjects -> 0..m] /\ m \in Nat
      BY <2>5 DEF TypeInv, TypeOK
    <3>2. link' = [link EXCEPT ![who] = m + 1] /\ Len(users') = m + 1
      BY <2>1, <2>5
    <3> HIDE DEF m, who
    <3>3. link \in [Subjects -> 0..(m + 1)] /\ m + 1 \in 0..(m + 1)
      BY <3>1
    <3> QED
      BY <3>2, <3>3
  <2>11. \A u \in 1..Len(users') : users'[u] \in User
    BY <2>5, ElementOfSeq
  <2>12. TypeOK'
    BY <1>1, <2>6, <2>7, <2>10, <2>11 DEF TypeInv, TypeOK, Onwards
  <2>13. SignedIn'
    BY <1>1 DEF TypeInv, SignedIn
  <2> QED
    BY <1>1, <2>5, <2>6, <2>9, <2>12, <2>13, LoggedKept, LoadedKept DEF TypeInv
<1> QED
  BY <1>3, <1>4

(* What the callback in s mints. *)
Ticket(s) ==
    [flow |-> req[s].code, browser |-> req[s].browser, subject |-> flows[req[s].code].who,
     user |-> req[s].user, version |-> Minted(req[s].user),
     floor |-> IF req[s].user = req[s].was THEN req[s].floor ELSE 0, stale |-> req[s].stale]

LEMMA TicketType ==
    ASSUME TypeInv, NEW s \in Slots, req[s] # NoOne, req[s].pc = "version"
    PROVE  /\ Ticket(s) \in Login
           /\ Ticket(s).flow <= Len(flows) /\ Ticket(s).user <= Len(users)
<1> DEFINE q == req[s]
<1>1. q \in Callback /\ flows[q.code].who \in Subjects /\ q.code \in 1..Len(flows)
  BY Busy
<1>2. q.user \in 1..Len(users) /\ Len(users) \in Nat /\ Len(users) <= MaxUsers
  BY Lengths DEF TypeInv, TypeOK, Steps
<1>3. Minted(q.user) \in 0..MaxVersion
  BY <1>2, VersionType DEF Minted
<1>4. q.user \in Uids /\ 0 \in 0..MaxVersion
  BY <1>2, OAuthAssumption DEF Uids
<1>5. /\ q.code \in Flows /\ q.browser \in Browsers
      /\ q.floor \in 0..MaxVersion /\ q.stale \in 0..MaxSince
  BY <1>1 DEF Callback
<1>6. (IF q.user = q.was THEN q.floor ELSE 0) \in 0..MaxVersion
  BY <1>4, <1>5
<1> HIDE DEF q
<1>7. /\ Ticket(s).flow = q.code /\ Ticket(s).user = q.user
      /\ Ticket(s) = [flow |-> q.code, browser |-> q.browser, subject |-> flows[q.code].who,
                       user |-> q.user, version |-> Minted(q.user),
                       floor |-> IF q.user = q.was THEN q.floor ELSE 0, stale |-> q.stale]
  BY DEF Ticket, q
<1>8. Ticket(s) \in Login
  BY <1>1, <1>3, <1>4, <1>5, <1>6, <1>7 DEF Login
<1> QED
  BY <1>1, <1>2, <1>7, <1>8, Lengths

LEMMA MintEffect ==
    ASSUME TypeInv, NEW s \in Slots, Mint(s)
    PROVE  /\ req[s] # NoOne /\ req[s].pc = "version"
           /\ logins' = logins \cup {Ticket(s)}
           /\ cookie' = Cleared(req[s].browser)
           /\ Goto(s, NoOne)
           /\ UNCHANGED <<flows, published, since, keys, age, lock, answer, took,
                          users, link, bump>>
BY DEF Mint, Ticket, idp, cache, accounts

LEMMA MintTypeInv ==
    ASSUME TypeInv, NEW s \in Slots, Mint(s) PROVE TypeInv' /\ Onwards
<1>1. UNCHANGED <<flows, published, since, keys, age, lock, answer, took, users, link, bump>>
  BY MintEffect
<1>2. Onwards
  BY <1>1, SameFlows
<1>3. Moved(s, NoOne) /\ req' \in [Slots -> Callback \cup {NoOne}]
  BY MintEffect, Moves, MovesType
<1>4. Steps'
  BY <1>2, <1>3, StepsKept
<1>5. cookie' \in [Browsers -> 0..Len(flows)]
  BY MintEffect, CookieCleared
<1>6. logins' = logins \cup {Ticket(s)} /\ Ticket(s) \in Login
      /\ Ticket(s).flow <= Len(flows) /\ Ticket(s).user <= Len(users)
  BY MintEffect, TicketType
<1>7. TypeOK'
  BY <1>1, <1>3, <1>5, <1>6 DEF TypeInv, TypeOK
<1>8. Logged' /\ SignedIn'
  BY <1>1, <1>6 DEF TypeInv, Logged, SignedIn
<1> QED
  BY <1>1, <1>2, <1>4, <1>7, <1>8, LoadedKept DEF TypeInv

(* A step of the rest of the application, which leaves all but accounts. *)
LEMMA ElsewhereTypeInv ==
    ASSUME TypeInv, users' \in Seq(User), Len(users') <= MaxUsers, Len(users) <= Len(users'),
           link' \in [Subjects -> 0..Len(users')],
           bump' \in [BumpSlots -> Bump \cup {NoOne}], Loaded',
           UNCHANGED <<cookie, flows, published, since, keys, age, lock, answer, took, req, logins>>
    PROVE  TypeInv' /\ Onwards
<1>1. Onwards
  BY Lengths DEF Onwards, TypeInv, TypeOK
<1>2. \A u \in 1..Len(users') : users'[u] \in User
  BY ElementOfSeq
<1>3. TypeOK'
  BY <1>1, <1>2 DEF TypeInv, TypeOK
<1>4. SignedIn'
  BY DEF TypeInv, SignedIn
<1> QED
  BY <1>1, <1>3, <1>4, StepsIdle, LoggedKept DEF TypeInv

LEMMA LinkGrows ==
    ASSUME TypeInv, Len(users') \in Nat, Len(users) <= Len(users'), UNCHANGED link
    PROVE  link' \in [Subjects -> 0..Len(users')]
<1>1. 0..Len(users) \subseteq 0..Len(users')
  BY Lengths
<1> QED
  BY <1>1 DEF TypeInv, TypeOK

LEMMA ProvisionEffect ==
    ASSUME TypeInv, Provision
    PROVE  \E e \in Emails :
              /\ ~Taken(e) /\ users' = Append(users, Account(e, NoOne))
              /\ users' \in Seq(User) /\ Len(users') = Len(users) + 1
<1>1. PICK e \in Emails : ~Taken(e) /\ users' = Append(users, Account(e, NoOne))
  BY DEF Provision
<1>2. Account(e, NoOne) \in User
  BY AccountType
<1> QED
  BY <1>1, <1>2, NewUser

LEMMA ProvisionTypeInv ==
    ASSUME TypeInv, Provision PROVE TypeInv' /\ Onwards
<1>1. users' \in Seq(User) /\ Len(users') = Len(users) + 1 /\ Len(users) < MaxUsers
  BY ProvisionEffect DEF Provision
<1>2. UNCHANGED <<cookie, flows, published, since, keys, age, lock, answer, took, link, bump, req,
                  logins>>
  BY DEF Provision, idp, cache
<1>3. /\ Len(users') \in Nat /\ Len(users') <= MaxUsers /\ Len(users) <= Len(users')
  BY <1>1, Lengths, OAuthAssumption
<1>4. link' \in [Subjects -> 0..Len(users')]
  BY <1>2, <1>3, LinkGrows
<1>5. Loaded'
  BY <1>1, <1>2, <1>3, LoadedKept, Lengths DEF Onwards, TypeInv, TypeOK
<1>6. bump' \in [BumpSlots -> Bump \cup {NoOne}]
  BY <1>2 DEF TypeInv, TypeOK
<1> QED
  BY <1>1, <1>2, <1>3, <1>4, <1>5, <1>6, ElsewhereTypeInv

(* What the rest of the application leaves of an account. *)
Since(old, new) ==
    /\ new.email = old.email /\ new.origin = old.origin
    /\ new.there => old.there

LEMMA BumpAt ==
    ASSUME TypeInv, NEW j \in BumpSlots, bump[j] # NoOne
    PROVE  /\ bump[j] \in Bump /\ bump[j].version \in 0..MaxVersion
           /\ bump[j].user \in 1..Len(users)
<1>1. bump[j] \in Bump /\ bump[j].user <= Len(users)
  BY DEF TypeInv, TypeOK, Loaded
<1> QED
  BY <1>1, Lengths DEF Bump, Uids

LEMMA SaveEffect ==
    ASSUME TypeInv, NEW j \in BumpSlots, SaveBump(j)
    PROVE  \/ UNCHANGED users
           \/ \E x \in User :
                 /\ users' = [users EXCEPT ![bump[j].user] = x]
                 /\ Since(users[bump[j].user], x) /\ x.there
                 /\ x.version = bump[j].version + 1
<1> SUFFICES ASSUME ~UNCHANGED users
             PROVE  \E x \in User :
                       /\ users' = [users EXCEPT ![bump[j].user] = x]
                       /\ Since(users[bump[j].user], x) /\ x.there
                       /\ x.version = bump[j].version + 1
  OBVIOUS
<1> DEFINE u == bump[j].user
<1> DEFINE new == bump[j].version + 1
<1>1. /\ bump[j] # NoOne /\ users[u].there /\ bump[j].version < MaxVersion
      /\ users' = [users EXCEPT ![u].version = new]
  BY DEF SaveBump
<1>2. users[u] \in User /\ u \in 1..Len(users) /\ new \in 0..MaxVersion
  BY <1>1, BumpAt, ElementOfSeq, OAuthAssumption DEF TypeInv
<1> HIDE DEF u, new
<1> DEFINE x == [users[u] EXCEPT !.version = new]
<1>3. x \in User /\ Since(users[u], x) /\ x.there /\ x.version = new
  BY <1>1, <1>2 DEF User, Since
<1>4. users' = [users EXCEPT ![u] = x]
  BY <1>1
<1> QED
  BY <1>3, <1>4 DEF u, new

LEMMA SwitchEffect ==
    ASSUME TypeInv, NEW u \in 1..Len(users), Switch(u)
    PROVE  \E x \in User : /\ users' = [users EXCEPT ![u] = x] /\ Since(users[u], x) /\ x.there
                           /\ x.version = users[u].version
<1>1. users[u] \in User /\ users[u].there
  BY ElementOfSeq DEF TypeInv, Switch
<1> DEFINE x == [users[u] EXCEPT !.active = ~@]
<1>2. x \in User
  BY <1>1 DEF User
<1>3. /\ x.email = users[u].email /\ x.origin = users[u].origin
      /\ x.version = users[u].version /\ x.there = users[u].there
  BY <1>1 DEF User
<1>4. users' = [users EXCEPT ![u] = x]
  BY DEF Switch
<1> QED
  BY <1>1, <1>2, <1>3, <1>4 DEF Since

LEMMA DeleteEffect ==
    ASSUME TypeInv, NEW u \in 1..Len(users), Delete(u)
    PROVE  /\ \E x \in User :
                 /\ users' = [users EXCEPT ![u] = x] /\ Since(users[u], x) /\ ~x.there
                 /\ x.version = users[u].version
           /\ link' = [s \in Subjects |-> IF link[s] = u THEN 0 ELSE link[s]]
<1>1. users[u] \in User
  BY ElementOfSeq DEF TypeInv
<1> DEFINE x == [users[u] EXCEPT !.there = FALSE]
<1>2. /\ x \in User /\ x.email = users[u].email /\ x.origin = users[u].origin /\ ~x.there
      /\ x.version = users[u].version
  BY <1>1 DEF User
<1>3. users' = [users EXCEPT ![u] = x]
  BY DEF Delete
<1> QED
  BY <1>2, <1>3 DEF Delete, Since

(* What operators and the handlers that raise versions do. *)
Elsewhere ==
    \/ \E u \in 1..Len(users) : Switch(u) \/ Delete(u) \/ \E j \in BumpSlots : LoadBump(j, u)
    \/ \E j \in BumpSlots : SaveBump(j)

LEMMA ElsewhereEffect ==
    ASSUME TypeInv, Elsewhere
    PROVE  /\ UNCHANGED <<cookie, flows, published, since, keys, age, lock, answer, took, req,
                          logins>>
           /\ \/ UNCHANGED <<users, link>>
              \/ \E u \in 1..Len(users), x \in User :
                    /\ users' = [users EXCEPT ![u] = x] /\ Since(users[u], x)
                    /\ \/ UNCHANGED link /\ x.there
                       \/ /\ ~x.there
                          /\ link' = [s \in Subjects |-> IF link[s] = u THEN 0 ELSE link[s]]
<1>1. UNCHANGED <<cookie, flows, published, since, keys, age, lock, answer, took, req, logins>>
  BY DEF Elsewhere, Switch, Delete, LoadBump, SaveBump, idp, cache
<1>2. CASE \E u \in 1..Len(users) : Switch(u)
  BY <1>1, <1>2, SwitchEffect DEF Switch
<1>3. CASE \E u \in 1..Len(users) : Delete(u)
  BY <1>1, <1>3, DeleteEffect
<1>4. CASE \E u \in 1..Len(users), j \in BumpSlots : LoadBump(j, u)
  BY <1>1, <1>4 DEF LoadBump
<1>5. CASE \E j \in BumpSlots : SaveBump(j)
  <2>1. PICK j \in BumpSlots : SaveBump(j)
    BY <1>5
  <2>2. bump[j].user \in 1..Len(users) /\ UNCHANGED link
    BY <2>1, BumpAt DEF SaveBump
  <2> QED
    BY <1>1, <2>1, <2>2, SaveEffect
<1> QED
  BY <1>2, <1>3, <1>4, <1>5 DEF Elsewhere

LEMMA ElsewhereBumps ==
    ASSUME TypeInv, Elsewhere, Len(users') = Len(users)
    PROVE  bump' \in [BumpSlots -> Bump \cup {NoOne}] /\ Loaded'
<1>1. bump \in [BumpSlots -> Bump \cup {NoOne}]
  BY DEF TypeInv, TypeOK
<1>2. CASE UNCHANGED bump
  BY <1>1, <1>2 DEF TypeInv, Loaded
<1>3. CASE \E u \in 1..Len(users), j \in BumpSlots : LoadBump(j, u)
  <2>1. PICK u \in 1..Len(users), j \in BumpSlots : LoadBump(j, u)
    BY <1>3
  <2> DEFINE x == [user |-> u, version |-> users[u].version]
  <2>2. users[u] \in User
    BY ElementOfSeq DEF TypeInv
  <2>3. u \in Uids /\ u <= Len(users)
    BY Lengths, OAuthAssumption DEF Uids, TypeInv, TypeOK
  <2>4. x \in Bump /\ x.user <= Len(users)
    BY <2>2, <2>3 DEF Bump, User
  <2>5. bump' = [bump EXCEPT ![j] = x]
    BY <2>1 DEF LoadBump
  <2> HIDE DEF x
  <2> QED
    BY <1>1, <2>4, <2>5 DEF TypeInv, Loaded
<1>4. CASE \E j \in BumpSlots : SaveBump(j)
  BY <1>1, <1>4 DEF SaveBump, TypeInv, Loaded
<1> QED
  BY <1>2, <1>3, <1>4 DEF Elsewhere, Switch, Delete

LEMMA ElsewhereKeeps ==
    ASSUME TypeInv, Elsewhere PROVE TypeInv' /\ Onwards
<1>1. users' \in Seq(User) /\ Len(users') = Len(users)
  BY ElsewhereEffect, OneUser DEF TypeInv
<1>2. UNCHANGED <<cookie, flows, published, since, keys, age, lock, answer, took, req, logins>>
  BY ElsewhereEffect
<1>3. link' \in [Subjects -> 0..Len(users')]
  <2>1. link \in [Subjects -> 0..Len(users)] /\ 0 \in 0..Len(users)
    BY Lengths DEF TypeInv, TypeOK
  <2>2. UNCHANGED link \/ \E u : link' = [s \in Subjects |-> IF link[s] = u THEN 0 ELSE link[s]]
    BY ElsewhereEffect
  <2> QED
    BY <1>1, <2>1, <2>2
<1>4. bump' \in [BumpSlots -> Bump \cup {NoOne}] /\ Loaded'
  BY <1>1, ElsewhereBumps
<1> QED
  BY <1>1, <1>2, <1>3, <1>4, Lengths, ElsewhereTypeInv DEF TypeInv, TypeOK

LEMMA TypeInvStep == TypeInv /\ [Next]_vars => TypeInv' /\ (Next => Onwards)
<1> SUFFICES ASSUME TypeInv, [Next]_vars PROVE TypeInv' /\ (Next => Onwards)
  OBVIOUS
<1>1. CASE \E b \in Browsers : Start(b)
  BY <1>1, StartTypeInv
<1>2. CASE \E b \in Browsers, s \in Slots : Arrive(s, b)
  BY <1>2, ArriveTypeInv
<1>3. CASE \E f \in 1..Len(flows) : SignIn(f)
  BY <1>3, SignInTypeInv
<1>4. CASE \E s \in Slots : Step(s)
  BY <1>4, FailTypeInv, ExchangeTypeInv, KeyTypeInv, LookupTypeInv, CreateTypeInv, MintTypeInv
     DEF Step
<1>5. CASE Elsewhere
  BY <1>5, ElsewhereKeeps
<1>6. CASE Rotate \/ Tick \/ Provision
  BY <1>6, IdpTypeInv, ProvisionTypeInv
<1>7. CASE UNCHANGED vars
  <2>1. UNCHANGED <<cookie, flows, published, since, keys, age, lock, answer, took,
                    users, link, bump, req, logins>>
    BY <1>7 DEF vars
  <2>2. Onwards
    BY <2>1, SameFlows
  <2>3. TypeOK' /\ SignedIn' /\ Steps' /\ Logged' /\ Loaded'
    BY <2>1, <2>2, StepsIdle, LoggedKept, LoadedKept DEF TypeInv, TypeOK, SignedIn
  <2> QED
    BY <2>1, <2>2, <2>3 DEF TypeInv
<1> QED
  BY <1>1, <1>2, <1>3, <1>4, <1>5, <1>6, <1>7 DEF Next, Elsewhere

(* Every variable keeps its type, and no callback or login is ever without *)
(* the flow and the account it is about.                                   *)
THEOREM TypeCorrect == Spec => []TypeInv
<1>1. Init => TypeInv
  BY InitTypeInv
<1>2. TypeInv /\ [Next]_vars => TypeInv'
  BY TypeInvStep
<1> QED
  BY <1>1, <1>2, PTL DEF Spec

-----------------------------------------------------------------------------
(* The keys *)

(* A published key has been gone for no time, one in the answer not for    *)
(* longer than that is under way, and one in the cache that still counts   *)
(* not for longer than the cache is old and the answer was under way.      *)
Fresh ==
    /\ \A k \in published : since[k] = 0
    /\ \A k \in answer : since[k] <= took
    /\ age < Ttl => \A k \in keys : since[k] <= age + MaxFetch
    /\ \A s \in Slots : req[s] # NoOne => req[s].stale < Ttl + MaxFetch
    /\ KeyWasPublished

LEMMA Ages ==
    TypeInv => /\ Ttl \in Nat /\ Ttl > 0 /\ MaxFetch \in Nat /\ MaxSince = Ttl + MaxFetch
               /\ published \subseteq Kids /\ keys \subseteq Kids /\ answer \subseteq Kids
               /\ since \in [Kids -> 0..MaxSince] /\ age \in 0..Ttl /\ took \in 0..MaxFetch
BY OAuthAssumption DEF TypeInv, TypeOK, MaxSince

LEMMA FreshMove ==
    ASSUME TypeInv, Fresh, NEW s \in Slots, NEW n, Moved(s, n),
           n # NoOne => n.stale < Ttl + MaxFetch,
           UNCHANGED <<published, since, logins>>,
           UNCHANGED <<keys, age>> \/ (keys' = answer /\ age' = 0),
           UNCHANGED <<answer, took>> \/ (answer' \in {{}, published} /\ took' = 0)
    PROVE  Fresh'
<1>1. \A o \in Slots : req'[o] # NoOne => req'[o].stale < Ttl + MaxFetch
  BY DEF Moved, Fresh
<1>2. age' < Ttl => \A k \in keys' : since[k] <= age' + MaxFetch
  <2>1. CASE UNCHANGED <<keys, age>>
    BY <2>1 DEF Fresh
  <2>2. CASE keys' = answer /\ age' = 0
    BY <2>2, Ages DEF Fresh
  <2> QED
    BY <2>1, <2>2
<1>3. \A k \in answer' : since[k] <= took'
  BY Ages DEF Fresh
<1> QED
  BY <1>1, <1>2, <1>3 DEF Fresh, KeyWasPublished

LEMMA FreshIdp == ASSUME TypeInv, Fresh, Rotate \/ Tick PROVE Fresh'
<1>1. UNCHANGED <<keys, answer, req, logins>>
  BY DEF Rotate, Tick, cache
<1>2. CASE Rotate
  <2>1. PICK new \in (SUBSET Kids) \ {{}} :
          published' = new /\ since' = [k \in Kids |-> IF k \in new THEN 0 ELSE since[k]]
    BY <1>2 DEF Rotate
  <2>2. \A k \in Kids : since'[k] <= since[k] /\ since'[k] \in Nat
    BY <2>1, Ages
  <2>3. \A k \in published' : since'[k] = 0
    BY <2>1
  <2>4. UNCHANGED <<age, took>>
    BY <1>2 DEF Rotate, cache
  <2>5. \A k \in answer : since'[k] <= took
    BY <2>2, Ages DEF Fresh
  <2>6. age < Ttl => \A k \in keys : since'[k] <= age + MaxFetch
    BY <2>2, Ages DEF Fresh
  <2> QED
    BY <1>1, <2>3, <2>4, <2>5, <2>6 DEF Fresh, KeyWasPublished
<1>3. CASE Tick
  <2>1. \A k \in Kids : since'[k] = IF k \in published THEN 0 ELSE AtMost(MaxSince, since[k])
    BY <1>3 DEF Tick
  <2>2. \A k \in Kids : since'[k] <= since[k] + 1 /\ since'[k] \in Nat
    BY <2>1, Ages DEF AtMost
  <2>3. \A k \in published : since'[k] = 0
    BY <2>1, Ages
  <2>4. \A k \in answer : since'[k] <= took'
    <3> SUFFICES ASSUME NEW k \in answer PROVE since'[k] <= took'
      OBVIOUS
    <3>1. took' = took + 1 /\ since[k] <= took /\ k \in Kids
      BY <1>3, Ages DEF Tick, Fresh
    <3> QED
      BY <2>2, <3>1, Ages
  <2>5. ASSUME age' < Ttl, NEW k \in keys PROVE since'[k] <= age' + MaxFetch
    <3>1. age < Ttl /\ age' = age + 1 /\ k \in Kids
      BY <1>3, <2>5, Ages DEF Tick, AtMost
    <3>2. since[k] <= age + MaxFetch
      BY <3>1 DEF Fresh
    <3> QED
      BY <2>2, <3>1, <3>2, Ages
  <2>6. UNCHANGED published
    BY <1>3 DEF Tick
  <2> QED
    BY <1>1, <2>3, <2>4, <2>5, <2>6 DEF Fresh, KeyWasPublished
<1> QED
  BY <1>2, <1>3

LEMMA FreshCallback ==
    ASSUME TypeInv, Fresh, NEW s \in Slots, Step(s) PROVE Fresh'
<1>1. CASE Fail(s)
  <2>1. /\ UNCHANGED <<published, since, keys, age, logins>> /\ Goto(s, NoOne)
        /\ UNCHANGED <<answer, took>> \/ (answer' = {} /\ took' = 0)
    BY <1>1 DEF Fail, idp, Goto, Release
  <2> QED
    BY <2>1, Moves, FreshMove
<1>2. CASE Exchange(s)
  <2>1. UNCHANGED <<published, since, keys, age, answer, took, logins>>
    BY <1>2 DEF Exchange, idp, cache
  <2>2. \E n : Goto(s, n) /\ n.stale = req[s].stale /\ req[s] # NoOne
    BY <1>2, ExchangeEffect
  <2>3. \E n : Moved(s, n) /\ n.stale < Ttl + MaxFetch
    BY <2>2, Moves DEF Fresh
  <2> QED
    BY <2>1, <2>3, FreshMove
<1>3. CASE UseKey(s) \/ Locked(s) \/ Fetch(s) \/ Store(s)
  <2>1. req[s] # NoOne /\ req[s].pc # "exchange" /\ UNCHANGED <<published, since, logins>>
    BY <1>3, KeyEffect DEF UseKey, Locked, Fetch, Store, idp
  <2>2. /\ UNCHANGED <<keys, age>> \/ (keys' = answer /\ age' = 0)
        /\ UNCHANGED <<answer, took>> \/ (answer' \in {{}, published} /\ took' = 0)
    BY <1>3 DEF UseKey, Locked, Fetch, Store, Release, cache
  <2> DEFINE k == req[s].kid
  <2>3. PICK n \in Callback \cup {NoOne} :
          /\ Goto(s, n)
          /\ n # NoOne => \/ n.stale = req[s].stale
                          \/ n.stale = since[k] /\ (Known(k) \/ k \in answer)
    BY <1>3, KeyEffect
  <2>4. since[k] \in 0..MaxSince
    BY <2>1, Underway
  <2>5. Known(k) => since[k] < Ttl + MaxFetch
    BY <2>4, Ages DEF Known, Fresh
  <2>6. k \in answer => since[k] < Ttl + MaxFetch
    BY <2>4, Ages DEF Fresh
  <2>7. n # NoOne => n.stale < Ttl + MaxFetch
    BY <2>1, <2>3, <2>5, <2>6 DEF Fresh
  <2> QED
    BY <2>1, <2>2, <2>3, <2>7, Moves, FreshMove
<1>4. CASE Lookup(s)
  <2>1. UNCHANGED <<published, since, keys, age, answer, took, logins>>
    BY <1>4, LookupEffect
  <2>2. \E n : Goto(s, n) /\ n.stale = req[s].stale /\ req[s] # NoOne
    BY <1>4, LookupEffect
  <2>3. \E n : Moved(s, n) /\ n.stale < Ttl + MaxFetch
    BY <2>2, Moves DEF Fresh
  <2> QED
    BY <2>1, <2>3, FreshMove
<1>5. CASE Create(s)
  <2>1. UNCHANGED <<published, since, keys, age, answer, took, logins>>
    BY <1>5, CreateEffect
  <2>2. Goto(s, NoOne) \/ \E n : Goto(s, n) /\ n.stale = req[s].stale /\ req[s] # NoOne
    BY <1>5, CreateEffect
  <2>3. \E n : Moved(s, n) /\ (n # NoOne => n.stale < Ttl + MaxFetch)
    BY <2>2, Moves DEF Fresh
  <2> QED
    BY <2>1, <2>3, FreshMove
<1>6. CASE Mint(s)
  <2>1. /\ UNCHANGED <<published, since, keys, age, answer, took>>
        /\ logins' = logins \cup {Ticket(s)} /\ Ticket(s).stale = req[s].stale
        /\ Moved(s, NoOne) /\ req[s] # NoOne
    BY <1>6, MintEffect, Moves DEF Ticket
  <2>2. KeyWasPublished'
    BY <2>1 DEF Fresh, KeyWasPublished
  <2>3. \A o \in Slots : req'[o] # NoOne => req'[o].stale < Ttl + MaxFetch
    BY <2>1 DEF Moved, Fresh
  <2> QED
    BY <2>1, <2>2, <2>3 DEF Fresh
<1> QED
  BY <1>1, <1>2, <1>3, <1>4, <1>5, <1>6 DEF Step

LEMMA FreshStep == TypeInv /\ Fresh /\ [Next]_vars => Fresh'
<1> SUFFICES ASSUME TypeInv, Fresh, [Next]_vars PROVE Fresh'
  OBVIOUS
<1>1. CASE \E b \in Browsers, s \in Slots : Arrive(s, b)
  <2>1. PICK b \in Browsers, s \in Slots : Arrive(s, b)
    BY <1>1
  <2>2. UNCHANGED <<published, since, keys, age, answer, took, logins>>
    BY <2>1 DEF Arrive, idp, cache
  <2>3. \E n : Goto(s, n) /\ n.stale = 0
    BY <2>1, ArriveEffect
  <2>4. \E n : Moved(s, n) /\ n.stale < Ttl + MaxFetch
    BY <2>3, Moves, OAuthAssumption
  <2> QED
    BY <2>2, <2>4, FreshMove
<1>2. CASE \E s \in Slots : Step(s)
  BY <1>2, FreshCallback
<1>3. CASE Rotate \/ Tick
  BY <1>3, FreshIdp
<1>4. CASE \/ \E b \in Browsers : Start(b)
           \/ \E f \in 1..Len(flows) : SignIn(f)
           \/ Elsewhere \/ Provision \/ UNCHANGED vars
  <2>1. UNCHANGED <<published, since, keys, age, answer, took, req, logins>>
    <3>1. CASE Elsewhere
      BY <3>1, ElsewhereEffect
    <3> QED
      BY <1>4, <3>1 DEF Start, SignIn, Provision, idp, cache, vars
  <2> QED
    BY <2>1 DEF Fresh, KeyWasPublished
<1> QED
  BY <1>1, <1>2, <1>3, <1>4 DEF Next, Elsewhere

(* No sign-in is accepted for a key that the provider withdrew a time to   *)
(* live and the longest fetch ago, or longer: whoever refreshed the cache, *)
(* and whenever each callback looked at it, before the lock or behind it   *)
(* (JWKSCache.get_key).                                                    *)
THEOREM KeyWasPublishedHolds == Spec => []KeyWasPublished
<1>1. Init => Fresh
  <2> SUFFICES ASSUME Init PROVE Fresh
    OBVIOUS
  <2>1. published \subseteq Kids /\ since = [k \in Kids |-> IF k \in published THEN 0 ELSE MaxSince]
    BY DEF Init
  <2> QED
    BY <2>1 DEF Init, Fresh, KeyWasPublished
<1>2. TypeInv /\ Fresh /\ [Next]_vars => Fresh'
  BY FreshStep
<1>3. Fresh => KeyWasPublished
  BY DEF Fresh
<1> QED
  BY <1>1, <1>2, <1>3, TypeCorrect, PTL DEF Spec

-----------------------------------------------------------------------------
(* The browser *)

(* A callback's code is spent. *)
Past(s) == req[s] # NoOne /\ req[s].pc # "exchange"

(* A callback is in the browser of its flow, and from the lookup on it has *)
(* a code of that flow.                                                    *)
Agrees(q) ==
    /\ flows[q.flow].browser = q.browser
    /\ q.pc \in {"create", "version"} => q.code = q.flow

(* Cookies, callbacks and logins agree with the flow they are of; and each *)
(* flow has at most one of those callbacks and logins that need its code.  *)
Bound ==
    /\ \A b \in Browsers : cookie[b] # 0 => flows[cookie[b]].browser = b
    /\ \A s \in Slots : req[s] # NoOne => Agrees(req[s])
    /\ \A s \in Slots : Past(s) => flows[req[s].code].code = "spent"
    /\ \A s, t \in Slots : Past(s) /\ Past(t) /\ req[s].code = req[t].code => s = t
    /\ \A l \in logins : /\ flows[l.flow].code = "spent"
                         /\ \A s \in Slots : Past(s) => req[s].code # l.flow
    /\ BoundToBrowser

(* A code that is spent stays so, and a cookie changes to a flow of its    *)
(* browser or to none.                                                     *)
Kept ==
    /\ \A f \in 1..Len(flows) : flows[f].code = "spent" => flows'[f].code = "spent"
    /\ \A b \in Browsers :
          \/ cookie'[b] = cookie[b] \/ cookie'[b] = 0
          \/ flows'[cookie'[b]].browser = b

LEMMA FlowOfLogin ==
    ASSUME TypeInv, NEW l \in logins PROVE l.flow \in 1..Len(flows) /\ l.subject \in Subjects
BY Lengths DEF TypeInv, TypeOK, Logged, Login, Flows

LEMMA BoundKept ==
    ASSUME TypeInv, Bound, Onwards, Kept, UNCHANGED logins
    PROVE  /\ \A b \in Browsers : cookie'[b] # 0 => flows'[cookie'[b]].browser = b
           /\ \A l \in logins : flows'[l.flow].code = "spent"
           /\ BoundToBrowser'
<1>1. \A l \in logins : l.flow \in 1..Len(flows) /\ l.subject \in Subjects
  BY FlowOfLogin
<1>2. \A l \in logins : flows'[l.flow].code = "spent"
  BY <1>1 DEF Bound, Kept
<1>3. \A l \in logins : /\ flows'[l.flow].browser = l.browser
                        /\ flows'[l.flow].who = l.subject
  BY <1>1, OAuthAssumption DEF Bound, BoundToBrowser, Onwards
<1>4. ASSUME NEW b \in Browsers, cookie'[b] # 0 PROVE flows'[cookie'[b]].browser = b
  <2>1. cookie[b] \in 0..Len(flows) /\ Len(flows) \in Nat
    BY Lengths DEF TypeInv, TypeOK
  <2>2. CASE cookie'[b] = cookie[b]
    BY <1>4, <2>1, <2>2 DEF Bound, Onwards
  <2> QED
    BY <1>4, <2>2 DEF Kept
<1> QED
  BY <1>2, <1>3, <1>4 DEF Bound, BoundToBrowser

LEMMA BoundIdle ==
    ASSUME TypeInv, Bound, Onwards, Kept, UNCHANGED <<req, logins>> PROVE Bound'
<1>1. \A s \in Slots : req[s] # NoOne =>
         req[s].code \in 1..Len(flows) /\ req[s].flow \in 1..Len(flows)
  BY Busy
<1>2. \A s \in Slots : req'[s] # NoOne => Agrees(req[s])'
  BY <1>1 DEF Bound, Onwards, Agrees
<1>3. \A s \in Slots : Past(s)' <=> Past(s)
  BY DEF Past
<1>4. \A s \in Slots : Past(s) => flows'[req[s].code].code = "spent"
  BY <1>1 DEF Bound, Kept, Past
<1> QED
  BY <1>2, <1>3, <1>4, BoundKept DEF Bound

LEMMA BoundMove ==
    ASSUME TypeInv, Bound, Onwards, Kept, UNCHANGED logins, NEW s \in Slots, NEW n, Moved(s, n),
           n # NoOne => /\ flows'[n.flow].browser = n.browser
                        /\ n.pc \in {"create", "version"} => n.code = n.flow
                        /\ n.pc # "exchange" =>
                              /\ flows'[n.code].code = "spent"
                              /\ \/ Past(s) /\ n.code = req[s].code
                                 \/ flows[n.code].code = "fresh"
    PROVE  Bound'
<1>1. \A o \in Slots : req[o] # NoOne =>
         req[o].code \in 1..Len(flows) /\ req[o].flow \in 1..Len(flows)
  BY Busy
<1>2. ASSUME NEW o \in Slots, req'[o] # NoOne
      PROVE  Agrees(req[o])'
  <2>1. CASE o = s
    BY <1>2, <2>1 DEF Moved, Agrees
  <2>2. CASE o # s
    <3>1. req'[o] = req[o]
      BY <2>2 DEF Moved
    <3> QED
      BY <1>1, <1>2, <3>1 DEF Bound, Onwards, Agrees
  <2> QED
    BY <2>1, <2>2
<1>3. \A o \in Slots : o # s => (Past(o)' <=> Past(o)) /\ req'[o] = req[o]
  BY DEF Moved, Past
<1>4. Past(s)' => /\ req'[s] = n
                  /\ flows'[n.code].code = "spent"
                  /\ \/ Past(s) /\ n.code = req[s].code
                     \/ flows[n.code].code = "fresh"
  BY DEF Moved, Past
<1>5. ASSUME NEW o \in Slots, Past(o)' PROVE flows'[req'[o].code].code = "spent"
  <2>1. CASE o = s
    BY <1>4, <1>5, <2>1
  <2>2. CASE o # s
    <3>1. req'[o] = req[o] /\ Past(o)
      BY <1>3, <1>5, <2>2
    <3>2. req[o].code \in 1..Len(flows)
      BY <1>1, <3>1 DEF Past
    <3> QED
      BY <3>1, <3>2 DEF Bound, Kept
  <2> QED
    BY <2>1, <2>2
<1>6. ASSUME NEW o \in Slots, o # s, Past(o)', Past(s)' PROVE req'[o].code # req'[s].code
  <2>1. Past(o) /\ req'[o] = req[o] /\ flows[req[o].code].code = "spent"
    BY <1>3, <1>6 DEF Bound
  <2> QED
    BY <1>4, <1>6, <2>1 DEF Bound
<1>7. \A o, t \in Slots : Past(o)' /\ Past(t)' /\ req'[o].code = req'[t].code => o = t
  <2> SUFFICES ASSUME NEW o \in Slots, NEW t \in Slots, Past(o)', Past(t)', o # t
               PROVE  req'[o].code # req'[t].code
    OBVIOUS
  <2>1. CASE o = s
    BY <1>6, <2>1
  <2>2. CASE t = s
    BY <1>6, <2>2
  <2>3. CASE o # s /\ t # s
    BY <1>3, <2>3 DEF Bound
  <2> QED
    BY <2>1, <2>2, <2>3
<1>8. ASSUME NEW l \in logins, NEW o \in Slots, Past(o)' PROVE req'[o].code # l.flow
  <2>1. CASE o = s
    BY <1>4, <1>8, <2>1 DEF Bound
  <2>2. CASE o # s
    BY <1>3, <1>8, <2>2 DEF Bound
  <2> QED
    BY <2>1, <2>2
<1> QED
  BY <1>2, <1>5, <1>7, <1>8, BoundKept DEF Bound

(* A step of a callback that does not touch the flows: it goes on or ends. *)
LEMMA BoundGoesOn ==
    ASSUME TypeInv, Bound, NEW s \in Slots, NEW n, Moved(s, n), UNCHANGED <<flows, logins>>,
           Onwards, \A b \in Browsers : cookie'[b] \in {0, cookie[b]},
           n # NoOne => /\ Past(s) /\ Stays(req[s], n) /\ n.pc # "exchange"
                        /\ n.pc \in {"create", "version"} => req[s].code = req[s].flow
    PROVE  Bound'
<1>1. Kept
  BY DEF Kept
<1>2. n # NoOne => /\ flows'[n.flow].browser = n.browser
                   /\ n.pc \in {"create", "version"} => n.code = n.flow
                   /\ flows'[n.code].code = "spent" /\ n.code = req[s].code
  BY DEF Bound, Agrees, Stays, Past
<1> QED
  BY <1>1, <1>2, BoundMove

LEMMA BoundStart ==
    ASSUME TypeInv, Bound, NEW b \in Browsers, Start(b) PROVE Bound'
<1> DEFINE x == [browser |-> b, who |-> NoOne, code |-> "none"]
<1>1. x \in Flow /\ flows' = Append(flows, x) /\ x.browser = b
  BY DEF Flow, Start
<1> HIDE DEF x
<1>2. /\ \A g \in 1..Len(flows) : flows'[g] = flows[g]
      /\ flows'[Len(flows) + 1].browser = b
  BY <1>1, NewFlow
<1>3. cookie' = [cookie EXCEPT ![b] = Len(flows) + 1] /\ UNCHANGED <<req, logins>>
  BY DEF Start
<1>4. \A c \in Browsers : IF c = b THEN cookie'[c] = Len(flows) + 1 ELSE cookie'[c] = cookie[c]
  BY <1>3 DEF TypeInv, TypeOK
<1>5. Kept
  BY <1>2, <1>4 DEF Kept
<1> QED
  BY <1>3, <1>5, StartTypeInv, BoundIdle

LEMMA BoundSignIn ==
    ASSUME TypeInv, Bound, NEW f \in 1..Len(flows), SignIn(f) PROVE Bound'
<1>1. PICK who \in Subjects : flows' = [flows EXCEPT ![f] = [@ EXCEPT !.who = who, !.code = "fresh"]]
  BY DEF SignIn
<1>2. \A g \in 1..Len(flows) : g # f => flows'[g] = flows[g]
  BY <1>1 DEF TypeInv
<1>3. flows[f].code = "none" /\ UNCHANGED <<cookie, req, logins>>
  BY DEF SignIn
<1>4. Kept
  BY <1>2, <1>3 DEF Kept
<1> QED
  BY <1>3, <1>4, SignInTypeInv, BoundIdle

LEMMA BoundArrive ==
    ASSUME TypeInv, Bound, NEW s \in Slots, NEW b \in Browsers, Arrive(s, b) PROVE Bound'
<1>1. UNCHANGED <<cookie, flows, logins>>
  BY DEF Arrive
<1>2. PICK n : /\ Goto(s, n) /\ n.browser = b /\ n.pc = "exchange"
               /\ n.flow \in 1..Len(flows) /\ cookie[b] = n.flow
  BY ArriveEffect
<1>3. Moved(s, n)
  BY <1>2, Moves
<1>4. flows[n.flow].browser = n.browser
  BY <1>2, Lengths DEF Bound
<1>5. Kept
  BY <1>1 DEF Kept
<1> QED
  BY <1>1, <1>2, <1>3, <1>4, <1>5, ArriveTypeInv, BoundMove

LEMMA BoundExchange ==
    ASSUME TypeInv, Bound, NEW s \in Slots, Exchange(s) PROVE Bound'
<1> DEFINE f == req[s].code
<1>1. /\ f \in 1..Len(flows) /\ flows[f].code = "fresh" /\ req[s] # NoOne
      /\ \A g \in 1..Len(flows) :
            /\ flows'[g].browser = flows[g].browser
            /\ flows'[g].code = IF g = f THEN "spent" ELSE flows[g].code
  BY ExchangeEffect
<1>2. PICK n : Goto(s, n) /\ Stays(req[s], n) /\ n.pc = "key"
  BY ExchangeEffect
<1>3. Moved(s, n)
  BY <1>2, Moves
<1>4. UNCHANGED <<cookie, logins>>
  BY DEF Exchange
<1>5. Kept
  BY <1>1, <1>4 DEF Kept
<1>6. /\ n.code = f /\ flows'[n.flow].browser = n.browser
      /\ flows'[n.code].code = "spent" /\ flows[n.code].code = "fresh"
  BY <1>1, <1>2, Busy DEF Stays, Bound, Agrees
<1> QED
  BY <1>2, <1>3, <1>4, <1>5, <1>6, ExchangeTypeInv, BoundMove

LEMMA BoundMint ==
    ASSUME TypeInv, Bound, NEW s \in Slots, Mint(s) PROVE Bound'
<1> DEFINE q == req[s]
<1> DEFINE l == Ticket(s)
<1>1. /\ q # NoOne /\ q.pc = "version" /\ logins' = logins \cup {l} /\ cookie' = Cleared(q.browser)
      /\ Moved(s, NoOne) /\ UNCHANGED flows
  BY MintEffect, Moves
<1>2. /\ l.flow = q.code /\ l.browser = q.browser /\ l.subject = flows[q.code].who
  BY DEF Ticket
<1>3. Past(s) /\ flows[q.code].code = "spent" /\ flows[q.code].browser = q.browser
  BY <1>1 DEF Past, Bound, Agrees
<1>4. \A m \in logins : m.flow # l.flow
  BY <1>2, <1>3 DEF Bound
<1>5. \A o \in Slots : Past(o)' => Past(o) /\ o # s /\ req'[o] = req[o]
  BY <1>1 DEF Past, Moved
<1>6. BoundToBrowser'
  BY <1>1, <1>2, <1>3, <1>4 DEF Bound, BoundToBrowser
<1>7. \A m \in logins' : /\ flows'[m.flow].code = "spent"
                         /\ \A o \in Slots : Past(o)' => req'[o].code # m.flow
  BY <1>1, <1>2, <1>3, <1>5 DEF Bound
<1>8. \A b \in Browsers : cookie'[b] # 0 => flows'[cookie'[b]].browser = b
  <2>1. \A b \in Browsers : cookie'[b] \in {0, cookie[b]}
    BY <1>1, CookieCleared
  <2> QED
    BY <1>1, <2>1 DEF Bound
<1>9. /\ \A o \in Slots : req'[o] # NoOne => Agrees(req[o])'
      /\ \A o \in Slots : Past(o)' => flows'[req'[o].code].code = "spent"
      /\ \A o, t \in Slots : Past(o)' /\ Past(t)' /\ req'[o].code = req'[t].code => o = t
  BY <1>1, <1>5 DEF Moved, Bound, Agrees
<1> QED
  BY <1>6, <1>7, <1>8, <1>9 DEF Bound

LEMMA BoundCallback ==
    ASSUME TypeInv, Bound, NEW s \in Slots, Step(s) PROVE Bound'
<1>1. CASE Fail(s)
  <2>1. UNCHANGED <<flows, logins>> /\ Goto(s, NoOne) /\ cookie' \in {cookie, Cleared(req[s].browser)}
    BY <1>1 DEF Fail, Goto
  <2>2. \A b \in Browsers : cookie'[b] \in {0, cookie[b]}
    BY <2>1, CookieCleared
  <2> QED
    BY <1>1, <2>1, <2>2, Moves, FailTypeInv, BoundGoesOn
<1>2. CASE UseKey(s) \/ Locked(s) \/ Fetch(s) \/ Store(s)
  <2>1. /\ UNCHANGED <<flows, logins>> /\ Past(s)
        /\ cookie' \in {cookie, Cleared(req[s].browser)}
    BY <1>2, KeyEffect DEF UseKey, Locked, Fetch, Store, Past
  <2>2. \A b \in Browsers : cookie'[b] \in {0, cookie[b]}
    BY <2>1, CookieCleared
  <2>3. \E n : /\ Goto(s, n)
               /\ n # NoOne => Stays(req[s], n) /\ n.pc \notin {"exchange", "create", "version"}
    BY <1>2, KeyEffect
  <2> QED
    BY <1>2, <2>1, <2>2, <2>3, Moves, KeyTypeInv, BoundGoesOn
<1>3. CASE Lookup(s) \/ Create(s)
  <2>1. UNCHANGED <<cookie, flows, logins>> /\ Past(s)
    BY <1>3, LookupEffect, CreateEffect DEF Past
  <2>2. /\ req[s].code = req[s].flow
        /\ \E n : Goto(s, n) /\ (n # NoOne => Stays(req[s], n) /\ n.pc # "exchange")
    <3>1. CASE Lookup(s)
      BY <3>1, LookupEffect
    <3>2. CASE Create(s)
      BY <3>2, CreateEffect DEF Bound, Agrees
    <3> QED
      BY <1>3, <3>1, <3>2
  <2> QED
    BY <1>3, <2>1, <2>2, Moves, LookupTypeInv, CreateTypeInv, BoundGoesOn
<1> QED
  BY <1>1, <1>2, <1>3, BoundExchange, BoundMint DEF Step

LEMMA BoundStep == TypeInv /\ Bound /\ [Next]_vars => Bound'
<1> SUFFICES ASSUME TypeInv, Bound, [Next]_vars PROVE Bound'
  OBVIOUS
<1>1. CASE Elsewhere \/ Rotate \/ Tick \/ Provision
  <2>1. UNCHANGED <<cookie, flows, req, logins>>
    BY <1>1, ElsewhereEffect DEF Rotate, Tick, Provision
  <2>2. Onwards
    BY <1>1, ElsewhereKeeps, IdpTypeInv, ProvisionTypeInv
  <2>3. Kept
    BY <2>1 DEF Kept
  <2> QED
    BY <2>1, <2>2, <2>3, BoundIdle
<1>2. CASE UNCHANGED vars
  <2>1. UNCHANGED <<cookie, flows, users, req, logins>>
    BY <1>2 DEF vars
  <2>2. Onwards /\ Kept
    BY <2>1, SameFlows DEF Kept
  <2> QED
    BY <2>1, <2>2, BoundIdle
<1> QED
  BY <1>1, <1>2, BoundStart, BoundSignIn, BoundArrive, BoundCallback DEF Next, Elsewhere

(* A flow ends in the browser that started it, for the subject that signed *)
(* in there, and in one login: whatever state and code a browser comes     *)
(* with, and however often, since the cookie outlives the callback         *)
(* (OAuthStateManager.verify, clear_state_cookie, the nonce of the token). *)
THEOREM BoundToBrowserHolds == Spec => []BoundToBrowser
<1>1. Init => Bound
  BY DEF Init, Bound, BoundToBrowser, Past
<1>2. TypeInv /\ Bound /\ [Next]_vars => Bound'
  BY BoundStep
<1>3. Bound => BoundToBrowser
  BY DEF Bound
<1> QED
  BY <1>1, <1>2, <1>3, TypeCorrect, PTL DEF Spec

-----------------------------------------------------------------------------
(* The accounts *)

(* What every step leaves of the accounts there are. *)
UsersOnwards == \A u \in 1..Len(users) : Since(users[u], users'[u])

LEMMA UserAt ==
    ASSUME TypeInv, NEW u \in 1..Len(users)
    PROVE  users[u] \in User /\ users[u].version \in Int /\ Since(users[u], users[u])
<1>1. users[u] \in User
  BY ElementOfSeq DEF TypeInv
<1>2. users[u].version \in Int
  BY <1>1, OAuthAssumption DEF User
<1> QED
  BY <1>1, <1>2 DEF Since

LEMMA UsersStep == TypeInv /\ [Next]_vars => UsersOnwards
<1> SUFFICES ASSUME TypeInv, [Next]_vars PROVE UsersOnwards
  OBVIOUS
<1>1. CASE UNCHANGED users
  BY <1>1, UserAt DEF UsersOnwards
<1>2. ASSUME NEW x \in User, users' = Append(users, x) PROVE UsersOnwards
  BY <1>2, NewUser, UserAt DEF UsersOnwards
<1>3. ASSUME NEW u \in 1..Len(users), NEW x \in User,
             users' = [users EXCEPT ![u] = x], Since(users[u], x)
      PROVE  UsersOnwards
  BY <1>3, OneUser, UserAt DEF UsersOnwards
<1>4. CASE \E s \in Slots : Create(s)
  <2>1. PICK s \in Slots : Create(s)
    BY <1>4
  <2>2. UNCHANGED users \/ users' = Append(users, Account(Email[flows[req[s].code].who],
                                                          flows[req[s].code].who))
    BY <2>1, CreateEffect
  <2>3. flows[req[s].code].who \in Subjects
    BY <2>1, CreateEffect, Busy
  <2> QED
    BY <1>1, <1>2, <2>2, <2>3, AccountType, OAuthAssumption
<1>5. CASE Provision
  BY <1>2, <1>5, AccountType DEF Provision
<1>6. CASE Elsewhere
  BY <1>1, <1>3, <1>6, ElsewhereEffect
<1>7. CASE \/ \E b \in Browsers : Start(b) \/ \E s \in Slots : Arrive(s, b)
           \/ \E f \in 1..Len(flows) : SignIn(f)
           \/ \E s \in Slots : Fail(s) \/ Exchange(s) \/ UseKey(s) \/ Locked(s) \/ Fetch(s)
                               \/ Store(s) \/ Lookup(s) \/ Mint(s)
           \/ Rotate \/ Tick \/ UNCHANGED vars
  <2>1. UNCHANGED users
    BY <1>7 DEF Start, Arrive, SignIn, Fail, Exchange, UseKey, Locked, Fetch, Store, Lookup, Mint,
                Rotate, Tick, accounts, vars
  <2> QED
    BY <1>1, <2>1
<1> QED
  BY <1>4, <1>5, <1>6, <1>7 DEF Next, Step, Elsewhere

(* Whose the account of a callback or login may be. *)
Own(u, who) == users[u].origin = who

(* Who is linked to an account has created it or was linked to it by the   *)
(* operator, and stays linked to it while it is there.                     *)
Linked ==
    /\ \A who \in Subjects : link[who] # 0 => Own(link[who], who)
    /\ \A u \in 1..Len(users) :
          users[u].there /\ users[u].origin # NoOne => link[users[u].origin] = u
    /\ \A u, v \in 1..Len(users) :
          u # v /\ users[u].there /\ users[v].there => users[u].email # users[v].email

Owned ==
    /\ \A s \in Slots : req[s] # NoOne /\ req[s].pc = "version" =>
          Own(req[s].user, flows[req[s].code].who)
    /\ NeverByEmail

LEMMA LinkOf ==
    ASSUME TypeInv, NEW who \in Subjects, link[who] # 0 PROVE link[who] \in 1..Len(users)
<1>1. link[who] \in 0..Len(users)
  BY DEF TypeInv, TypeOK
<1> QED
  BY <1>1, Lengths

LEMMA OwnKept ==
    ASSUME UsersOnwards, NEW u \in 1..Len(users), NEW who, Own(u, who) PROVE Own(u, who)'
BY DEF UsersOnwards, Since, Own

(* A new account of nobody, or of the subject the link is for. *)
LEMMA LinkedNew ==
    ASSUME TypeInv, Linked, NEW e \in Emails, NEW who \in Subjects \cup {NoOne},
           users' = Append(users, Account(e, who)), ~Taken(e),
           \/ who = NoOne /\ UNCHANGED link
           \/ /\ who \in Subjects /\ link[who] = 0
              /\ link' = [link EXCEPT ![who] = Len(users) + 1]
    PROVE  Linked'
<1> DEFINE new == Len(users) + 1
<1>1. /\ Len(users') = new /\ Len(users) \in Nat
      /\ \A u \in 1..Len(users) : users'[u] = users[u]
      /\ users'[new] = Account(e, who)
  BY AccountType, NewUser, Lengths
<1>2. /\ users'[new].email = e /\ users'[new].origin = who /\ users'[new].there
  BY <1>1 DEF Account
<1>3. \A u \in 1..Len(users) : users[u].there => users[u].email # e
  BY DEF Taken
<1>4. \A u, v \in 1..Len(users') :
          u # v /\ users'[u].there /\ users'[v].there => users'[u].email # users'[v].email
  <2>1. \A u \in 1..Len(users') : u \in 1..Len(users) \/ u = new
    BY <1>1
  <2> QED
    BY <1>1, <1>2, <1>3, <2>1 DEF Linked
<1>5. NoOne \notin Subjects /\ link \in [Subjects -> 0..Len(users)]
  BY OAuthAssumption DEF TypeInv, TypeOK
<1>6. \A t \in Subjects : t # who => link'[t] = link[t]
  BY <1>5
<1>7. who # NoOne => link'[who] = new /\ link[who] = 0
  BY <1>5
<1>8. ASSUME NEW t \in Subjects, link'[t] # 0
      PROVE  users'[link'[t]].origin = t
  <2>1. CASE t = who
    BY <1>2, <1>5, <1>7, <2>1 DEF Own
  <2>2. CASE t # who
    <3>1. link'[t] = link[t] /\ link[t] \in 1..Len(users) /\ Own(link[t], t)
      BY <1>6, <1>8, <2>2, LinkOf DEF Linked
    <3> QED
      BY <1>1, <3>1 DEF Own
  <2> QED
    BY <2>1, <2>2
<1>9. ASSUME NEW u \in 1..Len(users'), users'[u].there, users'[u].origin # NoOne
      PROVE  link'[users'[u].origin] = u
  <2>1. CASE u = new
    BY <1>2, <1>7, <1>9, <2>1
  <2>2. CASE u # new
    <3>1. u \in 1..Len(users) /\ users'[u] = users[u] /\ users[u] \in User
      BY <1>1, <2>2, UserAt
    <3>2. link[users[u].origin] = u /\ users[u].origin \in Subjects
      BY <1>9, <3>1 DEF Linked, User
    <3>3. users[u].origin # who
      BY <1>7, <1>9, <3>1, <3>2
    <3> QED
      BY <1>6, <3>1, <3>2, <3>3
  <2> QED
    BY <2>1, <2>2
<1> QED
  BY <1>4, <1>8, <1>9 DEF Linked, Own

LEMMA LinkedOne ==
    ASSUME TypeInv, Linked, Elsewhere, ~UNCHANGED <<users, link>> PROVE Linked'
<1>1. PICK u \in 1..Len(users), x \in User :
         /\ users' = [users EXCEPT ![u] = x] /\ Since(users[u], x)
         /\ \/ UNCHANGED link /\ x.there
            \/ /\ ~x.there
               /\ link' = [s \in Subjects |-> IF link[s] = u THEN 0 ELSE link[s]]
  BY ElsewhereEffect
<1>2. /\ Len(users') = Len(users)
      /\ \A v \in 1..Len(users) : users'[v] = IF v = u THEN x ELSE users[v]
  BY <1>1, OneUser
<1>3. \A v \in 1..Len(users) : /\ users'[v].email = users[v].email
                               /\ users'[v].origin = users[v].origin
                               /\ users'[v].there => users[v].there
  BY <1>1, <1>2 DEF Since
<1>4. link \in [Subjects -> 0..Len(users)] /\ Len(users) \in Nat
  BY Lengths DEF TypeInv, TypeOK
<1>5. /\ \A t \in Subjects : link'[t] \in {0, link[t]}
      /\ \A t \in Subjects : link[t] # u => link'[t] = link[t]
  BY <1>1, <1>4
<1>6. ASSUME NEW t \in Subjects, link'[t] # 0
      PROVE  users'[link'[t]].origin = t
  <2>1. link'[t] = link[t] /\ Own(link[t], t) /\ link[t] \in 1..Len(users)
    BY <1>5, <1>6, LinkOf DEF Linked
  <2> QED
    BY <1>3, <2>1 DEF Own
<1>7. ASSUME NEW v \in 1..Len(users'), users'[v].there, users'[v].origin # NoOne
      PROVE  link'[users'[v].origin] = v
  <2>1. /\ v \in 1..Len(users) /\ users[v].there /\ users[v] \in User
        /\ users'[v].origin = users[v].origin
    BY <1>2, <1>3, <1>7, UserAt
  <2>2. link[users[v].origin] = v /\ users[v].origin \in Subjects
    BY <1>7, <2>1 DEF Linked, User
  <2>3. CASE v # u
    BY <1>5, <2>1, <2>2, <2>3
  <2>4. CASE v = u
    <3>1. UNCHANGED link
      BY <1>1, <1>2, <1>7, <2>1, <2>4
    <3> QED
      BY <2>1, <2>2, <3>1
  <2> QED
    BY <2>3, <2>4
<1>8. \A v, w \in 1..Len(users') :
          v # w /\ users'[v].there /\ users'[w].there => users'[v].email # users'[w].email
  BY <1>2, <1>3 DEF Linked
<1> QED
  BY <1>6, <1>7, <1>8 DEF Linked, Own

LEMMA LinkedStep == TypeInv /\ Linked /\ [Next]_vars => Linked'
<1> SUFFICES ASSUME TypeInv, Linked, [Next]_vars PROVE Linked'
  OBVIOUS
<1>1. CASE UNCHANGED <<users, link>>
  BY <1>1 DEF Linked, Own
<1>2. CASE \E s \in Slots : Create(s)
  <2>1. PICK s \in Slots : Create(s)
    BY <1>2
  <2> DEFINE who == flows[req[s].code].who
  <2>2. who \in Subjects /\ Email[who] \in Emails
    BY <2>1, CreateEffect, Busy, OAuthAssumption
  <2>3. \/ UNCHANGED <<users, link>>
        \/ /\ ~Taken(Email[who]) /\ link[who] = 0
           /\ users' = Append(users, Account(Email[who], who))
           /\ link' = [link EXCEPT ![who] = Len(users) + 1]
    BY <2>1, CreateEffect DEF Unique
  <2> QED
    BY <1>1, <2>2, <2>3, LinkedNew
<1>3. CASE Provision
  <2>1. \E e \in Emails : ~Taken(e) /\ users' = Append(users, Account(e, NoOne))
    BY <1>3, ProvisionEffect
  <2> QED
    BY <1>3, <2>1, LinkedNew DEF Provision
<1>4. CASE Elsewhere
  BY <1>1, <1>4, LinkedOne
<1>5. CASE \/ \E b \in Browsers : Start(b) \/ \E s \in Slots : Arrive(s, b)
           \/ \E f \in 1..Len(flows) : SignIn(f)
           \/ \E s \in Slots : Fail(s) \/ Exchange(s) \/ UseKey(s) \/ Locked(s) \/ Fetch(s)
                               \/ Store(s) \/ Lookup(s) \/ Mint(s)
           \/ Rotate \/ Tick \/ UNCHANGED vars
  <2>1. UNCHANGED <<users, link>>
    BY <1>5 DEF Start, Arrive, SignIn, Fail, Exchange, UseKey, Locked, Fetch, Store, Lookup, Mint,
                Rotate, Tick, accounts, vars
  <2> QED
    BY <1>1, <2>1
<1> QED
  BY <1>2, <1>3, <1>4, <1>5 DEF Next, Step, Elsewhere

LEMMA InitLinked == Init => Linked
<1> SUFFICES ASSUME Init PROVE Linked
  OBVIOUS
<1>1. PICK linked \in Subjects \cup {NoOne} :
         /\ users = <<Account(LocalEmail, linked)>>
         /\ link = [s \in Subjects |-> IF s = linked THEN 1 ELSE 0]
  BY DEF Init
<1>2. Len(users) = 1 /\ users[1].origin = linked
  BY <1>1 DEF Account
<1>3. \A who \in Subjects : link[who] # 0 => link[who] = 1 /\ who = linked
  BY <1>1
<1>4. linked # NoOne => link[linked] = 1
  BY <1>1
<1> QED
  BY <1>2, <1>3, <1>4 DEF Linked, Own

(* One subject has one account, and so has one address, however the first  *)
(* sign-ins of one subject or of two overlap between their look-up and     *)
(* their insert (ExternalIdentity's and User's unique constraints).        *)
THEOREM OneAccountHolds == Spec => []OneAccount
<1>1. TypeInv /\ Linked => OneAccount
  BY DEF Linked, OneAccount
<1> QED
  BY <1>1, InitLinked, LinkedStep, TypeCorrect, PTL DEF Spec

LEMMA UserOfLogin ==
    ASSUME TypeInv, NEW l \in logins
    PROVE  l.user \in 1..Len(users) /\ l.version \in Int /\ l.floor \in Int
BY Lengths, OAuthAssumption DEF TypeInv, TypeOK, Logged, Login, Uids

LEMMA OwnedMove ==
    ASSUME TypeInv, Owned, Onwards, UsersOnwards, UNCHANGED logins,
           NEW s \in Slots, NEW n, Moved(s, n),
           n # NoOne /\ n.pc = "version" =>
               users'[n.user].origin = flows'[n.code].who
    PROVE  Owned'
<1>1. ASSUME NEW o \in Slots, o # s, req'[o] # NoOne, req'[o].pc = "version"
      PROVE  users'[req'[o].user].origin = flows'[req'[o].code].who
  <2>1. req'[o] = req[o] /\ req[o] # NoOne /\ req[o].pc = "version"
    BY <1>1 DEF Moved
  <2>2. /\ req[o].code \in 1..Len(flows) /\ flows[req[o].code].who \in Subjects
        /\ req[o].user \in 1..Len(users)
    BY <2>1, Busy DEF TypeInv, Steps
  <2>3. flows'[req[o].code].who = flows[req[o].code].who
    BY <2>2, OAuthAssumption DEF Onwards
  <2>4. users'[req[o].user].origin = users[req[o].user].origin
    BY <2>2 DEF UsersOnwards, Since
  <2> QED
    BY <2>1, <2>3, <2>4 DEF Owned, Own
<1>2. NeverByEmail'
  <2>1. \A l \in logins : users'[l.user].origin = users[l.user].origin
    BY UserOfLogin DEF UsersOnwards, Since
  <2> QED
    BY <2>1 DEF Owned, NeverByEmail
<1> QED
  BY <1>1, <1>2 DEF Owned, Own, Moved

LEMMA OwnedIdle ==
    ASSUME TypeInv, Owned, Onwards, UsersOnwards, UNCHANGED <<req, logins>> PROVE Owned'
<1>1. ASSUME NEW s \in Slots, req[s] # NoOne, req[s].pc = "version"
      PROVE  users'[req[s].user].origin = flows'[req[s].code].who
  <2>1. /\ req[s].code \in 1..Len(flows) /\ flows[req[s].code].who \in Subjects
        /\ req[s].user \in 1..Len(users)
    BY <1>1, Busy DEF TypeInv, Steps
  <2>2. flows'[req[s].code].who = flows[req[s].code].who
    BY <2>1, OAuthAssumption DEF Onwards
  <2>3. users'[req[s].user].origin = users[req[s].user].origin
    BY <2>1 DEF UsersOnwards, Since
  <2> QED
    BY <1>1, <2>2, <2>3 DEF Owned, Own
<1>2. \A l \in logins : users'[l.user].origin = users[l.user].origin
  BY UserOfLogin DEF UsersOnwards, Since
<1> QED
  BY <1>1, <1>2 DEF Owned, Own, NeverByEmail

LEMMA OwnedCallback ==
    ASSUME TypeInv, Linked, Owned, Onwards, UsersOnwards, NEW s \in Slots, Step(s)
    PROVE  Owned'
<1> DEFINE who == flows[req[s].code].who
<1>1. CASE Fail(s) \/ Exchange(s) \/ UseKey(s) \/ Locked(s) \/ Fetch(s) \/ Store(s)
  <2>1. UNCHANGED logins
    BY <1>1 DEF Fail, Exchange, UseKey, Locked, Fetch, Store
  <2>2. \E n : Goto(s, n) /\ (n # NoOne => n.pc # "version")
    <3>1. CASE Fail(s)
      BY <3>1 DEF Fail, Goto
    <3>2. CASE Exchange(s)
      BY <3>2, ExchangeEffect
    <3>3. CASE UseKey(s) \/ Locked(s) \/ Fetch(s) \/ Store(s)
      BY <3>3, KeyEffect
    <3> QED
      BY <1>1, <3>1, <3>2, <3>3
  <2> QED
    BY <2>1, <2>2, Moves, OwnedMove
<1>2. CASE Lookup(s)
  <2>1. UNCHANGED <<flows, users, logins>> /\ who \in Subjects
    BY <1>2, LookupEffect, Busy
  <2>2. PICK n \in Callback :
          /\ Goto(s, n) /\ n.code = req[s].code
          /\ n.pc = "version" => n.user = link[who] /\ n.user \in 1..Len(users)
    BY <1>2, LookupEffect DEF Stays
  <2>3. n.pc = "version" => Own(n.user, who)
    BY <2>1, <2>2 DEF Linked
  <2> QED
    BY <2>1, <2>2, <2>3, Moves, OwnedMove DEF Own
<1>3. CASE Create(s)
  <2>1. UNCHANGED <<flows, logins>> /\ who \in Subjects /\ Email[who] \in Emails
    BY <1>3, CreateEffect, Busy, OAuthAssumption
  <2>2. CASE Goto(s, NoOne)
    BY <2>1, <2>2, Moves, OwnedMove
  <2>3. CASE ~Goto(s, NoOne)
    <3>1. users' = Append(users, Account(Email[who], who))
      BY <1>3, <2>3, CreateEffect
    <3>2. PICK n : Goto(s, n) /\ n.code = req[s].code /\ n.user = Len(users) + 1
      BY <1>3, <2>3, CreateEffect DEF Stays
    <3>3. users'[n.user].origin = who
      BY <2>1, <3>1, <3>2, AccountType, NewUser DEF Account
    <3> QED
      BY <2>1, <3>2, <3>3, Moves, OwnedMove, OAuthAssumption
  <2> QED
    BY <2>2, <2>3
<1>4. CASE Mint(s)
  <2>1. /\ UNCHANGED <<flows, users>> /\ Moved(s, NoOne) /\ logins' = logins \cup {Ticket(s)}
        /\ req[s] # NoOne /\ req[s].pc = "version"
    BY <1>4, MintEffect, Moves
  <2>2. Ticket(s).user = req[s].user /\ Ticket(s).subject = who
    BY DEF Ticket
  <2>3. Own(req[s].user, who)
    BY <2>1 DEF Owned
  <2>4. NeverByEmail'
    BY <2>1, <2>2, <2>3 DEF Owned, NeverByEmail, Own
  <2> QED
    BY <2>1, <2>4 DEF Owned, Own, Moved
<1> QED
  BY <1>1, <1>2, <1>3, <1>4 DEF Step

LEMMA OwnedStep == TypeInv /\ Linked /\ Owned /\ [Next]_vars => Owned'
<1> SUFFICES ASSUME TypeInv, Linked, Owned, [Next]_vars PROVE Owned'
  OBVIOUS
<1>1. UsersOnwards
  BY UsersStep
<1>2. Onwards
  <2>1. CASE UNCHANGED vars
    BY <2>1, SameFlows DEF vars
  <2> QED
    BY <2>1, TypeInvStep
<1>3. CASE \E s \in Slots : Step(s)
  BY <1>1, <1>2, <1>3, OwnedCallback
<1>4. CASE \E b \in Browsers, s \in Slots : Arrive(s, b)
  <2>1. PICK b \in Browsers, s \in Slots : Arrive(s, b)
    BY <1>4
  <2>2. \E n : Goto(s, n) /\ n.pc = "exchange"
    BY <2>1, ArriveEffect
  <2> QED
    BY <1>1, <1>2, <2>1, <2>2, Moves, OwnedMove DEF Arrive
<1>5. CASE \/ \E b \in Browsers : Start(b)
           \/ \E f \in 1..Len(flows) : SignIn(f)
           \/ Elsewhere \/ Rotate \/ Tick \/ Provision \/ UNCHANGED vars
  <2>1. UNCHANGED <<req, logins>>
    BY <1>5, ElsewhereEffect DEF Start, SignIn, Rotate, Tick, Provision, vars
  <2> QED
    BY <1>1, <1>2, <2>1, OwnedIdle
<1> QED
  BY <1>3, <1>4, <1>5 DEF Next, Elsewhere

(* A subject gets into the account its first sign-in has made, or the one  *)
(* the operator has linked to it, and never into one that only has the     *)
(* same address, be it the local one or somebody else's, also when the     *)
(* account it had is deleted and another is made                           *)
(* (find_or_create_by_external_identity).                                  *)
THEOREM NeverByEmailHolds == Spec => []NeverByEmail
<1>1. Init => Owned
  BY DEF Init, Owned, NeverByEmail
<1>2. TypeInv /\ Linked /\ Owned /\ [Next]_vars => Owned'
  BY OwnedStep
<1>3. Owned => NeverByEmail
  BY DEF Owned
<1> QED
  BY <1>1, <1>2, <1>3, InitLinked, LinkedStep, TypeCorrect, PTL DEF Spec

-----------------------------------------------------------------------------
(* The versions *)

(* One request or command that raises a version at a time.  Two that have  *)
(* loaded the same row write the same version, and one that is late may    *)
(* write a lower one.                                                      *)
SerialBumps == \A a, b \in BumpSlots : a = b

(* A loaded version is still the one of the row. *)
Unmoved == \A j \in BumpSlots : bump[j] # NoOne => bump[j].version = users[bump[j].user].version

VersionsUp == \A u \in 1..Len(users) : users'[u].version >= users[u].version

LEMMA VersionsKept ==
    ASSUME TypeInv, [Next]_vars, ~\E j \in BumpSlots : SaveBump(j)
    PROVE  \A u \in 1..Len(users) : users'[u].version = users[u].version
<1> DEFINE Same == \A u \in 1..Len(users) : users'[u].version = users[u].version
<1>1. CASE UNCHANGED users
  BY <1>1
<1>2. ASSUME NEW x \in User, users' = Append(users, x) PROVE Same
  BY <1>2, NewUser
<1>3. ASSUME NEW u \in 1..Len(users), NEW x \in User,
             users' = [users EXCEPT ![u] = x], x.version = users[u].version
      PROVE  Same
  BY <1>3, OneUser
<1> HIDE DEF Same
<1>4. CASE \E s \in Slots : Create(s)
  <2>1. PICK s \in Slots : Create(s)
    BY <1>4
  <2>2. UNCHANGED users \/ users' = Append(users, Account(Email[flows[req[s].code].who],
                                                          flows[req[s].code].who))
    BY <2>1, CreateEffect
  <2>3. flows[req[s].code].who \in Subjects
    BY <2>1, CreateEffect, Busy
  <2> QED
    BY <1>1, <1>2, <2>2, <2>3, AccountType, OAuthAssumption DEF Same
<1>5. CASE Provision
  BY <1>2, <1>5, AccountType DEF Provision, Same
<1>6. CASE \E u \in 1..Len(users) : Switch(u) \/ Delete(u) \/ \E j \in BumpSlots : LoadBump(j, u)
  <2>1. PICK u \in 1..Len(users) : Switch(u) \/ Delete(u) \/ \E j \in BumpSlots : LoadBump(j, u)
    BY <1>6
  <2>2. CASE Switch(u)
    BY <1>3, <2>2, SwitchEffect DEF Same
  <2>3. CASE Delete(u)
    BY <1>3, <2>3, DeleteEffect DEF Same
  <2>4. CASE \E j \in BumpSlots : LoadBump(j, u)
    BY <1>1, <2>4 DEF LoadBump
  <2> QED
    BY <2>1, <2>2, <2>3, <2>4
<1>7. CASE \/ \E b \in Browsers : Start(b) \/ \E s \in Slots : Arrive(s, b)
           \/ \E f \in 1..Len(flows) : SignIn(f)
           \/ \E s \in Slots : Fail(s) \/ Exchange(s) \/ UseKey(s) \/ Locked(s) \/ Fetch(s)
                               \/ Store(s) \/ Lookup(s) \/ Mint(s)
           \/ Rotate \/ Tick \/ UNCHANGED vars
  <2>1. UNCHANGED users
    BY <1>7 DEF Start, Arrive, SignIn, Fail, Exchange, UseKey, Locked, Fetch, Store, Lookup, Mint,
                Rotate, Tick, accounts, vars
  <2> QED
    BY <1>1, <2>1
<1> QED
  BY <1>4, <1>5, <1>6, <1>7 DEF Next, Step, Same

LEMMA BumpsKept ==
    ASSUME TypeInv, [Next]_vars, ~\E j \in BumpSlots : SaveBump(j)
    PROVE  \/ UNCHANGED bump
           \/ \E u \in 1..Len(users), j \in BumpSlots : LoadBump(j, u)
BY DEF Next, Step, Start, Arrive, SignIn, Fail, Exchange, UseKey, Locked, Fetch, Store, Lookup,
       Create, Mint, Rotate, Tick, Provision, Switch, Delete, accounts, vars

LEMMA UnmovedStep ==
    ASSUME SerialBumps, TypeInv, Unmoved, [Next]_vars PROVE Unmoved' /\ VersionsUp
<1>1. \A u \in 1..Len(users) : users[u].version \in Int
  BY UserAt
<1>2. \A j \in BumpSlots : bump[j] # NoOne => bump[j].user \in 1..Len(users)
  BY BumpAt
<1>3. bump \in [BumpSlots -> Bump \cup {NoOne}]
  BY DEF TypeInv, TypeOK
<1>4. CASE \E j \in BumpSlots : SaveBump(j)
  <2>1. PICK j \in BumpSlots : SaveBump(j)
    BY <1>4
  <2>2. \A k \in BumpSlots : bump'[k] = NoOne
    BY <1>3, <2>1 DEF SaveBump, SerialBumps
  <2>3. bump[j].user \in 1..Len(users) /\ bump[j].version = users[bump[j].user].version
    BY <1>2, <2>1 DEF SaveBump, Unmoved
  <2>4. ASSUME UNCHANGED users PROVE VersionsUp
    BY <1>1, <2>4 DEF VersionsUp
  <2>5. ASSUME ~UNCHANGED users PROVE VersionsUp
    <3>1. PICK x \in User : /\ users' = [users EXCEPT ![bump[j].user] = x]
                            /\ x.version = users[bump[j].user].version + 1
      BY <2>1, <2>3, <2>5, SaveEffect
    <3>2. \A u \in 1..Len(users) : \/ users'[u] = users[u]
                                   \/ users'[u].version = users[u].version + 1
      BY <2>3, <3>1, OneUser
    <3> QED
      BY <1>1, <3>2 DEF VersionsUp
  <2> QED
    BY <2>2, <2>4, <2>5 DEF Unmoved
<1>5. CASE ~\E j \in BumpSlots : SaveBump(j)
  <2>1. \A u \in 1..Len(users) : users'[u].version = users[u].version
    BY <1>5, VersionsKept
  <2>2. VersionsUp
    BY <1>1, <2>1 DEF VersionsUp
  <2>3. ASSUME UNCHANGED bump PROVE Unmoved'
    BY <1>2, <2>1, <2>3 DEF Unmoved
  <2>4. ASSUME \E u \in 1..Len(users), j \in BumpSlots : LoadBump(j, u) PROVE Unmoved'
    <3>1. PICK u \in 1..Len(users), j \in BumpSlots : LoadBump(j, u)
      BY <2>4
    <3>2. bump' = [bump EXCEPT ![j] = [user |-> u, version |-> users[u].version]]
      BY <3>1 DEF LoadBump
    <3>3. \A k \in BumpSlots : \/ bump'[k] = bump[k]
                               \/ bump'[k].user = u /\ bump'[k].version = users[u].version
      BY <1>3, <3>2
    <3> QED
      BY <1>2, <2>1, <3>3 DEF Unmoved
  <2> QED
    BY <1>5, <2>2, <2>3, <2>4, BumpsKept
<1> QED
  BY <1>4, <1>5

(* The account that was linked on arrival has no smaller version by now.   *)
Current ==
    /\ \A s \in Slots : req[s] # NoOne /\ req[s].was # 0 /\ users[req[s].was].there =>
          users[req[s].was].version >= req[s].floor
    /\ VersionIsCurrent

LEMMA Versions ==
    ASSUME TypeInv, NEW s \in Slots, req[s] # NoOne
    PROVE  req[s].was \in 0..Len(users) /\ req[s].floor \in Int
BY Busy, Lengths, OAuthAssumption DEF TypeInv, Steps, Callback

LEMMA AtLeast ==
    ASSUME TypeInv, UsersOnwards, VersionsUp, Len(users') \in Nat, Len(users) <= Len(users'),
           users' \in Seq(User), NEW u \in 1..Len(users), users'[u].there
    PROVE  /\ users[u].there /\ users'[u].version >= users[u].version
           /\ users[u].version \in Int /\ users'[u].version \in Int
<1>1. Since(users[u], users'[u])
  BY DEF UsersOnwards
<1>2. u \in 1..Len(users') /\ Len(users) \in Nat
  BY Lengths
<1>3. users'[u] \in User
  BY <1>2, ElementOfSeq
<1>4. users'[u].version \in Int
  BY <1>3, OAuthAssumption DEF User
<1> QED
  BY <1>1, <1>4, UserAt DEF Since, VersionsUp

LEMMA CurrentMove ==
    ASSUME TypeInv, Current, Onwards, UsersOnwards, VersionsUp, UNCHANGED logins,
           NEW s \in Slots, NEW n, Moved(s, n),
           n # NoOne => \/ req[s] # NoOne /\ Stays(req[s], n)
                        \/ n.was \in 0..Len(users) /\ n.floor = Version(n.was)
    PROVE  Current'
<1>1. Len(users') \in Nat /\ Len(users) <= Len(users') /\ users' \in Seq(User)
  BY LenProperties DEF Onwards
<1>2. ASSUME NEW q, q.was \in 1..Len(users), users'[q.was].there, q.floor \in Int,
             users[q.was].there => users[q.was].version >= q.floor
      PROVE  users'[q.was].version >= q.floor
  BY <1>1, <1>2, AtLeast
<1>3. ASSUME NEW o \in Slots, req[o] # NoOne, req[o].was # 0, users'[req[o].was].there
      PROVE  users'[req[o].was].version >= req[o].floor
  <2>1. req[o].was \in 1..Len(users) /\ req[o].floor \in Int
    BY <1>3, Versions, Lengths
  <2> QED
    BY <1>2, <1>3, <2>1 DEF Current
<1>4. ASSUME n # NoOne, n.was # 0, users'[n.was].there
      PROVE  users'[n.was].version >= n.floor
  <2>1. CASE req[s] # NoOne /\ Stays(req[s], n)
    BY <1>3, <1>4, <2>1 DEF Stays
  <2>2. CASE n.was \in 0..Len(users) /\ n.floor = Version(n.was)
    <3>1. n.was \in 1..Len(users)
      BY <1>4, <2>2, Lengths
    <3>2. users[n.was].there /\ users'[n.was].version >= users[n.was].version
      BY <1>1, <1>4, <3>1, AtLeast
    <3>3. n.floor = users[n.was].version
      BY <1>4, <2>2, <3>2 DEF Version
    <3> QED
      BY <3>2, <3>3
  <2> QED
    BY <1>4, <2>1, <2>2
<1>5. VersionIsCurrent'
  <2>1. \A l \in logins : users'[l.user].there => users[l.user].there
    BY <1>1, UserOfLogin, AtLeast
  <2> QED
    BY <2>1 DEF Current, VersionIsCurrent
<1> QED
  BY <1>3, <1>4, <1>5 DEF Current, Moved

LEMMA CurrentIdle ==
    ASSUME TypeInv, Current, Onwards, UsersOnwards, VersionsUp, UNCHANGED <<req, logins>>
    PROVE  Current'
<1>1. CASE Slots = {}
  <2>1. Len(users') \in Nat /\ Len(users) <= Len(users') /\ users' \in Seq(User)
    BY LenProperties DEF Onwards
  <2>2. \A l \in logins : users'[l.user].there => users[l.user].there
    BY <2>1, UserOfLogin, AtLeast
  <2> QED
    BY <1>1, <2>2 DEF Current, VersionIsCurrent
<1>2. ASSUME NEW s \in Slots PROVE Current'
  <2>1. Moved(s, req[s])
    BY DEF Moved
  <2> QED
    BY <2>1, CurrentMove DEF Stays
<1> QED
  BY <1>1, <1>2

LEMMA CurrentMint ==
    ASSUME TypeInv, Current, NEW s \in Slots, Mint(s) PROVE Current'
<1> DEFINE q == req[s]
<1> DEFINE l == Ticket(s)
<1>1. /\ UNCHANGED users /\ Moved(s, NoOne) /\ logins' = logins \cup {l}
      /\ q # NoOne /\ q.pc = "version"
  BY MintEffect, Moves
<1>2. /\ l.user = q.user /\ l.version = Minted(q.user)
      /\ l.floor = IF q.user = q.was THEN q.floor ELSE 0
  BY DEF Ticket
<1>3. q.user \in 1..Len(users)
  BY <1>1 DEF TypeInv, Steps
<1>4. users[q.user].version \in 0..MaxVersion
  BY <1>3, UserAt DEF User
<1>5. ASSUME users[q.user].there PROVE l.version >= l.floor
  <2>1. l.version = users[q.user].version
    BY <1>2, <1>3, <1>5, Lengths DEF Minted, Version
  <2>2. CASE q.user = q.was
    BY <1>1, <1>2, <1>3, <1>5, <2>1, <2>2, Lengths DEF Current
  <2>3. CASE q.user # q.was
    BY <1>2, <1>4, <2>1, <2>3, OAuthAssumption
  <2> QED
    BY <2>2, <2>3
<1>6. VersionIsCurrent'
  BY <1>1, <1>2, <1>5 DEF Current, VersionIsCurrent
<1> QED
  BY <1>1, <1>6 DEF Current, Moved

LEMMA CurrentStep ==
    ASSUME SerialBumps, TypeInv, Unmoved, Current, [Next]_vars PROVE Current'
<1>1. UsersOnwards /\ VersionsUp
  BY UsersStep, UnmovedStep
<1>2. Onwards
  <2>1. CASE UNCHANGED vars
    BY <2>1, SameFlows DEF vars
  <2> QED
    BY <2>1, TypeInvStep
<1>3. CASE \E s \in Slots : Fail(s) \/ Exchange(s) \/ UseKey(s) \/ Locked(s) \/ Fetch(s)
                            \/ Store(s) \/ Lookup(s) \/ Create(s)
  <2>1. PICK s \in Slots : Fail(s) \/ Exchange(s) \/ UseKey(s) \/ Locked(s) \/ Fetch(s)
                           \/ Store(s) \/ Lookup(s) \/ Create(s)
    BY <1>3
  <2>2. UNCHANGED logins
    BY <2>1 DEF Fail, Exchange, UseKey, Locked, Fetch, Store, Lookup, Create
  <2>3. \E n : Goto(s, n) /\ (n # NoOne => req[s] # NoOne /\ Stays(req[s], n))
    <3>1. CASE Fail(s)
      BY <3>1 DEF Fail, Goto
    <3>2. CASE Exchange(s)
      BY <3>2, ExchangeEffect
    <3>3. CASE UseKey(s) \/ Locked(s) \/ Fetch(s) \/ Store(s)
      BY <3>3, KeyEffect
    <3>4. CASE Lookup(s)
      BY <3>4, LookupEffect
    <3>5. CASE Create(s)
      BY <3>5, CreateEffect
    <3> QED
      BY <2>1, <3>1, <3>2, <3>3, <3>4, <3>5
  <2> QED
    BY <1>1, <1>2, <2>2, <2>3, Moves, CurrentMove
<1>4. CASE \E b \in Browsers, s \in Slots : Arrive(s, b)
  <2>1. PICK b \in Browsers, s \in Slots : Arrive(s, b)
    BY <1>4
  <2>2. \E n : Goto(s, n) /\ n.was \in 0..Len(users) /\ n.floor = Version(n.was)
    BY <2>1, ArriveEffect
  <2> QED
    BY <1>1, <1>2, <2>1, <2>2, Moves, CurrentMove DEF Arrive
<1>5. CASE \/ \E b \in Browsers : Start(b)
           \/ \E f \in 1..Len(flows) : SignIn(f)
           \/ Elsewhere \/ Rotate \/ Tick \/ Provision \/ UNCHANGED vars
  <2>1. UNCHANGED <<req, logins>>
    BY <1>5, ElsewhereEffect DEF Start, SignIn, Rotate, Tick, Provision, vars
  <2> QED
    BY <1>1, <1>2, <2>1, CurrentIdle
<1> QED
  BY <1>3, <1>4, <1>5, CurrentMint DEF Next, Step, Elsewhere

(* When versions are raised one at a time, the token of a login is no      *)
(* older than its callback's arrival: a logout-all before it is not undone *)
(* by it (_read_token_version, which reads after the account's transaction *)
(* and in another session).                                                *)
THEOREM VersionIsCurrentHolds ==
    ASSUME SerialBumps PROVE Spec => []VersionIsCurrent
<1> DEFINE Inv == TypeInv /\ Unmoved /\ Current
<1>1. Init => Unmoved /\ Current
  BY DEF Init, Unmoved, Current, VersionIsCurrent
<1>2. Inv /\ [Next]_vars => Inv'
  BY TypeInvStep, UnmovedStep, CurrentStep
<1>3. Inv => VersionIsCurrent
  BY DEF Current
<1> QED
  BY <1>1, <1>2, <1>3, InitTypeInv, PTL DEF Spec
=============================================================================
