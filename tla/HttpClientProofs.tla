-------------------------- MODULE HttpClientProofs --------------------------
(***************************************************************************)
(* Proofs about the clients of the Go HTTP driver: on whose behalf several *)
(* of them act (LoginSessions, for every number of users, clients,         *)
(* sessions and requests), and what one call of theirs sends and returns   *)
(* (HttpCall, for every set of status codes and bodies).                   *)
(***************************************************************************)
EXTENDS LoginSessions, HttpCall, TLAPS

(* The inductive invariant. *)

Auths == [kind : {"basic", "api", "session"}, user : Users \union {Nobody}, token : Nat]
Clients == [map : Nat, meant : Auths]
Requests == [n : Nat, kind : {"call", "login", "logout"}, client : Nat, auth : Auths, meant : Auths]

Types ==
  /\ clients \in Seq(Clients) /\ maps \in Seq(Auths) /\ net \subseteq Requests /\ count \in Nat
  /\ known \subseteq 1..Len(sessions) /\ live \subseteq 1..Len(sessions) /\ out \subseteq DOMAIN clients
  /\ sessions \in Seq(Users \union {Nobody})

\* A session token is presented only once it was issued.
Issued(auth) == auth.kind = "session" => auth.token \in 1..Len(sessions)

\* Every client's map holds what its caller meant, whoever derived from it.
ClientInv ==
  \A c \in DOMAIN clients :
    /\ clients[c].map \in DOMAIN maps /\ maps[clients[c].map] = clients[c].meant
    /\ Issued(clients[c].meant)

\* A request presents what its caller meant; a logout presents a session
\* token, the one its client was given.
RequestInv ==
  \A r \in net :
    /\ r.auth = r.meant /\ Issued(r.auth)
    /\ r.kind = "logout" => /\ r.auth.kind = "session"
                            /\ r.client \in DOMAIN clients /\ clients[r.client].meant = r.auth

\* What the server did, it did for the user meant, or for nobody.
ActInv == \A a \in acts : Issued(a.meant) /\ a.as \in {UserOf(a.meant), Nobody}

Inv == Types /\ ClientInv /\ RequestInv /\ ActInv /\ LogoutMeansGone

-----------------------------------------------------------------------------
(* Credentials and sequences. *)

LEMMA Credentials ==
  /\ \A u \in Users : /\ Basic(u) \in Auths /\ Basic(u).kind = "basic"
                      /\ ApiToken(u) \in Auths /\ ApiToken(u).kind = "api"
  /\ \A n \in Nat : SessionToken(n) \in Auths /\ SessionToken(n).kind = "session" /\ SessionToken(n).token = n
  BY DEF Basic, ApiToken, SessionToken, Auths

\* Appending leaves what was there.
LEMMA Appended ==
  ASSUME NEW S, NEW s \in Seq(S), NEW x \in S
  PROVE  /\ Append(s, x) \in Seq(S) /\ Len(Append(s, x)) = Len(s) + 1 /\ Len(s) \in Nat
         /\ DOMAIN s = 1..Len(s) /\ DOMAIN Append(s, x) = 1..(Len(s) + 1)
         /\ \A i \in 1..Len(s) : Append(s, x)[i] = s[i]
         /\ Append(s, x)[Len(s) + 1] = x
  OBVIOUS

LEMMA Domains ==
  ASSUME Types
  PROVE  /\ DOMAIN clients = 1..Len(clients) /\ Len(clients) \in Nat
         /\ DOMAIN maps = 1..Len(maps) /\ Len(maps) \in Nat /\ Len(sessions) \in Nat
         /\ \A c \in DOMAIN clients : clients[c] \in Clients
         /\ \A n \in 1..Len(sessions) : sessions[n] \in Users \union {Nobody}
  BY DEF Types

\* The user a request comes from for the server is one, or nobody.
LEMMA IdentityIs ==
  ASSUME Types, NEW auth \in Auths, Issued(auth)
  PROVE  /\ Identity(auth) \in Users \union {Nobody}
         /\ Identity(auth) \in {UserOf(auth), Nobody}
  <1>1. CASE auth.kind # "session"
    BY <1>1 DEF Identity, UserOf, Auths
  <1>2. CASE auth.kind = "session"
    <2>1. auth.token \in 1..Len(sessions)
      BY <1>2 DEF Issued
    <2>2. sessions[auth.token] \in Users \union {Nobody}
      BY <2>1, Domains
    <2> QED BY <1>2, <2>2 DEF Identity, UserOf
  <1> QED BY <1>1, <1>2

\* A request of a client presents the credential its caller means.
LEMMA HeaderIs ==
  ASSUME Inv, NEW c \in DOMAIN clients
  PROVE  /\ Header(c, {}) = clients[c].meant /\ Meant(c, {}) = clients[c].meant
         /\ clients[c].meant \in Auths /\ Issued(clients[c].meant)
         /\ \A u \in Users : Header(c, {Basic(u)}) = Basic(u) /\ Meant(c, {Basic(u)}) = Basic(u)
  <1>1. Types /\ ClientInv
    BY DEF Inv
  <1>2. /\ maps[clients[c].map] = clients[c].meant /\ Issued(clients[c].meant)
        /\ clients[c].meant \in Auths
    BY <1>1, Domains DEF ClientInv, Clients
  <1>3. Header(c, {}) = clients[c].meant /\ Meant(c, {}) = clients[c].meant
    BY <1>2 DEF Header, Meant
  <1>4. ASSUME NEW u \in Users
        PROVE  Header(c, {Basic(u)}) = Basic(u) /\ Meant(c, {Basic(u)}) = Basic(u)
    <2>1. (CHOOSE auth \in {Basic(u)} : TRUE) = Basic(u)
      OBVIOUS
    <2>2. {Basic(u)} # {}
      OBVIOUS
    <2> QED BY <2>1, <2>2 DEF Header, Meant
  <1> QED BY <1>2, <1>3, <1>4

-----------------------------------------------------------------------------
(* The steps. *)

LEMMA InitInv == Init => Inv
  <1> SUFFICES ASSUME Init PROVE Inv
    OBVIOUS
  <1>1. PICK auth \in Auths : maps = <<auth>> /\ auth.kind # "session"
    BY Credentials DEF Init
  <1>2. /\ clients = <<[map |-> 1, meant |-> auth]>> /\ net = {} /\ count = 0 /\ known = {} /\ out = {}
        /\ sessions = <<>> /\ live = {} /\ acts = {}
    BY <1>1 DEF Init
  <1>3. [map |-> 1, meant |-> auth] \in Clients
    BY <1>1 DEF Clients
  <1>4. clients \in Seq(Clients) /\ maps \in Seq(Auths) /\ sessions \in Seq(Users \union {Nobody})
    BY <1>1, <1>2, <1>3
  <1>5. Types
    BY <1>2, <1>4 DEF Types
  <1>6. ClientInv
    <2>1. DOMAIN clients = {1} /\ DOMAIN maps = {1} /\ maps[1] = auth
          /\ clients[1].map = 1 /\ clients[1].meant = auth
      BY <1>1, <1>2
    <2> QED BY <1>1, <2>1 DEF ClientInv, Issued
  <1>7. RequestInv /\ ActInv /\ LogoutMeansGone
    BY <1>2 DEF RequestInv, ActInv, LogoutMeansGone
  <1> QED BY <1>5, <1>6, <1>7 DEF Inv

\* A derived client has a map of its own: every other client keeps its header.
LEMMA WithTokenStep ==
  ASSUME Inv, NEW c \in DOMAIN clients, NEW auth \in Auths, Issued(auth), WithToken(c, auth)
  PROVE  Inv'
  <1>1. /\ maps' = Append(maps, auth) /\ clients' = Append(clients, [map |-> Len(maps'), meant |-> auth])
        /\ net' = net /\ count' = count /\ known' = known /\ out' = out
        /\ sessions' = sessions /\ live' = live /\ acts' = acts
    BY DEF WithToken, server
  <1>2. Types /\ ClientInv /\ RequestInv /\ ActInv /\ LogoutMeansGone
    BY DEF Inv
  <1>3. /\ maps \in Seq(Auths) /\ clients \in Seq(Clients)
    BY <1>2 DEF Types
  <1>4. /\ maps' \in Seq(Auths) /\ Len(maps') = Len(maps) + 1 /\ Len(maps) \in Nat
        /\ DOMAIN maps = 1..Len(maps) /\ DOMAIN maps' = 1..(Len(maps) + 1)
        /\ \A i \in 1..Len(maps) : maps'[i] = maps[i]
        /\ maps'[Len(maps) + 1] = auth
    BY <1>1, <1>3, Appended
  <1>5. PICK new \in Clients : new.map = Len(maps) + 1 /\ new.meant = auth /\ clients' = Append(clients, new)
    <2>1. [map |-> Len(maps'), meant |-> auth] \in Clients
      BY <1>4 DEF Clients
    <2> QED BY <1>1, <1>4, <2>1
  <1>6. /\ clients' \in Seq(Clients) /\ Len(clients) \in Nat
        /\ DOMAIN clients = 1..Len(clients) /\ DOMAIN clients' = 1..(Len(clients) + 1)
        /\ \A i \in 1..Len(clients) : clients'[i] = clients[i]
        /\ clients'[Len(clients) + 1] = new
    BY <1>3, <1>5, Appended
  <1>7. Types'
    BY <1>1, <1>2, <1>4, <1>6 DEF Types
  <1>8. ClientInv'
    <2> SUFFICES ASSUME NEW d \in DOMAIN clients'
                 PROVE  /\ clients'[d].map \in DOMAIN maps' /\ maps'[clients'[d].map] = clients'[d].meant
                        /\ Issued(clients'[d].meant)
      BY <1>1 DEF ClientInv, Issued
    <2>1. CASE d = Len(clients) + 1
      BY <1>4, <1>5, <1>6, <2>1
    <2>2. CASE d \in 1..Len(clients)
      <3>1. /\ clients[d].map \in 1..Len(maps) /\ maps[clients[d].map] = clients[d].meant
            /\ Issued(clients[d].meant)
        BY <1>2, <1>4, <1>6, <2>2 DEF ClientInv
      <3> QED BY <1>4, <1>6, <2>2, <3>1
    <2> QED BY <1>6, <2>1, <2>2
  <1>9. RequestInv'
    BY <1>1, <1>2, <1>6 DEF RequestInv, Issued
  <1>10. ActInv'
    BY <1>1, <1>2 DEF ActInv, Issued, UserOf
  <1>11. LogoutMeansGone'
    BY <1>1, <1>2, <1>6 DEF LogoutMeansGone, Types
  <1> QED BY <1>7, <1>8, <1>9, <1>10, <1>11 DEF Inv

\* A request that presents what its caller means goes out.
LEMMA SendStep ==
  ASSUME Inv, NEW kind \in {"call", "login", "logout"}, NEW c \in DOMAIN clients, NEW own,
         NEW auth \in Auths, Header(c, own) = auth, Meant(c, own) = auth, Issued(auth),
         kind = "logout" => auth.kind = "session" /\ auth = clients[c].meant,
         Send(kind, c, own)
  PROVE  Inv'
  <1>1. PICK r : r = [n |-> count + 1, kind |-> kind, client |-> c, auth |-> auth, meant |-> auth]
    OBVIOUS
  <1>2. /\ count' = count + 1 /\ net' = net \union {r}
        /\ clients' = clients /\ maps' = maps /\ known' = known /\ out' = out
        /\ sessions' = sessions /\ live' = live /\ acts' = acts
    BY <1>1 DEF Send, caller, server
  <1>3. Types /\ ClientInv /\ RequestInv /\ ActInv /\ LogoutMeansGone
    BY DEF Inv
  <1>4. c \in Nat /\ count \in Nat
    BY <1>3, Domains DEF Types
  <1>5. r \in Requests /\ r.kind = kind /\ r.client = c /\ r.auth = auth /\ r.meant = auth
    BY <1>1, <1>4 DEF Requests
  <1>6. Types'
    BY <1>2, <1>3, <1>4, <1>5 DEF Types
  <1>7. ClientInv' /\ ActInv' /\ LogoutMeansGone'
    BY <1>2, <1>3 DEF ClientInv, ActInv, LogoutMeansGone, Issued, UserOf
  <1>8. RequestInv'
    BY <1>2, <1>3, <1>5 DEF RequestInv, Issued
  <1> QED BY <1>6, <1>7, <1>8 DEF Inv

LEMMA CallStep == ASSUME Inv, NEW c \in DOMAIN clients, Call(c) PROVE Inv'
  <1>1. Send("call", c, {})
    BY DEF Call
  <1> QED BY <1>1, HeaderIs, SendStep

LEMMA LoginStep == ASSUME Inv, NEW c \in DOMAIN clients, Login(c) PROVE Inv'
  <1>1. Send("login", c, {})
    BY DEF Login
  <1> QED BY <1>1, HeaderIs, SendStep

LEMMA LoginAsStep == ASSUME Inv, NEW c \in DOMAIN clients, NEW u \in Users, LoginAs(c, u) PROVE Inv'
  <1>1. Send("login", c, {Basic(u)})
    BY DEF LoginAs
  <1>2. Basic(u) \in Auths /\ Issued(Basic(u))
    BY Credentials DEF Issued
  <1> QED BY <1>1, <1>2, HeaderIs, SendStep

LEMMA LogoutStep == ASSUME Inv, NEW c \in DOMAIN clients, Logout(c) PROVE Inv'
  <1>1. Send("logout", c, {}) /\ Header(c, {}).kind = "session"
    BY DEF Logout
  <1> QED BY <1>1, HeaderIs, SendStep

\* What an answer of the server leaves alone; the rest is said of the new
\* sessions, which only grow.
LEMMA AnswerStep ==
  ASSUME Inv, NEW r \in net, net' = net \ {r}, clients' = clients, maps' = maps, count' = count,
         NEW S \in Seq(Users \union {Nobody}), sessions' = S, Len(sessions) <= Len(S),
         \A n \in 1..Len(sessions) : S[n] = sessions[n],
         known' \subseteq 1..Len(S), live' \subseteq 1..Len(S), out' \subseteq DOMAIN clients
  PROVE  /\ Types' /\ ClientInv' /\ RequestInv'
         /\ \A auth : Issued(auth) => Issued(auth)' /\ UserOf(auth)' = UserOf(auth)
  <1>1. Types /\ ClientInv /\ RequestInv
    BY DEF Inv
  <1>2. Len(sessions) \in Nat /\ Len(S) \in Nat
    BY <1>1, Domains
  <1>3. Types'
    BY <1>1 DEF Types
  <1>4. \A a : Issued(a) => Issued(a)' /\ UserOf(a)' = UserOf(a)
    BY <1>2 DEF Issued, UserOf
  <1>5. ClientInv'
    BY <1>1, <1>2 DEF ClientInv, Issued
  <1>6. RequestInv'
    BY <1>1, <1>2 DEF RequestInv, Issued
  <1> QED BY <1>3, <1>4, <1>5, <1>6

\* Who the server takes a request to come from.
LEMMA RequestIs ==
  ASSUME Inv, NEW r \in net
  PROVE  /\ r \in Requests /\ r.auth \in Auths /\ r.auth = r.meant /\ Issued(r.auth)
         /\ Identity(r.auth) \in Users \union {Nobody} /\ Identity(r.auth) \in {UserOf(r.auth), Nobody}
  <1>1. Types /\ RequestInv
    BY DEF Inv
  <1>2. r \in Requests /\ r.auth \in Auths /\ r.auth = r.meant /\ Issued(r.auth)
    BY <1>1 DEF Types, RequestInv, Requests
  <1> QED BY <1>1, <1>2, IdentityIs

\* What it does for the request is done for the user meant, or for nobody.
LEMMA ActsStep ==
  ASSUME Inv, NEW r \in net, Acts(r),
         \A auth : Issued(auth) => Issued(auth)' /\ UserOf(auth)' = UserOf(auth)
  PROVE  ActInv'
  <1>1. acts' = acts \union {[meant |-> r.meant, as |-> Identity(r.auth)]}
    BY DEF Acts
  <1>2. ActInv /\ r.auth = r.meant /\ Issued(r.auth) /\ Identity(r.auth) \in {UserOf(r.auth), Nobody}
    BY RequestIs DEF Inv
  <1> SUFFICES ASSUME NEW a \in acts' PROVE Issued(a.meant)' /\ a.as \in {UserOf(a.meant)', Nobody}
    BY DEF ActInv
  <1>3. CASE a \in acts
    BY <1>2, <1>3 DEF ActInv
  <1>4. CASE a = [meant |-> r.meant, as |-> Identity(r.auth)]
    <2>1. a.meant = r.auth /\ a.as = Identity(r.auth)
      BY <1>2, <1>4
    <2> QED BY <1>2, <2>1
  <1> QED BY <1>1, <1>3, <1>4

LEMMA SrvCallStep == ASSUME Inv, NEW r \in net, SrvCall(r) PROVE Inv'
  <1>1. /\ net' = net \ {r} /\ Acts(r) /\ clients' = clients /\ maps' = maps /\ known' = known /\ out' = out
        /\ count' = count /\ sessions' = sessions /\ live' = live
    BY DEF SrvCall, Answered, caller
  <1>2. Types /\ LogoutMeansGone
    BY DEF Inv
  <1>3. /\ sessions \in Seq(Users \union {Nobody}) /\ Len(sessions) <= Len(sessions)
        /\ known' \subseteq 1..Len(sessions) /\ live' \subseteq 1..Len(sessions) /\ out' \subseteq DOMAIN clients
    BY <1>1, <1>2 DEF Types
  <1>4. /\ Types' /\ ClientInv' /\ RequestInv'
        /\ \A auth : Issued(auth) => Issued(auth)' /\ UserOf(auth)' = UserOf(auth)
    BY <1>1, <1>3, AnswerStep
  <1>5. ActInv'
    BY <1>1, <1>4, ActsStep
  <1>6. LogoutMeansGone'
    BY <1>1, <1>2 DEF LogoutMeansGone
  <1> QED BY <1>4, <1>5, <1>6 DEF Inv

LEMMA SrvRefusesStep == ASSUME Inv, NEW r \in net, SrvRefuses(r) PROVE Inv'
  <1>1. /\ net' = net \ {r} /\ clients' = clients /\ maps' = maps /\ known' = known /\ out' = out
        /\ count' = count /\ sessions' = sessions /\ live' = live /\ acts' = acts
    BY DEF SrvRefuses, Answered, caller, server
  <1>2. Types /\ ActInv /\ LogoutMeansGone
    BY DEF Inv
  <1>3. /\ sessions \in Seq(Users \union {Nobody}) /\ Len(sessions) <= Len(sessions)
        /\ known' \subseteq 1..Len(sessions) /\ live' \subseteq 1..Len(sessions) /\ out' \subseteq DOMAIN clients
    BY <1>1, <1>2 DEF Types
  <1>4. /\ Types' /\ ClientInv' /\ RequestInv'
        /\ \A auth : Issued(auth) => Issued(auth)' /\ UserOf(auth)' = UserOf(auth)
    BY <1>1, <1>3, AnswerStep
  <1>5. ActInv' /\ LogoutMeansGone'
    BY <1>1, <1>2 DEF ActInv, LogoutMeansGone, Issued, UserOf
  <1> QED BY <1>4, <1>5 DEF Inv

\* A new session has a number of its own: no token of an ended one lives again.
LEMMA SrvLoginStep == ASSUME Inv, NEW r \in net, SrvLogin(r) PROVE Inv'
  <1>1. /\ net' = net \ {r} /\ Acts(r) /\ clients' = clients /\ maps' = maps /\ out' = out /\ count' = count
        /\ sessions' = Append(sessions, Identity(r.auth)) /\ live' = live \union {Len(sessions')}
        /\ known' \in {known, known \union {Len(sessions')}}
    BY DEF SrvLogin, Answered
  <1>2. Types /\ ClientInv /\ LogoutMeansGone
    BY DEF Inv
  <1>3. sessions \in Seq(Users \union {Nobody}) /\ Identity(r.auth) \in Users \union {Nobody}
    BY <1>2, RequestIs DEF Types
  <1>4. PICK S : S = Append(sessions, Identity(r.auth))
    OBVIOUS
  <1>5. /\ S \in Seq(Users \union {Nobody}) /\ Len(S) = Len(sessions) + 1 /\ Len(sessions) \in Nat
        /\ \A n \in 1..Len(sessions) : S[n] = sessions[n]
    BY <1>3, <1>4, Appended
  <1>6. /\ sessions' = S /\ Len(sessions) <= Len(S)
        /\ known' \subseteq 1..Len(S) /\ live' \subseteq 1..Len(S) /\ out' \subseteq DOMAIN clients
    <2>1. sessions' = S /\ Len(sessions') = Len(S)
      BY <1>1, <1>4
    <2>2. live' = live \union {Len(S)} /\ known' \subseteq known \union {Len(S)}
      BY <1>1, <2>1
    <2>3. live \subseteq 1..Len(sessions) /\ known \subseteq 1..Len(sessions) /\ out \subseteq DOMAIN clients
      BY <1>2 DEF Types
    <2> QED BY <1>1, <1>5, <2>1, <2>2, <2>3
  <1>7. /\ Types' /\ ClientInv' /\ RequestInv'
        /\ \A auth : Issued(auth) => Issued(auth)' /\ UserOf(auth)' = UserOf(auth)
    BY <1>1, <1>5, <1>6, AnswerStep
  <1>8. ActInv'
    BY <1>1, <1>7, ActsStep
  <1>9. LogoutMeansGone'
    <2> SUFFICES ASSUME NEW c \in out
                 PROVE  clients[c].meant.kind = "session" /\ clients[c].meant.token \notin live'
      BY <1>1 DEF LogoutMeansGone
    <2>1. clients[c].meant.kind = "session" /\ clients[c].meant.token \notin live
      BY <1>2 DEF LogoutMeansGone
    <2>2. c \in DOMAIN clients
      BY <1>2 DEF Types
    <2>3. clients[c].meant.token \in 1..Len(sessions)
      BY <1>2, <2>1, <2>2 DEF ClientInv, Issued
    <2>4. live' = live \union {Len(sessions) + 1}
      BY <1>1, <1>5, <1>6
    <2> QED BY <1>5, <2>1, <2>3, <2>4
  <1> QED BY <1>7, <1>8, <1>9 DEF Inv

LEMMA SrvLogoutStep == ASSUME Inv, NEW r \in net, SrvLogout(r) PROVE Inv'
  <1>1. /\ r.kind = "logout" /\ net' = net \ {r} /\ Acts(r) /\ clients' = clients /\ maps' = maps
        /\ count' = count /\ known' = known /\ sessions' = sessions /\ live' = live \ {r.auth.token}
        /\ out' \in {out, out \union {r.client}}
    BY DEF SrvLogout, Answered
  <1>2. Types /\ RequestInv /\ LogoutMeansGone
    BY DEF Inv
  <1>3. r.client \in DOMAIN clients /\ r.auth.kind = "session" /\ clients[r.client].meant = r.auth
    BY <1>1, <1>2 DEF RequestInv
  <1>4. /\ sessions \in Seq(Users \union {Nobody}) /\ Len(sessions) <= Len(sessions)
        /\ known' \subseteq 1..Len(sessions) /\ live' \subseteq 1..Len(sessions) /\ out' \subseteq DOMAIN clients
    <2>1. Len(sessions) \in Nat
      BY <1>2, Domains
    <2>2. out' \subseteq DOMAIN clients
      <3>1. out \subseteq DOMAIN clients
        BY <1>2 DEF Types
      <3> QED BY <1>1, <1>3, <3>1
    <2>3. sessions \in Seq(Users \union {Nobody})
      BY <1>2 DEF Types
    <2>4. known' \subseteq 1..Len(sessions)
      BY <1>1, <1>2 DEF Types
    <2>5. live' \subseteq 1..Len(sessions)
      BY <1>1, <1>2 DEF Types
    <2> QED BY <2>1, <2>2, <2>3, <2>4, <2>5
  <1>5. /\ Types' /\ ClientInv' /\ RequestInv'
        /\ \A auth : Issued(auth) => Issued(auth)' /\ UserOf(auth)' = UserOf(auth)
    BY <1>1, <1>4, AnswerStep
  <1>6. ActInv'
    BY <1>1, <1>5, ActsStep
  <1>7. LogoutMeansGone'
    BY <1>1, <1>2, <1>3 DEF LogoutMeansGone
  <1> QED BY <1>5, <1>6, <1>7 DEF Inv

LEMMA SrvEndsStep == ASSUME Inv, NEW n \in live, SrvEnds(n) PROVE Inv'
  <1>1. /\ live' = live \ {n} /\ net' = net /\ clients' = clients /\ maps' = maps /\ known' = known
        /\ out' = out /\ count' = count /\ sessions' = sessions /\ acts' = acts
    BY DEF SrvEnds, caller
  <1>2. Types /\ ClientInv /\ RequestInv /\ ActInv /\ LogoutMeansGone
    BY DEF Inv
  <1>3. Types'
    BY <1>1, <1>2 DEF Types
  <1>4. ClientInv' /\ RequestInv' /\ ActInv' /\ LogoutMeansGone'
    BY <1>1, <1>2 DEF ClientInv, RequestInv, ActInv, LogoutMeansGone, Issued, UserOf
  <1> QED BY <1>3, <1>4 DEF Inv

LEMMA NextInv == ASSUME Inv, [Next]_vars PROVE Inv'
  <1>1. ASSUME NEW c \in DOMAIN clients, Call(c) \/ Login(c) \/ Logout(c) PROVE Inv'
    BY <1>1, CallStep, LoginStep, LogoutStep
  <1>2. ASSUME NEW c \in DOMAIN clients, NEW u \in Users, LoginAs(c, u) \/ WithToken(c, ApiToken(u)) PROVE Inv'
    <2>1. ApiToken(u) \in Auths /\ Issued(ApiToken(u))
      BY Credentials DEF Issued
    <2> QED BY <1>2, <2>1, LoginAsStep, WithTokenStep
  <1>3. ASSUME NEW c \in DOMAIN clients, NEW n \in known, WithToken(c, SessionToken(n)) PROVE Inv'
    <2>1. n \in 1..Len(sessions) /\ n \in Nat
      BY Domains DEF Inv, Types
    <2>2. SessionToken(n) \in Auths /\ Issued(SessionToken(n))
      BY <2>1, Credentials DEF Issued
    <2> QED BY <1>3, <2>2, WithTokenStep
  <1>4. ASSUME NEW r \in net, SrvCall(r) \/ SrvLogin(r) \/ SrvLogout(r) \/ SrvRefuses(r) PROVE Inv'
    BY <1>4, SrvCallStep, SrvLoginStep, SrvLogoutStep, SrvRefusesStep
  <1>5. ASSUME NEW n \in live, SrvEnds(n) PROVE Inv'
    BY <1>5, SrvEndsStep
  <1>6. CASE UNCHANGED vars
    <2>1. /\ clients' = clients /\ maps' = maps /\ known' = known /\ out' = out /\ net' = net
          /\ count' = count /\ sessions' = sessions /\ live' = live /\ acts' = acts
      BY <1>6 DEF vars, caller, server
    <2>2. Types' /\ ClientInv'
      BY <2>1 DEF Inv, Types, ClientInv, Issued
    <2>3. RequestInv' /\ ActInv' /\ LogoutMeansGone'
      BY <2>1 DEF Inv, RequestInv, ActInv, LogoutMeansGone, Issued, UserOf
    <2> QED BY <2>2, <2>3 DEF Inv
  <1> QED BY <1>1, <1>2, <1>3, <1>4, <1>5, <1>6 DEF Next

THEOREM Invariance == Spec => []Inv
  BY InitInv, NextInv, PTL DEF Spec

\* WithToken clones the map of headers, Login rebinds nothing and LoginAs
\* overrides what the client is configured with: whatever the interleaving, a
\* request acts as the user its caller meant, or as nobody.
THEOREM ActsForTheRightUser == Spec => []ActsAsMeant
  <1>1. Inv => ActsAsMeant
    BY DEF Inv, ActInv, ActsAsMeant
  <1> QED BY <1>1, Invariance, PTL

\* A Logout that returned nil ended the session of the client's token, and no
\* later Login revives it.
THEOREM LogoutEnds == Spec => []LogoutMeansGone
  BY Invariance, PTL DEF Inv

\* No step changes what an existing client presents: a derived client's token
\* is written into its own map (maps.Clone in WithToken).
THEOREM ClientsKeepTheirHeader ==
  Spec => [][\A c \in DOMAIN clients : Header(c, {})' = Header(c, {})]_vars
  <1>1. ASSUME Inv, [Next]_vars
        PROVE  [\A c \in DOMAIN clients : Header(c, {})' = Header(c, {})]_vars
    <2>1. ASSUME NEW e \in DOMAIN clients, NEW auth \in Auths, WithToken(e, auth)
          PROVE  \A c \in DOMAIN clients : Header(c, {})' = Header(c, {})
      <3>1. maps' = Append(maps, auth) /\ clients' = Append(clients, [map |-> Len(maps'), meant |-> auth])
        BY <2>1 DEF WithToken
      <3>2. maps \in Seq(Auths) /\ clients \in Seq(Clients)
        BY <1>1 DEF Inv, Types
      <3>3. /\ \A i \in DOMAIN maps : maps'[i] = maps[i]
            /\ Len(maps') \in Nat
        BY <3>1, <3>2, Appended
      <3>4. [map |-> Len(maps'), meant |-> auth] \in Clients
        BY <3>3 DEF Clients
      <3>5. \A c \in DOMAIN clients : clients'[c] = clients[c]
        BY <3>1, <3>2, <3>4, Appended
      <3>6. \A c \in DOMAIN clients : clients[c].map \in DOMAIN maps
        BY <1>1 DEF Inv, ClientInv
      <3> QED BY <3>3, <3>5, <3>6 DEF Header
    <2>2. ASSUME clients' = clients, maps' = maps
          PROVE  \A c \in DOMAIN clients : Header(c, {})' = Header(c, {})
      BY <2>2 DEF Header
    <2>3. ASSUME NEW c \in DOMAIN clients, Call(c) \/ Login(c) \/ Logout(c)
          PROVE  clients' = clients /\ maps' = maps
      BY <2>3 DEF Call, Login, Logout, Send, caller
    <2>4. ASSUME NEW c \in DOMAIN clients, NEW u \in Users, LoginAs(c, u)
          PROVE  clients' = clients /\ maps' = maps
      BY <2>4 DEF LoginAs, Send, caller
    <2>5. ASSUME NEW r \in net, SrvCall(r) \/ SrvLogin(r) \/ SrvLogout(r) \/ SrvRefuses(r)
          PROVE  clients' = clients /\ maps' = maps
      BY <2>5 DEF SrvCall, SrvLogin, SrvLogout, SrvRefuses, caller
    <2>6. ASSUME NEW n \in live, SrvEnds(n) PROVE clients' = clients /\ maps' = maps
      BY <2>6 DEF SrvEnds, caller
    <2>7. ASSUME NEW c \in DOMAIN clients, NEW u \in Users, WithToken(c, ApiToken(u))
          PROVE  \A d \in DOMAIN clients : Header(d, {})' = Header(d, {})
      <3>1. ApiToken(u) \in Auths
        BY Credentials
      <3> QED BY <2>1, <2>7, <3>1
    <2>8. ASSUME NEW c \in DOMAIN clients, NEW n \in known, WithToken(c, SessionToken(n))
          PROVE  \A d \in DOMAIN clients : Header(d, {})' = Header(d, {})
      <3>1. n \in Nat
        BY <1>1, Domains DEF Inv, Types
      <3>2. SessionToken(n) \in Auths
        BY <3>1, Credentials
      <3> QED BY <2>1, <2>8, <3>2
    <2> QED BY <1>1, <2>2, <2>3, <2>4, <2>5, <2>6, <2>7, <2>8 DEF Next
  <1> QED BY <1>1, Invariance, PTL DEF Spec

-----------------------------------------------------------------------------
(***************************************************************************)
(* One call: what its request carries and what its answer is turned into.  *)
(***************************************************************************)

\* What the method makes of the answer.
Told(m, a) ==
  IF m.reads = "typed" /\ Parse(m.op, a) # "nil" THEN Failure(Parse(m.op, a)) ELSE Checks(m, a)

\* An answer as the network delivers it, whole or cut.
Delivered(a) ==
  /\ a.status \in Statuses /\ a.body \in Bodies
  /\ IF a.fault THEN a.got \in Cut(a.body) ELSE a.got = a.body

\* The call under way is one a caller can make, and its request carries what the
\* method hands to the builder and the builder writes.
CallInv ==
  /\ call.method \in FacadeMethods \union Raw
  /\ call.tx => call.method.on = "database" /\ call.method.session # "refused"
  /\ phase \in {"sent", "answered"} =>
       sent = Given(call.method, call.tx, call.own) \intersect call.method.op.request.takes

\* What is returned is what the method makes of the answer delivered.
AnswerInv ==
  /\ phase = "answered" => Delivered(answer)
  /\ phase = "done" => answer = NoAnswer \/ (Delivered(answer) /\ result = Told(call.method, answer))

HttpInv == CallInv /\ AnswerInv

-----------------------------------------------------------------------------
(* The facade methods. *)

Wants == {"status", "document", "list", "envelope", "result", "session", "health", "ready",
          "stream", "summary"}

\* what one method only makes of a success
Special == {"ready", "summary"}

\* What a method of the table says, however it is put together.
Says(m, on, op, wants, session) ==
  /\ m.on = on /\ m.op = op /\ m.wants = wants /\ m.session = session
  /\ m.reads \in {"typed", "plain"}
  /\ m.reads = "plain" => m.wants \notin {"list", "envelope", "session"}

LEMMA ServerMethod ==
  ASSUME NEW op, NEW wants
  PROVE  /\ Says(OnServer(op, wants), "server", op, wants, "none")
         /\ Says(Checked(OnServer(op, wants)), "server", op, wants, "none")
         /\ wants \in {"status", "document", "result"} =>
              /\ Says(Plain(OnServer(op, wants)), "server", op, wants, "none")
              /\ Says(Plain(Checked(OnServer(op, wants))), "server", op, wants, "none")
              /\ Says(Checked(Plain(OnServer(op, wants))), "server", op, wants, "none")
  <1>1. Says(OnServer(op, wants), "server", op, wants, "none")
    BY DEF Says, OnServer, Method
  <1>2. Says(Checked(OnServer(op, wants)), "server", op, wants, "none")
    BY DEF Says, OnServer, Method, Checked
  <1>3. ASSUME wants \in {"status", "document", "result"}
        PROVE  Says(Plain(OnServer(op, wants)), "server", op, wants, "none")
    BY <1>3 DEF Says, OnServer, Method, Plain
  <1>4. ASSUME wants \in {"status", "document", "result"}
        PROVE  Says(Plain(Checked(OnServer(op, wants))), "server", op, wants, "none")
    BY <1>4 DEF Says, OnServer, Method, Plain, Checked
  <1>5. ASSUME wants \in {"status", "document", "result"}
        PROVE  Says(Checked(Plain(OnServer(op, wants))), "server", op, wants, "none")
    BY <1>5 DEF Says, OnServer, Method, Plain, Checked
  <1> QED BY <1>1, <1>2, <1>3, <1>4, <1>5

LEMMA DatabaseMethod ==
  ASSUME NEW op, NEW wants
  PROVE  /\ Says(OnDatabase(op, wants), "database", op, wants, "handle")
         /\ Says(Own(OnDatabase(op, wants)), "database", op, wants, "own")
         /\ Says(Checked(OnDatabase(op, wants)), "database", op, wants, "handle")
         /\ Says([OnDatabase(op, wants) EXCEPT !.session = "none"], "database", op, wants, "none")
         /\ wants \in {"status", "document", "stream", "summary"} =>
              /\ Says(Plain(OnDatabase(op, wants)), "database", op, wants, "handle")
              /\ Says(Plain(Checked(OnDatabase(op, wants))), "database", op, wants, "handle")
              /\ Says(Plain(Alone(OnDatabase(op, wants))), "database", op, wants, "refused")
  <1>1. Says(OnDatabase(op, wants), "database", op, wants, "handle")
    BY DEF Says, OnDatabase, Method
  <1>2. Says(Own(OnDatabase(op, wants)), "database", op, wants, "own")
    BY DEF Says, OnDatabase, Method, Own
  <1>5. Says([OnDatabase(op, wants) EXCEPT !.session = "none"], "database", op, wants, "none")
    BY DEF Says, OnDatabase, Method
  <1>6. Says(Checked(OnDatabase(op, wants)), "database", op, wants, "handle")
    BY DEF Says, OnDatabase, Method, Checked
  <1>3. ASSUME wants \in {"status", "document", "stream", "summary"}
        PROVE  Says(Plain(OnDatabase(op, wants)), "database", op, wants, "handle")
    BY <1>3 DEF Says, OnDatabase, Method, Plain
  <1>4. ASSUME wants \in {"status", "document", "stream", "summary"}
        PROVE  Says(Plain(Checked(OnDatabase(op, wants))), "database", op, wants, "handle")
    BY <1>4 DEF Says, OnDatabase, Method, Plain, Checked
  <1>7. ASSUME wants \in {"status", "document", "stream", "summary"}
        PROVE  Says(Plain(Alone(OnDatabase(op, wants))), "database", op, wants, "refused")
    BY <1>7 DEF Says, OnDatabase, Method, Plain, Alone
  <1> QED BY <1>1, <1>2, <1>3, <1>4, <1>5, <1>6, <1>7

\* What the proofs need to know of a facade method.
Fits(m) ==
  /\ m.on \in {"server", "database"} /\ m.wants \in Wants /\ m.reads \in {"typed", "plain"}
  /\ m.reads = "plain" => m.wants \notin {"list", "envelope", "session"}
  /\ m.wants = "ready" => m = Ready
  /\ m.wants = "summary" => m = BatchLoad /\ m.reads = "plain"
  /\ m.on = "database" /\ m # DatabaseProgress /\ m.session # "refused" =>
       m.session # "none" /\ Session \in m.op.request.takes

LEMMA ServerFits ==
  ASSUME NEW m, NEW op, NEW wants \in Wants \ Special, Says(m, "server", op, wants, "none") PROVE Fits(m)
  BY DEF Says, Fits, Special

LEMMA DatabaseFits ==
  ASSUME NEW m, NEW op, NEW wants \in Wants \ Special, NEW session \in {"handle", "own"},
         Says(m, "database", op, wants, session), Session \in op.request.takes
  PROVE  Fits(m)
  BY DEF Says, Fits, Special

\* The builders of the operations that run in a transaction write the session header.
Carries(op) == Session \in op.request.takes

LEMMA BuilderCarries ==
  ASSUME NEW method, NEW path, NEW parse
  PROVE  \A takes \in {{Session}, {Session, RequestId}, {Session, Tag, RequestId}, {Session, Tag, Accept},
                       {Session, Tag, Accept, RequestId}} :
           Carries(Operation(Request(method, path, takes), parse))
  BY DEF Carries, Operation, Request

LEMMA SessionOperations ==
  /\ Carries(ExecuteQueryPostWithResponse) /\ Carries(ExecuteCommandWithResponse)
  /\ Carries(BeginTransactionWithResponse) /\ Carries(CommitTransactionWithResponse)
  /\ Carries(RollbackTransactionWithResponse) /\ Carries(VectorSearchWithResponse)
  /\ Carries(HybridSearchWithResponse) /\ Carries(FullTextSearchWithResponse)
  /\ Carries(PromQLQueryWithResponse) /\ Carries(PromQLQueryRangeWithResponse)
  /\ Carries(PromQLLabelsWithResponse) /\ Carries(PromQLLabelValuesWithResponse)
  /\ Carries(PromQLSeriesWithResponse) /\ Carries(WriteTimeSeriesWithResponse)
  /\ Carries(QueryTimeSeriesWithResponse) /\ Carries(GetTimeSeriesLatestWithResponse)
  /\ Carries(QueryGrafanaWithResponse)
  <1>1. Carries(ExecuteQueryPostWithResponse)
    BY BuilderCarries, Zenon DEF ExecuteQueryPostWithResponse, NewExecuteQueryPostRequest
  <1>2. Carries(ExecuteCommandWithResponse)
    BY BuilderCarries, Zenon DEF ExecuteCommandWithResponse, NewExecuteCommandRequest
  <1>3. Carries(BeginTransactionWithResponse)
    BY BuilderCarries, Zenon DEF BeginTransactionWithResponse, NewBeginTransactionRequest
  <1>4. Carries(CommitTransactionWithResponse)
    BY BuilderCarries, Zenon DEF CommitTransactionWithResponse, NewCommitTransactionRequest
  <1>5. Carries(RollbackTransactionWithResponse)
    BY BuilderCarries, Zenon DEF RollbackTransactionWithResponse, NewRollbackTransactionRequest
  <1>6. Carries(VectorSearchWithResponse)
    BY BuilderCarries, Zenon DEF VectorSearchWithResponse, NewVectorSearchRequest
  <1>7. Carries(HybridSearchWithResponse)
    BY BuilderCarries, Zenon DEF HybridSearchWithResponse, NewHybridSearchRequest
  <1>8. Carries(FullTextSearchWithResponse)
    BY BuilderCarries, Zenon DEF FullTextSearchWithResponse, NewFullTextSearchRequest
  <1>9. Carries(PromQLQueryWithResponse)
    BY BuilderCarries, Zenon DEF PromQLQueryWithResponse, NewPromQLQueryRequest
  <1>10. Carries(PromQLQueryRangeWithResponse)
    BY BuilderCarries, Zenon DEF PromQLQueryRangeWithResponse, NewPromQLQueryRangeRequest
  <1>11. Carries(PromQLLabelsWithResponse)
    BY BuilderCarries, Zenon DEF PromQLLabelsWithResponse, NewPromQLLabelsRequest
  <1>12. Carries(PromQLLabelValuesWithResponse)
    BY BuilderCarries, Zenon DEF PromQLLabelValuesWithResponse, NewPromQLLabelValuesRequest
  <1>13. Carries(PromQLSeriesWithResponse)
    BY BuilderCarries, Zenon DEF PromQLSeriesWithResponse, NewPromQLSeriesRequest
  <1>14. Carries(WriteTimeSeriesWithResponse)
    BY BuilderCarries, Zenon DEF WriteTimeSeriesWithResponse, NewWriteTimeSeriesRequest
  <1>15. Carries(QueryTimeSeriesWithResponse)
    BY BuilderCarries, Zenon DEF QueryTimeSeriesWithResponse, NewQueryTimeSeriesRequest
  <1>16. Carries(GetTimeSeriesLatestWithResponse)
    BY BuilderCarries, Zenon DEF GetTimeSeriesLatestWithResponse, NewGetTimeSeriesLatestRequest
  <1>17. Carries(QueryGrafanaWithResponse)
    BY BuilderCarries, Zenon DEF QueryGrafanaWithResponse, NewQueryGrafanaRequest
  <1> QED BY <1>1, <1>2, <1>3, <1>4, <1>5, <1>6, <1>7, <1>8, <1>9, <1>10, <1>11, <1>12, <1>13, <1>14, <1>15, <1>16, <1>17

\* Every facade method fits.
LEMMA MethodsFit == \A m \in FacadeMethods : Fits(m)
  <1>1. Fits(DatabaseQuery)
    BY DatabaseMethod, DatabaseFits, SessionOperations DEF DatabaseQuery, Carries, Wants, Special
  <1>2. Fits(DatabaseCommand)
    BY DatabaseMethod, DatabaseFits, SessionOperations DEF DatabaseCommand, Carries, Wants, Special
  <1>3. Fits(beginTransaction)
    BY DatabaseMethod, DatabaseFits, SessionOperations DEF beginTransaction, Carries, Wants, Special
  <1>4. Fits(commitTransaction)
    BY DatabaseMethod, DatabaseFits, SessionOperations DEF commitTransaction, Carries, Wants, Special
  <1>5. Fits(rollbackTransaction)
    BY DatabaseMethod, DatabaseFits, SessionOperations DEF rollbackTransaction, Carries, Wants, Special
  <1>6. Fits(VectorSearch)
    BY DatabaseMethod, DatabaseFits, SessionOperations DEF VectorSearch, Carries, Wants, Special
  <1>7. Fits(VectorHybrid)
    BY DatabaseMethod, DatabaseFits, SessionOperations DEF VectorHybrid, Carries, Wants, Special
  <1>8. Fits(VectorFulltext)
    BY DatabaseMethod, DatabaseFits, SessionOperations DEF VectorFulltext, Carries, Wants, Special
  <1>9. Fits(PromQLQuery)
    BY DatabaseMethod, DatabaseFits, SessionOperations DEF PromQLQuery, Carries, Wants, Special
  <1>10. Fits(PromQLQueryRange)
    BY DatabaseMethod, DatabaseFits, SessionOperations DEF PromQLQueryRange, Carries, Wants, Special
  <1>11. Fits(PromQLLabels)
    BY DatabaseMethod, DatabaseFits, SessionOperations DEF PromQLLabels, Carries, Wants, Special
  <1>12. Fits(PromQLLabelValues)
    BY DatabaseMethod, DatabaseFits, SessionOperations DEF PromQLLabelValues, Carries, Wants, Special
  <1>13. Fits(PromQLSeries)
    BY DatabaseMethod, DatabaseFits, SessionOperations DEF PromQLSeries, Carries, Wants, Special
  <1>14. Fits(TimeSeriesWrite)
    BY DatabaseMethod, DatabaseFits, SessionOperations DEF TimeSeriesWrite, Carries, Wants, Special
  <1>15. Fits(TimeSeriesQuery)
    BY DatabaseMethod, DatabaseFits, SessionOperations DEF TimeSeriesQuery, Carries, Wants, Special
  <1>16. Fits(TimeSeriesLatest)
    BY DatabaseMethod, DatabaseFits, SessionOperations DEF TimeSeriesLatest, Carries, Wants, Special
  <1>17. Fits(GrafanaQuery)
    BY DatabaseMethod, DatabaseFits, SessionOperations DEF GrafanaQuery, Carries, Wants, Special
  <1>18. Fits(DatabaseProgress)
    BY DatabaseMethod DEF DatabaseProgress, Says, Fits, Wants
  <1>19. Fits(ListDatabases)
    BY ServerMethod, ServerFits DEF ListDatabases, Wants, Special
  <1>20. Fits(Exists)
    BY ServerMethod, ServerFits DEF Exists, Wants, Special
  <1>21. Fits(ServerInfo)
    BY ServerMethod, ServerFits DEF ServerInfo, Wants, Special
  <1>22. Fits(Health)
    BY ServerMethod, ServerFits DEF Health, Wants, Special
  <1>23. Fits(Ready)
    BY ServerMethod DEF Ready, Says, Fits, Wants
  <1>24. Fits(ServerCommand)
    BY ServerMethod, ServerFits DEF ServerCommand, Wants, Special
  <1>25. Fits(databaseCommand)
    BY ServerMethod, ServerFits DEF databaseCommand, ServerCommand, Wants, Special
  <1>26. Fits(runningCommand)
    BY ServerMethod, ServerFits DEF runningCommand, Wants, Special
  <1>27. Fits(CreateUser)
    BY ServerMethod, ServerFits DEF CreateUser, Wants, Special
  <1>28. Fits(UpdateUser)
    BY ServerMethod, ServerFits DEF UpdateUser, Wants, Special
  <1>29. Fits(DropUser)
    BY ServerMethod, ServerFits DEF DropUser, Wants, Special
  <1>30. Fits(ListUsers)
    BY ServerMethod, ServerFits DEF ListUsers, Wants, Special
  <1>31. Fits(ListGroups)
    BY ServerMethod, ServerFits DEF ListGroups, Wants, Special
  <1>32. Fits(SaveGroup)
    BY ServerMethod, ServerFits DEF SaveGroup, Wants, Special
  <1>33. Fits(DeleteGroup)
    BY ServerMethod, ServerFits DEF DeleteGroup, Wants, Special
  <1>34. Fits(login)
    BY ServerMethod, ServerFits DEF login, Wants, Special
  <1>35. Fits(ServerLogout)
    BY ServerMethod, ServerFits DEF ServerLogout, Wants, Special
  <1>36. Fits(ListSessions)
    BY ServerMethod, ServerFits DEF ListSessions, Wants, Special
  <1>37. Fits(CreateAPIToken)
    BY ServerMethod, ServerFits DEF CreateAPIToken, Wants, Special
  <1>38. Fits(ListAPITokens)
    BY ServerMethod, ServerFits DEF ListAPITokens, Wants, Special
  <1>39. Fits(DeleteAPIToken)
    BY ServerMethod, ServerFits DEF DeleteAPIToken, Wants, Special
  <1>40. Fits(QueryStream)
    BY DatabaseMethod, DatabaseFits, SessionOperations DEF QueryStream, Carries, Wants, Special
  <1>41. Fits(CommandStream)
    BY DatabaseMethod, DatabaseFits, SessionOperations DEF CommandStream, Carries, Wants, Special
  <1>42. Fits(BatchLoad)
    <2>1. Says(BatchLoad, "database", ExecuteBatchWithResponse, "summary", "refused")
      BY DatabaseMethod DEF BatchLoad
    <2>2. BatchLoad.reads = "plain"
      BY DEF BatchLoad, Plain, Alone, OnDatabase, Method
    <2> QED BY <2>1, <2>2 DEF Says, Fits, Wants
  <1>43. Fits(BatchLoadStream)
    <2>1. Says(BatchLoadStream, "database", ExecuteBatchWithResponse, "stream", "refused")
      BY DatabaseMethod DEF BatchLoadStream
    <2> QED BY <2>1 DEF Says, Fits, Wants
  <1> QED
    BY <1>40, <1>41, <1>42, <1>43, <1>1, <1>2, <1>3, <1>4, <1>5, <1>6, <1>7, <1>8, <1>9, <1>10, <1>11, <1>12, <1>13, <1>14, <1>15, <1>16, <1>17, <1>18, <1>19, <1>20, <1>21, <1>22, <1>23, <1>24, <1>25, <1>26, <1>27, <1>28, <1>29, <1>30, <1>31, <1>32, <1>33, <1>34, <1>35, <1>36, <1>37, <1>38, <1>39 DEF FacadeMethods

\* Raw() parses, and takes what it gets.
LEMMA RawFits == \A m \in Raw : m.on = "raw" /\ m.reads = "typed" /\ m.wants = "response"
  BY DEF Raw, Method

-----------------------------------------------------------------------------
(* Bodies and answers. *)

LEMMA UnmarshalsJson == ASSUME NEW type, NEW got, Unmarshals(type, got) PROVE got \in Json
  BY Zenon DEF Unmarshals, Json, Objects

LEMMA UnmarshalsFits == ASSUME NEW type PROVE Unmarshals(type, "fits")
  BY Zenon DEF Unmarshals

\* JSON that was read is all of the body, however the read ended.
LEMMA JsonIsWhole == ASSUME NEW a, Delivered(a), a.got \in Json PROVE a.got = a.body
  BY BodiesAssumption DEF Delivered, Cut, Json, Objects

LEMMA DecodedIsWhole ==
  ASSUME NEW m, NEW a, Delivered(a), m.reads = "typed" => ~a.fault
  PROVE  /\ decodeBody(m, a) \in {"document", "zero", "nil", "decode"}
         /\ decodeBody(m, a) = "document" => a.got = a.body
         /\ decodeBody(m, a) \in {"zero", "nil"} => a.got \in {"empty", "null"}
  <1>1. CASE m.reads = "typed" /\ Decodes(m.op, a) /\ a.status = Documented(m.op)
    BY <1>1, Zenon DEF decodeBody, Delivered
  <1>2. CASE ~(m.reads = "typed" /\ Decodes(m.op, a) /\ a.status = Documented(m.op))
    <2>1. decodeBody(m, a) = IF a.got \in {"empty", "null"} THEN "nil"
                             ELSE IF Unmarshals(DocumentType(m), a.got) THEN "document" ELSE "decode"
      BY <1>2, Zenon DEF decodeBody
    <2>2. Unmarshals(DocumentType(m), a.got) => a.got = a.body
      BY UnmarshalsJson, JsonIsWhole
    <2> QED BY <2>1, <2>2
  <1> QED BY <1>1, <1>2

\* A document of zeros is the generated parser's, of a null.
LEMMA ZeroIsNull ==
  ASSUME NEW m, NEW a, m.reads = "typed" => ~a.fault, decodeBody(m, a) = "zero"
  PROVE  ~a.fault /\ a.got = "null" /\ Decodes(m.op, a)
  <1>1. m.reads = "typed" /\ Decodes(m.op, a) /\ a.status = Documented(m.op)
    <2> SUFFICES ASSUME ~(m.reads = "typed" /\ Decodes(m.op, a) /\ a.status = Documented(m.op)) PROVE FALSE
      OBVIOUS
    <2>1. decodeBody(m, a) = IF a.got \in {"empty", "null"} THEN "nil"
                             ELSE IF Unmarshals(DocumentType(m), a.got) THEN "document" ELSE "decode"
      BY Zenon DEF decodeBody
    <2> QED BY <2>1
  <1>2. decodeBody(m, a) = IF a.got = "null" THEN "zero" ELSE "document"
    BY <1>1, Zenon DEF decodeBody
  <1> QED BY <1>1, <1>2

\* What AnswerIsWhole says of a method, an answer and the result returned for it.
Whole(m, a, r) ==
  r.err = "nil" =>
    /\ r.value = "false" => a.status = 503
    /\ r.value # "false" => isSuccess(a.status)
    /\ r.value = "document" => a.got = a.body
    /\ r.value = "default" => ~a.fault /\ a.body \in {"empty", "null", "bare"}
    /\ r.value = "zero" => ~a.fault /\ a.body = "null" /\ (m = BatchLoad \/ Decodes(m.op, a))

LEMMA Results ==
  ASSUME NEW x
  PROVE  /\ Failure(x).err = x /\ Value(x).err = "nil" /\ Value(x).value = x
         /\ ArcadeDBError(x).err = "ArcadeDBError"
  BY DEF Failure, Value, ArcadeDBError

LEMMA FailureIsWhole == ASSUME NEW m, NEW a, NEW err, err # "nil" PROVE Whole(m, a, Failure(err))
  BY Results DEF Whole

LEMMA ErrorIsWhole == ASSUME NEW m, NEW a, NEW b PROVE Whole(m, a, ArcadeDBError(b))
  BY Results DEF Whole

LEMMA ValueIsWhole ==
  ASSUME NEW m, NEW a, NEW v, v \notin {"false", "document", "default", "zero"}, isSuccess(a.status)
  PROVE  Whole(m, a, Value(v))
  BY Results DEF Whole

\* A success: lists and envelopes are read by the typed methods only.
LEMMA AcceptedIsWhole ==
  ASSUME NEW m, Fits(m), NEW a, Delivered(a), m.reads = "typed" => ~a.fault, isSuccess(a.status),
         m.wants \notin {"health"}
  PROVE  Whole(m, a, Accepted(m, a))
  <1>1. m.wants \in Wants /\ (m.wants \in {"list", "envelope", "session"} => ~a.fault)
    BY DEF Fits
  <1> DEFINE d == decodeBody(m, a)
  <1>2. /\ d \in {"document", "zero", "nil", "decode"} /\ (d = "document" => a.got = a.body)
        /\ d \in {"zero", "nil"} => a.got \in {"empty", "null"}
    BY DecodedIsWhole
  <1>3. ASSUME ~a.fault, a.got \in {"empty", "null", "bare"} PROVE Whole(m, a, Value("default"))
    BY <1>3, Results DEF Whole, Delivered
  <1>4. ASSUME a.got = a.body PROVE Whole(m, a, Value("document"))
    BY <1>4, Results DEF Whole
  <1>z. ASSUME ~a.fault, a.got = "null", m = BatchLoad \/ Decodes(m.op, a) PROVE Whole(m, a, Value("zero"))
    BY <1>z, Results DEF Whole, Delivered
  <1>5. CASE m.wants \in {"status", "ready", "stream"}
    <2>1. Accepted(m, a) = Value("done")
      BY <1>5 DEF Accepted
    <2> QED BY <2>1, ValueIsWhole
  <1>6. CASE m.wants = "document"
    <2>1. Accepted(m, a) = nonEmpty(d)
      BY <1>6 DEF Accepted
    <2>2. \/ nonEmpty(d) = Failure("ErrEmptyBody") \/ nonEmpty(d) = Failure("decode")
          \/ nonEmpty(d) = Value(d) /\ d \in {"document", "zero"}
      <3> HIDE DEF d
      <3> QED BY <1>2 DEF nonEmpty
    <2>3. d = "zero" => Whole(m, a, Value(d))
      <3>1. ASSUME d = "zero" PROVE ~a.fault /\ a.got = "null" /\ Decodes(m.op, a)
        BY <3>1, ZeroIsNull
      <3> QED BY <1>z, <3>1
    <2> QED BY <1>2, <1>4, <2>1, <2>2, <2>3, FailureIsWhole
  <1>7. CASE m.wants = "list"
    <2>1. Accepted(m, a) = listFromBody(m, a)
      BY <1>7 DEF Accepted
    <2>2. \/ listFromBody(m, a) = Failure("decode")
          \/ listFromBody(m, a) = Value("default") /\ a.got \in {"empty", "null", "bare"}
          \/ listFromBody(m, a) = Value("document") /\ d = "document"
      BY <1>2 DEF listFromBody
    <2> QED BY <1>1, <1>2, <1>3, <1>4, <1>7, <2>1, <2>2, FailureIsWhole
  <1>8. CASE m.wants = "envelope"
    <2>1. Accepted(m, a) = envelopeFromBody(m, a)
      BY <1>8 DEF Accepted
    <2>2. \/ envelopeFromBody(m, a) = Failure("decode")
          \/ envelopeFromBody(m, a).err = "ArcadeDBError"
          \/ envelopeFromBody(m, a) = Value("default") /\ a.got \in {"empty", "null"}
          \/ envelopeFromBody(m, a) = Value("document") /\ d = "document"
      <3>1. CASE d = "document" /\ a.got = "graph"
        BY <3>1 DEF envelopeFromBody
      <3>2. CASE ~(d = "document" /\ a.got = "graph")
        <4>1. envelopeFromBody(m, a) = IF d = "decode" THEN Failure("decode")
                                       ELSE Value(IF d \in {"nil", "zero"} THEN "default" ELSE d)
          BY <3>2, Zenon DEF envelopeFromBody
        <4> QED BY <1>2, <4>1
      <3> QED BY <3>1, <3>2
    <2>3. envelopeFromBody(m, a).err = "ArcadeDBError" => Whole(m, a, envelopeFromBody(m, a))
      BY DEF Whole
    <2> QED BY <1>1, <1>2, <1>3, <1>4, <1>8, <2>1, <2>2, <2>3, FailureIsWhole
  <1>9. CASE m.wants = "result"
    <2>1. Accepted(m, a) = resultFromBody(a)
      BY <1>9 DEF Accepted
    <2>2. \/ resultFromBody(a) \in {Failure("ErrEmptyBody"), Failure("decode")}
          \/ resultFromBody(a) = Value("document") /\ a.got \in Json
      BY DEF resultFromBody, Json
    <2> QED BY <1>4, <2>1, <2>2, FailureIsWhole, JsonIsWhole
  <1>10. CASE m.wants = "session"
    <2>1. Accepted(m, a) \in {Value("done"), ArcadeDBError(a)}
      BY <1>10 DEF Accepted
    <2> QED BY <2>1, ValueIsWhole, ErrorIsWhole
  <1>11. CASE m.wants = "summary"
    <2>1. Accepted(m, a) = summaryFromBody(a) /\ m = BatchLoad
      BY <1>11 DEF Accepted, Fits
    <2>2. \/ summaryFromBody(a) \in {Failure("read"), Failure("decode")}
          \/ summaryFromBody(a) = Value("zero") /\ ~a.fault /\ a.got = "null"
          \/ summaryFromBody(a) = Value("document") /\ a.got \in Json
      BY DEF summaryFromBody, Json
    <2> QED BY <1>4, <1>z, <2>1, <2>2, FailureIsWhole, JsonIsWhole
  <1> QED BY <1>1, <1>5, <1>6, <1>7, <1>8, <1>9, <1>10, <1>11 DEF Wants

LEMMA ToldIsWhole ==
  ASSUME NEW m \in FacadeMethods, NEW a, Delivered(a) PROVE Whole(m, a, Told(m, a))
  <1>1. Fits(m)
    BY MethodsFit
  <1>2. CASE m.reads = "typed" /\ Parse(m.op, a) # "nil"
    BY <1>2, FailureIsWhole DEF Told
  <1>3. CASE ~(m.reads = "typed" /\ Parse(m.op, a) # "nil")
    <2>1. Told(m, a) = Checks(m, a)
      BY <1>3, Zenon DEF Told
    <2>2. m.reads = "typed" => ~a.fault
      BY <1>3 DEF Parse
    <2>3. m.wants # "response"
      BY <1>1 DEF Fits, Wants
    <2>4. CASE m.wants = "health"
      <3>1. Checks(m, a) = IF a.status = 204 THEN Value("done") ELSE ArcadeDBError(a)
        BY <2>4 DEF Checks
      <3>2. a.status = 204 => isSuccess(a.status)
        BY DEF isSuccess
      <3> QED BY <2>1, <3>1, <3>2, ValueIsWhole, ErrorIsWhole
    <2>5. CASE m.wants = "ready" /\ a.status = 503
      <3>1. Checks(m, a) = Value("false")
        BY <2>5 DEF Checks
      <3> QED BY <2>1, <2>5, <3>1, Results DEF Whole
    <2>6. CASE m.wants # "health" /\ ~(m.wants = "ready" /\ a.status = 503)
      <3>1. Checks(m, a) = IF isSuccess(a.status) THEN Accepted(m, a) ELSE ArcadeDBError(a)
        BY <2>3, <2>6, Zenon DEF Checks
      <3> QED BY <1>1, <2>1, <2>2, <2>6, <3>1, AcceptedIsWhole, ErrorIsWhole
    <2> QED BY <2>4, <2>5, <2>6
  <1> QED BY <1>2, <1>3

\* A refusal of the documented shape, or no JSON at all: the generated parser lets it
\* through, and the method reports it with its status.
LEMMA ToldIsTyped ==
  ASSUME NEW m \in FacadeMethods \union Raw, NEW a, Delivered(a), ~isSuccess(a.status), ~a.fault,
         a.body = "fits" \/ ~a.json
  PROVE  IF m \in FacadeMethods
         THEN Told(m, a) = ArcadeDBError(a) \/ (m = Ready /\ Told(m, a) = Value("false"))
         ELSE Told(m, a) = Value("response")
  <1>1. Parse(m.op, a) = "nil"
    <2>1. ~(Decodes(m.op, a) /\ ~Unmarshals(m.op.parse[a.status], a.got))
      BY UnmarshalsFits DEF Decodes, Delivered
    <2> QED BY <2>1, Zenon DEF Parse
  <1>2. Told(m, a) = Checks(m, a)
    BY <1>1, Zenon DEF Told
  <1>3. CASE m \in FacadeMethods
    <2>1. Fits(m)
      BY <1>3, MethodsFit
    <2>2. m.wants # "response" /\ (m.wants = "ready" => m = Ready)
      BY <2>1 DEF Fits, Wants
    <2>3. m.wants = "health" => a.status # 204
      BY DEF isSuccess
    <2>4. CASE m.wants = "ready" /\ a.status = 503
      BY <1>2, <1>3, <2>2, <2>4 DEF Checks
    <2>5. CASE ~(m.wants = "ready" /\ a.status = 503)
      <3>1. Checks(m, a) = ArcadeDBError(a)
        BY <2>2, <2>3, <2>5, Zenon DEF Checks
      <3> QED BY <1>2, <1>3, <3>1
    <2> QED BY <2>4, <2>5
  <1>4. CASE m \notin FacadeMethods
    <2>1. m.wants = "response"
      BY <1>4, RawFits
    <2> QED BY <1>2, <1>4, <2>1 DEF Checks
  <1> QED BY <1>3, <1>4

-----------------------------------------------------------------------------
(* Each step keeps the invariant. *)

LEMMA HttpInitInv == HttpInit => HttpInv
  <1> SUFFICES ASSUME HttpInit PROVE HttpInv
    OBVIOUS
  <1>1. phase = "idle" /\ call.method = Health /\ ~call.tx
    BY DEF HttpInit
  <1> QED BY <1>1 DEF HttpInv, CallInv, AnswerInv, FacadeMethods

LEMMA InvokeStep ==
  ASSUME HttpInv, NEW m \in FacadeMethods \union Raw, NEW tx \in BOOLEAN, NEW own \in BOOLEAN, Invoke(m, tx, own)
  PROVE  HttpInv'
  <1>1. /\ call'.method = m /\ call'.tx = tx /\ call'.own = own /\ phase' = "sent"
        /\ tx => m.on = "database" /\ m.session # "refused"
        /\ sent' = Given(m, tx, own) \intersect m.op.request.takes
    BY DEF Invoke
  <1>2. CallInv'
    BY <1>1, Zenon DEF CallInv
  <1> QED BY <1>1, <1>2 DEF HttpInv, AnswerInv

LEMMA RefuseStep == ASSUME HttpInv, NEW m \in FacadeMethods, Refuse(m) PROVE HttpInv'
  <1>1. call'.method = m /\ ~call'.tx /\ phase' = "done" /\ answer' = NoAnswer
    BY DEF Refuse
  <1> QED BY <1>1 DEF HttpInv, CallInv, AnswerInv

LEMMA NetFailsStep == ASSUME HttpInv, NetFails PROVE HttpInv'
  BY DEF HttpInv, CallInv, AnswerInv, NetFails

LEMMA RespondStep ==
  ASSUME HttpInv, NEW s \in Statuses, NEW json \in BOOLEAN, NEW sid \in BOOLEAN, NEW b \in Bodies, NEW got,
         Respond(s, json, b, got, sid)
  PROVE  HttpInv'
  <1>1. /\ phase = "sent" /\ phase' = "answered" /\ call' = call /\ sent' = sent
        /\ answer' = [status |-> s, json |-> json, body |-> b,
                      got |-> IF got # "whole" THEN got ELSE b, fault |-> got # "whole", sid |-> sid]
        /\ got # "whole" => got \in Cut(b)
    BY DEF Respond
  <1>2. Delivered(answer')
    <2>1. /\ answer'.status = s /\ answer'.body = b /\ (answer'.fault <=> got # "whole")
          /\ answer'.got = IF got # "whole" THEN got ELSE b
      BY <1>1
    <2> QED BY <1>1, <2>1 DEF Delivered
  <1>3. CallInv'
    BY <1>1 DEF HttpInv, CallInv
  <1> QED BY <1>1, <1>2, <1>3 DEF HttpInv, AnswerInv

LEMMA ReturnStep == ASSUME HttpInv, Return PROVE HttpInv'
  <1>1. phase = "answered" /\ phase' = "done" /\ call' = call /\ answer' = answer /\ Delivered(answer)
    BY DEF HttpInv, AnswerInv, Return
  <1>2. result' = Told(call.method, answer)
    BY Zenon DEF Return, Told
  <1> QED BY <1>1, <1>2 DEF HttpInv, CallInv, AnswerInv

LEMMA NextCallStep == ASSUME HttpInv, NextCall PROVE HttpInv'
  <1>1. phase' = "idle" /\ call'.method = Health /\ ~call'.tx
    BY DEF NextCall
  <1> QED BY <1>1 DEF HttpInv, CallInv, AnswerInv, FacadeMethods

LEMMA HttpNextInv == ASSUME HttpInv, [HttpNext]_httpVars PROVE HttpInv'
  <1>1. CASE UNCHANGED httpVars
    BY <1>1 DEF HttpInv, CallInv, AnswerInv, httpVars
  <1>2. ASSUME NEW s \in Statuses, NEW json \in BOOLEAN, NEW sid \in BOOLEAN, NEW b \in Bodies,
               NEW got \in Json \union {"whole", "empty", "partial", "text"}, Respond(s, json, b, got, sid)
        PROVE  HttpInv'
    BY <1>2, RespondStep
  <1> QED BY <1>1, <1>2, InvokeStep, RefuseStep, NetFailsStep, ReturnStep, NextCallStep DEF HttpNext

THEOREM HttpInvariance == HttpSpec => []HttpInv
  BY HttpInitInv, HttpNextInv, PTL DEF HttpSpec

\* Of every answer that can arrive, whole or cut, a facade method makes what
\* the server said: a document only of a whole body, an empty value only of an
\* answer that holds none (readChecked, decodeBody and the generated parsers).
THEOREM AnswersAreWhole == HttpSpec => []AnswerIsWhole
  <1>1. HttpInv => AnswerIsWhole
    BY ToldIsWhole DEF HttpInv, AnswerInv, AnswerIsWhole, HasAnswer, Facade, Whole
  <1> QED BY <1>1, HttpInvariance, PTL

\* A refusal that has the documented shape, or is no JSON, is reported with its
\* status by every facade method, and handed out by every operation of Raw().
THEOREM RefusalsAreTyped == HttpSpec => []RefusalIsTyped
  <1>1. HttpInv => RefusalIsTyped
    BY ToldIsTyped DEF HttpInv, CallInv, AnswerInv, RefusalIsTyped, HasAnswer, Facade
  <1> QED BY <1>1, HttpInvariance, PTL

\* The session id passes through the facade and the generated builder of every
\* database method, and no other request carries one its caller did not set.
THEOREM SessionsTravel == HttpSpec => []SessionTravels
  <1>1. HttpInv => SessionTravels
    <2> SUFFICES ASSUME HttpInv, phase \in {"sent", "answered"}
                 PROVE  /\ call.tx /\ call.method # DatabaseProgress => Session \in sent
                        /\ Session \in sent => call.tx \/ call.own
      BY DEF SessionTravels
    <2>1. sent = Given(call.method, call.tx, call.own) \intersect call.method.op.request.takes
      BY DEF HttpInv, CallInv
    <2>2. Session \in sent => call.tx \/ call.own
      BY <2>1 DEF Given
    <2>3. ASSUME call.tx, call.method # DatabaseProgress PROVE Session \in sent
      <3>1. call.method \in FacadeMethods /\ call.method.on = "database" /\ call.method.session # "refused"
        BY <2>3, RawFits DEF HttpInv, CallInv
      <3>2. Fits(call.method)
        BY <3>1, MethodsFit
      <3>3. call.method.session # "none" /\ Session \in call.method.op.request.takes
        BY <2>3, <3>1, <3>2 DEF Fits
      <3> QED BY <2>1, <2>3, <3>3 DEF Given
    <2> QED BY <2>2, <2>3
  <1> QED BY <1>1, HttpInvariance, PTL
=============================================================================
