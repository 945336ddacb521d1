---------------------------- MODULE LoginSessions ----------------------------
(***************************************************************************)
(* The credentials of the Go HTTP driver: clients built with NewServer and *)
(* derived with WithToken, used by several goroutines at once; Login and   *)
(* LoginAs, which open a session on the server, Logout, which ends it, and *)
(* any other call.  A client is a handle on a map of headers, of which the *)
(* model keeps the Authorization entry.  A request takes its header from   *)
(* the map when it is built.  The server, which may also end a session by  *)
(* itself (idle, evicted by a later login, restarted), is external.        *)
(***************************************************************************)
EXTENDS Naturals, Sequences

CONSTANTS
  Users,
  MaxClients,    \* the clients ever built
  MaxSessions,   \* the sessions ever opened
  MaxRequests    \* the requests ever sent

ASSUME BoundsAssumption == MaxClients \in Nat \ {0} /\ MaxSessions \in Nat /\ MaxRequests \in Nat

Nobody == "nobody"

\* An Authorization value: a user's password, an API token of a user, or the token of the
\* n-th session. Only the last starts with "AU-", sessionTokenPrefix.
Basic(u) == [kind |-> "basic", user |-> u, token |-> 0]
ApiToken(u) == [kind |-> "api", user |-> u, token |-> 0]
SessionToken(n) == [kind |-> "session", user |-> Nobody, token |-> n]

VARIABLES
  clients,    \* each client: its map of headers, and the credential its caller gave it
  maps,       \* the maps of headers
  net,        \* the requests on their way
  count,      \* the requests sent so far
  known,      \* the session tokens the callers were given
  out,        \* the clients whose Logout returned nil
  sessions,   \* on the server: the user of each session ever opened
  live,       \* on the server: the sessions that are
  acts        \* who the server took a request to come from, and who it was meant to be

caller == <<clients, maps, known, out>>
server == <<sessions, live, acts>>
vars == <<caller, net, count, server>>

Init ==
  /\ \E u \in Users : maps \in {<<Basic(u)>>, <<ApiToken(u)>>}
  /\ clients = <<[map |-> 1, meant |-> maps[1]]>>
  /\ net = {} /\ count = 0 /\ known = {} /\ out = {}
  /\ sessions = <<>> /\ live = {} /\ acts = {}

-----------------------------------------------------------------------------
(* The driver. *)

\* the new client writes its token into the map of the one it comes from
FaultyWithToken(c, auth) ==
  /\ Len(clients) < MaxClients
  /\ maps' = [maps EXCEPT ![clients[c].map] = auth]
  /\ clients' = Append(clients, [map |-> clients[c].map, meant |-> auth])
  /\ UNCHANGED <<net, count, known, out, server>>

\* maps.Clone, then the new client's own Authorization
WithToken(c, auth) ==
  /\ Len(clients) < MaxClients
  /\ maps' = Append(maps, auth)
  /\ clients' = Append(clients, [map |-> Len(maps'), meant |-> auth])
  /\ UNCHANGED <<net, count, known, out, server>>

\* applyEditors: the client's headers are set first, then those of the call, if it has any
Header(c, own) == IF own = {} THEN maps[clients[c].map] ELSE CHOOSE auth \in own : TRUE
Meant(c, own) == IF own = {} THEN clients[c].meant ELSE CHOOSE auth \in own : TRUE

Send(kind, c, own) ==
  /\ count < MaxRequests /\ count' = count + 1
  /\ net' = net \union {[n |-> count', kind |-> kind, client |-> c,
                         auth |-> Header(c, own), meant |-> Meant(c, own)]}
  /\ UNCHANGED <<caller, server>>

Call(c) == Send("call", c, {})
Login(c) == Send("login", c, {})
LoginAs(c, u) == Send("login", c, {Basic(u)})

\* whatever the client presents is logged out
FaultyLogout(c) == Send("logout", c, {})

\* ErrNotSessionToken, without a request, for anything but a session token
Logout(c) == Header(c, {}).kind = "session" /\ Send("logout", c, {})

-----------------------------------------------------------------------------
(* The server. *)

\* "nobody" is a 401
Identity(auth) ==
  IF auth.kind # "session" THEN auth.user
  ELSE IF auth.token \in live THEN sessions[auth.token] ELSE Nobody

Acts(r) == acts' = acts \union {[meant |-> r.meant, as |-> Identity(r.auth)]}
Answered(r) == net' = net \ {r}

SrvCall(r) ==
  /\ r.kind = "call"
  /\ Acts(r) /\ Answered(r)
  /\ UNCHANGED <<caller, count, sessions, live>>

SrvRefuses(r) ==
  /\ Answered(r)
  /\ UNCHANGED <<caller, count, server>>

\* The answer may be lost, and the caller never learns the token.
SrvLogin(r) ==
  /\ r.kind = "login" /\ Identity(r.auth) # Nobody /\ Len(sessions) < MaxSessions
  /\ sessions' = Append(sessions, Identity(r.auth))
  /\ live' = live \union {Len(sessions')}
  /\ known' \in {known, known \union {Len(sessions')}}
  /\ Acts(r) /\ Answered(r)
  /\ UNCHANGED <<clients, maps, count, out>>

\* 204, which may be lost; a password or an API token gets it too, and ends nothing
SrvLogout(r) ==
  /\ r.kind = "logout" /\ Identity(r.auth) # Nobody
  /\ live' = live \ {r.auth.token}
  /\ out' \in {out, out \union {r.client}}
  /\ Acts(r) /\ Answered(r)
  /\ UNCHANGED <<clients, maps, count, known, sessions>>

SrvEnds(n) ==
  /\ n \in live /\ live' = live \ {n}
  /\ UNCHANGED <<caller, net, count, sessions, acts>>

-----------------------------------------------------------------------------
Next ==
  \/ \E c \in DOMAIN clients :
       \/ Call(c) \/ Login(c) \/ Logout(c)
       \/ \E u \in Users : LoginAs(c, u) \/ WithToken(c, ApiToken(u))
       \/ \E n \in known : WithToken(c, SessionToken(n))
  \/ \E r \in net : SrvCall(r) \/ SrvLogin(r) \/ SrvLogout(r) \/ SrvRefuses(r)
  \/ \E n \in live : SrvEnds(n)

Spec == Init /\ [][Next]_vars

-----------------------------------------------------------------------------
(* Properties. *)

UserOf(auth) == IF auth.kind = "session" THEN sessions[auth.token] ELSE auth.user

\* Every request acts as the user its caller meant, or as nobody: a client derived with
\* WithToken, by whichever goroutine and while whatever is on its way, changes no other
\* client; Login changes not even its own; and LoginAs acts as the user it names, whatever
\* the client is configured with.
ActsAsMeant == \A a \in acts : a.as \in {UserOf(a.meant), Nobody}

\* After a Logout that returned nil the client's token is dead on the server, for good and
\* for every client that holds it: a Logout that ends nothing is never reported as one.
LogoutMeansGone ==
  \A c \in out : clients[c].meant.kind = "session" /\ clients[c].meant.token \notin live
=============================================================================
