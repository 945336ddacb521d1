--------------------------- MODULE ServerCommands ---------------------------
(***************************************************************************)
(* The commands the Go HTTP driver puts together as one string for         *)
(* POST /api/v1/server (admin.go, running.go): which arguments are refused *)
(* before anything is sent, what is sent, and what the server, which trims *)
(* and splits the string, takes the arguments to be.  The wait of the      *)
(* terminate commands is a Duration rounded to whole milliseconds.         *)
(*                                                                         *)
(* A string is a sequence of character classes, and a keyword of the       *)
(* command language is one element of it:                                  *)
(*   "chr"  a character nobody trims                                       *)
(*   "spc"  a space, tab or line break: white space at or below U+0020     *)
(*   "ctl"  a control character at or below U+0020 that is no white space  *)
(*   "nbs"  white space above U+0020, such as a no-break space             *)
(* No argument holds a keyword: how the server finds "database" and "tag"  *)
(* when an argument is one of these words is not told by this repository.  *)
(***************************************************************************)
EXTENDS GoIntegers, Sequences, FiniteSetsExt

CONSTANTS
    MaxLen,   \* bound: the longest argument
    Ms        \* time.Millisecond, in units of a Duration; 1000000 in the code

ASSUME MaxLenAssumption == MaxLen \in Nat
ASSUME MsAssumption == Ms \in Nat \ {0} /\ Ms <= MaxInt64

Chars == {"chr", "spc", "ctl", "nbs"}
Strings == UNION {[1..n -> Chars] : n \in 0..MaxLen}
Durations == 0..MaxInt64

\* s without the characters of cut at its two ends
Trim(s, cut) ==
    LET kept == {i \in DOMAIN s : s[i] \notin cut} IN
    IF kept = {} THEN <<>> ELSE SubSeq(s, Min(kept), Max(kept))

\* strings.TrimSpace cuts white space, the server every character at or below U+0020
IsSpace == {"spc", "nbs"}
spaceOrControl == {"spc", "ctl"}

---------------------------------------------------------------------------
(* The driver *)

checkWord(v) == v # <<>> /\ \A i \in DOMAIN v : v[i] \notin spaceOrControl

\* Faulty: a tag is checked as a database name is.
checkTagAsName(v) == Trim(v, IsSpace) = v

checkTag(v) == Trim(v, spaceOrControl) = v
checkName(v) == v # <<>> /\ Trim(v, IsSpace) = v

\* what each method takes as its word (a database, a query or a session) and as its tag
NoArgs == [word |-> <<>>, tag |-> <<>>]
TakesWord == {"CreateDatabase", "DropDatabase", "ListQueries", "TerminateQuery", "TerminateTransaction"}
TakesTag == {"ListQueries", "TerminateQueriesByTag"}
TakesWait == {"TerminateQuery", "TerminateQueriesByTag", "TerminateTransaction"}
Methods == TakesWord \cup TakesTag \cup {"ListTransactions"}

\* the argument checks of a method: TRUE when it goes on to send its command
databaseCommand(a) == checkName(a.word)
ListQueries(a) == (a.word = <<>> \/ checkWord(a.word)) /\ (a.tag = <<>> \/ checkTag(a.tag))
TerminateByWord(a) == checkWord(a.word)
TerminateQueriesByTag(a) == a.tag # <<>> /\ checkTag(a.tag)

Sends(m, a) ==
    CASE m \in {"CreateDatabase", "DropDatabase"} -> databaseCommand(a)
      [] m = "ListQueries" -> ListQueries(a)
      [] m \in {"TerminateQuery", "TerminateTransaction"} -> TerminateByWord(a)
      [] m = "TerminateQueriesByTag" -> TerminateQueriesByTag(a)
      [] m = "ListTransactions" -> TRUE

\* the command string after its verb
Keyword(k, arg) == IF arg = <<>> THEN <<>> ELSE <<"spc", k, "spc">> \o arg
Command(m, a) ==
    CASE m = "ListQueries" -> Keyword("database", a.word) \o Keyword("tag", a.tag)
      [] m = "TerminateQueriesByTag" -> <<"spc">> \o a.tag
      [] m = "ListTransactions" -> <<>>
      [] OTHER -> <<"spc">> \o a.word

\* a wait in whole milliseconds, rounded up; the sum may overflow
Rounded(wait) == Quo(Wrap(wait + Ms - 1), Ms)

---------------------------------------------------------------------------
(* The server (Java), as the comments of running.go describe it *)

\* the rest of a string after its first element k, nothing when there is none
After(s, k) == LET at == {i \in DOMAIN s : s[i] = k} IN
    IF at = {} THEN <<>> ELSE SubSeq(s, Min(at) + 1, Len(s))

FirstWord(s) == LET t == Trim(s, spaceOrControl)
                    gaps == {i \in DOMAIN t : t[i] \in spaceOrControl}
                IN IF gaps = {} THEN t ELSE SubSeq(t, 1, Min(gaps) - 1)

ServerReads(m, c) ==
    CASE m \in {"CreateDatabase", "DropDatabase"} -> [NoArgs EXCEPT !.word = Trim(c, spaceOrControl)]
      [] m = "ListQueries" -> [word |-> FirstWord(After(c, "database")),
                               tag |-> Trim(After(c, "tag"), spaceOrControl)]
      [] m = "TerminateQueriesByTag" -> [NoArgs EXCEPT !.tag = Trim(c, spaceOrControl)]
      [] m = "ListTransactions" -> NoArgs
      [] OTHER -> [NoArgs EXCEPT !.word = FirstWord(c)]

---------------------------------------------------------------------------
VARIABLES
    phase,    \* "idle", "sent", "served", "refused"
    call,     \* the method and its arguments
    request,  \* the command and the wait of the request body, 0 when there is none
    acted     \* the arguments the server acted on

commandVars == <<phase, call, request, acted>>

CommandInit ==
    /\ phase = "idle"
    /\ call = [method |-> "ListTransactions", args |-> NoArgs, wait |-> 0]
    /\ request = [command |-> <<>>, wait |-> 0]
    /\ acted = NoArgs

\* the arguments a caller of m may pass
Words(m) == IF m \in TakesWord THEN Strings ELSE {<<>>}
Tags(m) == IF m \in TakesTag THEN Strings ELSE {<<>>}
Waits(m) == IF m \in TakesWait THEN Durations ELSE {0}

\* ErrInvalidName, before anything is sent
Refuse(m, a, wait) ==
    /\ ~Sends(m, a)
    /\ call' = [method |-> m, args |-> a, wait |-> wait]
    /\ phase' = "refused"
    /\ UNCHANGED <<request, acted>>

Send(m, a, wait) ==
    /\ Sends(m, a)
    /\ call' = [method |-> m, args |-> a, wait |-> wait]
    /\ request' = [command |-> Command(m, a), wait |-> IF wait > 0 THEN Rounded(wait) ELSE 0]
    /\ phase' = "sent"
    /\ UNCHANGED acted

Serve ==
    /\ phase = "sent"
    /\ acted' = ServerReads(call.method, request.command)
    /\ phase' = "served"
    /\ UNCHANGED <<call, request>>

NextCall ==
    /\ phase \in {"served", "refused"}
    /\ phase' = "idle"
    /\ call' = [method |-> "ListTransactions", args |-> NoArgs, wait |-> 0]
    /\ request' = [command |-> <<>>, wait |-> 0]
    /\ acted' = NoArgs

CommandNext ==
    \/ /\ phase = "idle"
       /\ \E m \in Methods : \E w \in Words(m), t \in Tags(m), wait \in Waits(m) :
             \/ Refuse(m, [word |-> w, tag |-> t], wait)
             \/ Send(m, [word |-> w, tag |-> t], wait)
    \/ Serve
    \/ NextCall

---------------------------------------------------------------------------
Databases == {"CreateDatabase", "DropDatabase"}

\* A query, session, database or tag is acted on precisely as the caller named it, a no-break
\* space at its end included, so that no command of running.go stops somebody else's work; and
\* what those methods refuse would have been changed, or is an empty value where one is
\* required. The database methods (admin.go:88) refuse what is empty or begins or ends with
\* white space and nothing else, so the server trims the control characters at the ends of the
\* others and acts on what is left: the name itself when there are none, another one otherwise.
TargetIsNamed ==
    /\ phase = "served" =>
          acted = IF call.method \in Databases
                  THEN [call.args EXCEPT !.word = Trim(@, spaceOrControl)]
                  ELSE call.args
    /\ phase = "refused" =>
          IF call.method \in Databases
          THEN call.args.word = <<>> \/ Trim(call.args.word, IsSpace) # call.args.word
          ELSE \/ ServerReads(call.method, Command(call.method, call.args)) # call.args
               \/ call.args = NoArgs

\* The longest wait, in whole milliseconds.
LongestWait == (MaxInt64 + 1) \div Ms

\* The wait the server is sent (running.go:218) is the caller's rounded up to whole
\* milliseconds, never less and never "do not wait"; within a millisecond of the largest
\* Duration the sum overflows, and what is sent is about the longest wait with a minus sign.
WaitIsRoundedUp ==
    /\ phase = "sent" /\ call.wait \in 1..(MaxInt64 - Ms + 1) =>
          /\ request.wait * Ms >= call.wait
          /\ (request.wait - 1) * Ms < call.wait
    /\ phase = "sent" /\ call.wait > MaxInt64 - Ms + 1 =>
          request.wait \in (-LongestWait)..(1 - LongestWait)

\* What the comment of runningCommand says of every positive wait (running.go:209-210): it is
\* sent in whole milliseconds, rounded up.
WaitIsNeverCut == phase = "sent" /\ call.wait > 0 => request.wait * Ms >= call.wait
=============================================================================
