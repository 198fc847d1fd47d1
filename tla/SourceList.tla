----------------------------- MODULE SourceList -----------------------------
(***************************************************************************)
(* What the registration of data sources promises its users, whatever      *)
(* threads and messages implement it: a server decides on a registration   *)
(* in one step, entering a name that is not listed and refusing one that   *)
(* is, and a caller is told that verdict or that it is unknown.  Nothing   *)
(* is promised of a server that is spoiled.                                *)
(***************************************************************************)
CONSTANTS
  Server,  \* data source servers
  Name,    \* names of data sources
  Url,     \* their addresses
  Call     \* registrations

VARIABLES
  list,     \* server -> name -> address
  asked,    \* call -> <<server, name, address>>, or <<>>
  verdict,  \* call -> what the server has decided
  told,     \* call -> what the caller has been told
  spoiled   \* servers of which nothing is promised

vars == <<list, asked, verdict, told, spoiled>>

Init ==
  /\ list = [s \in Server |-> <<>>]
  /\ asked = [c \in Call |-> <<>>]
  /\ verdict = [c \in Call |-> "none"]
  /\ told = [c \in Call |-> "none"]
  /\ spoiled = {}

Ask(c, s, n, u) ==
  /\ asked[c] = <<>>
  /\ asked' = [asked EXCEPT ![c] = <<s, n, u>>]
  /\ UNCHANGED <<list, verdict, told, spoiled>>

Listing(l, n, u) == [x \in DOMAIN l \cup {n} |-> IF x = n THEN u ELSE l[x]]

\* The server may decide after the caller has given up.
Decide(c, s, n, u) ==
  /\ asked[c] = <<s, n, u>> /\ verdict[c] = "none"
  /\ \/ /\ n \in DOMAIN list[s]
        /\ verdict' = [verdict EXCEPT ![c] = "refused"]
        /\ UNCHANGED list
     \/ /\ n \notin DOMAIN list[s]
        /\ verdict' = [verdict EXCEPT ![c] = "entered"]
        /\ list' = [list EXCEPT ![s] = Listing(list[s], n, u)]
  /\ UNCHANGED <<asked, told, spoiled>>

Tell(c, answer) ==
  /\ asked[c] # <<>> /\ told[c] = "none"
  /\ answer = "unknown" \/ (answer = verdict[c] /\ verdict[c] # "none")
  /\ told' = [told EXCEPT ![c] = answer]
  /\ UNCHANGED <<list, asked, verdict, spoiled>>

\* Spoiled servers stay so and may do anything with their lists and calls;
\* nothing changes elsewhere.
At(c, S) == asked[c] # <<>> /\ asked[c][1] \in S
Disturb ==
  /\ spoiled \subseteq spoiled' /\ spoiled' # {}
  /\ list' = [s \in Server |-> IF s \in spoiled' THEN list'[s] ELSE list[s]]
  /\ verdict' = [c \in Call |-> IF At(c, spoiled') THEN verdict'[c] ELSE verdict[c]]
  /\ told' = [c \in Call |-> IF At(c, spoiled') THEN told'[c] ELSE told[c]]
  /\ UNCHANGED asked

Next ==
  \/ \E c \in Call, s \in Server, n \in Name, u \in Url : Ask(c, s, n, u) \/ Decide(c, s, n, u)
  \/ \E c \in Call, answer \in {"entered", "refused", "unknown"} : Tell(c, answer)
  \/ Disturb

Spec == Init /\ [][Next]_vars

\* The calls of which something is promised, and what they are about.
Sound(c) == asked[c] # <<>> /\ asked[c][1] \notin spoiled

\* The promise: whoever is told that a name was entered finds it with the
\* address given, whoever is told that it was refused finds it, and of all
\* calls for one name at a server one at most is told that it was entered.
Promise ==
  \A c \in Call : Sound(c) =>
    LET s == asked[c][1]
        n == asked[c][2]
    IN  /\ told[c] = "entered" => n \in DOMAIN list[s] /\ list[s][n] = asked[c][3]
        /\ told[c] = "refused" => n \in DOMAIN list[s]
        /\ \A d \in Call : /\ Sound(d) /\ asked[d][1] = s /\ asked[d][2] = n
                           /\ told[c] = "entered" /\ told[d] = "entered"
                           => c = d
=============================================================================
