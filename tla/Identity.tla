------------------------------ MODULE Identity ------------------------------
(***************************************************************************)
(* The sessions of users who are signed in to the console (server.py,      *)
(* cognito_auth.py).  A browser carries the id of its session in a cookie; *)
(* every request looks the session up, and the look-up itself renews or    *)
(* ends a session whose token has expired.                                 *)
(*                                                                         *)
(* Abstracted: tokens and their claims; the pool of users, which lets them *)
(* in and renews a token or not; the gate of a single password, which has  *)
(* no users.                                                               *)
(***************************************************************************)
EXTENDS Integers, Sequences

CONSTANTS
  Users,        \* who may sign in, nobody where Cognito is not configured
  NoUser,       \* a request of nobody signed in
  MaxSessions   \* bound: the sessions

ASSUME IdentityAssumption == NoUser \notin Users /\ MaxSessions \in Nat

VARIABLES
  sessions,   \* _sessions, by the number of their id
  cookie      \* the session that the browser of each user carries

idvars == <<sessions, cookie>>

NoCookie == 0

IdentityInit ==
  /\ sessions = <<>>
  /\ cookie = [u \in Users |-> NoCookie]

\* cognito_login_submit, cognito_callback: a new session; the one of an
\* earlier cookie stays.
LogIn(u) ==
  /\ Len(sessions) < MaxSessions
  /\ sessions' = Append(sessions, [user |-> u, state |-> "fresh"])
  /\ cookie' = [cookie EXCEPT ![u] = Len(sessions')]

\* cognito_logout.
LogOut(u) ==
  /\ cookie[u] # NoCookie
  /\ sessions' = [sessions EXCEPT ![cookie[u]].state = "gone"]
  /\ cookie' = [cookie EXCEPT ![u] = NoCookie]

\* The token of a session runs out.
Expires(i) ==
  /\ sessions[i].state = "fresh"
  /\ sessions' = [sessions EXCEPT ![i].state = "stale"]
  /\ UNCHANGED cookie

\* get_session: found, and then fresh, or not, and then gone; a token that has
\* run out is renewed, or it cannot be.
GetSession(i, found) ==
  /\ IF found THEN sessions[i].state # "gone" ELSE sessions[i].state # "fresh"
  /\ sessions' = [sessions EXCEPT ![i].state = IF found THEN "fresh" ELSE "gone"]
  /\ UNCHANGED cookie

\* The cookies a request may come with; without users it needs none.
Cookies == IF Users = {} THEN {NoCookie} ELSE {cookie[u] : u \in Users} \ {NoCookie}

\* get_user_from_request_cookies.
Identified(i, found) ==
  IF i = NoCookie THEN ~found /\ UNCHANGED idvars ELSE GetSession(i, found)

\* _authed: a request that is let in; without users every one is.
Authed(i) == Identified(i, i # NoCookie)

Owner(i) == IF i = NoCookie THEN NoUser ELSE sessions[i].user
=============================================================================
