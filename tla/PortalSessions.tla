---------------------------- MODULE PortalSessions ----------------------------
(***************************************************************************)
(* How a member gets into the archive (services/portal_auth.py,            *)
(* bot/handlers/portal.py, api/routers/portal.py): the bot hands out       *)
(* one-time links, a click turns a link into a session, sessions slide     *)
(* while they are used, and an account keeps a few of them at most.        *)
(*                                                                         *)
(* One account.  Links and sessions are numbered as they are made; their   *)
(* ends of life come at any time.                                          *)
(***************************************************************************)
EXTENDS FiniteSets, Naturals

CONSTANTS Links, Sessions,  \* bounds: links and sessions ever made, 1..n
          Clicks,           \* bound: redemptions under way at once
          LinkCap,          \* portal_magic_link_max_active
          DeviceCap         \* portal_session_max_active

ASSUME PortalAssumption ==
  /\ Links \subseteq Nat \ {0} /\ Sessions \subseteq Nat \ {0}
  /\ LinkCap \in Nat \ {0} /\ DeviceCap \in Nat \ {0}

VARIABLES
  access,   \* has_portal_access
  link,     \* portal_magic_links: none, open, used, dropped, expired
  session,  \* portal_sessions: none, live, revoked, expired
  from,     \* session -> the link it was opened from
  click,    \* redemptions under way
  page,     \* the session a request under way has loaded, 0: none
  revived   \* a session was extended after it had expired

portalVars == <<access, link, session, from, click, page, revived>>

Nobody == [at |-> "idle", link |-> 0, seen |-> {}]

PortalInit ==
  /\ access \in BOOLEAN
  /\ link = [l \in Links |-> "none"]
  /\ session = [s \in Sessions |-> "none"] /\ from = [s \in Sessions |-> 0]
  /\ click = [c \in Clicks |-> Nobody]
  /\ page = 0 /\ revived = FALSE

First(n, set) == {x \in set : Cardinality({y \in set : y < x}) < n}
Over(set, cap) == IF Cardinality(set) < cap THEN {} ELSE First(Cardinality(set) + 1 - cap, set)
Live(ss) == {s \in Sessions : ss[s] = "live"}
Fresh(of) == {x \in DOMAIN of : of[x] = "none" /\ \A y \in DOMAIN of : of[y] = "none" => x <= y}

\* Payment, expiry, ban: elsewhere.
AccessChanges ==
  /\ access' = ~access
  /\ UNCHANGED <<link, session, from, click, page, revived>>

\* issue_magic_link and _enforce_active_link_cap: the oldest open links make room.
IssueLink ==
  LET open == {l \in Links : link[l] = "open"}
  IN /\ access
     /\ \E new \in Fresh(link) :
          link' = [l \in Links |-> IF l = new THEN "open"
                                   ELSE IF l \in Over(open, LinkCap) THEN "dropped" ELSE link[l]]
     /\ UNCHANGED <<access, session, from, click, page, revived>>

\* Fifteen minutes, thirty days.
Expire ==
  /\ \/ \E l \in Links : link[l] = "open" /\ link' = [link EXCEPT ![l] = "expired"]
                         /\ UNCHANGED session
     \/ \E s \in Live(session) : session' = [session EXCEPT ![s] = "expired"]
                                 /\ UNCHANGED link
  /\ UNCHANGED <<access, from, click, page, revived>>

(***************************************************************************)
(* redeem_magic_link: one transaction, committed before the answer.        *)
(***************************************************************************)
Go(c, at) == click' = [click EXCEPT ![c].at = at]
Leave(c) == click' = [click EXCEPT ![c] = Nobody]
PortalStays == UNCHANGED <<access, link, from, session, page, revived>>

Click(c, l) ==
  /\ click[c] = Nobody /\ link[l] = "open"
  /\ click' = [click EXCEPT ![c] = [Nobody EXCEPT !.at = "read", !.link = l]]
  /\ PortalStays

Held(l) == \E c \in Clicks : click[c].at \in {"claimed", "counted"} /\ click[c].link = l

\* Broken variant: the claim does not ask again.
ClaimableRead(l) == TRUE
\* The condition of the UPDATE, evaluated once it has the row.
Claimable(l) == link[l] \in {"open", "expired"}

Claim(c) ==
  /\ click[c].at = "read" /\ ~Held(click[c].link)
  /\ IF Claimable(click[c].link) THEN Go(c, "claimed") ELSE Leave(c)
  /\ PortalStays

\* Without access the exception rolls the claim back: the link stays unused.
Turned(c) ==
  /\ click[c].at = "claimed" /\ ~access
  /\ Leave(c) /\ PortalStays

\* Broken variant: the sessions are counted without the lock.
MutexNone(c) == TRUE
\* The users row is locked until the commit.
Mutex(c) == \A d \in Clicks : click[d].at # "counted"

\* _enforce_active_session_cap, the read
CountSessions(c) ==
  /\ click[c].at = "claimed" /\ access /\ Mutex(c)
  /\ click' = [click EXCEPT ![c].at = "counted", ![c].seen = Live(session)]
  /\ PortalStays

\* create_session and the commit
OpenSession(c) ==
  /\ click[c].at = "counted"
  /\ \E new \in Fresh(session) :
       /\ session' = [s \in Sessions |->
                        IF s = new THEN "live"
                        ELSE IF s \in Over(click[c].seen, DeviceCap) THEN "revoked" ELSE session[s]]
       /\ from' = [from EXCEPT ![new] = click[c].link]
  /\ link' = [link EXCEPT ![click[c].link] = "used"]
  /\ Leave(c)
  /\ UNCHANGED <<access, page, revived>>

\* A process that dies rolls back.
Crash(c) ==
  /\ click[c].at \in {"claimed", "counted"}
  /\ Leave(c) /\ PortalStays

(***************************************************************************)
(* Sessions in use.                                                        *)
(***************************************************************************)
\* revoke_session, also for a session that has expired; the rows a redemption
\* has counted are locked.
Logout(s) ==
  /\ session[s] \in {"live", "expired"}
  /\ \A c \in Clicks : s \notin click[c].seen
  /\ session' = [session EXCEPT ![s] = "revoked"]
  /\ UNCHANGED <<access, link, from, click, page, revived>>

\* load_session reads the row without a lock...
OpenPage(s) ==
  /\ page = 0 /\ session[s] = "live"
  /\ page' = s
  /\ UNCHANGED <<access, link, session, from, click, revived>>

\* Broken variant: the whole row is written back.
SlidWhole(state) == "live"
\* ...and its commit, after the page, writes the changed columns: the new end
\* of life and never revoked_at.
Slid(state) == IF state = "revoked" THEN state ELSE "live"
ClosePage ==
  /\ page # 0 /\ page' = 0
  /\ \/ UNCHANGED <<session, revived>>
     \/ /\ \A c \in Clicks : page \notin click[c].seen
        /\ session' = [session EXCEPT ![page] = Slid(@)]
        /\ revived' = (revived \/ session[page] = "expired")
  /\ UNCHANGED <<access, link, from, click>>

PortalNext ==
  \/ AccessChanges \/ IssueLink \/ Expire \/ ClosePage
  \/ \E c \in Clicks, l \in Links : Click(c, l)
  \/ \E c \in Clicks : Claim(c) \/ Turned(c) \/ CountSessions(c) \/ OpenSession(c) \/ Crash(c)
  \/ \E s \in Sessions : Logout(s) \/ OpenPage(s)

PortalSpec == PortalInit /\ [][PortalNext]_portalVars
=============================================================================
