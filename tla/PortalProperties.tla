--------------------------- MODULE PortalProperties ---------------------------
(***************************************************************************)
(* What PortalSessions guarantees.                                         *)
(***************************************************************************)
EXTENDS PortalSessions

PortalTypeOK ==
  /\ access \in BOOLEAN /\ revived \in BOOLEAN
  /\ link \in [Links -> {"none", "open", "used", "dropped", "expired"}]
  /\ session \in [Sessions -> {"none", "live", "revoked", "expired"}]
  /\ from \in [Sessions -> Links \cup {0}] /\ page \in Sessions \cup {0}
  /\ click \in [Clicks -> [at : {"idle", "read", "claimed", "counted"},
                           link : Links \cup {0}, seen : SUBSET Sessions]]
  /\ \A c \in Clicks : click[c].at = "idle" => click[c] = Nobody

\* "Atomically consume a magic link and open a portal session": two clicks on
\* one link open one session between them, and no link is spent without one,
\* whatever dies on the way.
LinkOpensOne ==
  /\ \A s, t \in Sessions : from[s] # 0 /\ from[s] = from[t] => s = t
  /\ \A l \in Links : link[l] = "used" <=> \E s \in Sessions : from[s] = l

\* "inserting the caller's new row cannot take the account over the configured
\* cap": however many links are clicked at once, short of a request that began
\* before a session expired and ends after.
WithinCap == revived \/ Cardinality(Live(session)) <= DeviceCap

\* A session that was logged out, or had to make room, never works again, not
\* even when a page it loaded ends later (load_session).
RevokedStays == [][\A s \in Sessions : session[s] = "revoked" => session'[s] = "revoked"]_portalVars
=============================================================================
