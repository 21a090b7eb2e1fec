-------------------------- MODULE AccessProperties --------------------------
(***************************************************************************)
(* What AccessLifecycle guarantees.                                        *)
(***************************************************************************)
EXTENDS AccessLifecycle

(***************************************************************************)
(* Of the program as deployed.                                             *)
(***************************************************************************)
ClaimsApart ==
  \A i, j \in SubIds :
    (i # j /\ sub[i].psid # NoLink) => sub[i].psid # sub[j].psid

\* "Exactly one local row may claim a provider subscription id": whatever
\* purchases, renewals and refunds interleave, two rows never share one, so a
\* Stripe event finds one row (release_superseded_provider_link).  Every column,
\* loaded row and batch keeps its type meanwhile.
OneClaimant == TypeOK /\ ClaimsApart

\* The row's window is over and the member is still to be removed, whether or
\* not a flood pause holds the next attempt back.
Lapsed(i) ==
  /\ sub[i].status \in AccessHolding
  /\ ~sub[i].comp /\ ~sub[i].revoked /\ ~sub[i].abandoned
  /\ AccessEndsAt(sub[i]) <= now

\* An armed sweep settles every lapsed row: through crashes, failed commits,
\* flood pauses and rows that change under it, it ends removed, given up, or
\* renewed.  No row retries for ever (kick_expired_job, GK-432).
LapseSettles == \A i \in SubIds : Lapsed(i) ~> ~Lapsed(i)

BanOutstanding(i) ==
  /\ sub[i].status \in AccessHolding
  /\ ~sub[i].revoked /\ ~sub[i].abandoned
  /\ banned[sub[i].user]

\* "A Telegram failure or process restart must still converge": every open row
\* of a banned member ends revoked or given up, unless the ban is lifted
\* (subscriptions_pending_ban_revoke, GK-400).
BanSettles ==
  \A i \in SubIds : (sub[i].status # "absent" /\ BanOutstanding(i))
                      ~> ~BanOutstanding(i)

(***************************************************************************)
(* Of the program one handler at a time (Overlap = FALSE).                 *)
(***************************************************************************)
\* Nobody sits in the chats unaccounted for: whoever is inside has a row that
\* gives access, is due for removal, or was given up on, or a handler is at
\* work for them.
PresenceAccounted ==
  \A u \in Users :
    inChat[u] => \/ OpenRows(u) # {}
                 \/ \E w \in Workers : tx[w].user = u

\* The link a row holds, or a handler has asked for.
Opens(u, n) == [user |-> u, n |-> n]

\* The assumption PresenceAccounted rests on, and the two ways the code breaks
\* it: a purchase on a row whose link was never used writes a fresh one over it
\* without revoking it, and a handler that dies leaves behind the links it asked
\* for, which no row holds.
LinksKept ==
  \A i \in SubIds :
    sub'[i].link # sub[i].link => Opens(sub[i].user, sub[i].link) \notin live
NoLinkLost == LinksKept /\ \A w \in Workers : ~CrashHandler(w)
KeptSpec == Init /\ [][Next /\ NoLinkLost]_vars

\* A full refund holds until somebody pays again: no ban and unban, extension,
\* late removal or concurrent purchase of another row gives the access back.
RefundSticks ==
  \A i \in refunded : ~sub[i].comp => ~HasAccess(sub[i], now)

\* A ban keeps what was paid for: once nothing is at work for a member who is
\* not banned, no active row inside the period it was sold for is left revoked.
EntitledKept ==
  \A i \in SubIds \ refunded :
    ( /\ sub[i].status = "active"
      /\ sub[i].cpe > now
      /\ ~banned[sub[i].user]
      /\ Quiet )
    => ~sub[i].revoked

\* What a member may rely on, step by step, one handler at a time: whatever
\* sells, renews, bans, refunds, restores or sweeps a row does to it what
\* AccessLife allows, and nothing else.
LifeOf(r) ==
  IF r.status = "absent" THEN "none"
  ELSE IF r.status \in AccessHolding /\ ~r.revoked THEN "open" ELSE "closed"
Life == INSTANCE AccessLife WITH
  Rows <- SubIds, Members <- Users,
  life <- [i \in SubIds |-> LifeOf(sub[i])],
  owner <- [i \in SubIds |-> sub[i].user],
  ends <- [i \in SubIds |-> AccessEndsAt(sub[i])],
  free <- [i \in SubIds |-> sub[i].comp]
ImplementsAccessLife == Life!Spec
=============================================================================
