----------------------------- MODULE PortalProofs -----------------------------
(***************************************************************************)
(* The member portal.  In every instance of PortalSessions - any number of *)
(* links, sessions and clicks at once, any caps - a link opens one session,*)
(* a session that was revoked stays so and the sessions of a member stay   *)
(* under the cap.  In every instance of Archive - any videos, modules and  *)
(* sync runs at once - what an administrator curated survives the syncs    *)
(* and the pages a member opens agree with each other.                     *)
(***************************************************************************)
EXTENDS ArchiveProperties, PortalProperties, FiniteSetTheorems, WellFoundedInduction, TLAPS

LinkStates == {"none", "open", "used", "dropped", "expired"}
SessionStates == {"none", "live", "revoked", "expired"}
Click_s == [at : {"idle", "read", "claimed", "counted"}, link : Links \cup {0},
            seen : SUBSET Sessions]
Holding(c) == click[c].at \in {"claimed", "counted"}

\* A click that is under way has a link.
ClicksHaveLinks == \A c \in Clicks : click[c].at # "idle" => click[c].link \in Links

\* The row lock of the claim: one holder for each link, which nobody has used.
OneHolder ==
  /\ \A c, d \in Clicks : Holding(c) /\ Holding(d) /\ click[c].link = click[d].link => c = d
  /\ \A c \in Clicks : Holding(c) => link[click[c].link] # "used"

\* Sessions that were never opened come from no link.
FreshFromNowhere == \A s \in Sessions : session[s] = "none" => from[s] = 0

PInv == PortalTypeOK /\ ClicksHaveLinks /\ OneHolder /\ FreshFromNowhere /\ LinkOpensOne

LEMMA NoLinkZero == 0 \notin Links
  BY PortalAssumption

\* The first states.
LEMMA PortalInitially == PortalInit => PInv
<1> SUFFICES ASSUME PortalInit PROVE PInv
  OBVIOUS
<1> USE DEF PortalInit, Nobody
<1>1. PortalTypeOK
  BY DEF PortalTypeOK
<1>2. ClicksHaveLinks
  BY DEF ClicksHaveLinks
<1>3. OneHolder
  BY DEF OneHolder, Holding
<1>4. FreshFromNowhere
  BY DEF FreshFromNowhere
<1>5. LinkOpensOne
  BY NoLinkZero DEF LinkOpensOne
<1> QED BY <1>1, <1>2, <1>3, <1>4, <1>5 DEF PInv

\* What a step may do to the clicks, everything else but the unused links being
\* as it was: it takes nobody's link away and gives none that is held.
LEMMA ClicksMove ==
  ASSUME PInv, NEW c \in Clicks, NEW k \in Click_s,
         click' = [click EXCEPT ![c] = k],
         k.at = "idle" => k = Nobody,
         k.at # "idle" => k.link \in Links,
         k.at \in {"claimed", "counted"} =>
           /\ k.link = click[c].link
           /\ Holding(c) \/ (~Held(k.link) /\ link[k.link] # "used"),
         UNCHANGED <<access, link, session, from, page, revived>>
  PROVE  PInv'
<1> USE DEF PInv
<1>1. click' \in [Clicks -> Click_s]
  BY DEF PortalTypeOK, Click_s
<1>2. \A d \in Clicks : click'[d] = IF d = c THEN k ELSE click[d]
  BY DEF PortalTypeOK
<1>3. PortalTypeOK'
  BY <1>1, <1>2 DEF PortalTypeOK, Click_s
<1>4. ClicksHaveLinks'
  BY <1>2 DEF ClicksHaveLinks
<1>5. OneHolder'
  <2>1. ASSUME NEW d \in Clicks, NEW e \in Clicks, Holding(d)', Holding(e)',
               click'[d].link = click'[e].link
        PROVE  d = e
    <3>1. CASE d = c /\ e # c
      BY <1>2, <2>1, <3>1 DEF OneHolder, Holding, Held
    <3>2. CASE d # c /\ e = c
      BY <1>2, <2>1, <3>2 DEF OneHolder, Holding, Held
    <3>3. CASE d # c /\ e # c
      BY <1>2, <2>1, <3>3 DEF OneHolder, Holding
    <3> QED BY <3>1, <3>2, <3>3
  <2>2. ASSUME NEW d \in Clicks, Holding(d)' PROVE link'[click'[d].link] # "used"
    BY <1>2, <2>2 DEF OneHolder, Holding
  <2> QED BY <2>1, <2>2 DEF OneHolder
<1>6. FreshFromNowhere' /\ LinkOpensOne'
  BY DEF FreshFromNowhere, LinkOpensOne
<1> QED BY <1>3, <1>4, <1>5, <1>6

\* A click that ends leaves nothing behind.
LEMMA Leaving ==
  ASSUME PInv, NEW c \in Clicks, Leave(c), PortalStays
  PROVE  PInv'
<1>1. Nobody \in Click_s /\ Nobody.at = "idle"
  BY DEF Nobody, Click_s
<1> QED BY <1>1, ClicksMove DEF Leave, PortalStays

\* Sessions and links that move without opening anything: a session leaves
\* neither its birth nor the used links behind.
LEMMA RowsMove ==
  ASSUME PInv, access' \in BOOLEAN, revived' \in BOOLEAN, page' \in Sessions \cup {0},
         link' \in [Links -> LinkStates], session' \in [Sessions -> SessionStates],
         \A l \in Links : link'[l] = "used" <=> link[l] = "used",
         \A s \in Sessions : session'[s] = "none" => session[s] = "none",
         UNCHANGED <<from, click>>
  PROVE  PInv'
<1> USE DEF PInv
<1>1. PortalTypeOK'
  BY DEF PortalTypeOK, LinkStates, SessionStates
<1>2. ClicksHaveLinks'
  BY DEF ClicksHaveLinks
<1>3. OneHolder'
  BY DEF OneHolder, Holding, ClicksHaveLinks
<1>4. FreshFromNowhere' /\ LinkOpensOne'
  BY DEF FreshFromNowhere, LinkOpensOne
<1> QED BY <1>1, <1>2, <1>3, <1>4

\* The commit of a redemption: the only step that uses a link.
LEMMA Opening ==
  ASSUME PInv, NEW c \in Clicks, OpenSession(c)
  PROVE  PInv'
<1> DEFINE l == click[c].link
<1> USE DEF PInv
<1>1. l \in Links /\ link[l] # "used" /\ Holding(c) /\ l # 0
  BY NoLinkZero DEF OpenSession, ClicksHaveLinks, OneHolder, Holding
<1>2. PICK new \in Sessions :
        /\ session[new] = "none"
        /\ session' = [s \in Sessions |->
                         IF s = new THEN "live"
                         ELSE IF s \in Over(click[c].seen, DeviceCap) THEN "revoked" ELSE session[s]]
        /\ from' = [from EXCEPT ![new] = l]
  BY DEF OpenSession, Fresh, PortalTypeOK
<1>3. /\ link' = [link EXCEPT ![l] = "used"] /\ click' = [click EXCEPT ![c] = Nobody]
      /\ UNCHANGED <<access, page, revived>>
  BY DEF OpenSession, Leave
<1>4. \A s \in Sessions : from'[s] = IF s = new THEN l ELSE from[s]
  BY <1>2 DEF PortalTypeOK
<1>5. \A m \in Links : link'[m] = IF m = l THEN "used" ELSE link[m]
  BY <1>3 DEF PortalTypeOK
<1>6. \A d \in Clicks : click'[d] = IF d = c THEN Nobody ELSE click[d]
  BY <1>3 DEF PortalTypeOK
<1>7. PortalTypeOK'
  <2>1. session' \in [Sessions -> SessionStates]
    BY <1>2 DEF PortalTypeOK, SessionStates
  <2>2. from' \in [Sessions -> Links \cup {0}]
    BY <1>1, <1>2 DEF PortalTypeOK
  <2>3. link' \in [Links -> LinkStates]
    BY <1>3 DEF PortalTypeOK, LinkStates
  <2>4. click' \in [Clicks -> Click_s] /\ \A d \in Clicks : click'[d].at = "idle" => click'[d] = Nobody
    BY <1>3, <1>6 DEF PortalTypeOK, Click_s, Nobody
  <2> QED BY <1>3, <2>1, <2>2, <2>3, <2>4 DEF PortalTypeOK, SessionStates, LinkStates, Click_s
<1>8. ClicksHaveLinks'
  BY <1>6 DEF ClicksHaveLinks, Nobody
<1>9. OneHolder'
  BY <1>1, <1>5, <1>6 DEF OneHolder, Holding, ClicksHaveLinks, Nobody
<1>10. FreshFromNowhere'
  BY <1>2, <1>4 DEF FreshFromNowhere, PortalTypeOK
<1>11. LinkOpensOne'
  <2>1. \A s \in Sessions : from[s] # l
    BY <1>1 DEF LinkOpensOne
  <2>2. from[new] = 0
    BY <1>2 DEF FreshFromNowhere
  <2>3. \A s, t \in Sessions : from'[s] # 0 /\ from'[s] = from'[t] => s = t
    BY <1>4, <2>1 DEF LinkOpensOne
  <2>4. ASSUME NEW m \in Links
        PROVE  link'[m] = "used" <=> \E s \in Sessions : from'[s] = m
    <3>1. CASE m = l
      BY <1>4, <1>5, <3>1
    <3>2. CASE m # l
      BY <1>4, <1>5, <2>2, <3>2, NoLinkZero DEF LinkOpensOne
    <3> QED BY <3>1, <3>2
  <2> QED BY <2>3, <2>4 DEF LinkOpensOne
<1> QED BY <1>7, <1>8, <1>9, <1>10, <1>11

\* Every step keeps the invariant.
LEMMA PortalSteps == PInv /\ [PortalNext]_portalVars => PInv'
<1> SUFFICES ASSUME PInv, [PortalNext]_portalVars PROVE PInv'
  OBVIOUS
<1> USE DEF PInv
<1>1. CASE UNCHANGED portalVars
  BY <1>1, RowsMove DEF portalVars, PortalTypeOK, LinkStates, SessionStates
<1>2. CASE AccessChanges
  BY <1>2, RowsMove DEF AccessChanges, PortalTypeOK, LinkStates, SessionStates
<1>3. CASE IssueLink
  <2> DEFINE open == {l \in Links : link[l] = "open"}
  <2>1. PICK new \in Fresh(link) :
          link' = [l \in Links |-> IF l = new THEN "open"
                                   ELSE IF l \in Over(open, LinkCap) THEN "dropped" ELSE link[l]]
    BY <1>3 DEF IssueLink
  <2>2. link[new] = "none"
    BY DEF Fresh
  <2>3. Over(open, LinkCap) \subseteq open
    BY DEF Over, First
  <2>4. \A l \in Links : link'[l] = "used" <=> link[l] = "used"
    BY <2>1, <2>2, <2>3
  <2>5. link' \in [Links -> LinkStates]
    BY <2>1 DEF PortalTypeOK, LinkStates
  <2> HIDE DEF open
  <2> QED BY <1>3, <2>4, <2>5, RowsMove DEF IssueLink, PortalTypeOK, SessionStates
<1>4. CASE Expire
  <2>1. /\ link' \in [Links -> LinkStates] /\ session' \in [Sessions -> SessionStates]
        /\ \A l \in Links : link'[l] = "used" <=> link[l] = "used"
        /\ \A s \in Sessions : session'[s] = "none" => session[s] = "none"
    BY <1>4 DEF Expire, PortalTypeOK, LinkStates, SessionStates, Live
  <2> QED BY <1>4, <2>1, RowsMove DEF Expire, PortalTypeOK
<1>5. CASE ClosePage
  <2>1. /\ session' \in [Sessions -> SessionStates] /\ revived' \in BOOLEAN
        /\ \A s \in Sessions : session'[s] = "none" => session[s] = "none"
    BY <1>5 DEF ClosePage, Slid, PortalTypeOK, SessionStates
  <2> QED BY <1>5, <2>1, RowsMove DEF ClosePage, PortalTypeOK, LinkStates
<1>6. ASSUME NEW s \in Sessions, Logout(s) PROVE PInv'
  <2>1. /\ session' \in [Sessions -> SessionStates]
        /\ \A t \in Sessions : session'[t] = "none" => session[t] = "none"
    BY <1>6 DEF Logout, PortalTypeOK, SessionStates
  <2> QED BY <1>6, <2>1, RowsMove DEF Logout, PortalTypeOK, LinkStates
<1>7. ASSUME NEW s \in Sessions, OpenPage(s) PROVE PInv'
  BY <1>7, RowsMove DEF OpenPage, PortalTypeOK, LinkStates, SessionStates
<1>8. ASSUME NEW c \in Clicks, NEW l \in Links, Click(c, l) PROVE PInv'
  <2> DEFINE k == [Nobody EXCEPT !.at = "read", !.link = l]
  <2>1. k \in Click_s /\ k.at = "read" /\ k.link \in Links
    BY DEF Nobody, Click_s
  <2>2. click' = [click EXCEPT ![c] = k]
    BY <1>8 DEF Click
  <2> HIDE DEF k
  <2> QED BY <1>8, <2>1, <2>2, ClicksMove DEF Click, PortalStays
<1>9. ASSUME NEW c \in Clicks, Claim(c) PROVE PInv'
  <2>1. CASE Claimable(click[c].link)
    <3> DEFINE k == [click[c] EXCEPT !.at = "claimed"]
    <3>1. k \in Click_s /\ k.at = "claimed" /\ k.link = click[c].link
      BY DEF PortalTypeOK, Click_s
    <3>2. click' = [click EXCEPT ![c] = k]
      BY <1>9, <2>1 DEF Claim, Go, PortalTypeOK
    <3>3. click[c].link \in Links /\ link[click[c].link] # "used" /\ ~Held(click[c].link)
      BY <1>9, <2>1 DEF Claim, Claimable, ClicksHaveLinks
    <3> HIDE DEF k
    <3> QED BY <1>9, <3>1, <3>2, <3>3, ClicksMove DEF Claim, PortalStays
  <2>2. CASE ~Claimable(click[c].link)
    BY <1>9, <2>2, Leaving DEF Claim
  <2> QED BY <2>1, <2>2
<1>10. ASSUME NEW c \in Clicks, Turned(c) PROVE PInv'
  BY <1>10, Leaving DEF Turned
<1>11. ASSUME NEW c \in Clicks, CountSessions(c) PROVE PInv'
  <2> DEFINE k == [click[c] EXCEPT !.at = "counted", !.seen = Live(session)]
  <2>1. k \in Click_s /\ k.at = "counted" /\ k.link = click[c].link
    BY DEF PortalTypeOK, Click_s, Live
  <2>2. click' = [click EXCEPT ![c] = k]
    BY <1>11 DEF CountSessions, PortalTypeOK
  <2>3. Holding(c) /\ click[c].link \in Links
    BY <1>11 DEF CountSessions, Holding, ClicksHaveLinks
  <2> HIDE DEF k
  <2> QED BY <1>11, <2>1, <2>2, <2>3, ClicksMove DEF CountSessions, PortalStays
<1>12. ASSUME NEW c \in Clicks, OpenSession(c) PROVE PInv'
  BY <1>12, Opening
<1>13. ASSUME NEW c \in Clicks, Crash(c) PROVE PInv'
  BY <1>13, Leaving DEF Crash
<1> QED BY <1>1, <1>2, <1>3, <1>4, <1>5, <1>6, <1>7, <1>8, <1>9, <1>10, <1>11, <1>12, <1>13
        DEF PortalNext

LEMMA PortalInductive == PortalSpec => []PInv
<1> QED BY PortalInitially, PortalSteps, PTL DEF PortalSpec

\* The rows and the clicks keep their shape (PortalSessions as a whole).
THEOREM PortalTypeCorrect == PortalSpec => []PortalTypeOK
<1>1. PInv => PortalTypeOK
  BY DEF PInv
<1> QED BY <1>1, PortalInductive, PTL

\* "Atomically consume a magic link and open a portal session"
\* (redeem_magic_link), with any number of clicks, links and crashes.
THEOREM LinkOpensOneCorrect == PortalSpec => []LinkOpensOne
<1>1. PInv => LinkOpensOne
  BY DEF PInv
<1> QED BY <1>1, PortalInductive, PTL

\* A session that was logged out, or made room, never works again
\* (load_session, revoke_session), whatever pages and redemptions are open.
THEOREM RevokedStaysCorrect == PortalSpec => RevokedStays
<1>1. ASSUME PInv, [PortalNext]_portalVars
      PROVE  [\A s \in Sessions : session[s] = "revoked" => session'[s] = "revoked"]_portalVars
  <2> SUFFICES ASSUME PortalNext, NEW s \in Sessions, session[s] = "revoked"
               PROVE  session'[s] = "revoked"
    BY <1>1
  <2>1. session \in [Sessions -> SessionStates]
    BY <1>1 DEF PInv, PortalTypeOK, SessionStates
  <2>2. CASE Expire
    BY <2>1, <2>2 DEF Expire, Live
  <2>3. CASE ClosePage
    BY <2>1, <2>3 DEF ClosePage, Slid
  <2>4. CASE \E c \in Clicks : OpenSession(c)
    BY <2>1, <2>4 DEF OpenSession, Fresh
  <2>5. CASE \E t \in Sessions : Logout(t)
    BY <2>1, <2>5 DEF Logout
  <2>6. CASE UNCHANGED session
    BY <2>6
  <2> QED BY <2>2, <2>3, <2>4, <2>5, <2>6
          DEF PortalNext, AccessChanges, IssueLink, Click, Claim, Turned, CountSessions, Crash,
              OpenPage, PortalStays
<1> QED BY <1>1, PortalInductive, PTL DEF PortalSpec, RevokedStays

(***************************************************************************)
(* The cap.  The oldest sessions make room: how many are first is counted. *)
(***************************************************************************)
\* A nonempty set of numbers has a least one.
LEMMA LeastNumber ==
  ASSUME NEW T \in SUBSET Nat, T # {}
  PROVE  \E x \in T : \A y \in T : x <= y
<1> DEFINE R == OpToRel(<, Nat)
<1>1. IsWellFoundedOn(R, Nat)
  BY NatLessThanWellFounded, Zenon
<1> HIDE DEF R
<1>2. PICK x \in T : \A y \in T : <<y, x>> \notin R
  BY <1>1, WFMin
<1>3. \A y \in T : ~(y < x)
  BY <1>2 DEF R, OpToRel
<1> QED BY <1>3

\* The n first of a set are n, if it has as many: of the others the least comes
\* next.
LEMMA FirstCount ==
  ASSUME NEW S \in SUBSET Nat, IsFiniteSet(S)
  PROVE  \A n \in Nat : n <= Cardinality(S) =>
           Cardinality(First(n, S)) = n
<1> DEFINE Below(x) == {y \in S : y < x}
           Wrong == {n \in Nat : n <= Cardinality(S) /\ Cardinality(First(n, S)) # n}
<1>1. Cardinality(S) \in Nat
  BY FS_CardinalityType
<1>0. \A x, y : y \in Below(x) <=> (y \in S /\ y < x)
  OBVIOUS
<1>3. \A n : /\ \A x : x \in First(n, S) <=> (x \in S /\ Cardinality(Below(x)) < n)
             /\ First(n, S) \subseteq S /\ IsFiniteSet(First(n, S))
  BY FS_Subset DEF First
<1> HIDE DEF Below
<1>2. \A x \in S : IsFiniteSet(Below(x)) /\ Cardinality(Below(x)) \in Nat
  <2> TAKE x \in S
  <2>1. Below(x) \in SUBSET S
    BY <1>0
  <2> QED BY <2>1, FS_Subset, FS_CardinalityType
<1>4. \A x, y \in S : x <= y => Cardinality(Below(x)) <= Cardinality(Below(y))
  <2> SUFFICES ASSUME NEW x \in S, NEW y \in S, x <= y
               PROVE  Cardinality(Below(x)) <= Cardinality(Below(y))
    OBVIOUS
  <2>1. Below(x) \in SUBSET Below(y)
    <3>1. ASSUME NEW z \in S, z < x PROVE z < y
      <4>1. z \in Nat /\ x \in Nat /\ y \in Nat
        OBVIOUS
      <4> QED BY <3>1, <4>1
    <3> QED BY <1>0, <3>1
  <2> QED BY <1>2, <2>1, FS_Subset
<1> SUFFICES ASSUME Wrong # {} PROVE FALSE
  BY DEF Wrong
<1>5. PICK n \in Wrong : \A k \in Wrong : n <= k
  BY LeastNumber
<1>6. n # 0
  <2>1. First(0, S) = {}
    <3>1. \A x \in S : ~(Cardinality(Below(x)) < 0)
      BY <1>2
    <3> QED BY <1>3, <3>1
  <2> QED BY <2>1, FS_EmptySet DEF Wrong
<1> DEFINE F == First(n - 1, S)
<1>7. n - 1 \in Nat /\ n - 1 < Cardinality(S) /\ Cardinality(F) = n - 1 /\ IsFiniteSet(F)
      /\ F \subseteq S
  <2>1. n \in Nat /\ n <= Cardinality(S)
    OBVIOUS
  <2>2. n - 1 \in Nat /\ n - 1 \notin Wrong
    BY <1>5, <1>6, <2>1
  <2> QED BY <1>1, <1>3, <2>1, <2>2
<1>8. \A x \in S : x \in F <=> Cardinality(Below(x)) < n - 1
  BY <1>3
<1> HIDE DEF F
<1>9. PICK x \in S \ F : \A y \in S \ F : x <= y
  <2>1. S # F
    BY <1>7
  <2> QED BY <1>7, <2>1, LeastNumber
<1>10. Below(x) = F
  <2>1. \A y \in S : y < x => y \in F
    BY <1>9
  <2>2. ASSUME NEW y \in F PROVE y < x
    <3>1. y \in S /\ y \in Nat /\ x \in Nat
      BY <1>7
    <3>2. Cardinality(Below(y)) < n - 1 /\ ~(Cardinality(Below(x)) < n - 1)
      BY <1>8, <1>9, <3>1
    <3>3. ~(x <= y)
      BY <1>2, <1>4, <1>7, <3>1, <3>2
    <3> QED BY <3>1, <3>3
  <2> QED BY <1>0, <1>7, <2>1, <2>2
<1>11. First(n, S) = F \cup {x}
  <2>1. x \in First(n, S) /\ F \subseteq First(n, S)
    <3>1. x \in First(n, S)
      BY <1>3, <1>7, <1>9, <1>10
    <3>2. \A y \in S : Cardinality(Below(y)) < n - 1 => Cardinality(Below(y)) < n
      BY <1>2, <1>7
    <3> QED BY <1>3, <1>7, <1>8, <3>1, <3>2 DEF F
  <2>2. ASSUME NEW y \in First(n, S), y \notin F PROVE y = x
    <3>1. y \in S /\ Cardinality(Below(y)) < n /\ x <= y
      BY <1>3, <1>9, <2>2
    <3>2. CASE x < y
      <4>1. F \cup {x} \in SUBSET Below(y)
        <5>1. \A z \in F : z \in S /\ z < x
          BY <1>0, <1>10
        <5>2. ASSUME NEW z \in F PROVE z < y
          <6>1. z \in Nat /\ x \in Nat /\ y \in Nat /\ z < x
            BY <3>1, <5>1
          <6> QED BY <3>2, <6>1
        <5> QED BY <1>0, <1>7, <1>9, <3>2, <5>1, <5>2
      <4>2. Cardinality(F \cup {x}) = n
        <5>1. Cardinality(F \cup {x}) = Cardinality(F) + 1
          BY <1>7, <1>9, FS_AddElement
        <5> QED BY <1>7, <5>1
      <4>3. Cardinality(F \cup {x}) <= Cardinality(Below(y))
        BY <1>2, <3>1, <4>1, FS_Subset
      <4> QED BY <1>2, <1>7, <3>1, <4>2, <4>3
    <3> QED BY <3>1, <3>2
  <2> QED BY <2>1, <2>2
<1>12. Cardinality(First(n, S)) = n
  <2>1. Cardinality(F \cup {x}) = Cardinality(F) + 1
    BY <1>7, <1>9, FS_AddElement
  <2> QED BY <1>7, <1>11, <2>1
<1> QED BY <1>12

\* After the oldest have made room, one more fits under the cap.
LEMMA RoomForOne ==
  ASSUME NEW S \in SUBSET Nat, IsFiniteSet(S), NEW cap \in Nat \ {0}
  PROVE  Cardinality(S \ Over(S, cap)) < cap
<1>1. Cardinality(S) \in Nat
  BY FS_CardinalityType
<1>2. CASE Cardinality(S) < cap
  <2>1. S \ Over(S, cap) = S
    BY <1>2 DEF Over
  <2> QED BY <1>2, <2>1
<1>3. CASE ~(Cardinality(S) < cap)
  <2> DEFINE n == Cardinality(S) + 1 - cap
             F == First(n, S)
  <2>1. Over(S, cap) = F
    BY <1>3 DEF Over
  <2>2. n \in Nat /\ n <= Cardinality(S) /\ Cardinality(S) - n < cap
    BY <1>1, <1>3
  <2>3. Cardinality(F) = n /\ F \subseteq S
    BY <2>2, FirstCount DEF First
  <2>4. Cardinality(S \ F) = Cardinality(S) - Cardinality(S \cap F)
    BY FS_Difference
  <2>5. S \cap F = F
    BY <2>3
  <2> QED BY <2>1, <2>2, <2>3, <2>4, <2>5
<1> QED BY <1>2, <1>3

\* While a redemption has counted, no other has, and the live sessions are among
\* those it counted: the rows are locked, unless a page revives one.
CapInv ==
  /\ \A c, d \in Clicks : click[c].at = "counted" /\ click[d].at = "counted" => c = d
  /\ \A c \in Clicks : IsFiniteSet(click[c].seen)
  /\ IsFiniteSet(Live(session))
  /\ \A c \in Clicks :
       (click[c].at = "counted" /\ ~revived) => Live(session) \subseteq click[c].seen
  /\ page # 0 => session[page] # "none"
  /\ WithinCap

LEMMA CapInitially == PortalInit => CapInv
<1> SUFFICES ASSUME PortalInit PROVE CapInv
  OBVIOUS
<1>1. Live(session) = {}
  BY DEF PortalInit, Live
<1>2. WithinCap
  BY <1>1, FS_EmptySet, PortalAssumption DEF WithinCap
<1> QED BY <1>1, <1>2, FS_EmptySet DEF PortalInit, Nobody, CapInv

\* Sessions that only end, and clicks that only leave.
LEMMA CapShrinks ==
  ASSUME CapInv, Live(session') \subseteq Live(session), revived' = revived,
         page' # 0 => session'[page'] # "none",
         \A c \in Clicks :
           click'[c].at = "counted" \/ click'[c].seen # click[c].seen =>
             click'[c] = Nobody \/ (click'[c].at = click[c].at /\ click'[c].seen = click[c].seen)
  PROVE  CapInv'
<1>1. IsFiniteSet(Live(session')) /\ Cardinality(Live(session')) <= Cardinality(Live(session))
  BY FS_Subset DEF CapInv
<1>2. Cardinality(Live(session')) \in Nat /\ Cardinality(Live(session)) \in Nat
  BY <1>1, FS_CardinalityType DEF CapInv
<1>3. WithinCap'
  BY <1>1, <1>2, PortalAssumption DEF CapInv, WithinCap
<1>4. \A c \in Clicks : IsFiniteSet(click'[c].seen)
  <2>1. IsFiniteSet(Nobody.seen)
    BY FS_EmptySet DEF Nobody
  <2> QED BY <2>1 DEF CapInv
<1>5. \A c \in Clicks : click'[c].at = "counted" =>
        click[c].at = "counted" /\ click'[c].seen = click[c].seen
  BY DEF Nobody
<1> QED BY <1>1, <1>3, <1>4, <1>5 DEF CapInv

LEMMA CapSteps == PInv /\ CapInv /\ [PortalNext]_portalVars => CapInv'
<1> SUFFICES ASSUME PInv, CapInv, [PortalNext]_portalVars PROVE CapInv'
  OBVIOUS
<1>0. /\ session \in [Sessions -> SessionStates] /\ page \in Sessions \cup {0}
      /\ page # 0 => session[page] # "none"
  BY DEF PInv, CapInv, PortalTypeOK, SessionStates
<1>1. CASE UNCHANGED portalVars
  BY <1>0, <1>1, CapShrinks DEF portalVars
<1>2. CASE AccessChanges \/ IssueLink
  BY <1>0, <1>2, CapShrinks DEF AccessChanges, IssueLink
<1>3. CASE Expire
  <2>1. Live(session') \subseteq Live(session) /\ (page # 0 => session'[page] # "none")
    BY <1>0, <1>3 DEF Expire, Live
  <2> QED BY <1>3, <2>1, CapShrinks DEF Expire
<1>4. ASSUME NEW s \in Sessions, Logout(s) PROVE CapInv'
  <2>1. Live(session') \subseteq Live(session) /\ (page # 0 => session'[page] # "none")
    BY <1>0, <1>4 DEF Logout, Live
  <2> QED BY <1>4, <2>1, CapShrinks DEF Logout
<1>5. ASSUME NEW s \in Sessions, OpenPage(s) PROVE CapInv'
  BY <1>5, CapShrinks DEF OpenPage
<1>6. CASE ClosePage
  <2>1. UNCHANGED click /\ page' = 0 /\ page # 0 /\ page \in Sessions
    BY <1>0, <1>6 DEF ClosePage
  <2>2. CASE UNCHANGED <<session, revived>>
    BY <2>1, <2>2, CapShrinks
  <2>3. CASE /\ session' = [session EXCEPT ![page] = Slid(@)]
             /\ revived' = (revived \/ session[page] = "expired")
    <3>1. Live(session') \subseteq Live(session) \cup {page}
      BY <1>0, <2>1, <2>3 DEF Live
    <3>2. IsFiniteSet(Live(session'))
      <4>1. IsFiniteSet(Live(session) \cup {page})
        BY FS_AddElement DEF CapInv
      <4> QED BY <3>1, <4>1, FS_Subset
    <3>3. CASE session[page] = "expired"
      <4>1. revived'
        BY <2>3, <3>3
      <4>2. WithinCap'
        BY <4>1 DEF WithinCap
      <4> QED BY <2>1, <3>2, <4>1, <4>2 DEF CapInv
    <3>4. CASE session[page] \in {"live", "revoked"}
      <4>1. Live(session') \subseteq Live(session)
        BY <1>0, <2>1, <2>3, <3>4 DEF Live, Slid
      <4>2. revived' = revived
        <5>1. session[page] # "expired"
          BY <3>4
        <5>2. revived \in BOOLEAN
          BY DEF PInv, PortalTypeOK
        <5> QED BY <2>3, <5>1, <5>2
      <4> QED BY <2>1, <4>1, <4>2, CapShrinks
    <3> QED BY <1>0, <2>1, <3>3, <3>4 DEF SessionStates
  <2> QED BY <1>6, <2>2, <2>3 DEF ClosePage
<1>7. ASSUME NEW c \in Clicks, NEW l \in Links, Click(c, l) PROVE CapInv'
  <2>1. \A d \in Clicks : click'[d] = IF d = c THEN [Nobody EXCEPT !.at = "read", !.link = l] ELSE click[d]
    BY <1>7 DEF Click, PInv, PortalTypeOK
  <2>2. click[c].seen = {} /\ [Nobody EXCEPT !.at = "read", !.link = l].seen = {}
        /\ [Nobody EXCEPT !.at = "read", !.link = l].at = "read"
    BY <1>7 DEF Click, Nobody
  <2> QED BY <1>0, <1>7, <2>1, <2>2, CapShrinks DEF Click, PortalStays
<1>8. ASSUME NEW c \in Clicks, Claim(c) \/ Turned(c) \/ Crash(c) PROVE CapInv'
  <2>1. PortalStays
    BY <1>8 DEF Claim, Turned, Crash
  <2>2. \A d \in Clicks : d # c => click'[d] = click[d]
    BY <1>8 DEF Claim, Turned, Crash, Go, Leave, PInv, PortalTypeOK
  <2>3. click'[c] = Nobody \/ (click'[c].at = "claimed" /\ click'[c].seen = click[c].seen)
    BY <1>8 DEF Claim, Turned, Crash, Go, Leave, PInv, PortalTypeOK
  <2> QED BY <1>0, <2>1, <2>2, <2>3, CapShrinks DEF PortalStays
<1>9. ASSUME NEW c \in Clicks, CountSessions(c) PROVE CapInv'
  <2>1. /\ UNCHANGED <<session, page, revived>>
        /\ \A d \in Clicks : click[d].at # "counted"
    BY <1>9 DEF CountSessions, Mutex, PortalStays
  <2>2. /\ \A d \in Clicks : d # c => click'[d] = click[d]
        /\ click'[c].at = "counted" /\ click'[c].seen = Live(session)
    BY <1>9 DEF CountSessions, PInv, PortalTypeOK
  <2>3. WithinCap'
    BY <2>1 DEF CapInv, WithinCap
  <2> QED BY <2>1, <2>2, <2>3 DEF CapInv
<1>10. ASSUME NEW c \in Clicks, OpenSession(c) PROVE CapInv'
  <2> DEFINE seen == click[c].seen
  <2>1. PICK new \in Sessions :
          /\ session[new] = "none"
          /\ session' = [s \in Sessions |->
                           IF s = new THEN "live"
                           ELSE IF s \in Over(seen, DeviceCap) THEN "revoked" ELSE session[s]]
    BY <1>0, <1>10 DEF OpenSession, Fresh
  <2>2. /\ click[c].at = "counted" /\ UNCHANGED <<page, revived>>
        /\ click'[c] = Nobody
        /\ \A d \in Clicks : d # c => click'[d] = click[d]
    BY <1>10 DEF OpenSession, Leave, PInv, PortalTypeOK
  <2>3. \A d \in Clicks : click'[d].at # "counted" /\ IsFiniteSet(click'[d].seen)
    BY <2>2, FS_EmptySet DEF CapInv, Nobody
  <2>4. page # 0 => session'[page] # "none"
    BY <1>0, <2>1
  <2>5. seen \in SUBSET Nat /\ IsFiniteSet(seen)
    BY PortalAssumption DEF PInv, PortalTypeOK, CapInv
  <2> HIDE DEF seen
  <2>6. Live(session') = (Live(session) \ Over(seen, DeviceCap)) \cup {new}
    BY <2>1 DEF Live
  <2>7. IsFiniteSet(Live(session'))
    <3>1. IsFiniteSet(Live(session) \ Over(seen, DeviceCap))
      BY FS_Difference DEF CapInv
    <3> QED BY <2>6, <3>1, FS_AddElement
  <2>8. WithinCap'
    <3> SUFFICES ASSUME ~revived PROVE Cardinality(Live(session')) <= DeviceCap
      BY <2>2 DEF WithinCap
    <3> DEFINE rest == seen \ Over(seen, DeviceCap)
               left == Live(session) \ Over(seen, DeviceCap)
    <3>1. left \in SUBSET rest
      BY <2>2 DEF CapInv, seen
    <3>2. IsFiniteSet(rest) /\ Cardinality(rest) < DeviceCap
      BY <2>5, RoomForOne, FS_Difference, PortalAssumption
    <3> HIDE DEF rest
    <3>3. IsFiniteSet(left) /\ Cardinality(left) <= Cardinality(rest)
      BY <3>1, <3>2, FS_Subset
    <3>4. Live(session') = left \cup {new}
      BY <2>6
    <3> HIDE DEF left
    <3>5. Cardinality(left \cup {new}) \in {Cardinality(left), Cardinality(left) + 1}
      BY <3>3, FS_AddElement
    <3>6. Cardinality(left) \in Nat /\ Cardinality(rest) \in Nat /\ DeviceCap \in Nat
      BY <3>2, <3>3, FS_CardinalityType, PortalAssumption
    <3> QED BY <3>2, <3>3, <3>4, <3>5, <3>6
  <2> QED BY <2>2, <2>3, <2>4, <2>7, <2>8 DEF CapInv
<1> QED BY <1>1, <1>2, <1>3, <1>4, <1>5, <1>6, <1>7, <1>8, <1>9, <1>10 DEF PortalNext

\* "inserting the caller's new row cannot take the account over the configured
\* cap" (_enforce_active_session_cap), with any number of clicks at once, short
\* of a page that outlives its session.
THEOREM WithinCapCorrect == PortalSpec => []WithinCap
<1>1. CapInv => WithinCap
  BY DEF CapInv
<1> QED BY <1>1, CapInitially, CapSteps, PortalInductive, PTL DEF PortalSpec

(***************************************************************************)
(* The archive.                                                            *)
(***************************************************************************)
RowStates == {"none", "vimeo", "removed", "admin"}
ModuleRow == [there : BOOLEAN, active : BOOLEAN, title : Titles \cup {None},
              last : Titles \cup {None}]

Pairs == Videos \X Modules

FetchOK(fetch) ==
  /\ DOMAIN fetch.members \subseteq Albums
  /\ DOMAIN fetch.title \subseteq Albums
  /\ \A a \in DOMAIN fetch.title : fetch.title[a] \in Titles
\* What the sync runs hold.
Fetches == {NoFetch} \cup Showcases
Seen == UNION {[as -> ModuleRow] : as \in SUBSET Albums}
Plans == [add : SUBSET Pairs, drop : SUBSET Pairs,
          primary : UNION {[vs -> Modules \cup {None}] : vs \in SUBSET Videos}]
Run == [at : {"idle", "listed", "written", "fetched", "merging", "grouped"},
        listing : SUBSET Videos, create : SUBSET Videos, hide : SUBSET Videos,
        fetch : Fetches, seen : Seen, plan : Plans]

\* A run adds rows of videos that are known when it commits, and drops rows the
\* showcase does not back.
PlanOK(run) ==
  /\ \A p \in run.plan.add : p[1] \in Known \cup run.create /\ p[2] \in Albums
  /\ \A p \in run.plan.drop :
       p[2] \in DOMAIN run.fetch.members /\ p[1] \notin run.fetch.members[p[2]]
\* What a run has read of a module that bears a name of an administrator's: that
\* the title is not the last synced one.
SeenOK(run) ==
  \A a \in DOMAIN run.fetch.title :
    own[a] # None /\ run.seen[a].there => run.seen[a].title # run.seen[a].last
RunOK(run) ==
  /\ IF run.at = "grouped" THEN PlanOK(run) ELSE run.plan = NoPlan
  /\ run.at \in {"merging", "grouped"} => SeenOK(run)
RunsOK == sync \in [Syncs -> Run] /\ \A s \in Syncs : RunOK(sync[s])
EditOK ==
  edit.at # "idle" =>
    /\ edit.pair \in Pairs /\ edit.pair[1] \in Known
    /\ edit.row \in RowStates /\ (edit.row \in {"vimeo", "removed"} => edit.pair[2] \in Albums)
    /\ edit.row = "removed" => edit.read # "removed"
    /\ edit.primary \in Modules \cup {None}
OwnOK == own \in [Albums -> Titles \cup {None}]

\* A row, a tombstone too, is of a video the archive knows, so that a sync which
\* lists the video finds it; a module made by hand holds no row of Vimeo's.
RowsKnown == /\ pruned \subseteq Pairs
             /\ \A p \in Pairs : pair[p] # "none" => p[1] \in Known
             /\ \A p \in Pairs : pair[p] \in {"vimeo", "removed"} => p[2] \in Albums
\* A title an administrator gave differs from the last synced one.
OwnDiffers ==
  \A a \in Albums : own[a] # None => module[a].there /\ module[a].title # module[a].last

AInv == /\ ArchiveTypeOK /\ RunsOK /\ EditOK /\ OwnOK
        /\ RowsKnown /\ PruneSticks /\ OwnDiffers /\ RenameSticks

LEMMA NoneIsNoModule == None \notin Modules /\ None \notin Titles /\ Albums \cap Manual = {}
  BY ArchiveAssumption DEF Modules

\* The types of the state, field by field.
LEMMA ArchiveTypes ==
  ASSUME AInv
  PROVE  /\ vimeo \in Catalogue
         /\ video \in [Videos -> {"absent", "visible", "hidden"}]
         /\ module \in [Modules -> ModuleRow]
         /\ pair \in [Pairs -> RowStates]
         /\ primary \in [Videos -> Modules \cup {None}]
         /\ own \in [Albums -> Titles \cup {None}]
         /\ \A m \in Modules : module[m].active => module[m].there
         /\ \A v \in Videos : Refers(primary[v])
  BY DEF AInv, ArchiveTypeOK, OwnOK, ModuleRow, RowStates, Pairs

LEMMA FetchesOK ==
  ASSUME NEW f \in Fetches
  PROVE  FetchOK(f)
<1>1. CASE f = NoFetch
  BY <1>1 DEF FetchOK, NoFetch
<1>2. CASE f \in Showcases
  <2>1. PICK as \in SUBSET Albums : f \in [members : [as -> SUBSET Videos], title : [as -> Titles]]
    BY <1>2 DEF Showcases
  <2>2. f.members \in [as -> SUBSET Videos] /\ f.title \in [as -> Titles]
    BY <2>1
  <2> QED BY <2>2 DEF FetchOK
<1> QED BY <1>1, <1>2 DEF Fetches

LEMMA RestingRun == Resting \in Run /\ NoPlan \in Plans /\ Resting.plan = NoPlan /\ Resting.at = "idle"
<1>1. [v \in {} |-> None] \in [{} -> Modules \cup {None}] /\ {} \in SUBSET Videos
  OBVIOUS
<1>2. [a \in {} |-> NoModule] \in [{} -> ModuleRow] /\ {} \in SUBSET Albums
  OBVIOUS
<1>3. NoPlan \in Plans
  BY <1>1 DEF NoPlan, Plans
<1>4. [a \in {} |-> NoModule] \in Seen
  BY <1>2 DEF Seen
<1> QED BY <1>3, <1>4 DEF Resting, Run, Fetches

LEMMA ArchiveInitially == ArchiveInit => AInv
<1> SUFFICES ASSUME ArchiveInit PROVE AInv
  OBVIOUS
<1> USE DEF ArchiveInit
<1>1. ArchiveTypeOK
  BY DEF ArchiveTypeOK, NoModule, Refers
<1>2. RunsOK
  BY RestingRun DEF RunsOK, RunOK
<1>3. EditOK /\ OwnOK
  BY DEF EditOK, NoEdit, OwnOK
<1>4. RowsKnown /\ PruneSticks /\ OwnDiffers /\ RenameSticks
  BY DEF RowsKnown, PruneSticks, OwnDiffers, RenameSticks, Pairs
<1> QED BY <1>1, <1>2, <1>3, <1>4 DEF AInv

\* What is known stays known to the runs and to the edit under way, and a run does
\* not mind that a name of an administrator's is gone.
LEMMA RunsKeep ==
  ASSUME AInv, UNCHANGED sync, Known \subseteq Known',
         \A a \in Albums : own'[a] = own[a] \/ own'[a] = None
  PROVE  RunsOK'
<1> SUFFICES ASSUME NEW s \in Syncs PROVE RunOK(sync[s])'
  BY DEF AInv, RunsOK
<1>1. RunOK(sync[s]) /\ sync[s].fetch \in Fetches /\ sync'[s] = sync[s]
  BY DEF AInv, RunsOK, Run
<1>2. DOMAIN sync[s].fetch.title \subseteq Albums
  BY <1>1, FetchesOK DEF FetchOK
<1>3. PlanOK(sync[s]) => PlanOK(sync[s])'
  BY <1>1 DEF PlanOK
<1>4. SeenOK(sync[s]) => SeenOK(sync[s])'
  BY <1>1, <1>2 DEF SeenOK
<1> QED BY <1>1, <1>3, <1>4 DEF RunOK

LEMMA EditKeeps ==
  ASSUME AInv, UNCHANGED edit, Known \subseteq Known'
  PROVE  EditOK'
  BY DEF AInv, EditOK

\* Steps that only move the runs, the edit under way or what is at Vimeo.
LEMMA ReadingKeeps ==
  ASSUME AInv, UNCHANGED <<archive, ghosts>>, vimeo' \in Catalogue, RunsOK', EditOK'
  PROVE  AInv'
<1>1. ArchiveTypeOK'
  BY DEF AInv, ArchiveTypeOK, archive, Refers
<1>2. OwnOK' /\ RowsKnown' /\ PruneSticks'
  BY DEF AInv, OwnOK, RowsKnown, PruneSticks, Known, archive, ghosts
<1>3. OwnDiffers' /\ RenameSticks'
  BY DEF AInv, OwnDiffers, RenameSticks, archive, ghosts
<1> QED BY <1>1, <1>2, <1>3 DEF AInv

LEMMA OneRunMoves ==
  ASSUME AInv, NEW s \in Syncs, NEW run \in Run, RunOK(run),
         sync' = [sync EXCEPT ![s] = run], UNCHANGED <<vimeo, archive, edit, ghosts>>
  PROVE  AInv'
<1>1. RunsOK'
  <2>1. sync' \in [Syncs -> Run]
    BY DEF AInv, RunsOK
  <2>2. ASSUME NEW r \in Syncs PROVE RunOK(sync'[r])
    <3>1. CASE r = s
      BY <3>1 DEF AInv, RunsOK
    <3>2. CASE r # s
      BY <3>2 DEF AInv, RunsOK
    <3> QED BY <3>1, <3>2
  <2>3. \A r \in Syncs : RunOK(sync[r])' <=> RunOK(sync'[r])
    BY DEF RunOK, PlanOK, SeenOK, Known, archive, ghosts
  <2> QED BY <2>1, <2>2, <2>3 DEF RunsOK
<1>2. EditOK' /\ vimeo' \in Catalogue
  BY EditKeeps, ArchiveTypes DEF Known, archive
<1> QED BY <1>1, <1>2, ReadingKeeps DEF archive, ghosts

LEMMA ReadingSteps ==
  ASSUME AInv,
         \/ OwnerEdits
         \/ \E s \in Syncs : ListVideos(s) \/ UpsertVideos(s) \/ FetchShowcases(s) \/ ReadModules(s)
  PROVE  AInv'
<1>0. vimeo \in Catalogue /\ sync \in [Syncs -> Run] /\ \A s \in Syncs : RunOK(sync[s])
  BY ArchiveTypes DEF AInv, RunsOK
<1>1. CASE OwnerEdits
  <2>1. vimeo' \in Catalogue /\ UNCHANGED <<archive, sync, edit, ghosts>>
    BY <1>1 DEF OwnerEdits
  <2>2. RunsOK' /\ EditOK'
    BY <2>1, RunsKeep, EditKeeps DEF Known, archive, ghosts
  <2> QED BY <2>1, <2>2, ReadingKeeps
<1>2. ASSUME NEW s \in Syncs, ListVideos(s) PROVE AInv'
  <2> DEFINE listed == [sync[s] EXCEPT !.at = "listed", !.listing = vimeo.videos]
             failed == [sync[s] EXCEPT !.at = "written"]
  <2>1. sync' = [sync EXCEPT ![s] = listed] \/ sync' = [sync EXCEPT ![s] = failed]
    BY <1>2 DEF ListVideos
  <2>2. vimeo.videos \subseteq Videos /\ sync[s] \in Run /\ RunOK(sync[s]) /\ sync[s].at = "idle"
    BY <1>0, <1>2 DEF Catalogue, ListVideos
  <2>3. listed \in Run /\ listed.at = "listed" /\ listed.plan = sync[s].plan
        /\ failed \in Run /\ failed.at = "written" /\ failed.plan = sync[s].plan
    BY <2>2 DEF Run
  <2> HIDE DEF listed, failed
  <2>4. RunOK(listed) /\ RunOK(failed)
    BY <2>2, <2>3 DEF RunOK
  <2> QED BY <1>2, <2>1, <2>3, <2>4, OneRunMoves DEF ListVideos
<1>3. ASSUME NEW s \in Syncs, UpsertVideos(s) PROVE AInv'
  <2> DEFINE run == [sync[s] EXCEPT !.at = "written", !.listing = @ \cap Known,
                                    !.create = sync[s].listing \ Known,
                                    !.hide = {v \in Known \ sync[s].listing : video[v] = "visible"}]
  <2>1. sync[s] \in Run /\ RunOK(sync[s]) /\ sync[s].at = "listed"
    BY <1>0, <1>3 DEF UpsertVideos
  <2>2. run \in Run /\ run.at = "written" /\ run.plan = sync[s].plan
    BY <2>1 DEF Run, Known
  <2>3. sync' = [sync EXCEPT ![s] = run]
    BY <1>3 DEF UpsertVideos
  <2> HIDE DEF run
  <2>4. RunOK(run)
    BY <2>1, <2>2 DEF RunOK
  <2> QED BY <1>3, <2>2, <2>3, <2>4, OneRunMoves DEF UpsertVideos
<1>4. ASSUME NEW s \in Syncs, FetchShowcases(s) PROVE AInv'
  <2>1. PICK fetch \in {NoFetch, vimeo.showcases} :
          sync' = [sync EXCEPT ![s] = [@ EXCEPT !.at = IF fetch = NoFetch THEN "grouped" ELSE "fetched",
                                                !.fetch = fetch]]
    BY <1>4 DEF FetchShowcases
  <2> DEFINE run == [sync[s] EXCEPT !.at = IF fetch = NoFetch THEN "grouped" ELSE "fetched",
                                    !.fetch = fetch]
  <2>2. fetch \in Fetches /\ sync[s] \in Run /\ RunOK(sync[s]) /\ sync[s].at = "written"
    BY <1>0, <1>4, <2>1 DEF Catalogue, Fetches, FetchShowcases
  <2>3. run \in Run /\ run.at \in {"grouped", "fetched"} /\ run.plan = sync[s].plan
        /\ run.fetch = fetch /\ (run.at = "grouped" => fetch = NoFetch)
    BY <2>2 DEF Run
  <2>4. sync' = [sync EXCEPT ![s] = run]
    BY <2>1
  <2> HIDE DEF run
  <2>5. run.plan = NoPlan
    BY <2>2, <2>3 DEF RunOK
  <2>6. RunOK(run)
    BY <2>3, <2>5 DEF RunOK, PlanOK, SeenOK, NoPlan, NoFetch
  <2> QED BY <1>4, <2>3, <2>4, <2>6, OneRunMoves DEF FetchShowcases
<1>5. ASSUME NEW s \in Syncs, ReadModules(s) PROVE AInv'
  <2> DEFINE seen == [a \in DOMAIN sync[s].fetch.title |-> [module[a] EXCEPT !.active = FALSE]]
             run  == [sync[s] EXCEPT !.at = "merging", !.seen = seen]
  <2>1. sync[s] \in Run /\ RunOK(sync[s]) /\ sync[s].at = "fetched"
    BY <1>0, <1>5 DEF ReadModules
  <2>2. DOMAIN sync[s].fetch.title \subseteq Albums
    BY <2>1, FetchesOK DEF FetchOK, Run
  <2>3. \A a \in DOMAIN sync[s].fetch.title :
          /\ seen[a] \in ModuleRow
          /\ seen[a].title = module[a].title /\ seen[a].last = module[a].last
    <3> SUFFICES ASSUME NEW a \in DOMAIN sync[s].fetch.title
                 PROVE  /\ seen[a] \in ModuleRow
                        /\ seen[a].title = module[a].title /\ seen[a].last = module[a].last
      OBVIOUS
    <3>1. module[a] \in ModuleRow /\ seen[a] = [module[a] EXCEPT !.active = FALSE]
      BY <2>2, ArchiveTypes DEF Modules
    <3> HIDE DEF seen
    <3> QED BY <3>1 DEF ModuleRow
  <2>4. seen \in [DOMAIN sync[s].fetch.title -> ModuleRow]
    BY <2>3
  <2> HIDE DEF seen
  <2>5. seen \in Seen
    BY <2>2, <2>4 DEF Seen
  <2>6. run \in Run /\ run.at = "merging" /\ run.plan = sync[s].plan /\ run.fetch = sync[s].fetch
        /\ run.seen = seen
    BY <2>1, <2>5 DEF Run
  <2>7. sync' = [sync EXCEPT ![s] = run]
    BY <1>5 DEF ReadModules, seen
  <2> HIDE DEF run
  <2>8. SeenOK(run)
    BY <2>2, <2>3, <2>6 DEF SeenOK, AInv, OwnDiffers
  <2>9. RunOK(run)
    BY <2>1, <2>6, <2>8 DEF RunOK
  <2> QED BY <1>5, <2>6, <2>7, <2>9, OneRunMoves DEF ReadModules
<1> QED BY <1>1, <1>2, <1>3, <1>4, <1>5

\* A run plans no row of a tombstone, nor the removal of a row its listing backs.
LEMMA GroupSteps ==
  ASSUME AInv, NEW s \in Syncs, Group(s)
  PROVE  AInv'
<1> DEFINE run  == sync[s]
           rows == [p \in Videos \X Modules |->
                      IF p[2] \in DOMAIN run.fetch.members
                      THEN Reconciled(pair[p], p[1] \in run.fetch.members[p[2]]
                                                 \cap (Known \cup run.create))
                      ELSE pair[p]]
           changed(row) == {p \in DOMAIN rows : rows[p] # pair[p] /\ rows[p] = row}
           affected == {p[1] : p \in changed("vimeo") \cup changed("none")}
<1>1. PICK found \in [affected -> Modules \cup {None}] :
        sync' = [sync EXCEPT ![s].at = "grouped",
                             ![s].plan = [add |-> changed("vimeo"), drop |-> changed("none"),
                                          primary |-> found]]
  BY DEF Group
<1> DEFINE plan == [add |-> changed("vimeo"), drop |-> changed("none"), primary |-> found]
           new  == [run EXCEPT !.at = "grouped", !.plan = plan]
<1>2. run \in Run /\ RunOK(run) /\ run.at = "merging"
  BY DEF Group, AInv, RunsOK
<1>3. DOMAIN run.fetch.members \subseteq Albums
  BY <1>2, FetchesOK DEF FetchOK, Run
<1>4. pair \in [Pairs -> RowStates] /\ DOMAIN rows = Pairs
  BY ArchiveTypes DEF Pairs
<1>5. \A p \in changed("vimeo") :
        p \in Pairs /\ p[1] \in Known \cup run.create /\ p[2] \in Albums
  BY <1>3, <1>4 DEF Reconciled, Pairs, RowStates
<1>6. \A p \in changed("none") :
        /\ p \in Pairs /\ p[2] \in DOMAIN run.fetch.members
        /\ p[1] \notin run.fetch.members[p[2]]
  <2> SUFFICES ASSUME NEW p \in changed("none")
               PROVE  /\ p \in Pairs /\ p[2] \in DOMAIN run.fetch.members
                      /\ p[1] \notin run.fetch.members[p[2]]
    OBVIOUS
  <2>1. p \in Pairs /\ rows[p] # pair[p] /\ rows[p] = "none" /\ pair[p] \in RowStates
    BY <1>4
  <2>2. p[2] \in DOMAIN run.fetch.members
    BY <2>1 DEF Pairs
  <2>3. p[1] \notin run.fetch.members[p[2]] \cap (Known \cup run.create)
    BY <2>1, <2>2 DEF Reconciled, Pairs
  <2>4. p[1] \in Known
    BY <2>1 DEF AInv, RowsKnown
  <2> QED BY <2>1, <2>2, <2>3, <2>4
<1>7. affected \in SUBSET Videos
  BY <1>5, <1>6 DEF Pairs
<1>8. plan \in Plans
  <2>1. changed("vimeo") \subseteq Pairs /\ changed("none") \subseteq Pairs
    BY <1>4
  <2> HIDE DEF affected, changed
  <2> QED BY <1>7, <2>1 DEF Plans
<1>9. PlanOK(new) /\ SeenOK(new) /\ new \in Run /\ new.at = "grouped"
  <2>1. plan.add = changed("vimeo") /\ plan.drop = changed("none")
    OBVIOUS
  <2> HIDE DEF plan, changed
  <2>2. new \in Run /\ new.at = "grouped" /\ new.plan = plan /\ new.fetch = run.fetch
        /\ new.create = run.create /\ new.seen = run.seen
    BY <1>2, <1>8 DEF Run
  <2>3. SeenOK(run)
    BY <1>2 DEF RunOK
  <2> HIDE DEF new, run
  <2> QED BY <1>5, <1>6, <2>1, <2>2, <2>3 DEF PlanOK, SeenOK
<1>10. sync' = [sync EXCEPT ![s] = new]
  BY <1>1
<1> HIDE DEF new
<1>11. RunOK(new)
  BY <1>9 DEF RunOK
<1> QED BY <1>9, <1>10, <1>11, OneRunMoves DEF Group

\* The module of a showcase after a run that holds it: a name of an administrator's
\* stays, unless it is Vimeo's by now.
LEMMA FinishSyncSteps ==
  ASSUME AInv, NEW s \in Syncs, FinishSync(s)
  PROVE  AInv'
<1> DEFINE run == sync[s]
<1>1. run \in Run /\ RunOK(run) /\ run.at = "grouped" /\ PlanOK(run) /\ SeenOK(run)
  BY DEF AInv, RunsOK, FinishSync, RunOK
<1>2. sync' = [sync EXCEPT ![s] = Resting] /\ UNCHANGED <<vimeo, edit>>
  BY DEF FinishSync
<1>3. RunOK(Resting)
  BY RestingRun DEF RunOK
<1>4. CASE UNCHANGED <<archive, ghosts>>
  BY <1>2, <1>3, <1>4, RestingRun, OneRunMoves
<1>5. CASE /\ ~Collides(run)
           /\ video' = [v \in Videos |-> IF v \in run.create THEN "visible"
                                         ELSE IF v \in run.hide THEN "hidden" ELSE video[v]]
           /\ Regrouped(run)
  <2>0. FetchOK(run.fetch)
    BY <1>1, FetchesOK DEF Run
  <2>1. /\ video' \in [Videos -> {"absent", "visible", "hidden"}]
        /\ Known \subseteq Known' /\ run.create \subseteq Known'
    BY <1>1, <1>5, ArchiveTypes DEF Known, Run
  <2>2. /\ module' = Synced(run)
        /\ pair' = [p \in Pairs |-> IF p \in run.plan.add THEN "vimeo"
                                    ELSE IF p \in run.plan.drop /\ pair[p] # "admin" THEN "none"
                                    ELSE pair[p]]
        /\ primary' = [v \in Videos |-> IF v \in DOMAIN run.plan.primary
                                        THEN run.plan.primary[v] ELSE primary[v]]
        /\ own' = [a \in Albums |->
                     IF a \in DOMAIN run.fetch.title /\ own[a] = run.fetch.title[a] THEN None
                     ELSE own[a]]
        /\ pruned' = {p \in pruned : p[2] \in DOMAIN run.fetch.members
                                       => p[1] \in run.fetch.members[p[2]]}
    BY <1>5 DEF Regrouped, Pairs
  <2>3. \A m \in Modules :
          /\ module'[m] \in ModuleRow
          /\ module'[m].active => module'[m].there
          /\ module[m].there => module'[m].there
    <3> SUFFICES ASSUME NEW m \in Modules
                 PROVE  /\ module'[m] \in ModuleRow
                        /\ module'[m].active => module'[m].there
                        /\ module[m].there => module'[m].there
      OBVIOUS
    <3>1. module[m] \in ModuleRow /\ (module[m].active => module[m].there)
      BY ArchiveTypes
    <3>2. CASE m \notin DOMAIN run.fetch.title
      BY <2>2, <3>1, <3>2 DEF Synced
    <3>3. CASE m \in DOMAIN run.fetch.title /\ run.seen[m].there
      <4>1. run.fetch.title[m] \in Titles
        BY <2>0, <3>3 DEF FetchOK
      <4> QED BY <2>2, <3>1, <3>3, <4>1 DEF Synced, Merged, ModuleRow
    <3>4. CASE m \in DOMAIN run.fetch.title /\ ~run.seen[m].there
      BY <2>0, <2>2, <3>4 DEF Synced, FetchOK, ModuleRow
    <3> QED BY <3>2, <3>3, <3>4
  <2>4. module' \in [Modules -> ModuleRow]
    BY <2>2, <2>3 DEF Synced
  <2>5. pair' \in [Pairs -> RowStates]
    BY <2>2, ArchiveTypes DEF RowStates
  <2>6. primary' \in [Videos -> Modules \cup {None}] /\ \A v \in Videos : Refers(primary[v])'
    <3> SUFFICES ASSUME NEW v \in Videos
                 PROVE  primary'[v] \in Modules \cup {None} /\ Refers(primary[v])'
      BY <2>2
    <3>1. primary[v] \in Modules \cup {None} /\ Refers(primary[v])
      BY ArchiveTypes
    <3>2. CASE v \notin DOMAIN run.plan.primary
      BY <2>2, <2>3, <3>1, <3>2 DEF Refers
    <3>3. CASE v \in DOMAIN run.plan.primary
      <4>1. run.plan.primary[v] \in Modules \cup {None}
        BY <1>1, <3>3 DEF Run, Plans
      <4>2. Refers(run.plan.primary[v])
        BY <1>5, <3>3 DEF Collides
      <4> QED BY <2>2, <2>3, <3>3, <4>1, <4>2 DEF Refers
    <3> QED BY <3>2, <3>3
  <2>7. ArchiveTypeOK'
    BY <1>2, <2>1, <2>3, <2>4, <2>5, <2>6, ArchiveTypes DEF ArchiveTypeOK, RowStates, ModuleRow, Pairs
  <2>8. OwnOK' /\ \A a \in Albums : own'[a] = own[a] \/ own'[a] = None
    BY <2>2, ArchiveTypes DEF OwnOK
  <2>9. RunsOK' /\ EditOK'
    <3>1. EditOK'
      BY <1>2, <2>1, EditKeeps
    <3>2. sync' \in [Syncs -> Run]
      BY <1>2, RestingRun DEF AInv, RunsOK
    <3>3. ASSUME NEW r \in Syncs PROVE RunOK(sync[r])'
      <4>1. CASE r = s
        <5>1. sync'[r].plan = NoPlan /\ sync'[r].at = "idle"
          BY <1>2, <4>1, RestingRun DEF AInv, RunsOK
        <5> QED BY <5>1 DEF RunOK
      <4>2. CASE r # s
        <5>1. RunOK(sync[r]) /\ sync[r].fetch \in Fetches /\ sync'[r] = sync[r]
          BY <1>2, <4>2 DEF AInv, RunsOK, Run
        <5>2. DOMAIN sync[r].fetch.title \subseteq Albums
          BY <5>1, FetchesOK DEF FetchOK
        <5>3. PlanOK(sync[r]) => PlanOK(sync[r])'
          BY <2>1, <5>1 DEF PlanOK
        <5>4. SeenOK(sync[r]) => SeenOK(sync[r])'
          BY <2>8, <5>1, <5>2 DEF SeenOK
        <5> QED BY <5>1, <5>3, <5>4 DEF RunOK
      <4> QED BY <4>1, <4>2
    <3> QED BY <3>1, <3>2, <3>3 DEF RunsOK
  <2>10. RowsKnown'
    <3>1. \A p \in Pairs : /\ pair'[p] # "none" => p[1] \in Known'
                           /\ pair'[p] \in {"vimeo", "removed"} => p[2] \in Albums
      BY <1>1, <2>1, <2>2 DEF PlanOK, AInv, RowsKnown
    <3>2. pruned' \subseteq Pairs
      BY <2>2 DEF AInv, RowsKnown
    <3> QED BY <3>1, <3>2 DEF RowsKnown
  <2>11. PruneSticks'
    <3> SUFFICES ASSUME NEW p \in pruned' PROVE pair'[p] = "removed"
      BY DEF PruneSticks
    <3>1. p \in Pairs /\ pair[p] = "removed"
      BY <2>2 DEF AInv, RowsKnown, PruneSticks
    <3>2. p \notin run.plan.add
      BY <1>5, <3>1 DEF Collides
    <3>3. p \notin run.plan.drop
      BY <1>1, <2>2 DEF PlanOK
    <3> QED BY <2>2, <3>1, <3>2, <3>3
  <2>12. OwnDiffers' /\ RenameSticks'
    <3> SUFFICES ASSUME NEW a \in Albums, own'[a] # None
                 PROVE  /\ module'[a].there /\ module'[a].title # module'[a].last
                        /\ module'[a].title = own'[a]
      BY DEF OwnDiffers, RenameSticks
    <3>1. /\ own'[a] = own[a] /\ own[a] # None
          /\ a \in DOMAIN run.fetch.title => own[a] # run.fetch.title[a]
      BY <2>2
    <3>2. /\ module[a].there /\ module[a].title # module[a].last /\ module[a].title = own[a]
          /\ a \in Modules /\ module[a] \in ModuleRow
      BY <3>1, ArchiveTypes DEF AInv, OwnDiffers, RenameSticks, Modules
    <3>3. CASE a \notin DOMAIN run.fetch.title
      BY <2>2, <3>1, <3>2, <3>3 DEF Synced
    <3>4. CASE a \in DOMAIN run.fetch.title
      <4>1. run.seen[a].there
        BY <1>5, <3>2, <3>4 DEF Collides
      <4>2. run.seen[a].title # run.seen[a].last
        BY <1>1, <3>1, <3>4, <4>1 DEF SeenOK
      <4>3. module'[a] = Merged(module[a], run.seen[a], run.fetch.title[a])
        BY <2>2, <3>2, <3>4, <4>1 DEF Synced
      <4> QED BY <3>1, <3>2, <3>4, <4>2, <4>3 DEF Merged, ModuleRow
    <3> QED BY <3>3, <3>4
  <2> QED BY <2>7, <2>8, <2>9, <2>10, <2>11, <2>12 DEF AInv
<1> QED BY <1>4, <1>5 DEF FinishSync

LEMMA EditSteps ==
  ASSUME AInv,
         \/ \E v \in Videos, m \in Modules : AddToModule(v, m) \/ RemoveFromModule(v, m)
         \/ SaveEdit
  PROVE  AInv'
<1>1. ASSUME NEW v \in Videos, NEW m \in Modules, NEW at, NEW row \in RowStates,
             Begin(at, v, m, row), v \in Known, row \in {"vimeo", "removed"} => m \in Albums,
             row = "removed" => pair[<<v, m>>] # "removed"
      PROVE  AInv'
  <2>1. PICK found \in Recomputed(v, [pair EXCEPT ![<<v, m>>] = row]) :
          edit' = [at |-> at, pair |-> <<v, m>>, read |-> pair[<<v, m>>], row |-> row,
                   primary |-> found]
    BY <1>1 DEF Begin
  <2>2. UNCHANGED <<vimeo, archive, sync, ghosts>>
    BY <1>1 DEF Begin
  <2>3. found \in Modules \cup {None}
    BY <2>1 DEF Recomputed
  <2>4. edit'.pair = <<v, m>> /\ edit'.row = row /\ edit'.read = pair[<<v, m>>]
        /\ edit'.primary = found
    BY <2>1
  <2>5. EditOK'
    BY <1>1, <2>2, <2>3, <2>4 DEF EditOK, Pairs, Known, archive
  <2>6. RunsOK' /\ vimeo' \in Catalogue
    BY <2>2, RunsKeep, ArchiveTypes DEF Known, archive, ghosts
  <2> QED BY <2>2, <2>5, <2>6, ReadingKeeps
<1>2. ASSUME NEW v \in Videos, NEW m \in Modules, AddToModule(v, m) PROVE AInv'
  <2> DEFINE row == CASE pair[<<v, m>>] = "none" -> "admin"
                      [] pair[<<v, m>>] = "removed" -> "vimeo"
                      [] OTHER -> pair[<<v, m>>]
  <2>1. pair[<<v, m>>] \in RowStates /\ <<v, m>> \in Pairs
    BY ArchiveTypes DEF Pairs
  <2>2. row \in RowStates /\ row # "removed" /\ (row \in {"vimeo", "removed"} => m \in Albums)
    BY <2>1 DEF RowStates, AInv, RowsKnown
  <2>3. Begin("add", v, m, row) /\ v \in Known
    BY <1>2 DEF AddToModule
  <2> HIDE DEF row
  <2> QED BY <1>1, <2>2, <2>3
<1>3. ASSUME NEW v \in Videos, NEW m \in Modules, RemoveFromModule(v, m) PROVE AInv'
  <2> DEFINE row == IF pair[<<v, m>>] = "admin" THEN "none" ELSE "removed"
  <2>1. /\ pair[<<v, m>>] \in {"vimeo", "admin"} /\ <<v, m>> \in Pairs
        /\ Begin("remove", v, m, row)
    BY <1>3 DEF RemoveFromModule, Shown, Pairs
  <2>2. row \in RowStates /\ (row \in {"vimeo", "removed"} => m \in Albums) /\ v \in Known
    BY <2>1 DEF RowStates, AInv, RowsKnown
  <2> HIDE DEF row
  <2> QED BY <1>1, <2>1, <2>2
<1>4. ASSUME SaveEdit PROVE AInv'
  <2> DEFINE p == edit.pair
  <2>1. /\ edit.at # "idle" /\ edit' = NoEdit
        /\ UNCHANGED <<vimeo, video, module, sync, own>>
    BY <1>4 DEF SaveEdit
  <2>2. /\ p \in Pairs /\ p[1] \in Known /\ edit.row \in RowStates
        /\ edit.row \in {"vimeo", "removed"} => p[2] \in Albums
        /\ edit.row = "removed" => edit.read # "removed"
        /\ edit.primary \in Modules \cup {None}
    BY <2>1 DEF AInv, EditOK
  <2>3. EditOK' /\ RunsOK' /\ OwnOK' /\ OwnDiffers' /\ RenameSticks'
    <3>1. EditOK'
      BY <2>1 DEF EditOK, NoEdit
    <3>2. RunsOK'
      BY <2>1, RunsKeep DEF Known
    <3> QED BY <2>1, <3>1, <3>2 DEF AInv, OwnOK, OwnDiffers, RenameSticks
  <2>4. CASE Stale
    <3>1. UNCHANGED <<archive, ghosts>> /\ vimeo' \in Catalogue
      BY <1>4, <2>1, <2>4, ArchiveTypes DEF SaveEdit, archive, ghosts
    <3> QED BY <2>3, <3>1, ReadingKeeps
  <2>5. CASE ~Stale
    <3>1. /\ pair' = [pair EXCEPT ![p] = IF edit.row = edit.read THEN @ ELSE edit.row]
          /\ primary' = [primary EXCEPT ![p[1]] = edit.primary]
          /\ pruned' = IF edit.row = "removed" THEN pruned \cup {p} ELSE pruned \ {p}
      BY <1>4, <2>5 DEF SaveEdit
    <3>2. \A q \in Pairs : pair'[q] = IF q = p /\ edit.row # edit.read THEN edit.row ELSE pair[q]
      BY <3>1, ArchiveTypes
    <3>3. pair' \in [Pairs -> RowStates]
      BY <2>2, <3>1, ArchiveTypes
    <3>4. primary' \in [Videos -> Modules \cup {None}] /\ \A v \in Videos : Refers(primary[v])'
      <4>1. Refers(edit.primary) /\ p[1] \in Videos
        BY <2>2, <2>5 DEF Stale, Known
      <4>2. \A v \in Videos : primary'[v] = IF v = p[1] THEN edit.primary ELSE primary[v]
        BY <3>1, ArchiveTypes
      <4>3. \A v \in Videos : Refers(primary'[v])
        BY <4>1, <4>2, ArchiveTypes
      <4>4. primary' \in [Videos -> Modules \cup {None}]
        BY <2>2, <3>1, ArchiveTypes
      <4> QED BY <2>1, <4>3, <4>4 DEF Refers
    <3>5. ArchiveTypeOK'
      BY <2>1, <3>3, <3>4, ArchiveTypes DEF ArchiveTypeOK, Pairs, RowStates, ModuleRow
    <3>6. RowsKnown'
      <4>1. pruned' \subseteq Pairs
        BY <2>2, <3>1 DEF AInv, RowsKnown
      <4> QED BY <2>1, <2>2, <3>2, <4>1 DEF AInv, RowsKnown, Known
    <3>7. PruneSticks'
      <4> SUFFICES ASSUME NEW q \in pruned' PROVE pair'[q] = "removed"
        BY DEF PruneSticks
      <4>1. CASE q = p
        BY <2>2, <3>1, <3>2, <4>1
      <4>2. CASE q # p
        <5>1. q \in pruned /\ q \in Pairs
          BY <3>1, <4>2 DEF AInv, RowsKnown
        <5> QED BY <3>2, <4>2, <5>1 DEF AInv, PruneSticks
      <4> QED BY <4>1, <4>2
    <3> QED BY <2>3, <3>5, <3>6, <3>7 DEF AInv
  <2> QED BY <2>4, <2>5
<1> QED BY <1>2, <1>3, <1>4

LEMMA CuratingSteps ==
  ASSUME AInv,
         \/ \E v \in Videos : SetVisibility(v)
         \/ \E m \in Modules : CreateModule(m) \/ HideModule(m) \/ DeleteModule(m)
         \/ \E a \in Albums, t \in Titles : RenameModule(a, t)
  PROVE  AInv'
<1>0. /\ pair \in [Pairs -> RowStates] /\ module \in [Modules -> ModuleRow]
      /\ \A m \in Modules : module[m].active => module[m].there
      /\ vimeo \in Catalogue /\ primary \in [Videos -> Modules \cup {None}]
      /\ video \in [Videos -> {"absent", "visible", "hidden"}]
      /\ own \in [Albums -> Titles \cup {None}]
      /\ \A v \in Videos : Refers(primary[v])
  BY ArchiveTypes
<1>1. ASSUME NEW v \in Videos, SetVisibility(v) PROVE AInv'
  <2>1. video' \in [Videos -> {"absent", "visible", "hidden"}] /\ Known \subseteq Known'
    BY <1>0, <1>1 DEF SetVisibility, Known
  <2>2. UNCHANGED <<vimeo, module, pair, primary, sync, edit, own, pruned>>
    BY <1>1 DEF SetVisibility, ghosts
  <2>3. RunsOK' /\ EditOK'
    BY <2>1, <2>2, RunsKeep, EditKeeps
  <2>4. ArchiveTypeOK' /\ OwnOK' /\ RowsKnown'
    BY <2>1, <2>2 DEF AInv, ArchiveTypeOK, OwnOK, RowsKnown, Refers
  <2>5. PruneSticks' /\ OwnDiffers' /\ RenameSticks'
    BY <2>2 DEF AInv, PruneSticks, OwnDiffers, RenameSticks
  <2> QED BY <2>3, <2>4, <2>5 DEF AInv
<1>4. ASSUME NEW m \in Modules, NEW new \in ModuleRow, new.active => new.there,
             module[m].there => new.there,
             module' = [module EXCEPT ![m] = new],
             UNCHANGED <<vimeo, video, pair, primary, edit, pruned>>, RunsOK', OwnOK',
             OwnDiffers', RenameSticks'
      PROVE  AInv'
  <2>1. ArchiveTypeOK'
    <3>1. \A v \in Videos : Refers(primary[v])'
      BY <1>0, <1>4 DEF Refers
    <3>2. module' \in [Modules -> ModuleRow] /\ \A k \in Modules : module'[k].active => module'[k].there
      BY <1>0, <1>4
    <3> QED BY <1>0, <1>4, <3>1, <3>2 DEF ArchiveTypeOK, ModuleRow, RowStates, Pairs
  <2>2. RowsKnown' /\ PruneSticks' /\ EditOK'
    BY <1>4, EditKeeps DEF AInv, RowsKnown, Known, PruneSticks
  <2> QED BY <1>4, <2>1, <2>2 DEF AInv
<1>5. ASSUME NEW m \in Modules, CreateModule(m) PROVE AInv'
  <2> DEFINE new == [NoModule EXCEPT !.there = TRUE, !.active = TRUE]
  <2>1. module' = [module EXCEPT ![m] = new] /\ new \in ModuleRow /\ new.there
    BY <1>5 DEF CreateModule, NoModule, ModuleRow
  <2>2. m \notin Albums /\ own' = own /\ UNCHANGED <<sync, video>>
    BY <1>5, NoneIsNoModule DEF CreateModule, ghosts
  <2>3. OwnOK' /\ OwnDiffers' /\ RenameSticks'
    BY <1>0, <2>1, <2>2 DEF AInv, OwnOK, OwnDiffers, RenameSticks, Modules
  <2>4. RunsOK'
    BY <2>2, RunsKeep DEF Known
  <2> HIDE DEF new
  <2> QED BY <1>4, <1>5, <2>1, <2>3, <2>4 DEF CreateModule, ghosts
<1>6. ASSUME NEW m \in Modules, HideModule(m) PROVE AInv'
  <2> DEFINE new == [module[m] EXCEPT !.active = ~@]
  <2>1. module' = [module EXCEPT ![m] = new] /\ new \in ModuleRow /\ new.there
        /\ new.title = module[m].title /\ new.last = module[m].last
    BY <1>0, <1>6 DEF HideModule, ModuleRow
  <2> HIDE DEF new
  <2>2. own' = own /\ UNCHANGED <<sync, video>>
    BY <1>6 DEF HideModule, ghosts
  <2>3. OwnOK' /\ OwnDiffers' /\ RenameSticks'
    BY <1>0, <2>1, <2>2 DEF AInv, OwnOK, OwnDiffers, RenameSticks, Modules
  <2>4. RunsOK'
    BY <2>2, RunsKeep DEF Known
  <2> QED BY <1>4, <1>6, <2>1, <2>3, <2>4 DEF HideModule, ghosts
<1>7. ASSUME NEW a \in Albums, NEW t \in Titles, RenameModule(a, t) PROVE AInv'
  <2> DEFINE new == [module[a] EXCEPT !.title = t]
  <2>0. a \in Modules
    BY DEF Modules
  <2>1. module' = [module EXCEPT ![a] = new] /\ new \in ModuleRow /\ (new.active => new.there)
        /\ new.title = t /\ new.last = module[a].last /\ new.there
    BY <1>0, <1>7, <2>0 DEF RenameModule, ModuleRow
  <2> HIDE DEF new
  <2>2. /\ own' = [own EXCEPT ![a] = IF t = module[a].last \/ Merging(a) THEN None ELSE t]
        /\ UNCHANGED <<sync, video>>
    BY <1>7 DEF RenameModule
  <2>3. OwnOK' /\ OwnDiffers' /\ RenameSticks'
    BY <1>0, <2>0, <2>1, <2>2 DEF AInv, OwnOK, OwnDiffers, RenameSticks, Modules
  <2>4. RunsOK'
    <3> SUFFICES ASSUME NEW s \in Syncs PROVE RunOK(sync[s])'
      BY <2>2 DEF AInv, RunsOK
    <3>1. RunOK(sync[s]) /\ sync[s].fetch \in Fetches /\ sync'[s] = sync[s] /\ Known' = Known
      BY <2>2 DEF AInv, RunsOK, Run, Known
    <3>2. DOMAIN sync[s].fetch.title \subseteq Albums
      BY <3>1, FetchesOK DEF FetchOK
    <3>3. PlanOK(sync[s]) => PlanOK(sync[s])'
      BY <3>1 DEF PlanOK
    <3>4. ASSUME sync[s].at \in {"merging", "grouped"}, SeenOK(sync[s])
          PROVE  SeenOK(sync[s])'
      <4> SUFFICES ASSUME NEW b \in DOMAIN sync[s].fetch.title, own'[b] # None, sync[s].seen[b].there
                   PROVE  sync[s].seen[b].title # sync[s].seen[b].last
        BY <3>1 DEF SeenOK
      <4>1. CASE b # a
        <5>1. own'[b] = own[b]
          BY <1>0, <2>2, <3>2, <4>1
        <5> QED BY <3>4, <5>1 DEF SeenOK
      <4>2. CASE b = a
        <5>1. ~Merging(a)
          BY <1>0, <2>2, <4>2
        <5>2. ~(sync[s].at = "grouped" /\ a \in DOMAIN sync[s].fetch.title)
          BY <1>7 DEF RenameModule, ModuleLocked
        <5>3. ~(/\ sync[s].at = "merging" /\ a \in DOMAIN sync[s].fetch.title
                /\ sync[s].seen[a].title = sync[s].seen[a].last)
          BY <5>1 DEF Merging
        <5> QED BY <3>4, <4>2, <5>2, <5>3
      <4> QED BY <4>1, <4>2
    <3> QED BY <3>1, <3>3, <3>4 DEF RunOK
  <2> QED BY <1>4, <1>7, <2>0, <2>1, <2>3, <2>4 DEF RenameModule
<1>8. ASSUME NEW m \in Modules, DeleteModule(m) PROVE AInv'
  <2>1. /\ m \notin Albums
        /\ module' = [module EXCEPT ![m] = NoModule]
        /\ \A p \in Pairs : pair'[p] = IF p[2] = m THEN "none" ELSE pair[p]
        /\ \A v \in Videos : primary'[v] = IF primary[v] = m THEN None ELSE primary[v]
        /\ UNCHANGED <<vimeo, video, sync, edit, own, pruned>>
    BY <1>0, <1>8, NoneIsNoModule DEF DeleteModule, ghosts, Pairs
  <2>2. pair' \in [Pairs -> RowStates]
    BY <1>0, <1>8 DEF DeleteModule, RowStates
  <2>3. primary' \in [Videos -> Modules \cup {None}]
    BY <1>0, <1>8 DEF DeleteModule
  <2>4. ArchiveTypeOK'
    <3>1. \A v \in Videos : Refers(primary[v])'
      BY <1>0, <2>1 DEF Refers
    <3>2. NoModule \in ModuleRow /\ ~NoModule.active
      BY DEF NoModule, ModuleRow
    <3>3. module' \in [Modules -> ModuleRow] /\ \A k \in Modules : module'[k].active => module'[k].there
      BY <1>0, <2>1, <3>2
    <3> QED BY <1>0, <2>1, <2>2, <2>3, <3>1, <3>3 DEF ArchiveTypeOK, RowStates, ModuleRow, Pairs
  <2>5. OwnOK' /\ OwnDiffers' /\ RenameSticks'
    BY <1>0, <2>1 DEF AInv, OwnOK, OwnDiffers, RenameSticks, Modules
  <2>6. RowsKnown' /\ RunsOK' /\ EditOK'
    BY <2>1, RunsKeep, EditKeeps DEF AInv, RowsKnown, Known
  <2>8. PruneSticks'
    <3>1. \A p \in pruned : p \in Pairs /\ pair[p] = "removed" /\ p[2] \in Albums
      BY DEF AInv, RowsKnown, PruneSticks
    <3> QED BY <2>1, <3>1 DEF PruneSticks
  <2> QED BY <2>4, <2>5, <2>6, <2>8 DEF AInv
<1> QED BY <1>1, <1>5, <1>6, <1>7, <1>8

LEMMA ArchiveInductive == ArchiveSpec => []AInv
<1>1. ASSUME AInv, UNCHANGED archiveVars PROVE AInv'
  <2>1. UNCHANGED <<vimeo, archive, ghosts, sync, edit>>
    BY <1>1 DEF archiveVars
  <2>2. vimeo' \in Catalogue /\ RunsOK' /\ EditOK'
    BY <1>1, <2>1, ArchiveTypes, RunsKeep, EditKeeps DEF Known, archive, ghosts
  <2> QED BY <1>1, <2>1, <2>2, ReadingKeeps
<1>2. AInv /\ [ArchiveNext]_archiveVars => AInv'
  BY <1>1, ReadingSteps, GroupSteps, FinishSyncSteps, EditSteps, CuratingSteps DEF ArchiveNext
<1> QED BY <1>2, ArchiveInitially, PTL DEF ArchiveSpec

\* "a tombstone so the removal survives the next sync" (reconcile_membership,
\* remove_video_module), with any number of runs under way.
THEOREM PruneSticksCorrect == ArchiveSpec => []PruneSticks
<1>1. AInv => PruneSticks
  BY DEF AInv
<1> QED BY <1>1, ArchiveInductive, PTL

\* A name given by hand outlives every sync until Vimeo takes the same name
\* (_merge_module), unless a run that has read the module with Vimeo's title is yet
\* to write it.
THEOREM RenameSticksCorrect == ArchiveSpec => []RenameSticks
<1>1. AInv => RenameSticks
  BY DEF AInv
<1> QED BY <1>1, ArchiveInductive, PTL

\* The four pages group the same videos (list_videos, list_module_cards,
\* module_card_videos, orphan_card_videos).
THEOREM PagesAgreeCorrect == ArchiveSpec => []PagesAgree
<1>1. ASSUME AInv PROVE PagesAgree
  <2>1. ArchiveTypeOK /\ \A m \in Modules : module[m].active => module[m].there
    BY <1>1 DEF AInv, ArchiveTypeOK
  <2>2. Active = {m \in Modules : module[m].active}
    BY <2>1 DEF Active
  <2>3. \A m : ModulePage(m) = {v \in Visible : Shown(pair[<<v, m>>])}
    BY DEF ModulePage, Visible
  <2>4. \A m \in Active : ModulePage(m) = Grouping[m]
    BY <2>3 DEF Grouping
  <2>5. Cards = {[of |-> m, count |-> Cardinality(ModulePage(m))] :
                   m \in {n \in Active : ModulePage(n) # {}}}
    <3>1. {n \in Active : \E v \in Visible : Shown(pair[<<v, n>>])} = {n \in Active : ModulePage(n) # {}}
      BY <2>3
    <3> QED BY <2>3, <3>1 DEF Cards
  <2>6. OrphanPage = {v \in Visible : \A m \in Active : ~Shown(pair[<<v, m>>])}
    BY <2>2 DEF OrphanPage, Visible
  <2>7. OrphanCount = Cardinality(OrphanPage)
    BY <2>6 DEF OrphanCount
  <2>8. /\ OrphanPage = Ungrouped
        /\ OrphanPage \cup UNION {ModulePage(m) : m \in Active} = Visible
        /\ \A m \in Active : OrphanPage \cap ModulePage(m) = {}
    <3> DEFINE In(m) == {v \in Visible : Shown(pair[<<v, m>>])}
    <3>1. UNION {Grouping[m] : m \in Active} = UNION {In(m) : m \in Active}
      BY DEF Grouping
    <3>2. UNION {ModulePage(m) : m \in Active} = UNION {In(m) : m \in Active}
      BY <2>3
    <3>4. UNION {In(m) : m \in Active} = {v \in Visible : \E m \in Active : Shown(pair[<<v, m>>])}
      <4>1. ASSUME NEW v PROVE v \in UNION {In(m) : m \in Active} <=> \E m \in Active : v \in In(m)
        <5> HIDE DEF In
        <5> QED OBVIOUS
      <4> QED BY <4>1
    <3>3. OrphanPage = Ungrouped
      BY <2>6, <3>1, <3>4 DEF Ungrouped
    <3> QED BY <2>3, <2>6, <3>2, <3>3, <3>4
  <2> QED BY <2>1, <2>4, <2>5, <2>7, <2>8 DEF PagesAgree
<1> QED BY <1>1, ArchiveInductive, PTL
=============================================================================
