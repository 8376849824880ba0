------------------------------ MODULE Sharing ------------------------------
(***************************************************************************)
(* Who may see and change what: friends, invitations, the members of a     *)
(* space, bank feeds and the links that show a feed in a space, and the    *)
(* deletion of an account or of a feed (src/server/src/Munni.Api/Social    *)
(* and Accounts, with the push and the connector ingest where they touch   *)
(* the same rows).                                                         *)
(*                                                                         *)
(* The database is one function from keys to values:                       *)
(*   <<"user", u>>        Bare            <<"space", s>>    LastSeq        *)
(*   <<"friend", {u, v}>> Friendship      <<"member", s, u>> Role          *)
(*   <<"invite", i>>      SpaceInvite     <<"feed", f>>     OwnerUserId    *)
(*   <<"co", f, u>>       FeedOwner       <<"link", s, f>>  SpaceAccountLink *)
(*   <<"mirror", s, f>>   the accountLink row of the space's log           *)
(*   <<"feeddel", s, f>>  the op id feeddel:s:f is in the space's log      *)
(*                                                                         *)
(* A handler reads, decides, and hands the rows it changed to one          *)
(* SaveChanges, which is all or nothing: inserting a key that exists, or   *)
(* updating or deleting a row that is gone, rolls the request back.        *)
(* Requests in flight interleave between the reading and the saving.       *)
(***************************************************************************)
EXTENDS Integers, FiniteSets

CONSTANTS
  User,         \* user ids, ordered as the database orders them
  Space, Feed,  \* ordinary spaces, and the spaces that hold a bank feed
  NoSpace,      \* a friend request that carries no space
  Befriended,   \* bound: pairs that are friends from the start, and stay so
  Assignable,   \* bound: the roles people give each other
  MayVanish,    \* bound: users that may delete their account
  InviteId,     \* bound: invitations that matter at a time
  Overlap,      \* bound: requests that interleave with others
  MaxInFlight,  \* bound: requests between their reading and their saving
  MaxSeq        \* bound: ops of one feed

ASSUME SharingAssumption ==
  /\ User \subseteq Nat /\ MayVanish \subseteq User /\ InviteId \subseteq Nat
  /\ Space \cap Feed = {} /\ NoSpace \notin Space \cup Feed
  /\ \A p \in Befriended : \E u, v \in User : u # v /\ p = {u, v}
  /\ Assignable \subseteq {"owner", "contributor", "reader"} /\ "owner" \in Assignable
  /\ MaxInFlight \in Nat \ {0} /\ MaxSeq \in Nat

VARIABLES
  rows,      \* the database
  inflight,  \* requests that have read and not yet saved
  due        \* the accountLink op a device still has to push

vars == <<rows, inflight, due>>

Room == Space \cup Feed

----------------------------------------------------------------------------
(* What a row holds that is all key.                                       *)
Bare == "bare"

(* Reading the tables.                                                     *)
Has(k) == k \in DOMAIN rows

RoleOf(s, u)    == IF Has(<<"member", s, u>>) THEN rows[<<"member", s, u>>] ELSE "none"
IsMember(s, u)  == RoleOf(s, u) # "none"
IsOwner(s, u)   == RoleOf(s, u) = "owner"
CanWrite(s, u)  == RoleOf(s, u) \in {"owner", "contributor"}
OthersIn(s, u)  == {v \in User \ {u} : IsMember(s, v)}
Edge(u, v)      == <<"friend", {u, v}>>
AreFriends(u, v) == Has(Edge(u, v)) /\ rows[Edge(u, v)].status = "accepted"

Invites == {k \in DOMAIN rows : k[1] = "invite"}
PendingInvites(s, u) ==
  {k \in Invites : rows[k].space = s /\ rows[k].to = u /\ rows[k].status = "pending"}

Links == {k \in DOMAIN rows : k[1] = "link"}
LinksOf(f) == {k \in Links : k[3] = f}
CoOwners(f) == {u \in User : Has(<<"co", f, u>>)}
OwnerOf(f) == rows[<<"feed", f>>]
IsFeedOwner(f, u) ==
  \/ Has(<<"feed", f>>) /\ OwnerOf(f) = u
  \/ u \in CoOwners(f)

LastSeq(s) == IF Has(<<"space", s>>) THEN rows[<<"space", s>>] ELSE 0

(* The rows a unit of work writes.                                         *)
Add(k, v) == [op |-> "add", key |-> k, val |-> v]
Set(k, v) == [op |-> "set", key |-> k, val |-> v]
Put(k, v) == IF Has(k) THEN Set(k, v) ELSE Add(k, v)
Del(K)    == {[op |-> "del", key |-> k, val |-> Bare] : k \in K \cap DOMAIN rows}

(* An entity removed after it was changed is removed.                      *)
Settle(W) == {w \in W : w.op = "del" \/ ~ \E x \in W : x.op = "del" /\ x.key = w.key}

Fits(w) == (w.op = "add") = (w.key \notin DOMAIN rows)

Touched == {w.key : w \in UNION {r.writes : r \in inflight}}

(* An invitation that is settled, and that no request in flight has read,  *)
(* is of no more use to any handler.                                       *)
Inert(k) == k[1] = "invite" /\ rows[k].status # "pending" /\ k \notin Touched

Applied(W) ==
  [k \in (DOMAIN rows \cup {w.key : w \in {x \in W : x.op = "add"}})
           \ ({w.key : w \in {x \in W : x.op = "del"}} \cup {k \in DOMAIN rows : Inert(k)}) |->
    IF \E w \in W : w.key = k THEN (CHOOSE w \in W : w.key = k).val ELSE rows[k]]

(***************************************************************************)
(* A request in flight: what it will write, the spaces whose log it        *)
(* appends to, and what it does after the save.  `since` remembers what    *)
(* happened after it read: nothing, another save, or one that took the     *)
(* sequence number it is about to use.                                     *)
(***************************************************************************)
Done == [kind |-> "done"]

Ask(who, what, W, logs, next) ==
  /\ inflight = {} \/ what \in Overlap
  /\ \A r \in inflight : r.what \in Overlap
  /\ Cardinality(inflight) < MaxInFlight
  /\ inflight' = inflight \cup
       {[who |-> who, what |-> what, writes |-> Settle(W), logs |-> logs,
         since |-> "nothing", next |-> next]}
  /\ UNCHANGED <<rows, due>>

Alive(u) == Has(<<"user", u>>)

Overtake(R, logs) ==
  {[r EXCEPT !.since = IF @ = "taken" \/ r.logs \cap logs # {} THEN "taken" ELSE "overtaken"]
     : r \in R}

Init ==
  /\ rows = [k \in {<<"user", u>> : u \in User}
                   \cup {<<"friend", p>> : p \in Befriended} |->
               IF k[1] = "user" THEN Bare
               ELSE [by |-> CHOOSE u \in k[2] : TRUE, status |-> "accepted",
                     space |-> NoSpace, role |-> "owner"]]
  /\ inflight = {}
  /\ due = [l \in Space \X Feed |-> "none"]

----------------------------------------------------------------------------
(* Friends and invitations.                                                *)

SendFriendRequest(me, to, s, role) ==
  /\ Alive(me) /\ me # to /\ Alive(to)
  /\ s # NoSpace => IsOwner(s, me)
  /\ (s = NoSpace) => (role = "owner")             \* no role to speak of
  /\ \/ /\ ~ Has(Edge(me, to))
        /\ Ask(me, "request",
               {Add(Edge(me, to), [by |-> me, status |-> "pending", space |-> s, role |-> role])},
               {}, Done)
     \/ /\ Has(Edge(me, to))                     \* AutoAcceptReciprocal
        /\ rows[Edge(me, to)].status = "pending" /\ rows[Edge(me, to)].by # me
        /\ Ask(me, "reciprocate",
               {Set(Edge(me, to), [rows[Edge(me, to)] EXCEPT !.status = "accepted"])},
               {}, IF s = NoSpace THEN Done
                   ELSE [kind |-> "invite", space |-> s, to |-> to, role |-> role])

FreshInvite ==
  {i \in InviteId : <<"invite", i>> \notin Touched \cup DOMAIN rows}

NewInvite(i, s, from, to, role) ==
  Add(<<"invite", i>>, [space |-> s, from |-> from, to |-> to, role |-> role,
                        status |-> "pending"])

(* The second half of a reciprocated request, after its first save.        *)
AddSpaceInviteIfMissing(r) ==
  /\ r.what = "saved" /\ r.next.kind = "invite"
  /\ IF \/ IsMember(r.next.space, r.next.to)
        \/ PendingInvites(r.next.space, r.next.to) # {}
        \/ FreshInvite = {}
     THEN inflight' = inflight \ {r}
     ELSE \E i \in FreshInvite :
            /\ \A j \in FreshInvite : i <= j
            /\ inflight' = (inflight \ {r}) \cup
                 {[r EXCEPT !.what = "invite", !.next = Done, !.writes =
                     {NewInvite(i, r.next.space, r.who, r.next.to, r.next.role)}]}
  /\ UNCHANGED <<rows, due>>

(* WriteMirrorOps: the space's log tells the devices of a link's state.    *)
MirrorWrites(s, L) ==
  IF Has(<<"space", s>>) THEN {Put(<<"mirror", s, l[3]>>, "live") : l \in L} ELSE {}
LogsOf(s, L) == IF Has(<<"space", s>>) /\ L # {} THEN {s} ELSE {}

(* Mutant: whoever attached them, the joiner's archived links come back.   *)
RevivableByAnyone(s, u) == {l \in Links : l[2] = s /\ rows[l].archived}

(* ReviveLinksOnJoin: the joiner's own links to feeds still his.           *)
Revivable(s, u) ==
  {l \in Links : /\ l[2] = s /\ rows[l].archived /\ rows[l].by = u
                 /\ Has(<<"feed", l[3]>>) /\ OwnerOf(l[3]) = u}

(* Mutant: the cap stays on the revived link.                              *)
RevivedStillCapped(s, u) ==
  {Set(l, [rows[l] EXCEPT !.archived = FALSE]) : l \in Revivable(s, u)}
    \cup MirrorWrites(s, Revivable(s, u))

Revived(s, u) ==
  {Set(l, [rows[l] EXCEPT !.archived = FALSE, !.cap = 0]) : l \in Revivable(s, u)}
    \cup MirrorWrites(s, Revivable(s, u))

(* The addressee of the request; its status is not consulted.              *)
AcceptFriendRequest(me, other) ==
  LET edge == rows[Edge(me, other)]
      joins == edge.space # NoSpace /\ ~ IsMember(edge.space, me)
  IN  /\ Alive(me) /\ me # other /\ Has(Edge(me, other)) /\ edge.by # me
      /\ edge.status = "pending" \/ joins        \* else nothing changes
      /\ Ask(me, "befriend",
             {Set(Edge(me, other), [edge EXCEPT !.status = "accepted"])}
               \cup IF joins THEN {Add(<<"member", edge.space, me>>, edge.role)}
                                  \cup Revived(edge.space, me) ELSE {},
             IF joins THEN LogsOf(edge.space, Revivable(edge.space, me)) ELSE {}, Done)

RemoveFriend(me, other) ==
  /\ Alive(me) /\ me # other /\ Has(Edge(me, other))
  /\ Ask(me, "unfriend", Del({Edge(me, other)}), {}, Done)

SendSpaceInvite(me, s, to, role) ==
  /\ Alive(me) /\ me # to /\ IsOwner(s, me)
  /\ AreFriends(me, to) /\ ~ IsMember(s, to) /\ PendingInvites(s, to) = {}
  /\ \E i \in FreshInvite :
       /\ \A j \in FreshInvite : i <= j
       /\ Ask(me, "invite", {NewInvite(i, s, me, to, role)}, {}, Done)

RevokeInvite(me, k) ==
  /\ Alive(me) /\ rows[k].status = "pending" /\ IsOwner(rows[k].space, me)
  /\ Ask(me, "revoke", Del({k}), {}, Done)

(* Accepting inserts the membership without asking whether there is one.   *)
RespondToInvite(me, k, yes) ==
  LET s == rows[k].space
      closed == Set(k, [rows[k] EXCEPT !.status = IF yes THEN "accepted" ELSE "declined"])
  IN  /\ Alive(me) /\ rows[k].to = me /\ rows[k].status = "pending"
      /\ IF yes
         THEN Ask(me, "join",
                  {closed, Add(<<"member", s, me>>, rows[k].role)} \cup Revived(s, me),
                  LogsOf(s, Revivable(s, me)), Done)
         ELSE Ask(me, "decline", {closed}, {}, Done)

----------------------------------------------------------------------------
(* Members of a space.                                                     *)

HasAnotherOwner(s, u) == \E v \in OthersIn(s, u) : IsOwner(s, v)

ChangeMemberRole(me, s, u, role) ==
  /\ Alive(me) /\ IsOwner(s, me) /\ IsMember(s, u) /\ role # RoleOf(s, u)
  /\ (u = me) => HasAnotherOwner(s, me)          \* "last owner"
  /\ Ask(me, "role", {Set(<<"member", s, u>>, role)}, {}, Done)

(* ArchiveLinksOnLeave: what the leaver attached stays readable up to the  *)
(* last op of its feed, and nothing newer flows.                           *)
LeaverLinks(s, u) == {l \in Links : l[2] = s /\ rows[l].by = u /\ ~ rows[l].archived}

(* Mutant: the cap is one op too far.                                      *)
ArchivedPastEnd(s, u) ==
  {Set(l, [rows[l] EXCEPT !.archived = TRUE, !.cap = LastSeq(l[3]) + 1])
     : l \in LeaverLinks(s, u)} \cup MirrorWrites(s, LeaverLinks(s, u))

Archived(s, u) ==
  {Set(l, [rows[l] EXCEPT !.archived = TRUE, !.cap = LastSeq(l[3])])
     : l \in LeaverLinks(s, u)} \cup MirrorWrites(s, LeaverLinks(s, u))

Least(S) == CHOOSE u \in S : \A v \in S : u <= v

(* Mutant: a departing owner leaves the roles as they are.                 *)
NoPromotion(s, u) == {}

(* The last owner's departure promotes the member with the least id.       *)
Promotion(s, u) ==
  IF IsOwner(s, u) /\ ~ HasAnotherOwner(s, u) /\ OthersIn(s, u) # {}
  THEN {Set(<<"member", s, Least(OthersIn(s, u))>>, "owner")} ELSE {}

Departure(s, u) == Del({<<"member", s, u>>}) \cup Archived(s, u) \cup Promotion(s, u)

RemoveMember(me, s, u) ==
  /\ Alive(me) /\ IsMember(s, me) /\ IsMember(s, u)
  /\ u = me \/ IsOwner(s, me)
  /\ Ask(me, "remove", Departure(s, u), LogsOf(s, LeaverLinks(s, u)), Done)

----------------------------------------------------------------------------
(* The deletion of a person's account, one unit of work.                   *)

DeleteSpaceData(s) ==
  Del({<<"space", s>>} \cup {<<"member", s, u>> : u \in User}
      \cup {k \in Invites : rows[k].space = s}
      \cup {k \in DOMAIN rows : k[1] \in {"link", "mirror", "feeddel"} /\ k[2] = s})

SoleMember(u) == {s \in Room : IsMember(s, u) /\ OthersIn(s, u) = {}}
Surviving(u)  == {s \in Room : IsMember(s, u)} \ SoleMember(u)

(* Spaces of one's own are erased, shared ones are left.                   *)
LeaveOrDeleteSpaces(u) ==
  (UNION {DeleteSpaceData(s) : s \in SoleMember(u)})
    \cup (UNION {Departure(s, u) : s \in Surviving(u)})

(* The feeds no surviving space has a link to.                             *)
Prunable(u) ==
  {f \in Feed : /\ Has(<<"feed", f>>) /\ OwnerOf(f) = u
                /\ ~ \E l \in LinksOf(f) : l[2] \in Surviving(u)}

PruneFeed(f) == Del(LinksOf(f) \cup {<<"feed", f>>}) \cup DeleteSpaceData(f)
PruneOwnedFeeds(u) == UNION {PruneFeed(f) : f \in Prunable(u)}

(* Mutant: the requests and invitations the person sent stay.              *)
SocialRowsReceived(u) ==
  {k \in DOMAIN rows : k[1] = "friend" /\ u \in k[2] /\ rows[k].by # u}
    \cup {k \in Invites : rows[k].to = u}

SocialRows(u) ==
  {k \in DOMAIN rows : k[1] = "friend" /\ u \in k[2]}
    \cup {k \in Invites : u \in {rows[k].to, rows[k].from}}

DeleteMe(u) ==
  /\ Alive(u) /\ u \in MayVanish
  /\ Ask(u, "vanish",
         LeaveOrDeleteSpaces(u) \cup PruneOwnedFeeds(u) \cup Del(SocialRows(u) \cup {<<"user", u>>}),
         UNION {LogsOf(s, LeaverLinks(s, u)) : s \in Surviving(u)}, Done)

----------------------------------------------------------------------------
(* Pushes.  The first push to an ordinary space creates it; a feed takes   *)
(* ops from its members that may write.                                    *)
FirstPush(me, s) ==
  /\ Alive(me) /\ ~ Has(<<"space", s>>)
  /\ Ask(me, "create",
         {Add(<<"space", s>>, 0), Add(<<"member", s, me>>, "owner")}, {}, Done)

PushToFeed(me, f) ==
  /\ Alive(me) /\ CanWrite(f, me) /\ Has(<<"space", f>>) /\ LastSeq(f) < MaxSeq
  /\ Ask(me, "push", {Set(<<"space", f>>, LastSeq(f) + 1)}, {f}, Done)

----------------------------------------------------------------------------
(* Feeds and their links.                                                  *)

JoinFeed(me, f) == IF IsMember(f, me) THEN {} ELSE {Add(<<"member", f, me>>, "owner")}
OpenFeed(f) == IF Has(<<"space", f>>) THEN {} ELSE {Add(<<"space", f>>, 0)}

(* A new feed, or one whose owner is gone; a living owner is a conflict.   *)
RegisterFeed(me, f) ==
  /\ Alive(me)
  /\ \/ /\ ~ Has(<<"feed", f>>)
        /\ Ask(me, "register",
               {Add(<<"feed", f>>, me)} \cup OpenFeed(f) \cup JoinFeed(me, f), {}, Done)
     \/ /\ Has(<<"feed", f>>) /\ OwnerOf(f) # me /\ ~ Alive(OwnerOf(f))
        /\ Ask(me, "register", {Set(<<"feed", f>>, me)} \cup JoinFeed(me, f), {}, Done)

(* EnsureIbanFeed, when a consent of the user covers the account: the      *)
(* first becomes the owner, everyone after a co-owner.                     *)
EnsureIbanFeed(me, f) ==
  LET owns == IF ~ Has(<<"feed", f>>) THEN {Add(<<"feed", f>>, me)}
              ELSE IF IsFeedOwner(f, me) THEN {} ELSE {Add(<<"co", f, me>>, Bare)}
      W == owns \cup OpenFeed(f) \cup JoinFeed(me, f)
  IN  Alive(me) /\ W # {} /\ Ask(me, "ensure", W, {}, Done)

(* The endpoint takes any space; a feed is only ever attached to a space   *)
(* the app shows, so s is not a feed's own.                                *)
Attach(me, s, f) ==
  /\ Alive(me) /\ CanWrite(s, me) /\ IsFeedOwner(f, me)
  /\ Ask(me, "attach",
         {Put(<<"link", s, f>>, [by |-> me, archived |-> FALSE, cap |-> 0])}, {}, Done)

Detach(me, s, f) ==
  /\ Alive(me) /\ CanWrite(s, me) /\ Has(<<"link", s, f>>)
  /\ Ask(me, "detach", Del({<<"link", s, f>>}), {}, Done)

(* FeedJanitor: links whose mirror the space tombstoned are dead.          *)
DeadLinks(f) ==
  {l \in LinksOf(f) : Has(<<"mirror", l[2], f>>) /\ rows[<<"mirror", l[2], f>>] = "dead"}

(* WriteDeletionOps: the op that tombstones the mirror of f in s has one   *)
(* id for good; SyncWriter skips an id the log already holds.              *)
Tombstoned(S, f) ==
  {s \in S : Has(<<"space", s>>) /\ ~ Has(<<"feeddel", s, f>>)}
Tombstones(S, f) ==
  UNION {{Put(<<"mirror", s, f>>, "dead"), Add(<<"feeddel", s, f>>, Bare)}
           : s \in Tombstoned(S, f)}

LinksBy(f, u) == {l \in LinksOf(f) : rows[l].by = u}
SpacesOf(L) == {l[2] : l \in L}

(* Mutant: a co-owner does not keep the feed.                              *)
CoveredByLinks(f, me, owner) ==
  \/ \E l \in LinksOf(f) : rows[l].by # me
  \/ owner # me /\ \E s \in Room : IsMember(s, owner)

(* Somebody else still covers the account.                                 *)
Covered(f, me, owner) ==
  \/ CoOwners(f) \ {me} # {}
  \/ \E l \in LinksOf(f) : rows[l].by # me
  \/ owner # me /\ \E s \in Room : IsMember(s, owner)

(* A co-owner succeeds the owner, else somebody who attached the feed.     *)
Successors(f, me) ==
  IF CoOwners(f) \ {me} # {} THEN CoOwners(f) \ {me}
  ELSE {rows[l].by : l \in LinksOf(f)} \ {me}

Succession(f, me, owner, next) ==
  IF owner = me /\ next # me
  THEN {Set(<<"feed", f>>, next)} \cup Del({<<"co", f, next>>}) ELSE {}

(* Mutant: my attachments stay behind.                                     *)
RemoveMyOwnership(f, me, owner, next) ==
  Del({<<"co", f, me>>}) \cup Succession(f, me, owner, next)

RemoveMyView(f, me, owner, next) ==
  Del(LinksBy(f, me) \cup {<<"co", f, me>>})
    \cup Tombstones(SpacesOf(LinksBy(f, me)), f) \cup Succession(f, me, owner, next)

(* Mutant: the other spaces are not told.                                  *)
EraseFeedQuietly(f, me) ==
  Del(LinksOf(f) \cup {<<"co", f, u>> : u \in User} \cup {<<"member", f, u>> : u \in User}
      \cup {<<"space", f>>, <<"feed", f>>})

EraseFeed(f, me) ==
  Tombstones(SpacesOf(LinksOf(f)), f) \cup
  Del(LinksOf(f) \cup {<<"co", f, u>> : u \in User} \cup {<<"member", f, u>> : u \in User}
      \cup {<<"space", f>>, <<"feed", f>>})

(* The request reads the feed row, lets the janitor save if there is       *)
(* something to drop, and then judges who else covers the account.         *)
DeleteFeedAccount(me, f) ==
  /\ Alive(me) /\ Has(<<"feed", f>>)
  /\ Ask(me, "janitor", Del(DeadLinks(f)), {},
         [kind |-> "deleteFeed", feed |-> f, owner |-> OwnerOf(f)])

JudgeFeed(r) ==
  LET f == r.next.feed  me == r.who  owner == r.next.owner
      Saving(what, W, logs) ==
        inflight' = (inflight \ {r}) \cup
          {[r EXCEPT !.what = what, !.writes = Settle(W), !.logs = logs, !.next = Done]}
  IN  /\ r.what = "saved" /\ r.next.kind = "deleteFeed"
      /\ \/ /\ owner # me /\ me \notin CoOwners(f)        \* Forbid
            /\ inflight' = inflight \ {r}
         \/ /\ owner = me \/ me \in CoOwners(f)
            /\ Covered(f, me, owner)
            /\ \E next \in IF Successors(f, me) = {} THEN {me} ELSE Successors(f, me) :
                 Saving("leave", RemoveMyView(f, me, owner, next),
                        Tombstoned(SpacesOf(LinksBy(f, me)), f))
         \/ /\ owner = me \/ me \in CoOwners(f)
            /\ ~ Covered(f, me, owner)
            /\ Saving("erase", EraseFeed(f, me), Tombstoned(SpacesOf(LinksOf(f)), f))
      /\ UNCHANGED <<rows, due>>

----------------------------------------------------------------------------
(* SaveChanges.  A request whose sequence number another save took fails   *)
(* on the unique index of the log.                                         *)
Saves(r) == r.since # "taken" /\ \A w \in r.writes : Fits(w)

(* The op a device queues once its own call returned, unless it stopped    *)
(* between the two; an op the server writes afterwards has a newer stamp.  *)
QueuedAfter(r) ==
  [l \in Space \X Feed |->
    LET link == <<"link", l[1], l[2]>>  mirror == <<"mirror", l[1], l[2]>>
    IN  IF r.what = "attach" /\ (\E w \in r.writes : w.key = link)
        THEN "live"
        ELSE IF /\ r.what = "detach" /\ (\E w \in r.writes : w.key = link)
                /\ due[l] = "live" \/ (Has(mirror) /\ rows[mirror] = "live")
        THEN "dead"
        ELSE IF \E w \in r.writes : w.key = mirror THEN "none" ELSE due[l]]

Queued(r) ==
  IF r.what \in {"attach", "detach"} THEN {QueuedAfter(r), due} ELSE {QueuedAfter(r)}

Continued(r) ==
  IF r.next = Done THEN {} ELSE {[r EXCEPT !.what = "saved", !.writes = {}, !.logs = {}]}

Save(r) ==
  /\ r.what # "saved" /\ Saves(r)
  /\ IF r.writes = {}
     THEN /\ inflight' = Continued(r) \cup (inflight \ {r})
          /\ UNCHANGED <<rows, due>>
     ELSE /\ inflight' = Continued(r) \cup Overtake(inflight \ {r}, r.logs)
          /\ rows' = Applied(r.writes)
          /\ due' \in Queued(r)

(* An attach that lost the insert adopts the winner's link and answers OK. *)
Refuse(r) ==
  /\ r.what # "saved" /\ ~ Saves(r)
  /\ inflight' = inflight \ {r}
  /\ due' = IF r.what = "attach" /\ \A w \in r.writes : Has(w.key)
            THEN QueuedAfter(r) ELSE due
  /\ UNCHANGED rows

(* A device pushes the op it owes, its retries included.                   *)
PushMirror(u, s, f) ==
  /\ Alive(u) /\ CanWrite(s, u) /\ Has(<<"space", s>>) /\ due[<<s, f>>] # "none"
  /\ rows' = Applied({Put(<<"mirror", s, f>>, due[<<s, f>>])})
  /\ due' = [due EXCEPT ![<<s, f>>] = "none"]
  /\ inflight' = Overtake(inflight, {s})

(* reconcileSpaceLinks: a member's device mirrors a link it knows not.     *)
Reconcile(u, s, f) ==
  /\ Alive(u) /\ CanWrite(s, u) /\ Has(<<"link", s, f>>) /\ due[<<s, f>>] = "none"
  /\ Has(<<"mirror", s, f>>) => rows[<<"mirror", s, f>>] = "dead"
  /\ due' = [due EXCEPT ![<<s, f>>] = "live"]
  /\ UNCHANGED <<rows, inflight>>

----------------------------------------------------------------------------
Friends(u) ==
  \E v \in {v \in User : {u, v} \notin Befriended} :
    \/ \E s \in Room \cup {NoSpace}, role \in Assignable : SendFriendRequest(u, v, s, role)
    \/ AcceptFriendRequest(u, v) \/ RemoveFriend(u, v)

Invitations(u) ==
  \/ \E s \in Room, v \in User, role \in Assignable : SendSpaceInvite(u, s, v, role)
  \/ \E k \in Invites : RevokeInvite(u, k) \/ \E yes \in BOOLEAN : RespondToInvite(u, k, yes)

Members(u) ==
  \/ \E s \in Room, v \in User, role \in Assignable : ChangeMemberRole(u, s, v, role)
  \/ \E s \in Room, v \in User : RemoveMember(u, s, v)
  \/ \E s \in Space : FirstPush(u, s)
  \/ DeleteMe(u)

Feeds(u) ==
  \E f \in Feed :
    \/ RegisterFeed(u, f) \/ EnsureIbanFeed(u, f) \/ PushToFeed(u, f)
    \/ DeleteFeedAccount(u, f)
    \/ \E s \in Space : Attach(u, s, f) \/ Detach(u, s, f)

Next ==
  \/ \E u \in User : Friends(u) \/ Invitations(u) \/ Members(u) \/ Feeds(u)
  \/ \E u \in User, s \in Space, f \in Feed : PushMirror(u, s, f) \/ Reconcile(u, s, f)
  \/ \E r \in inflight : AddSpaceInviteIfMissing(r) \/ JudgeFeed(r) \/ Save(r) \/ Refuse(r)

Spec == Init /\ [][Next]_vars

----------------------------------------------------------------------------
(* Properties.                                                             *)

(* The tables hold what their columns allow, and a request in flight only  *)
(* writes rows of such a shape: an edge joins two people, a link's cap     *)
(* means something only while it is archived.                              *)
TypeOK ==
  /\ \A k \in DOMAIN rows :
       \/ k[1] = "user" /\ k[2] \in User
       \/ k[1] = "friend" /\ Cardinality(k[2]) = 2 /\ rows[k].by \in k[2]
       \/ k[1] = "invite" /\ k[2] \in InviteId /\ rows[k].space \in Room
       \/ k[1] = "member" /\ k[2] \in Room /\ rows[k] \in {"owner", "contributor", "reader"}
       \/ k[1] = "space" /\ rows[k] \in 0 .. MaxSeq
       \/ k[1] = "feed" /\ rows[k] \in User
       \/ k[1] \in {"co", "feeddel"}
       \/ k[1] = "link" /\ rows[k].by \in User /\ (rows[k].archived \/ rows[k].cap = 0)
       \/ k[1] = "mirror" /\ rows[k] \in {"live", "dead"}
  /\ due \in [Space \X Feed -> {"none", "live", "dead"}]
  /\ \A r \in inflight : r.what # "saved" \/ r.next # Done

(* A save nobody else's save came before, since the request read.          *)
Undisturbed(r) == r.since = "nothing" /\ Save(r)

Owned(s) == (\E u \in User : IsMember(s, u)) => \E u \in User : IsOwner(s, u)

(* "never leave a space ownerless" (SocialEndpoints.cs:418): nobody's      *)
(* leaving, removal, change of role or account deletion takes the last     *)
(* owner from a space that keeps members, unless another request was saved *)
(* between its reading and its saving.                                     *)
NeverOwnerless ==
  [][\A r \in inflight : Undisturbed(r) /\ r.what \in {"remove", "role", "vanish"}
       => \A s \in Room : Owned(s) => Owned(s)']_vars

(* Rows that name somebody who has no account.                             *)
Ghosts ==
  {k \in DOMAIN rows :
     \/ k[1] = "member" /\ ~ Alive(k[3])
     \/ k[1] = "friend" /\ \E u \in k[2] : ~ Alive(u)
     \/ k[1] = "invite" /\ rows[k].status = "pending"
                        /\ ~ (Alive(rows[k].to) /\ Alive(rows[k].from))}

(* The deletion of an account leaves no membership, friendship or pending  *)
(* invitation of the person behind, and no later request brings one back,  *)
(* unless it was in flight across the deletion.                            *)
GoneIsGone ==
  [][\A r \in inflight : Undisturbed(r) /\ Ghosts = {} => Ghosts' = {}]_vars

(* Active links of a space whose attacher is not a member of it.           *)
Unfrozen == {l \in Links : ~ rows[l].archived /\ ~ IsMember(l[2], rows[l].by)}

(* Who leaves a space leaves frozen accounts: no link a person attached    *)
(* stays active, or becomes active again, while that person is out.        *)
FrozenAfterLeave ==
  [][\A r \in inflight : Undisturbed(r) /\ Unfrozen = {} => Unfrozen' = {}]_vars

Visible(l) == IF rows[l].cap < LastSeq(l[3]) THEN rows[l].cap ELSE LastSeq(l[3])

(* FeedAccess.ReadCap: what an archived link shows never grows, whatever   *)
(* the feed receives, and even if the feed is erased and registered again. *)
NothingNewWhenArchived ==
  [][\A l \in Links : l \in DOMAIN rows' /\ rows[l].archived /\ rows'[l].archived
       => Visible(l)' <= Visible(l)]_vars

(* What the handlers take for granted of a feed: its co-owners go with it, *)
(* and only its owners have it attached anywhere.  That an owner is also a *)
(* member of the feed's own space is not part of it: the endpoints of the  *)
(* members take a feed's id like any other, and an owner may leave.        *)
Coherent ==
  \A f \in Feed :
    /\ CoOwners(f) # {} => Has(<<"feed", f>>)
    /\ \A l \in LinksOf(f) : IsFeedOwner(f, rows[l].by)

(* Every handler keeps that true: whatever is registered, attached,        *)
(* fetched, left, joined or deleted, by people of any space.  Requests     *)
(* that overlap need not: an attach saved during an erasure leaves a link  *)
(* to nothing.  Nor need deletions of accounts: pruning a feed leaves the  *)
(* rows of its co-owners, and who registers a dead owner's feed inherits   *)
(* the links that owner made.  This holds where MayVanish is empty.        *)
StaysCoherent ==
  [][\A r \in inflight : Undisturbed(r) /\ Coherent => Coherent']_vars

(* Who still covers a feed, as FeedDeletion counts them: a co-owner, who   *)
(* has it attached somewhere, or an owner who is a member of any space.    *)
Covers(f, u) ==
  \/ u \in CoOwners(f) \/ LinksBy(f, u) # {}
  \/ Has(<<"feed", f>>) /\ OwnerOf(f) = u /\ \E s \in Room : IsMember(s, u)

(* FeedDeletion, "revoke MINE only" and "my attachments disappear, the     *)
(* others keep theirs" (FeedDeletion.cs:14, :66): who deletes a financial  *)
(* account, in a coherent state and crossed by nobody, no longer owns it   *)
(* and has it attached nowhere, and everybody else who covers it owns it   *)
(* still, every link of theirs untouched.  The caller's membership of the  *)
(* feed's own space stays, and with it the right to push there.            *)
RevokesMineOnly ==
  [][\A r \in inflight : Undisturbed(r) /\ r.what \in {"leave", "erase"} /\ Coherent =>
       \A f \in {w.key[2] : w \in {w \in r.writes : w.key[1] \in {"feed", "co"}}} :
         /\ ~ IsFeedOwner(f, r.who)' /\ (LinksBy(f, r.who) = {})'
         /\ \A u \in User \ {r.who} : Covers(f, u) =>
              /\ IsFeedOwner(f, u)'
              /\ \A l \in LinksBy(f, u) : l \in DOMAIN rows' /\ rows'[l] = rows[l]]_vars

(* "Deletes must travel the oplog or other devices revive the rows"        *)
(* (FeedDeletion.cs:121): when a person's view of a feed goes, the log of  *)
(* every space that showed it tombstones the account's row, the first time *)
(* it happens to that feed in that space; the op's id is the same the next *)
(* time, and is skipped as a repeat.                                       *)
DeletionTold ==
  [][\A r \in inflight : Undisturbed(r) /\ r.what \in {"leave", "erase"} =>
       \A l \in Links \ DOMAIN rows' :
         LET told == <<"feeddel", l[2], l[3]>>
         IN  Has(<<"space", l[2]>>) /\ ~ Has(told) =>
               /\ Has(told)'
               /\ rows'[<<"mirror", l[2], l[3]>>] = "dead"]_vars

(* AccountDeletion: "keep the ones surviving shared spaces still read".    *)
KeepsReadHistory ==
  [][\A r \in inflight : Undisturbed(r) /\ r.what = "vanish" =>
       \A l \in Links : l \in DOMAIN rows' /\ Has(<<"space", l[3]>>)
         => Has(<<"space", l[3]>>)']_vars
=============================================================================
