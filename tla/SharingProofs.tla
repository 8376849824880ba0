--------------------------- MODULE SharingProofs ---------------------------

(***************************************************************************)
(* Safety of sharing, for any people, spaces, feeds and overlaps.          *)
(***************************************************************************)
EXTENDS Sharing, TLAPS, FiniteSetTheorems, WellFoundedInduction

Roles == {"owner", "contributor", "reader"}

(* Two different people.                                                   *)
Pair == {p \in SUBSET User : \E u, v \in User : u # v /\ p = {u, v}}

(* The primary keys of the tables.                                         *)
Key ==
  ({"user"} \X User) \cup ({"friend"} \X Pair) \cup ({"invite"} \X InviteId)
    \cup ({"space"} \X Room) \cup ({"feed"} \X Feed)
    \cup ({"member"} \X Room \X User) \cup ({"co"} \X Feed \X User)
    \cup ({"link", "mirror", "feeddel"} \X Space \X Feed)

Friendship == [by : User, status : {"pending", "accepted"},
               space : Room \cup {NoSpace}, role : Roles]

Invitation == [space : Room, from : User, to : User, role : Roles,
               status : {"pending", "accepted", "declined"}]

Link == [by : User, archived : BOOLEAN, cap : Nat]

(* What the row of a key holds.                                            *)
Holds(k, v) ==
  /\ k[1] = "friend" => v \in Friendship /\ v.by \in k[2]
  /\ k[1] = "invite" => v \in Invitation
  /\ k[1] = "space"  => v \in 0 .. MaxSeq
  /\ k[1] = "feed"   => v \in User
  /\ k[1] = "member" => v \in Roles
  /\ k[1] = "link"   => v \in Link /\ (v.archived \/ v.cap = 0)
  /\ k[1] = "mirror" => v \in {"live", "dead"}
  /\ k[1] \in {"user", "co", "feeddel"} => v = Bare

Value ==
  Friendship \cup Invitation \cup (0 .. MaxSeq) \cup User \cup Roles \cup Link
    \cup {"live", "dead", Bare}

RowsType == DOMAIN rows \subseteq Key /\ \A k \in DOMAIN rows : Holds(k, rows[k])

(* A row a request writes.                                                 *)
Write == {w \in [op : {"add", "set", "del"}, key : Key, val : Value] :
            w.op # "del" => Holds(w.key, w.val)}

Continuation ==
  {Done} \cup [kind : {"invite"}, space : Room, to : User, role : Roles]
    \cup [kind : {"deleteFeed"}, feed : Feed, owner : User]

What ==
  {"request", "reciprocate", "befriend", "unfriend", "invite", "revoke", "join", "decline",
   "role", "remove", "vanish", "create", "push", "register", "ensure", "attach", "detach",
   "janitor", "leave", "erase"}

Request ==
  [who : User, what : What \cup {"saved"}, writes : SUBSET Write, logs : SUBSET Room,
   since : {"nothing", "overtaken", "taken"}, next : Continuation]

Shapes ==
  /\ RowsType
  /\ inflight \subseteq Request /\ \A r \in inflight : r.what = "saved" => r.next # Done
  /\ due \in [Space \X Feed -> {"none", "live", "dead"}]

(* The shapes say what TypeOK says.                                        *)
LEMMA ShapesAreTypes == Shapes => TypeOK
<1> SUFFICES ASSUME Shapes PROVE TypeOK
  OBVIOUS
<1>1. ASSUME NEW p \in Pair PROVE Cardinality(p) = 2
  <2>1. PICK u, v \in User : u # v /\ p = {u, v}
    BY DEF Pair
  <2>2. IsFiniteSet({u}) /\ Cardinality({u}) = 1
    BY FS_Singleton
  <2>3. p = {u} \cup {v} /\ v \notin {u}
    BY <2>1
  <2> QED BY <2>2, <2>3, FS_AddElement
<1>2. ASSUME NEW k \in DOMAIN rows
      PROVE  \/ k[1] = "user" /\ k[2] \in User
             \/ k[1] = "friend" /\ Cardinality(k[2]) = 2 /\ rows[k].by \in k[2]
             \/ k[1] = "invite" /\ k[2] \in InviteId /\ rows[k].space \in Room
             \/ k[1] = "member" /\ k[2] \in Room /\ rows[k] \in {"owner", "contributor", "reader"}
             \/ k[1] = "space" /\ rows[k] \in 0 .. MaxSeq
             \/ k[1] = "feed" /\ rows[k] \in User
             \/ k[1] \in {"co", "feeddel"}
             \/ k[1] = "link" /\ rows[k].by \in User /\ (rows[k].archived \/ rows[k].cap = 0)
             \/ k[1] = "mirror" /\ rows[k] \in {"live", "dead"}
  <2>1. k \in Key /\ Holds(k, rows[k])
    BY DEF Shapes, RowsType
  <2>2. CASE k \in {"friend"} \X Pair
    BY <1>1, <2>1, <2>2 DEF Holds
  <2> QED BY <2>1, <2>2 DEF Key, Holds, Invitation, Link, Roles
<1> QED BY <1>2 DEF Shapes, TypeOK

(* The ways to write a row.                                                *)
LEMMA WritesTyped ==
  ASSUME RowsType, NEW k \in Key, NEW v, Holds(k, v)
  PROVE  Add(k, v) \in Write /\ Set(k, v) \in Write /\ Put(k, v) \in Write
<1>1. v \in Value
  BY DEF Key, Holds, Value
<1> QED BY <1>1 DEF Write, Add, Set, Put

(* Deletions of keys are writes.                                           *)
LEMMA DelTyped ==
  ASSUME RowsType, NEW K PROVE Del(K) \subseteq Write
<1>1. ASSUME NEW k \in DOMAIN rows PROVE [op |-> "del", key |-> k, val |-> Bare] \in Write
  BY DEF Write, RowsType, Value
<1> QED BY <1>1 DEF Del

(* What is read of the tables.                                             *)
LEMMA ReadTypes ==
  ASSUME RowsType
  PROVE  /\ \A l \in Links : /\ l \in {"link"} \X Space \X Feed
                             /\ l = <<"link", l[2], l[3]>> /\ l[2] \in Space /\ l[3] \in Feed
                             /\ rows[l] \in Link /\ (rows[l].archived \/ rows[l].cap = 0)
         /\ \A k \in Invites : k \in {"invite"} \X InviteId /\ rows[k] \in Invitation
         /\ \A s \in Room : LastSeq(s) \in 0 .. MaxSeq /\ LastSeq(s) \in Nat
         /\ \A s \in Room, u \in User : IsMember(s, u) => RoleOf(s, u) \in Roles
         /\ \A u, v \in User : u # v /\ Has(Edge(u, v)) => rows[Edge(u, v)] \in Friendship
         /\ \A f \in Feed : Has(<<"feed", f>>) => OwnerOf(f) \in User
<1> USE SharingAssumption
<1>1. \A k \in DOMAIN rows : k \in Key /\ Holds(k, rows[k])
  BY DEF RowsType
<1>2. ASSUME NEW l \in Links
      PROVE  /\ l \in {"link"} \X Space \X Feed
             /\ l = <<"link", l[2], l[3]>> /\ l[2] \in Space /\ l[3] \in Feed
             /\ rows[l] \in Link /\ (rows[l].archived \/ rows[l].cap = 0)
  <2>1. l \in DOMAIN rows /\ l[1] = "link"
    BY DEF Links
  <2>2. l \in {"link"} \X Space \X Feed
    BY <1>1, <2>1 DEF Key
  <2> QED BY <1>1, <2>1, <2>2 DEF Holds
<1>3. ASSUME NEW k \in Invites PROVE k \in {"invite"} \X InviteId /\ rows[k] \in Invitation
  <2>1. k \in DOMAIN rows /\ k[1] = "invite"
    BY DEF Invites
  <2> QED BY <1>1, <2>1 DEF Key, Holds
<1>4. ASSUME NEW s \in Room PROVE LastSeq(s) \in 0 .. MaxSeq /\ LastSeq(s) \in Nat
  BY <1>1 DEF LastSeq, Has, Holds
<1>5. ASSUME NEW s \in Room, NEW u \in User, IsMember(s, u) PROVE RoleOf(s, u) \in Roles
  BY <1>1, <1>5 DEF IsMember, RoleOf, Has, Holds
<1>6. ASSUME NEW u \in User, NEW v \in User, u # v, Has(Edge(u, v))
      PROVE  rows[Edge(u, v)] \in Friendship
  BY <1>1, <1>6 DEF Edge, Has, Holds
<1>7. ASSUME NEW f \in Feed, Has(<<"feed", f>>) PROVE OwnerOf(f) \in User
  BY <1>1, <1>7 DEF OwnerOf, Has, Holds
<1> QED BY <1>2, <1>3, <1>4, <1>5, <1>6, <1>7

(* The database's order picks a least person.                              *)
LEMMA LeastIn ==
  ASSUME NEW T \in SUBSET User, T # {} PROVE Least(T) \in T
<1> DEFINE R == OpToRel(<, Nat)
<1>1. IsWellFoundedOn(R, Nat)
  BY NatLessThanWellFounded
<1>2. T \subseteq Nat
  BY SharingAssumption
<1>3. \E m \in T : \A x \in T : ~ (<<x, m>> \in R)
  <2> HIDE DEF R
  <2> QED BY <1>1, <1>2, WFMin
<1>4. PICK m \in T : \A x \in T : ~ (x < m)
  BY <1>2, <1>3 DEF OpToRel
<1>5. \A x \in T : m <= x
  BY <1>2, <1>4
<1> QED BY <1>5 DEF Least

(* What leaves a space, and what comes back to it.                         *)
LEMMA DepartureTyped ==
  ASSUME RowsType, NEW s \in Room, NEW u \in User
  PROVE  Departure(s, u) \subseteq Write /\ Revived(s, u) \subseteq Write
<1> USE SharingAssumption
<1>1. ASSUME NEW l \in Links, NEW c \in Nat
      PROVE  /\ Set(l, [rows[l] EXCEPT !.archived = TRUE, !.cap = c]) \in Write
             /\ Set(l, [rows[l] EXCEPT !.archived = FALSE, !.cap = 0]) \in Write
  <2>1. l \in Key /\ l[1] = "link" /\ rows[l] \in Link
    BY ReadTypes DEF Key
  <2>2. /\ [rows[l] EXCEPT !.archived = TRUE, !.cap = c] \in Link
        /\ [rows[l] EXCEPT !.archived = TRUE, !.cap = c].archived
        /\ [rows[l] EXCEPT !.archived = FALSE, !.cap = 0] \in Link
        /\ [rows[l] EXCEPT !.archived = FALSE, !.cap = 0].cap = 0
    BY <2>1 DEF Link
  <2> QED BY <2>1, <2>2, WritesTyped DEF Holds
<1>2. ASSUME NEW L \in SUBSET Links, \A l \in L : l[2] = s
      PROVE  MirrorWrites(s, L) \subseteq Write
  <2>1. ASSUME NEW l \in L PROVE Put(<<"mirror", s, l[3]>>, "live") \in Write
    <3>1. <<"mirror", s, l[3]>> \in Key
      BY <1>2, ReadTypes DEF Key
    <3>2. Holds(<<"mirror", s, l[3]>>, "live")
      BY DEF Holds
    <3> QED BY <3>1, <3>2, WritesTyped
  <2>2. ASSUME NEW w \in MirrorWrites(s, L) PROVE w \in Write
    <3>1. PICK l \in L : w = Put(<<"mirror", s, l[3]>>, "live")
      BY DEF MirrorWrites
    <3> QED BY <2>1, <3>1
  <2> QED BY <2>2
<1>3. Archived(s, u) \subseteq Write
  <2>1. LeaverLinks(s, u) \in SUBSET Links /\ \A l \in LeaverLinks(s, u) : l[2] = s
    BY DEF LeaverLinks
  <2>2. MirrorWrites(s, LeaverLinks(s, u)) \subseteq Write
    BY <1>2, <2>1
  <2>3. ASSUME NEW l \in LeaverLinks(s, u)
        PROVE  Set(l, [rows[l] EXCEPT !.archived = TRUE, !.cap = LastSeq(l[3])]) \in Write
    BY <1>1, <2>1, ReadTypes DEF Room
  <2>4. ASSUME NEW w \in Archived(s, u) PROVE w \in Write
    <3>1. CASE w \in MirrorWrites(s, LeaverLinks(s, u))
      BY <2>2, <3>1
    <3>2. CASE w \notin MirrorWrites(s, LeaverLinks(s, u))
      <4>1. PICK l \in LeaverLinks(s, u) :
              w = Set(l, [rows[l] EXCEPT !.archived = TRUE, !.cap = LastSeq(l[3])])
        BY <3>2 DEF Archived
      <4> QED BY <2>3, <4>1
    <3> QED BY <3>1, <3>2
  <2> QED BY <2>4
<1>4. Promotion(s, u) \subseteq Write
  <2>1. CASE OthersIn(s, u) # {}
    <3>1. Least(OthersIn(s, u)) \in User
      BY <2>1, LeastIn DEF OthersIn
    <3>2. /\ <<"member", s, Least(OthersIn(s, u))>> \in Key
          /\ Holds(<<"member", s, Least(OthersIn(s, u))>>, "owner")
      BY <3>1 DEF Key, Holds, Roles
    <3> QED BY <3>2, WritesTyped DEF Promotion
  <2> QED BY <2>1 DEF Promotion
<1>5. Revived(s, u) \subseteq Write
  <2>1. Revivable(s, u) \in SUBSET Links /\ \A l \in Revivable(s, u) : l[2] = s
    BY DEF Revivable
  <2>2. MirrorWrites(s, Revivable(s, u)) \subseteq Write
    BY <1>2, <2>1
  <2>3. ASSUME NEW l \in Revivable(s, u)
        PROVE  Set(l, [rows[l] EXCEPT !.archived = FALSE, !.cap = 0]) \in Write
    BY <1>1, <2>1
  <2>4. ASSUME NEW w \in Revived(s, u) PROVE w \in Write
    <3>1. CASE w \in MirrorWrites(s, Revivable(s, u))
      BY <2>2, <3>1
    <3>2. CASE w \notin MirrorWrites(s, Revivable(s, u))
      <4>1. PICK l \in Revivable(s, u) :
              w = Set(l, [rows[l] EXCEPT !.archived = FALSE, !.cap = 0])
        BY <3>2 DEF Revived
      <4> QED BY <2>3, <4>1
    <3> QED BY <3>1, <3>2
  <2> QED BY <2>4
<1> QED BY <1>3, <1>4, <1>5, DelTyped DEF Departure

(* A request that writes rows of the right shape may wait to be saved.     *)
LEMMA AskShapes ==
  ASSUME Shapes, NEW who \in User, NEW what \in What, NEW W \in SUBSET Write,
         NEW logs \in SUBSET Room, NEW next \in Continuation, Ask(who, what, W, logs, next)
  PROVE  Shapes'
<1> DEFINE q == [who |-> who, what |-> what, writes |-> Settle(W), logs |-> logs,
                 since |-> "nothing", next |-> next]
<1>1. inflight' = inflight \cup {q} /\ UNCHANGED <<rows, due>>
  BY DEF Ask
<1>2. q \in Request /\ q.what # "saved"
  BY DEF Request, Settle, What
<1>3. RowsType'
  BY <1>1 DEF Shapes, RowsType
<1> HIDE DEF q
<1> QED BY <1>1, <1>2, <1>3 DEF Shapes

(* One write is typed if its row is.                                       *)
LEMMA OneTyped ==
  ASSUME RowsType, NEW k \in Key, NEW v, Holds(k, v)
  PROVE  {Add(k, v)} \subseteq Write /\ {Set(k, v)} \subseteq Write /\ {Put(k, v)} \subseteq Write
BY WritesTyped

(* What friends do.                                                        *)
LEMMA FriendsShapes == ASSUME Shapes, NEW u \in User, Friends(u) PROVE Shapes'
<1> USE SharingAssumption
<1>0. RowsType /\ Done \in Continuation /\ "owner" \in Roles /\ Assignable \subseteq Roles
  BY DEF Shapes, Continuation, Roles
<1>1. ASSUME NEW v \in User, NEW s \in Room \cup {NoSpace}, NEW role \in Assignable,
             SendFriendRequest(u, v, s, role)
      PROVE  Shapes'
  <2>1. Edge(u, v) \in Key /\ Edge(u, v)[1] = "friend" /\ u \in Edge(u, v)[2]
    BY <1>1 DEF SendFriendRequest, Edge, Key, Pair
  <2>2. CASE ~ Has(Edge(u, v))
    <3> DEFINE e == [by |-> u, status |-> "pending", space |-> s, role |-> role]
    <3>1. e \in Friendship /\ e.by = u
      BY <1>0 DEF Friendship
    <3>2. Ask(u, "request", {Add(Edge(u, v), e)}, {}, Done)
      BY <1>1, <2>2 DEF SendFriendRequest
    <3> HIDE DEF e
    <3>3. {Add(Edge(u, v), e)} \subseteq Write
      BY <1>0, <2>1, <3>1, OneTyped DEF Holds
    <3> QED BY <1>0, <3>2, <3>3, AskShapes DEF What
  <2>3. CASE Has(Edge(u, v))
    <3> DEFINE e == [rows[Edge(u, v)] EXCEPT !.status = "accepted"]
               n == IF s = NoSpace THEN Done
                    ELSE [kind |-> "invite", space |-> s, to |-> v, role |-> role]
    <3>1. rows[Edge(u, v)] \in Friendship /\ Holds(Edge(u, v), rows[Edge(u, v)])
      BY <1>0, <1>1, <2>3, ReadTypes DEF SendFriendRequest, RowsType, Has
    <3>2. e \in Friendship /\ e.by \in Edge(u, v)[2]
      BY <2>1, <3>1 DEF Friendship, Holds
    <3>3. n \in Continuation
      BY <1>0 DEF Continuation
    <3>4. Ask(u, "reciprocate", {Set(Edge(u, v), e)}, {}, n)
      BY <1>1, <2>3 DEF SendFriendRequest
    <3> HIDE DEF e, n
    <3>5. {Set(Edge(u, v), e)} \subseteq Write
      BY <1>0, <2>1, <3>2, OneTyped DEF Holds
    <3> QED BY <3>3, <3>4, <3>5, AskShapes DEF What
  <2> QED BY <2>2, <2>3
<1>2. ASSUME NEW v \in User, AcceptFriendRequest(u, v) PROVE Shapes'
  <2> DEFINE edge == rows[Edge(u, v)]
             joins == edge.space # NoSpace /\ ~ IsMember(edge.space, u)
             e == [edge EXCEPT !.status = "accepted"]
             J == IF joins THEN {Add(<<"member", edge.space, u>>, edge.role)}
                                  \cup Revived(edge.space, u) ELSE {}
             logs == IF joins THEN LogsOf(edge.space, Revivable(edge.space, u)) ELSE {}
  <2>1. /\ Edge(u, v) \in Key /\ Edge(u, v)[1] = "friend"
        /\ edge \in Friendship /\ Holds(Edge(u, v), edge)
    BY <1>0, <1>2, ReadTypes DEF AcceptFriendRequest, Edge, Key, Pair, RowsType, Has
  <2>2. e \in Friendship /\ e.by \in Edge(u, v)[2]
    BY <2>1 DEF Friendship, Holds
  <2>3. {Set(Edge(u, v), e)} \subseteq Write
    <3> HIDE DEF e
    <3> QED BY <1>0, <2>1, <2>2, OneTyped DEF Holds
  <2>4. J \subseteq Write
    <3>1. CASE joins
      <4>1. edge.space \in Room /\ edge.role \in Roles
        BY <2>1, <3>1 DEF Friendship
      <4>2. Revived(edge.space, u) \subseteq Write
        BY <1>0, <4>1, DepartureTyped DEF Room
      <4>3. {Add(<<"member", edge.space, u>>, edge.role)} \subseteq Write
        <5>1. <<"member", edge.space, u>> \in Key
          BY <4>1 DEF Key, Room
        <5> QED BY <1>0, <4>1, <5>1, OneTyped DEF Holds
      <4> QED BY <3>1, <4>2, <4>3
    <3>2. CASE ~ joins
      BY <3>2
    <3> QED BY <3>1, <3>2
  <2>5. Ask(u, "befriend", {Set(Edge(u, v), e)} \cup J, logs, Done)
    BY <1>2 DEF AcceptFriendRequest
  <2>6. logs \in SUBSET Room
    BY <2>1 DEF LogsOf, Friendship, Room
  <2> HIDE DEF e, J, logs
  <2>7. ({Set(Edge(u, v), e)} \cup J) \subseteq Write
    BY <2>3, <2>4
  <2> QED BY <1>0, <2>5, <2>6, <2>7, AskShapes DEF What
<1>3. ASSUME NEW v \in User, RemoveFriend(u, v) PROVE Shapes'
  BY <1>0, <1>3, DelTyped, AskShapes DEF What, RemoveFriend
<1> QED BY <1>1, <1>2, <1>3 DEF Friends

(* A fresh invitation is one, wherever it is written.                      *)
LEMMA NewInviteTyped ==
  ASSUME RowsType, NEW i \in FreshInvite, NEW s \in Room, NEW from \in User, NEW to \in User,
         NEW role \in Roles
  PROVE  {NewInvite(i, s, from, to, role)} \subseteq Write
<1> DEFINE v == [space |-> s, from |-> from, to |-> to, role |-> role, status |-> "pending"]
<1>1. <<"invite", i>> \in Key /\ v \in Invitation
  BY DEF FreshInvite, Key, Invitation
<1>2. NewInvite(i, s, from, to, role) = Add(<<"invite", i>>, v)
  BY DEF NewInvite
<1> HIDE DEF v
<1> QED BY <1>1, <1>2, OneTyped DEF Holds

(* What people do about invitations.                                       *)
LEMMA InvitationsShapes == ASSUME Shapes, NEW u \in User, Invitations(u) PROVE Shapes'
<1> USE SharingAssumption
<1>0. RowsType /\ Done \in Continuation /\ Assignable \subseteq Roles
  BY DEF Shapes, Continuation, Roles
<1>1. ASSUME NEW s \in Room, NEW v \in User, NEW role \in Assignable,
             SendSpaceInvite(u, s, v, role)
      PROVE  Shapes'
  <2>1. PICK i \in FreshInvite : Ask(u, "invite", {NewInvite(i, s, u, v, role)}, {}, Done)
    BY <1>1 DEF SendSpaceInvite
  <2> QED BY <1>0, <2>1, NewInviteTyped, AskShapes DEF What
<1>2. ASSUME NEW k \in Invites, RevokeInvite(u, k) PROVE Shapes'
  BY <1>0, <1>2, DelTyped, AskShapes DEF What, RevokeInvite
<1>3. ASSUME NEW k \in Invites, NEW yes \in BOOLEAN, RespondToInvite(u, k, yes) PROVE Shapes'
  <2> DEFINE s == rows[k].space
             c == [rows[k] EXCEPT !.status = IF yes THEN "accepted" ELSE "declined"]
             logs == LogsOf(s, Revivable(s, u))
  <2>1. k \in Key /\ k[1] = "invite" /\ rows[k] \in Invitation
    BY <1>0, ReadTypes DEF Key
  <2>2. {Set(k, c)} \subseteq Write
    <3>1. c \in Invitation
      BY <2>1 DEF Invitation
    <3> HIDE DEF c
    <3> QED BY <1>0, <2>1, <3>1, OneTyped DEF Holds
  <2>3. Revived(s, u) \subseteq Write /\ {Add(<<"member", s, u>>, rows[k].role)} \subseteq Write
    <3>1. s \in Room /\ rows[k].role \in Roles
      BY <2>1 DEF Invitation
    <3>2. <<"member", s, u>> \in Key
      BY <3>1 DEF Key, Room
    <3> HIDE DEF s
    <3> QED BY <1>0, <3>1, <3>2, OneTyped, DepartureTyped DEF Holds, Room
  <2>4. CASE yes
    <3>1. Ask(u, "join", {Set(k, c), Add(<<"member", s, u>>, rows[k].role)} \cup Revived(s, u),
              logs, Done)
      BY <1>3, <2>4 DEF RespondToInvite
    <3>2. ({Set(k, c), Add(<<"member", s, u>>, rows[k].role)} \cup Revived(s, u)) \subseteq Write
      BY <2>2, <2>3
    <3>3. logs \in SUBSET Room
      BY <2>1 DEF LogsOf, Invitation, Room
    <3> HIDE DEF logs
    <3> QED BY <1>0, <3>1, <3>2, <3>3, AskShapes DEF What
  <2>5. CASE ~ yes
    <3>1. Ask(u, "decline", {Set(k, c)}, {}, Done)
      BY <1>3, <2>5 DEF RespondToInvite
    <3> QED BY <1>0, <2>2, <3>1, AskShapes DEF What
  <2> QED BY <2>4, <2>5
<1> QED BY <1>1, <1>2, <1>3 DEF Invitations

(* What an account deletion writes are deletions, and departures.          *)
Erasure(u) ==
  LeaveOrDeleteSpaces(u) \cup PruneOwnedFeeds(u) \cup Del(SocialRows(u) \cup {<<"user", u>>})

(* What erases a feed is writes.                                           *)
LEMMA ErasureTyped ==
  ASSUME RowsType, NEW u \in User PROVE Erasure(u) \subseteq Write
<1>1. \A s : DeleteSpaceData(s) \subseteq Write
  BY DelTyped DEF DeleteSpaceData
<1>2. \A f : PruneFeed(f) \subseteq Write
  BY <1>1, DelTyped DEF PruneFeed
<1>3. \A s \in Surviving(u) : Departure(s, u) \subseteq Write
  BY DepartureTyped DEF Surviving
<1>4. LeaveOrDeleteSpaces(u) \subseteq Write /\ PruneOwnedFeeds(u) \subseteq Write
  <2>1. UNION {DeleteSpaceData(s) : s \in SoleMember(u)} \subseteq Write
    BY <1>1
  <2>2. UNION {Departure(s, u) : s \in Surviving(u)} \subseteq Write
    BY <1>3
  <2> QED BY <1>2, <2>1, <2>2 DEF LeaveOrDeleteSpaces, PruneOwnedFeeds
<1>5. Del(SocialRows(u) \cup {<<"user", u>>}) \subseteq Write
  BY DelTyped
<1> QED BY <1>4, <1>5 DEF Erasure

(* What members do.                                                        *)
LEMMA MembersShapes == ASSUME Shapes, NEW u \in User, Members(u) PROVE Shapes'
<1> USE SharingAssumption
<1>0. RowsType /\ Done \in Continuation /\ Assignable \subseteq Roles /\ "owner" \in Roles
  BY DEF Shapes, Continuation, Roles
<1>1. ASSUME NEW s \in Room, NEW v \in User, NEW role \in Assignable,
             ChangeMemberRole(u, s, v, role)
      PROVE  Shapes'
  <2>1. <<"member", s, v>> \in Key
    BY DEF Key, Room
  <2>2. {Set(<<"member", s, v>>, role)} \subseteq Write
    BY <1>0, <2>1, OneTyped DEF Holds
  <2> QED BY <1>0, <1>1, <2>2, AskShapes DEF What, ChangeMemberRole
<1>2. ASSUME NEW s \in Room, NEW v \in User, RemoveMember(u, s, v) PROVE Shapes'
  <2>1. Ask(u, "remove", Departure(s, v), LogsOf(s, LeaverLinks(s, v)), Done)
    BY <1>2 DEF RemoveMember
  <2>2. LogsOf(s, LeaverLinks(s, v)) \in SUBSET Room
    BY DEF LogsOf, Room
  <2> QED BY <1>0, <2>1, <2>2, DepartureTyped, AskShapes DEF What, Room
<1>3. ASSUME NEW s \in Space, FirstPush(u, s) PROVE Shapes'
  <2>1. <<"member", s, u>> \in Key /\ <<"space", s>> \in Key /\ 0 \in 0 .. MaxSeq
    BY DEF Key, Room
  <2>2. {Add(<<"space", s>>, 0), Add(<<"member", s, u>>, "owner")} \subseteq Write
    BY <1>0, <2>1, WritesTyped DEF Holds
  <2> QED BY <1>0, <1>3, <2>2, AskShapes DEF What, FirstPush
<1>4. ASSUME DeleteMe(u) PROVE Shapes'
  <2> DEFINE logs == UNION {LogsOf(s, LeaverLinks(s, u)) : s \in Surviving(u)}
  <2>1. Ask(u, "vanish", Erasure(u), logs, Done)
    BY <1>4 DEF DeleteMe, Erasure
  <2>2. Erasure(u) \subseteq Write
    BY <1>0, ErasureTyped
  <2>3. logs \in SUBSET Room
    <3>1. \A s \in Surviving(u) : LogsOf(s, LeaverLinks(s, u)) \subseteq Room
      BY DEF LogsOf, Surviving
    <3> QED BY <3>1
  <2> HIDE DEF logs
  <2> QED BY <1>0, <2>1, <2>2, <2>3, AskShapes DEF What
<1> QED BY <1>1, <1>2, <1>3, <1>4 DEF Members

(* Opening and joining a feed, and what deletions leave in the logs.       *)
LEMMA FeedWritesTyped ==
  ASSUME RowsType, NEW u \in User, NEW f \in Feed
  PROVE  /\ OpenFeed(f) \subseteq Write /\ JoinFeed(u, f) \subseteq Write
         /\ {Add(<<"feed", f>>, u)} \subseteq Write /\ {Set(<<"feed", f>>, u)} \subseteq Write
         /\ \A S \in SUBSET Space : Tombstones(S, f) \subseteq Write
<1> USE SharingAssumption
<1>1. /\ <<"space", f>> \in Key /\ <<"member", f, u>> \in Key
      /\ <<"feed", f>> \in Key /\ <<"co", f, u>> \in Key
  BY DEF Key, Room
<1>2. /\ Holds(<<"space", f>>, 0) /\ Holds(<<"member", f, u>>, "owner")
      /\ Holds(<<"feed", f>>, u) 
  BY DEF Holds, Roles
<1>3. OpenFeed(f) \subseteq Write /\ JoinFeed(u, f) \subseteq Write
  BY <1>1, <1>2, OneTyped DEF OpenFeed, JoinFeed
<1>4. ASSUME NEW S \in SUBSET Space PROVE Tombstones(S, f) \subseteq Write
  <2> DEFINE T(s) == {Put(<<"mirror", s, f>>, "dead"), Add(<<"feeddel", s, f>>, Bare)}
  <2>1. ASSUME NEW s \in Space PROVE T(s) \subseteq Write
    <3>1. <<"mirror", s, f>> \in Key /\ <<"feeddel", s, f>> \in Key
      BY DEF Key
    <3>2. Holds(<<"mirror", s, f>>, "dead") /\ Holds(<<"feeddel", s, f>>, Bare)
      BY DEF Holds
    <3>3. Put(<<"mirror", s, f>>, "dead") \in Write
      BY <3>1, <3>2, WritesTyped
    <3>4. Add(<<"feeddel", s, f>>, Bare) \in Write
      BY <3>1, <3>2, WritesTyped
    <3> QED BY <3>3, <3>4
  <2>2. Tombstones(S, f) = UNION {T(s) : s \in Tombstoned(S, f)} /\ Tombstoned(S, f) \subseteq Space
    BY DEF Tombstones, Tombstoned
  <2> HIDE DEF T
  <2> QED BY <2>1, <2>2
<1>5. /\ {Add(<<"feed", f>>, u)} \subseteq Write /\ {Set(<<"feed", f>>, u)} \subseteq Write
  BY <1>1, <1>2, OneTyped
<1> QED BY <1>3, <1>4, <1>5

(* So is becoming a co-owner.                                              *)
LEMMA CoOwnerTyped ==
  ASSUME RowsType, NEW u \in User, NEW f \in Feed
  PROVE  {Add(<<"co", f, u>>, Bare)} \subseteq Write
<1>1. <<"co", f, u>> \in Key /\ Holds(<<"co", f, u>>, Bare)
  BY DEF Key, Holds
<1>2. Add(<<"co", f, u>>, Bare) \in Write
  BY <1>1, WritesTyped
<1> QED BY <1>2

(* What people do with feeds.                                              *)
LEMMA FeedsShapes == ASSUME Shapes, NEW u \in User, Feeds(u) PROVE Shapes'
<1> USE SharingAssumption
<1>0. RowsType /\ Done \in Continuation
  BY DEF Shapes, Continuation
<1>1. ASSUME NEW f \in Feed, RegisterFeed(u, f) PROVE Shapes'
  <2>1. /\ ({Add(<<"feed", f>>, u)} \cup OpenFeed(f) \cup JoinFeed(u, f)) \subseteq Write
        /\ ({Set(<<"feed", f>>, u)} \cup JoinFeed(u, f)) \subseteq Write
    BY <1>0, FeedWritesTyped
  <2> QED BY <1>0, <1>1, <2>1, AskShapes DEF What, RegisterFeed
<1>2. ASSUME NEW f \in Feed, EnsureIbanFeed(u, f) PROVE Shapes'
  <2> DEFINE owns == IF ~ Has(<<"feed", f>>) THEN {Add(<<"feed", f>>, u)}
                     ELSE IF IsFeedOwner(f, u) THEN {} ELSE {Add(<<"co", f, u>>, Bare)}
  <2>1. owns \subseteq Write
    <3>1. {Add(<<"feed", f>>, u)} \subseteq Write
      BY <1>0, FeedWritesTyped
    <3>2. {Add(<<"co", f, u>>, Bare)} \subseteq Write
      BY <1>0, CoOwnerTyped
    <3> QED BY <3>1, <3>2
  <2>2. Ask(u, "ensure", owns \cup OpenFeed(f) \cup JoinFeed(u, f), {}, Done)
    BY <1>2 DEF EnsureIbanFeed
  <2> HIDE DEF owns
  <2>3. (owns \cup OpenFeed(f) \cup JoinFeed(u, f)) \subseteq Write
    BY <1>0, <2>1, FeedWritesTyped
  <2> QED BY <1>0, <2>2, <2>3, AskShapes DEF What
<1>3. ASSUME NEW f \in Feed, PushToFeed(u, f) PROVE Shapes'
  <2>1. f \in Room /\ LastSeq(f) \in 0 .. MaxSeq /\ LastSeq(f) < MaxSeq
    BY <1>0, <1>3, ReadTypes DEF PushToFeed, Room
  <2>2. LastSeq(f) + 1 \in 0 .. MaxSeq /\ <<"space", f>> \in Key
    BY <2>1 DEF Key
  <2>3. {Set(<<"space", f>>, LastSeq(f) + 1)} \subseteq Write
    BY <1>0, <2>2, OneTyped DEF Holds
  <2>4. Ask(u, "push", {Set(<<"space", f>>, LastSeq(f) + 1)}, {f}, Done)
    BY <1>3 DEF PushToFeed
  <2> QED BY <1>0, <2>1, <2>3, <2>4, AskShapes DEF What
<1>4. ASSUME NEW f \in Feed, DeleteFeedAccount(u, f) PROVE Shapes'
  <2>1. [kind |-> "deleteFeed", feed |-> f, owner |-> OwnerOf(f)] \in Continuation
    BY <1>0, <1>4, ReadTypes DEF DeleteFeedAccount, Continuation
  <2> QED BY <1>0, <1>4, <2>1, DelTyped, AskShapes DEF What, DeleteFeedAccount
<1>5. ASSUME NEW f \in Feed, NEW s \in Space, Attach(u, s, f) PROVE Shapes'
  <2> DEFINE l == [by |-> u, archived |-> FALSE, cap |-> 0]
  <2>1. <<"link", s, f>> \in Key /\ Holds(<<"link", s, f>>, l)
    BY DEF Key, Holds, Link
  <2>2. Ask(u, "attach", {Put(<<"link", s, f>>, l)}, {}, Done)
    BY <1>5 DEF Attach
  <2> HIDE DEF l
  <2> QED BY <1>0, <2>1, <2>2, OneTyped, AskShapes DEF What
<1>6. ASSUME NEW f \in Feed, NEW s \in Space, Detach(u, s, f) PROVE Shapes'
  BY <1>0, <1>6, DelTyped, AskShapes DEF What, Detach
<1> QED BY <1>1, <1>2, <1>3, <1>4, <1>5, <1>6 DEF Feeds

(* A request that goes on writes rows of the right shape.                  *)
LEMMA GoOnShapes ==
  ASSUME Shapes, NEW r \in inflight, NEW what \in What, NEW W \in SUBSET Write,
         NEW logs \in SUBSET Room,
         inflight' = (inflight \ {r}) \cup {[r EXCEPT !.what = what, !.writes = W,
                                                    !.logs = logs, !.next = Done]},
         UNCHANGED <<rows, due>>
  PROVE  Shapes'
<1> DEFINE q == [r EXCEPT !.what = what, !.writes = W, !.logs = logs, !.next = Done]
<1>1. r \in Request /\ Done \in Continuation
  BY DEF Shapes, Continuation
<1>2. q \in Request /\ q.what = what
  BY <1>1 DEF Request
<1>3. inflight' \subseteq inflight \cup {q}
  OBVIOUS
<1>4. RowsType'
  BY DEF Shapes, RowsType
<1> HIDE DEF q
<1> QED BY <1>2, <1>3, <1>4 DEF Shapes, What

(* What a judged feed leads to.                                            *)
LEMMA JudgementTyped ==
  ASSUME RowsType, NEW f \in Feed, NEW me \in User, NEW owner \in User
  PROVE  /\ Settle(EraseFeed(f, me)) \subseteq Write
         /\ \A n \in IF Successors(f, me) = {} THEN {me} ELSE Successors(f, me) :
              Settle(RemoveMyView(f, me, owner, n)) \subseteq Write
<1>1. \A L \in SUBSET LinksOf(f) : Tombstones(SpacesOf(L), f) \subseteq Write
  <2>1. \A L \in SUBSET LinksOf(f) : SpacesOf(L) \in SUBSET Space
    BY ReadTypes DEF LinksOf, SpacesOf
  <2> QED BY <2>1, FeedWritesTyped
<1>2. EraseFeed(f, me) \subseteq Write
  BY <1>1, DelTyped DEF EraseFeed
<1>3. ASSUME NEW n \in IF Successors(f, me) = {} THEN {me} ELSE Successors(f, me)
      PROVE  RemoveMyView(f, me, owner, n) \subseteq Write
  <2>1. n \in User
    BY ReadTypes DEF Successors, CoOwners, LinksOf, Link
  <2>2. {Set(<<"feed", f>>, n)} \subseteq Write
    BY <2>1, FeedWritesTyped
  <2>3. ({Set(<<"feed", f>>, n)} \cup Del({<<"co", f, n>>})) \subseteq Write /\ {} \subseteq Write
    BY <2>2, DelTyped
  <2>4. Succession(f, me, owner, n) \subseteq Write
    BY <2>3 DEF Succession
  <2>5. LinksBy(f, me) \in SUBSET LinksOf(f)
    BY DEF LinksBy
  <2> QED BY <1>1, <2>4, <2>5, DelTyped DEF RemoveMyView
<1> QED BY <1>2, <1>3 DEF Settle

(* The second halves: an invitation to follow, and the judgement of a      *)
(* feed.                                                                   *)
LEMMA ContinuedShapes ==
  ASSUME Shapes, NEW r \in inflight, AddSpaceInviteIfMissing(r) \/ JudgeFeed(r) PROVE Shapes'
<1> USE SharingAssumption
<1>0. /\ RowsType /\ r \in Request /\ r.who \in User /\ r.next \in Continuation
      /\ r.logs \in SUBSET Room /\ UNCHANGED <<rows, due>>
  BY DEF Shapes, Request, AddSpaceInviteIfMissing, JudgeFeed
<1>1. CASE inflight' = inflight \ {r}
  BY <1>0, <1>1 DEF Shapes, RowsType
<1>2. CASE AddSpaceInviteIfMissing(r) /\ inflight' # inflight \ {r}
  <2>0. r.next.kind = "invite"
    BY <1>2 DEF AddSpaceInviteIfMissing
  <2>1. r.next.space \in Room /\ r.next.to \in User /\ r.next.role \in Roles
    BY <1>0, <2>0 DEF Continuation, Done
  <2>2. PICK i \in FreshInvite :
          inflight' = (inflight \ {r}) \cup
            {[r EXCEPT !.what = "invite", !.next = Done, !.writes =
                {NewInvite(i, r.next.space, r.who, r.next.to, r.next.role)}]}
    BY <1>2 DEF AddSpaceInviteIfMissing
  <2> DEFINE W == {NewInvite(i, r.next.space, r.who, r.next.to, r.next.role)}
  <2>3. ASSUME NEW s \in Room, NEW a \in User, NEW b \in User, NEW x \in Roles
        PROVE  NewInvite(i, s, a, b, x) \in Write
    BY <1>0, NewInviteTyped
  <2>4. NewInvite(i, r.next.space, r.who, r.next.to, r.next.role) \in Write
    <3>1. r.who \in User
      BY <1>0
    <3> HIDE DEF W
    <3> QED BY <2>1, <2>3, <3>1
  <2>5. inflight' = (inflight \ {r}) \cup
          {[r EXCEPT !.what = "invite", !.next = Done, !.writes = W]}
    BY <2>2
  <2> HIDE DEF W
  <2>6. [r EXCEPT !.what = "invite", !.next = Done, !.writes = W]
          = [r EXCEPT !.what = "invite", !.writes = W, !.logs = r.logs, !.next = Done]
    BY <1>0 DEF Request
  <2>7. inflight' = (inflight \ {r}) \cup
          {[r EXCEPT !.what = "invite", !.writes = W, !.logs = r.logs, !.next = Done]}
    BY <2>5, <2>6
  <2>8. W \in SUBSET Write
    BY <2>4 DEF W
  <2> QED BY <1>0, <2>7, <2>8, GoOnShapes DEF What
<1>3. CASE JudgeFeed(r) /\ inflight' # inflight \ {r}
  <2>0. r.next.kind = "deleteFeed"
    BY <1>3 DEF JudgeFeed
  <2>1. r.next.feed \in Feed /\ r.next.owner \in User 
    BY <1>0, <2>0 DEF Continuation, Done
  <2>2. \/ \E next \in IF Successors(r.next.feed, r.who) = {} THEN {r.who}
                       ELSE Successors(r.next.feed, r.who) :
             inflight' = (inflight \ {r}) \cup
               {[r EXCEPT !.what = "leave",
                          !.writes = Settle(RemoveMyView(r.next.feed, r.who, r.next.owner, next)),
                          !.logs = Tombstoned(SpacesOf(LinksBy(r.next.feed, r.who)), r.next.feed),
                          !.next = Done]}
        \/ inflight' = (inflight \ {r}) \cup
               {[r EXCEPT !.what = "erase", !.writes = Settle(EraseFeed(r.next.feed, r.who)),
                          !.logs = Tombstoned(SpacesOf(LinksOf(r.next.feed)), r.next.feed),
                          !.next = Done]}
    BY <1>3 DEF JudgeFeed
  <2>3. \A S \in SUBSET LinksOf(r.next.feed) :
          Tombstoned(SpacesOf(S), r.next.feed) \in SUBSET Room
    BY <1>0, ReadTypes DEF Tombstoned, SpacesOf, LinksOf, Room
  <2>4. LinksBy(r.next.feed, r.who) \in SUBSET LinksOf(r.next.feed)
    BY DEF LinksBy
  <2>5. ASSUME NEW next \in IF Successors(r.next.feed, r.who) = {} THEN {r.who}
                            ELSE Successors(r.next.feed, r.who),
               inflight' = (inflight \ {r}) \cup
                 {[r EXCEPT !.what = "leave",
                            !.writes = Settle(RemoveMyView(r.next.feed, r.who, r.next.owner, next)),
                            !.logs = Tombstoned(SpacesOf(LinksBy(r.next.feed, r.who)), r.next.feed),
                            !.next = Done]}
        PROVE  Shapes'
    <3>1. Settle(RemoveMyView(r.next.feed, r.who, r.next.owner, next)) \in SUBSET Write
      BY <1>0, <2>1, JudgementTyped
    <3>2. Tombstoned(SpacesOf(LinksBy(r.next.feed, r.who)), r.next.feed) \in SUBSET Room
      BY <2>3, <2>4
    <3> QED BY <1>0, <2>5, <3>1, <3>2, GoOnShapes DEF What
  <2>6. CASE inflight' = (inflight \ {r}) \cup
               {[r EXCEPT !.what = "erase", !.writes = Settle(EraseFeed(r.next.feed, r.who)),
                          !.logs = Tombstoned(SpacesOf(LinksOf(r.next.feed)), r.next.feed),
                          !.next = Done]}
    BY <1>0, <2>1, <2>3, <2>6, JudgementTyped, GoOnShapes DEF What
  <2> QED BY <2>2, <2>5, <2>6
<1> QED BY <1>1, <1>2, <1>3

(* A save applies typed writes to typed rows.                              *)
LEMMA AppliedTyped ==
  ASSUME RowsType, NEW W \in SUBSET Write, rows' = Applied(W)
  PROVE  RowsType'
<1> DEFINE D == (DOMAIN rows \cup {w.key : w \in {x \in W : x.op = "add"}})
                  \ ({w.key : w \in {x \in W : x.op = "del"}} \cup {k \in DOMAIN rows : Inert(k)})
<1>1. DOMAIN rows' = D
  BY DEF Applied
<1>2. D \subseteq Key
  BY DEF RowsType, Write
<1>3. ASSUME NEW k \in D PROVE Holds(k, rows'[k])
  <2>1. rows'[k] = IF \E w \in W : w.key = k THEN (CHOOSE w \in W : w.key = k).val ELSE rows[k]
    BY DEF Applied
  <2> HIDE DEF D
  <2>2. CASE \E w \in W : w.key = k
    <3> DEFINE w == CHOOSE w \in W : w.key = k
    <3>1. w \in W /\ w.key = k
      BY <2>2
    <3>2. w.op # "del"
      BY <3>1 DEF D
    <3> HIDE DEF w
    <3>3. Holds(w.key, w.val)
      BY <3>1, <3>2 DEF Write
    <3>4. rows'[k] = w.val
      BY <2>1, <2>2 DEF w
    <3> QED BY <3>1, <3>3, <3>4
  <2>3. CASE ~ \E w \in W : w.key = k
    <3>1. k \in DOMAIN rows
      BY <2>3 DEF D
    <3> QED BY <2>1, <2>3, <3>1 DEF RowsType
  <2> QED BY <2>2, <2>3
<1> HIDE DEF D
<1> QED BY <1>1, <1>2, <1>3 DEF RowsType

(* Whoever is overtaken keeps its shape.                                   *)
LEMMA OvertakeShapes ==
  ASSUME Shapes, NEW R \in SUBSET inflight, NEW logs, NEW q \in Overtake(R, logs)
  PROVE  q \in Request /\ (q.what = "saved" => q.next # Done)
<1>1. PICK p \in R : q = [p EXCEPT !.since = IF @ = "taken" \/ p.logs \cap logs # {}
                                             THEN "taken" ELSE "overtaken"]
  BY DEF Overtake
<1>2. p \in Request /\ (p.what = "saved" => p.next # Done)
  BY DEF Shapes
<1> QED BY <1>1, <1>2 DEF Request

(* A save, or the refusal of one, leaves the shapes.                       *)
LEMMA SaveShapes ==
  ASSUME Shapes, NEW r \in inflight, Save(r) \/ Refuse(r) PROVE Shapes'
<1>0. r \in Request /\ inflight \subseteq Request
  BY DEF Shapes
<1>1. QueuedAfter(r) \in [Space \X Feed -> {"none", "live", "dead"}]
  BY DEF Shapes, QueuedAfter
<1>2. Continued(r) \subseteq {q \in Request : q.next # Done}
  BY <1>0 DEF Continued, Request
<1>4. CASE Refuse(r)
  BY <1>1, <1>4 DEF Refuse, Shapes, RowsType
<1>5. CASE Save(r) /\ r.writes = {}
  BY <1>2, <1>5 DEF Save, Shapes, RowsType
<1>6. CASE Save(r) /\ r.writes # {}
  <2>1. /\ inflight' = Continued(r) \cup Overtake(inflight \ {r}, r.logs)
        /\ rows' = Applied(r.writes) /\ due' \in Queued(r)
    BY <1>6 DEF Save
  <2>2. RowsType'
    BY <1>0, <2>1, AppliedTyped DEF Shapes, Request
  <2>3. due' \in [Space \X Feed -> {"none", "live", "dead"}]
    BY <1>1, <2>1 DEF Queued, Shapes
  <2> QED BY <1>2, <2>1, <2>2, <2>3, OvertakeShapes DEF Shapes
<1> QED BY <1>4, <1>5, <1>6

(* Devices push and queue mirrors only.                                    *)
LEMMA DevicesShapes ==
  ASSUME Shapes, NEW u \in User, NEW s \in Space, NEW f \in Feed,
         PushMirror(u, s, f) \/ Reconcile(u, s, f)
  PROVE  Shapes'
<1>1. ASSUME PushMirror(u, s, f) PROVE Shapes'
  <2>1. <<"mirror", s, f>> \in Key /\ due[<<s, f>>] \in {"live", "dead"}
    BY <1>1 DEF PushMirror, Shapes, Key
  <2>2. Put(<<"mirror", s, f>>, due[<<s, f>>]) \in Write
    BY <2>1, WritesTyped DEF Shapes, Holds
  <2>3. RowsType'
    BY <1>1, <2>2, AppliedTyped DEF PushMirror, Shapes
  <2>4. due' \in [Space \X Feed -> {"none", "live", "dead"}]
    BY <1>1 DEF PushMirror, Shapes
  <2>5. inflight' = Overtake(inflight, {s})
    BY <1>1 DEF PushMirror
  <2> QED BY <2>3, <2>4, <2>5, OvertakeShapes DEF Shapes
<1>2. ASSUME Reconcile(u, s, f) PROVE Shapes'
  BY <1>2 DEF Reconcile, Shapes, RowsType
<1> QED BY <1>1, <1>2

(* The initial tables have their shape.                                    *)
LEMMA InitShapes == Init => Shapes
<1> SUFFICES ASSUME Init PROVE Shapes
  OBVIOUS
<1> DEFINE D == {<<"user", u>> : u \in User} \cup {<<"friend", p>> : p \in Befriended}
<1>1. DOMAIN rows = D
  BY DEF Init
<1>2. ASSUME NEW k \in D PROVE k \in Key /\ Holds(k, rows[k])
  <2>1. CASE \E u \in User : k = <<"user", u>>
    <3>1. rows[k] = Bare
      BY <2>1 DEF Init
    <3> QED BY <2>1, <3>1 DEF Key, Holds
  <2>2. CASE \E p \in Befriended : k = <<"friend", p>>
    <3>1. PICK p \in Befriended : k = <<"friend", p>>
      BY <2>2
    <3>2. p \in Pair /\ (CHOOSE u \in p : TRUE) \in p
      BY SharingAssumption DEF Pair
    <3>3. rows[k] = [by |-> CHOOSE u \in p : TRUE, status |-> "accepted",
                     space |-> NoSpace, role |-> "owner"]
      BY <3>1 DEF Init
    <3>4. rows[k] \in Friendship /\ rows[k].by \in p
      BY <3>2, <3>3 DEF Friendship, Roles, Pair
    <3> QED BY <3>1, <3>2, <3>4 DEF Key, Holds
  <2> QED BY <2>1, <2>2
<1>3. RowsType
  <2> HIDE DEF D
  <2> QED BY <1>1, <1>2 DEF RowsType
<1> QED BY <1>3 DEF Init, Shapes

(* Every step keeps the shapes.                                            *)
LEMMA NextShapes == Shapes /\ [Next]_vars => Shapes'
<1> SUFFICES ASSUME Shapes, [Next]_vars PROVE Shapes'
  OBVIOUS
<1>1. CASE UNCHANGED vars
  BY <1>1 DEF vars, Shapes, RowsType
<1> QED BY <1>1, FriendsShapes, InvitationsShapes, MembersShapes, FeedsShapes, ContinuedShapes,
           SaveShapes, DevicesShapes DEF Next

(* The tables hold what their columns allow, whatever overlaps.            *)
THEOREM TypeCorrect == Spec => []TypeOK
BY InitShapes, NextShapes, ShapesAreTypes, PTL DEF Spec
----------------------------------------------------------------------------

(* What a request in flight will do, said of its writes W before they are  *)
(* saved: the rows it removes, adds and leaves standing.                   *)
Dies(W, k)   == \E w \in W : w.key = k /\ w.op = "del"
Born(W, k)   == \E w \in W : w.key = k /\ w.op = "add"
Writes(W, k) == \E w \in W : w.key = k
Stands(W, k) == (Has(k) \/ Born(W, k)) /\ ~ Dies(W, k)
Lives(W, u)  == Alive(u) /\ ~ Dies(W, <<"user", u>>)

(* A space with an owner keeps one, or loses all its members.              *)
OwnerStays(W, s, v) ==
  LET k == <<"member", s, v>>
  IN  /\ Has(k) /\ ~ Dies(W, k)
      /\ \A w \in W : w.key = k => w.val = "owner"
      /\ IsOwner(s, v) \/ Writes(W, k)

KeepsOwners(W) ==
  \A s \in Room :
    /\ \A v \in User : ~ Born(W, <<"member", s, v>>)
    /\ Owned(s) => \/ \A v \in User : IsMember(s, v) => Dies(W, <<"member", s, v>>)
                   \/ \E v \in User : OwnerStays(W, s, v)

(* The rows that name a person.                                            *)
Names(k, u) ==
  \/ k[1] = "member" /\ k[3] = u
  \/ k[1] = "friend" /\ u \in k[2]
  \/ k[1] = "invite" /\ u \in {rows[k].to, rows[k].from}

(* Rows are written for the living, and go with the person they name.      *)
ForTheLiving(W, w) ==
  /\ w.key[1] = "member" => Lives(W, w.key[3])
  /\ w.key[1] = "friend" => \A u \in w.key[2] : Lives(W, u)
  /\ w.key[1] = "invite" /\ w.val.status = "pending" => Lives(W, w.val.to) /\ Lives(W, w.val.from)

MakesNoGhosts(W) ==
  Ghosts = {} =>
    /\ \A w \in W : w.op # "del" => ForTheLiving(W, w)
    /\ \A u \in User : Dies(W, <<"user", u>>) =>
         \A k \in DOMAIN rows : Names(k, u) => Dies(W, k)

(* An active link is written for a member, and one whose attacher leaves   *)
(* is written or removed.                                                  *)
Freezes(W) ==
  Unfrozen = {} =>
    /\ \A w \in W : w.op # "del" /\ w.key[1] = "link" /\ ~ w.val.archived =>
         Stands(W, <<"member", w.key[2], w.val.by>>)
    /\ \A l \in Links : ~ rows[l].archived /\ Dies(W, <<"member", l[2], rows[l].by>>) =>
         Writes(W, l)

(* Who owns a feed afterwards.                                             *)
OwnerAfter(W, f, u) ==
  LET k == <<"feed", f>>
  IN  /\ Stands(W, k)
      /\ \A w \in W : w.key = k => w.val = u
      /\ Writes(W, k) \/ OwnerOf(f) = u

OwnsAfter(W, f, u) == OwnerAfter(W, f, u) \/ Stands(W, <<"co", f, u>>)

CoherentAfter(W, f) ==
  /\ \A u \in User : Stands(W, <<"co", f, u>>) => Stands(W, <<"feed", f>>)
  /\ \A w \in W : w.op # "del" /\ w.key[1] = "link" /\ w.key[3] = f =>
       OwnsAfter(W, f, w.val.by)
  /\ \A l \in LinksOf(f) : ~ Writes(W, l) => OwnsAfter(W, f, rows[l].by)

KeepsCoherence(W) == Coherent => \A f \in Feed : CoherentAfter(W, f)

(* Of the feeds it gives up the person owns nothing and has nothing        *)
(* attached, and who else covers them keeps both.                          *)
RevokesMine(me, W) ==
  Coherent =>
    \A f \in Feed :
      (\E w \in W : w.key[1] \in {"feed", "co"} /\ w.key[2] = f) =>
        /\ ~ Stands(W, <<"co", f, me>>)
        /\ \/ Dies(W, <<"feed", f>>)
           \/ /\ \A w \in W : w.key = <<"feed", f>> => w.val # me
              /\ Writes(W, <<"feed", f>>) \/ OwnerOf(f) # me
        /\ \A l \in LinksBy(f, me) : Dies(W, l)
        /\ \A w \in W : w.op # "del" => w.key[1] # "link"
        /\ \A u \in User \ {me} : Covers(f, u) =>
             OwnsAfter(W, f, u) /\ \A l \in LinksBy(f, u) : ~ Writes(W, l)

(* Links that go are tombstoned in the space's log.                        *)
Tells(W) ==
  \A l \in Links : Dies(W, l) /\ Has(<<"space", l[2]>>) /\ ~ Has(<<"feeddel", l[2], l[3]>>) =>
    /\ Stands(W, <<"feeddel", l[2], l[3]>>)
    /\ Stands(W, <<"mirror", l[2], l[3]>>) /\ Writes(W, <<"mirror", l[2], l[3]>>)
    /\ \A w \in W : w.key = <<"mirror", l[2], l[3]>> => w.val = "dead"

(* What the second half of a request counts on.                            *)
Resumable(r) ==
  /\ r.next.kind = "invite" =>
       /\ Alive(r.who) /\ Alive(r.next.to)
       /\ \A w \in r.writes : w.key[1] = "friend"
  /\ r.next.kind = "deleteFeed" =>
       /\ Alive(r.who) /\ Has(<<"feed", r.next.feed>>) /\ OwnerOf(r.next.feed) = r.next.owner
       /\ \A w \in r.writes : w.key[1] = "link" /\ w.op = "del"

Sound(r) ==
  /\ r.what \in {"remove", "role", "vanish"} => KeepsOwners(r.writes)
  /\ MakesNoGhosts(r.writes)
  /\ Freezes(r.writes)
  /\ MayVanish = {} => KeepsCoherence(r.writes)
  /\ r.what \in {"leave", "erase"} => RevokesMine(r.who, r.writes) /\ Tells(r.writes)
  /\ Resumable(r)

(* Requests that no save came before do what they are meant to.            *)
FreshSound == \A r \in inflight : r.since = "nothing" => Sound(r)

(* A saved row is what the writes made of it; an invitation may also be    *)
(* dropped.                                                                *)
LEMMA SavedRow ==
  ASSUME NEW W, rows' = Applied(W), NEW k
  PROVE  /\ Has(k)' => Stands(W, k)
         /\ k[1] # "invite" => (Has(k)' <=> Stands(W, k))
         /\ Has(k)' /\ ~ Writes(W, k) => Has(k) /\ rows'[k] = rows[k]
         /\ Has(k)' /\ Writes(W, k) =>
              \E w \in W : w.key = k /\ w.op # "del" /\ rows'[k] = w.val
<1> DEFINE D == (DOMAIN rows \cup {w.key : w \in {x \in W : x.op = "add"}})
                  \ ({w.key : w \in {x \in W : x.op = "del"}} \cup {j \in DOMAIN rows : Inert(j)})
<1>1. DOMAIN rows' = D
  BY DEF Applied
<1>2. /\ k \in D => Stands(W, k)
      /\ k[1] # "invite" /\ Stands(W, k) => k \in D
  BY DEF Stands, Dies, Born, Has, Inert
<1>3. k \in D => rows'[k] = IF Writes(W, k) THEN (CHOOSE w \in W : w.key = k).val ELSE rows[k]
  BY DEF Applied, Writes
<1>4. Writes(W, k) => (CHOOSE w \in W : w.key = k) \in W /\ (CHOOSE w \in W : w.key = k).key = k
  BY DEF Writes
<1>5. Has(k)' <=> k \in D
  BY <1>1 DEF Has
<1> HIDE DEF D
<1>6. k \in D /\ ~ Writes(W, k) => Has(k)
  BY <1>2 DEF Stands, Born, Writes
<1>7. ASSUME Has(k)', Writes(W, k)
      PROVE  \E w \in W : w.key = k /\ w.op # "del" /\ rows'[k] = w.val
  <2>1. (CHOOSE w \in W : w.key = k).op # "del"
    BY <1>2, <1>4, <1>5, <1>7 DEF Stands, Dies
  <2> QED BY <1>3, <1>4, <1>5, <1>7, <2>1
<1> QED BY <1>2, <1>3, <1>5, <1>6, <1>7

(* Members are those who have a row.                                       *)
LEMMA MemberRows ==
  ASSUME RowsType, NEW s \in Room, NEW u \in User
  PROVE  /\ IsMember(s, u) <=> Has(<<"member", s, u>>)
         /\ IsOwner(s, u) <=> Has(<<"member", s, u>>) /\ rows[<<"member", s, u>>] = "owner"
BY DEF RowsType, Holds, IsMember, IsOwner, RoleOf, Has, Roles

(* So are those after a save.                                              *)
LEMMA SavedMembers ==
  ASSUME RowsType, NEW W \in SUBSET Write, rows' = Applied(W), NEW s \in Room, NEW u \in User
  PROVE  /\ IsMember(s, u)' <=> Stands(W, <<"member", s, u>>)
         /\ IsOwner(s, u)' <=> /\ Stands(W, <<"member", s, u>>)
                               /\ rows'[<<"member", s, u>>] = "owner"
<1>1. RowsType'
  BY AppliedTyped
<1>2. Has(<<"member", s, u>>)' <=> Stands(W, <<"member", s, u>>)
  BY SavedRow
<1> QED BY <1>1, <1>2 DEF RowsType, Holds, IsMember, IsOwner, RoleOf, Has, Roles

(* Who keeps its owners leaves no space ownerless.                         *)
LEMMA OwnersKept ==
  ASSUME RowsType, NEW W \in SUBSET Write, rows' = Applied(W), KeepsOwners(W),
         NEW s \in Room, Owned(s)
  PROVE  Owned(s)'
<1>0. s \in Room
  BY DEF Room
<1>1. CASE \A v \in User : IsMember(s, v) => Dies(W, <<"member", s, v>>)
  <2>1. ASSUME NEW v \in User PROVE ~ IsMember(s, v)'
    <3>1. ~ Stands(W, <<"member", s, v>>)
      BY <1>0, <1>1, MemberRows DEF Stands, KeepsOwners
    <3> QED BY <1>0, <3>1, SavedMembers
  <2> QED BY <2>1 DEF Owned
<1>2. CASE \E v \in User : OwnerStays(W, s, v)
  <2>1. PICK v \in User : OwnerStays(W, s, v)
    BY <1>2
  <2> DEFINE k == <<"member", s, v>>
  <2>2. Has(k) /\ Stands(W, k) /\ (\A w \in W : w.key = k => w.val = "owner")
    BY <2>1 DEF OwnerStays, Stands
  <2>3. (Writes(W, k) \/ rows[k] = "owner")
    BY <1>0, <2>1, MemberRows DEF OwnerStays
  <2>4. Has(k)'
    <3>1. k[1] # "invite"
      OBVIOUS
    <3> HIDE DEF k
    <3> QED BY <2>2, <3>1, SavedRow
  <2>5. rows'[k] = "owner"
    <3> HIDE DEF k
    <3> QED BY <2>2, <2>3, <2>4, SavedRow
  <2> QED BY <1>0, <2>2, <2>5, SavedMembers DEF Owned
<1> QED BY <1>1, <1>2 DEF KeepsOwners

(* Who makes no ghosts leaves none.                                        *)
LEMMA GhostsBanned ==
  ASSUME RowsType, NEW W \in SUBSET Write, rows' = Applied(W), MakesNoGhosts(W), Ghosts = {}
  PROVE  Ghosts' = {}
<1>1. ASSUME NEW u \in User, Lives(W, u) PROVE Alive(u)'
  BY <1>1, SavedRow DEF Lives, Alive, Stands
<1>2. ASSUME NEW u \in User, Alive(u), ~ Alive(u)' PROVE Dies(W, <<"user", u>>)
  BY <1>1, <1>2 DEF Lives
<1>3. ASSUME NEW k \in DOMAIN rows' PROVE k \notin Ghosts'
  <2>1. RowsType' /\ k \in Key /\ Has(k)'
    BY AppliedTyped DEF RowsType, Has
  <2>2. CASE Writes(W, k)
    <3>1. PICK w \in W : w.key = k /\ w.op # "del" /\ rows'[k] = w.val
      BY <2>1, <2>2, SavedRow
    <3>2. w.key \in Key /\ Holds(w.key, w.val) /\ ForTheLiving(W, w)
      BY <3>1 DEF Write, MakesNoGhosts
    <3>3. k[1] = "member" => k[3] \in User /\ Lives(W, k[3])
      BY <3>1, <3>2 DEF ForTheLiving, Key
    <3>4. k[1] = "friend" => \A u \in k[2] : u \in User /\ Lives(W, u)
      BY <3>1, <3>2 DEF ForTheLiving, Key, Pair
    <3>5. k[1] = "invite" /\ rows'[k].status = "pending" =>
            /\ rows'[k].to \in User /\ rows'[k].from \in User
            /\ Lives(W, rows'[k].to) /\ Lives(W, rows'[k].from)
      BY <3>1, <3>2 DEF ForTheLiving, Holds, Invitation
    <3> QED BY <1>1, <3>3, <3>4, <3>5 DEF Ghosts
  <2>3. CASE ~ Writes(W, k)
    <3>1. k \in DOMAIN rows /\ rows'[k] = rows[k] /\ ~ Dies(W, k)
      BY <2>1, <2>3, SavedRow DEF Has, Writes, Dies
    <3>2. k \notin Ghosts /\ Holds(k, rows[k])
      BY <3>1 DEF RowsType
    <3>3. \A u \in User : Names(k, u) => ~ Dies(W, <<"user", u>>)
      BY <3>1 DEF MakesNoGhosts
    <3>4. k[1] = "member" => k[3] \in User /\ Alive(k[3])'
      BY <1>2, <2>1, <3>1, <3>2, <3>3 DEF Ghosts, Names, Key
    <3>5. k[1] = "friend" => \A u \in k[2] : Alive(u)'
      BY <1>2, <2>1, <3>1, <3>2, <3>3 DEF Ghosts, Names, Key, Pair
    <3>6. ASSUME k[1] = "invite", rows'[k].status = "pending",
                 NEW u \in {rows'[k].to, rows'[k].from}
          PROVE  Alive(u)'
      <4>1. u \in User /\ Names(k, u) /\ Alive(u)
        BY <3>1, <3>2, <3>6 DEF Ghosts, Names, Holds, Invitation
      <4> QED BY <1>2, <3>3, <4>1
    <3> QED BY <3>4, <3>5, <3>6 DEF Ghosts
  <2> QED BY <2>2, <2>3
<1> QED BY <1>3 DEF Ghosts

(* Who freezes what a leaver attached leaves it frozen.                    *)
LEMMA FrozenKept ==
  ASSUME RowsType, NEW W \in SUBSET Write, rows' = Applied(W), Freezes(W), Unfrozen = {}
  PROVE  Unfrozen' = {}
<1>1. ASSUME NEW l \in DOMAIN rows', l[1] = "link", ~ rows'[l].archived,
             NEW u, u = rows'[l].by
      PROVE  IsMember(l[2], u)'
  <2>1. RowsType' /\ Has(l)'
    BY AppliedTyped DEF Has
  <2>2. l \in Key /\ l[2] \in Space /\ l[2] \in Room /\ u \in User
    BY <1>1, <2>1 DEF RowsType, Key, Room, Holds, Link
  <2>3. CASE Writes(W, l)
    <3>1. PICK w \in W : w.key = l /\ w.op # "del" /\ rows'[l] = w.val
      BY <2>1, <2>3, SavedRow
    <3>2. Stands(W, <<"member", l[2], u>>)
      BY <1>1, <3>1 DEF Freezes
    <3> QED BY <2>2, <3>2, SavedMembers
  <2>4. CASE ~ Writes(W, l)
    <3>1. l \in Links /\ rows'[l] = rows[l]
      BY <1>1, <2>1, <2>4, SavedRow DEF Links, Has
    <3>2. IsMember(l[2], u) /\ ~ Dies(W, <<"member", l[2], u>>)
      BY <1>1, <2>4, <3>1 DEF Unfrozen, Freezes
    <3>3. Stands(W, <<"member", l[2], u>>)
      BY <2>2, <3>2, MemberRows DEF Stands
    <3> QED BY <2>2, <3>3, SavedMembers
  <2> QED BY <2>3, <2>4
<1> QED BY <1>1 DEF Unfrozen, Links

(* Who owns a feed after the writes owns it after the save.                *)
LEMMA SavedOwner ==
  ASSUME NEW W, rows' = Applied(W), NEW f \in Feed, NEW u \in User, OwnsAfter(W, f, u)
  PROVE  IsFeedOwner(f, u)'
<1>1. CASE OwnerAfter(W, f, u)
  <2> DEFINE k == <<"feed", f>>
  <2>1. Has(k)'
    <3>1. k[1] # "invite" /\ Stands(W, k)
      BY <1>1 DEF OwnerAfter
    <3> HIDE DEF k
    <3> QED BY <3>1, SavedRow
  <2>2. rows'[k] = u
    <3>1. (\A w \in W : w.key = k => w.val = u) /\ (Writes(W, k) \/ rows[k] = u)
      BY <1>1 DEF OwnerAfter, OwnerOf
    <3> HIDE DEF k
    <3> QED BY <2>1, <3>1, SavedRow
  <2> QED BY <2>1, <2>2 DEF IsFeedOwner, OwnerOf
<1>2. CASE Stands(W, <<"co", f, u>>)
  <2>1. Has(<<"co", f, u>>)'
    BY <1>2, SavedRow
  <2> QED BY <2>1 DEF IsFeedOwner, CoOwners
<1> QED BY <1>1, <1>2 DEF OwnsAfter

(* Who keeps the feeds coherent leaves them so.                            *)
LEMMA CoherenceKept ==
  ASSUME RowsType, NEW W \in SUBSET Write, rows' = Applied(W), KeepsCoherence(W), Coherent
  PROVE  Coherent'
<1> SUFFICES ASSUME NEW f \in Feed
             PROVE  /\ \A u \in User : Has(<<"co", f, u>>)' => Has(<<"feed", f>>)'
                    /\ \A l \in DOMAIN rows' : \A u :
                            l[1] = "link" /\ l[3] = f /\ u = rows'[l].by => IsFeedOwner(f, u)'
  BY DEF Coherent, CoOwners, LinksOf, Links
<1>0. RowsType'
  BY AppliedTyped
<1>1. ASSUME NEW u \in User, Has(<<"co", f, u>>)' PROVE Has(<<"feed", f>>)'
  <2>1. Stands(W, <<"co", f, u>>)
    BY <1>1, SavedRow
  <2>2. Stands(W, <<"feed", f>>)
    BY <2>1 DEF KeepsCoherence, CoherentAfter
  <2> QED BY <2>2, SavedRow
<1>2. ASSUME NEW l \in DOMAIN rows', NEW u, l[1] = "link", l[3] = f, u = rows'[l].by
      PROVE  IsFeedOwner(f, u)'
  <2>1. Has(l)' /\ u \in User
    BY <1>0, <1>2 DEF RowsType, Has, Holds, Link
  <2>2. CASE Writes(W, l)
    <3>1. PICK w \in W : w.key = l /\ w.op # "del" /\ rows'[l] = w.val
      BY <2>1, <2>2, SavedRow
    <3>2. OwnsAfter(W, f, u)
      BY <1>2, <3>1 DEF KeepsCoherence, CoherentAfter
    <3> QED BY <2>1, <3>2, SavedOwner
  <2>3. CASE ~ Writes(W, l)
    <3>1. l \in LinksOf(f) /\ rows'[l] = rows[l]
      BY <1>2, <2>1, <2>3, SavedRow DEF Links, LinksOf, Has
    <3>2. OwnsAfter(W, f, u)
      BY <1>2, <2>3, <3>1 DEF KeepsCoherence, CoherentAfter
    <3> QED BY <2>1, <3>2, SavedOwner
  <2> QED BY <2>2, <2>3
<1> QED BY <1>1, <1>2

(* Who revokes its own leaves the others theirs.                           *)
LEMMA MineRevoked ==
  ASSUME RowsType, NEW W \in SUBSET Write, rows' = Applied(W), Coherent, NEW me \in User,
         RevokesMine(me, W),
         NEW f \in Feed, NEW w \in W, w.key[1] \in {"feed", "co"}, w.key[2] = f
  PROVE  /\ ~ IsFeedOwner(f, me)' /\ (LinksBy(f, me) = {})'
         /\ \A u \in User \ {me} : Covers(f, u) =>
              /\ IsFeedOwner(f, u)'
              /\ \A l \in LinksBy(f, u) : l \in DOMAIN rows' /\ rows'[l] = rows[l]
<1> DEFINE k == <<"feed", f>>
<1>1. /\ ~ Stands(W, <<"co", f, me>>)
      /\ \/ Dies(W, k)
         \/ /\ \A x \in W : x.key = k => x.val # me
            /\ Writes(W, k) \/ rows[k] # me
      /\ \A l \in LinksBy(f, me) : Dies(W, l)
      /\ \A x \in W : x.op # "del" => x.key[1] # "link"
      /\ \A u \in User \ {me} : Covers(f, u) =>
           OwnsAfter(W, f, u) /\ \A l \in LinksBy(f, u) : ~ Writes(W, l)
  BY DEF RevokesMine, OwnerOf
<1>2. ~ Has(<<"co", f, me>>)'
  BY <1>1, SavedRow
<1>3. ~ (Has(k)' /\ rows'[k] = me)
  <2> HIDE DEF k
  <2> QED BY <1>1, SavedRow DEF Stands
<1>4. ~ IsFeedOwner(f, me)'
  BY <1>2, <1>3 DEF IsFeedOwner, OwnerOf, CoOwners
<1>5. ASSUME NEW l \in DOMAIN rows', l[1] = "link", l[3] = f PROVE rows'[l].by # me
  <2>1. Has(l)'
    BY DEF Has
  <2>2. Stands(W, l) /\ ~ Writes(W, l)
    BY <1>1, <1>5, <2>1, SavedRow
  <2>3. Has(l) /\ rows'[l] = rows[l]
    BY <2>1, <2>2, SavedRow
  <2>4. l \notin LinksBy(f, me)
    BY <1>1, <2>2 DEF Stands
  <2> QED BY <1>5, <2>3, <2>4 DEF LinksBy, LinksOf, Links, Has
<1>6. (LinksBy(f, me) = {})'
  BY <1>5 DEF LinksBy, LinksOf, Links
<1>7. ASSUME NEW u \in User \ {me}, Covers(f, u), NEW l \in LinksBy(f, u)
      PROVE  l \in DOMAIN rows' /\ rows'[l] = rows[l]
  <2>1. ~ Writes(W, l)
    BY <1>1, <1>7
  <2>2. Has(l) /\ l[1] # "invite"
    BY DEF LinksBy, LinksOf, Links, Has
  <2>3. Stands(W, l)
    BY <2>1, <2>2 DEF Stands, Dies, Writes
  <2>4. Has(l)'
    BY <2>2, <2>3, SavedRow
  <2> QED BY <2>1, <2>4, SavedRow DEF Has
<1> QED BY <1>1, <1>4, <1>6, <1>7, SavedOwner

(* Who tells of the links it removes has told.                             *)
LEMMA DeletionsSaid ==
  ASSUME RowsType, NEW W \in SUBSET Write, rows' = Applied(W), Tells(W),
         NEW l \in Links \ DOMAIN rows', Has(<<"space", l[2]>>), ~ Has(<<"feeddel", l[2], l[3]>>)
  PROVE  Has(<<"feeddel", l[2], l[3]>>)' /\ rows'[<<"mirror", l[2], l[3]>>] = "dead"
<1> DEFINE m == <<"mirror", l[2], l[3]>>
<1>1. Dies(W, l)
  <2>1. Has(l) /\ ~ Has(l)' /\ l[1] # "invite"
    BY DEF Links, Has
  <2> QED BY <2>1, SavedRow DEF Stands
<1>2. /\ Stands(W, <<"feeddel", l[2], l[3]>>)
      /\ Stands(W, m) /\ Writes(W, m) /\ \A w \in W : w.key = m => w.val = "dead"
  BY <1>1 DEF Tells
<1>3. Has(<<"feeddel", l[2], l[3]>>)'
  BY <1>2, SavedRow
<1>4. Has(m)' /\ rows'[m] = "dead"
  <2>1. m[1] # "invite"
    OBVIOUS
  <2> HIDE DEF m
  <2> QED BY <1>2, <2>1, SavedRow
<1> QED BY <1>3, <1>4

(* Where nobody deletes an account, everybody has one.                     *)
StayAlive ==
  MayVanish = {} =>
    /\ \A u \in User : Alive(u)
    /\ \A r \in inflight : \A w \in r.writes : w.key[1] # "user"

IInv == Shapes /\ StayAlive /\ FreshSound

(* Judgements of writes read the tables alone.                             *)
LEMMA RowsAlone ==
  ASSUME UNCHANGED rows
  PROVE  \A r : Sound(r) => Sound(r)'
<1>1. \A W : KeepsOwners(W) => KeepsOwners(W)'
  BY DEF KeepsOwners, Born, Owned, IsMember, IsOwner, RoleOf, Has, Dies, OwnerStays, Writes
<1>2. \A W : MakesNoGhosts(W) => MakesNoGhosts(W)'
  BY DEF MakesNoGhosts, Ghosts, Alive, Has, ForTheLiving, Lives, Dies, Names
<1>3. \A W : Freezes(W) => Freezes(W)'
  BY DEF Freezes, Unfrozen, Links, IsMember, RoleOf, Has, Stands, Born, Dies, Writes
<1>4. /\ \A k : Has(k)' <=> Has(k)
      /\ \A f : OwnerOf(f)' = OwnerOf(f) /\ CoOwners(f)' = CoOwners(f) /\ LinksOf(f)' = LinksOf(f)
      /\ \A u : Alive(u)' <=> Alive(u)
      /\ \A s, u : IsMember(s, u)' <=> IsMember(s, u)
  BY DEF Has, OwnerOf, CoOwners, LinksOf, Links, Alive, IsMember, RoleOf
<1>5. /\ \A f, u : IsFeedOwner(f, u)' <=> IsFeedOwner(f, u)
      /\ \A W, k : Stands(W, k)' <=> Stands(W, k)
      /\ \A W, k : Dies(W, k)' <=> Dies(W, k)
      /\ \A W, k : Writes(W, k)' <=> Writes(W, k)
      /\ \A f, u : LinksBy(f, u)' = LinksBy(f, u)
      /\ \A f, u : Covers(f, u)' <=> Covers(f, u)
  BY <1>4 DEF IsFeedOwner, Stands, Born, Dies, Writes, LinksBy, Covers
<1>8. Coherent' <=> Coherent
  BY <1>4, <1>5 DEF Coherent
<1>9. \A W, f, u : OwnsAfter(W, f, u) => OwnsAfter(W, f, u)'
  BY <1>4, <1>5 DEF OwnsAfter, OwnerAfter
<1>10. \A W : KeepsCoherence(W) => KeepsCoherence(W)'
  BY <1>4, <1>5, <1>8, <1>9 DEF KeepsCoherence, CoherentAfter
<1>11. \A me, W : RevokesMine(me, W) => RevokesMine(me, W)'
  BY <1>4, <1>5, <1>8, <1>9 DEF RevokesMine
<1>6. \A W : Tells(W) => Tells(W)'
  BY DEF Tells, Links, Has, Stands, Born, Dies, Writes
<1>7. \A r : Resumable(r) => Resumable(r)'
  BY DEF Resumable, Alive, Has, OwnerOf
<1> QED BY <1>1, <1>2, <1>3, <1>6, <1>7, <1>10, <1>11 DEF Sound

(* Settling leaves what dies, what is written and what stands.             *)
LEMMA Settled ==
  ASSUME NEW W, NEW k
  PROVE  /\ Dies(Settle(W), k) <=> Dies(W, k)
         /\ Writes(Settle(W), k) <=> Writes(W, k)
         /\ Stands(Settle(W), k) <=> Stands(W, k)
         /\ Born(Settle(W), k) => Born(W, k)
         /\ Settle(W) \subseteq W
BY DEF Settle, Dies, Writes, Stands, Born

(* Judgements of writes hold of what is settled of them.                   *)
LEMMA SettledParts ==
  ASSUME NEW W
  PROVE  /\ KeepsOwners(W) => KeepsOwners(Settle(W))
         /\ MakesNoGhosts(W) => MakesNoGhosts(Settle(W))
         /\ Freezes(W) => Freezes(Settle(W))
         /\ KeepsCoherence(W) => KeepsCoherence(Settle(W))
         /\ \A me : RevokesMine(me, W) => RevokesMine(me, Settle(W))
         /\ Tells(W) => Tells(Settle(W))
<1> DEFINE V == Settle(W)
<1>1. \A k : /\ Dies(V, k) <=> Dies(W, k)
             /\ Writes(V, k) <=> Writes(W, k)
             /\ Stands(V, k) <=> Stands(W, k)
             /\ Born(V, k) => Born(W, k)
  BY Settled
<1>2. V \subseteq W
  BY Settled
<1> HIDE DEF V
<1>3. KeepsOwners(W) => KeepsOwners(V)
  BY <1>1, <1>2 DEF KeepsOwners, OwnerStays
<1>4. MakesNoGhosts(W) => MakesNoGhosts(V)
  BY <1>1, <1>2 DEF MakesNoGhosts, ForTheLiving, Lives
<1>5. Freezes(W) => Freezes(V)
  BY <1>1, <1>2 DEF Freezes
<1>6. \A f, u : OwnsAfter(W, f, u) => OwnsAfter(V, f, u)
  BY <1>1, <1>2 DEF OwnsAfter, OwnerAfter
<1>7. KeepsCoherence(W) => KeepsCoherence(V)
  BY <1>1, <1>2, <1>6 DEF KeepsCoherence, CoherentAfter
<1>8. \A me : RevokesMine(me, W) => RevokesMine(me, V)
  BY <1>1, <1>2, <1>6 DEF RevokesMine
<1>9. Tells(W) => Tells(V)
  BY <1>1, <1>2 DEF Tells
<1> QED BY <1>3, <1>4, <1>5, <1>7, <1>8, <1>9 DEF V

(* A request on its way.                                                   *)
Asked(who, what, W, logs, next) ==
  [who |-> who, what |-> what, writes |-> Settle(W), logs |-> logs, since |-> "nothing",
   next |-> next]

(* A sound request may wait to be saved.                                   *)
LEMMA AskSound ==
  ASSUME StayAlive, FreshSound, NEW who, NEW what, NEW W, NEW logs, NEW next,
         Ask(who, what, W, logs, next), Sound(Asked(who, what, W, logs, next)),
         MayVanish = {} => \A w \in W : w.key[1] # "user"
  PROVE  StayAlive' /\ FreshSound'
<1> DEFINE q == Asked(who, what, W, logs, next)
<1>1. inflight' = inflight \cup {q} /\ UNCHANGED <<rows, due>>
  BY DEF Ask, Asked
<1>2. q.writes \subseteq W
  BY Settled DEF Asked
<1>3. StayAlive'
  <2> HIDE DEF q
  <2> QED BY <1>1, <1>2 DEF StayAlive, Alive, Has
<1>4. Sound(q)
  OBVIOUS
<1> HIDE DEF q
<1>5. ASSUME NEW r \in inflight', r.since = "nothing" PROVE Sound(r)
  BY <1>1, <1>4, <1>5 DEF FreshSound
<1>6. ASSUME NEW r \in inflight', r.since = "nothing" PROVE Sound(r)'
  BY <1>1, <1>5, <1>6, RowsAlone
<1> QED BY <1>3, <1>6 DEF FreshSound

(* Writes that leave the people and who owns a feed alone.                 *)
Ordinary(W) == \A w \in W : w.key[1] \notin {"user", "feed", "co"}

(* If they link only feeds of the attacher, feeds stay coherent.           *)
LEMMA OrdinaryCoherent ==
  ASSUME NEW W, Ordinary(W),
         Coherent => \A w \in W : w.op # "del" /\ w.key[1] = "link" =>
                       IsFeedOwner(w.key[3], w.val.by)
  PROVE  KeepsCoherence(W)
<1> SUFFICES ASSUME Coherent PROVE KeepsCoherence(W)
  BY DEF KeepsCoherence
<1>1. ASSUME NEW f \in Feed, NEW u, IsFeedOwner(f, u) PROVE OwnsAfter(W, f, u)
  <2>1. \A w \in W : w.key # <<"feed", f>> /\ w.key # <<"co", f, u>>
    BY DEF Ordinary
  <2> QED BY <1>1, <2>1 DEF IsFeedOwner, CoOwners, OwnsAfter, OwnerAfter, Stands, Born, Dies, Writes
<1>2. ASSUME NEW f \in Feed, NEW u \in User, Stands(W, <<"co", f, u>>)
      PROVE  Stands(W, <<"feed", f>>)
  <2>1. Has(<<"co", f, u>>)
    BY <1>2 DEF Stands, Born, Ordinary
  <2>2. Has(<<"feed", f>>)
    BY <2>1 DEF Coherent, CoOwners
  <2>3. ~ Dies(W, <<"feed", f>>)
    BY DEF Ordinary, Dies
  <2> QED BY <2>2, <2>3 DEF Stands
<1>3. ASSUME NEW f \in Feed, NEW l \in LinksOf(f) PROVE OwnsAfter(W, f, rows[l].by)
  BY <1>1 DEF Coherent
<1>4. ASSUME NEW f \in Feed, NEW w \in W, w.op # "del", w.key[1] = "link", w.key[3] = f
      PROVE  OwnsAfter(W, f, w.val.by)
  BY <1>1, <1>4
<1> QED BY <1>2, <1>3, <1>4 DEF KeepsCoherence, CoherentAfter

(* If they name only the living, they make no ghosts.                      *)
LEMMA OrdinaryGhostless ==
  ASSUME NEW W, Ordinary(W),
         Ghosts = {} => \A w \in W : w.op # "del" =>
           /\ w.key[1] = "member" => Alive(w.key[3])
           /\ w.key[1] = "friend" => \A u \in w.key[2] : Alive(u)
           /\ w.key[1] = "invite" /\ w.val.status = "pending" =>
                Alive(w.val.to) /\ Alive(w.val.from)
  PROVE  MakesNoGhosts(W)
<1>1. \A u : ~ Dies(W, <<"user", u>>)
  BY DEF Ordinary, Dies
<1> QED BY <1>1 DEF MakesNoGhosts, ForTheLiving, Lives

(* A request that keeps the members, and links only members' own feeds.    *)
LEMMA PlainSound ==
  ASSUME RowsType, StayAlive, FreshSound, NEW who, NEW what, NEW W, NEW logs, NEW next,
         Ask(who, what, W, logs, next), Ordinary(W),
         what \notin {"remove", "role", "vanish", "leave", "erase"},
         Resumable(Asked(who, what, W, logs, next)),
         Ghosts = {} => \A w \in W : w.op # "del" =>
           /\ w.key[1] = "member" => Alive(w.key[3])
           /\ w.key[1] = "friend" => \A u \in w.key[2] : Alive(u)
           /\ w.key[1] = "invite" /\ w.val.status = "pending" =>
                Alive(w.val.to) /\ Alive(w.val.from),
         \A w \in W : ~ (w.op = "del" /\ w.key[1] = "member"),
         \A w \in W : w.op # "del" /\ w.key[1] = "link" =>
           /\ Coherent => IsFeedOwner(w.key[3], w.val.by)
           /\ Stands(W, <<"member", w.key[2], w.val.by>>)
  PROVE  StayAlive' /\ FreshSound'
<1> DEFINE q == Asked(who, what, W, logs, next)
<1>1. MakesNoGhosts(W)
  BY OrdinaryGhostless
<1>2. Freezes(W)
  BY DEF Freezes, Dies
<1>3. MayVanish = {} => KeepsCoherence(W)
  BY OrdinaryCoherent
<1>4. q.writes = Settle(W) /\ q.what = what
  BY DEF Asked
<1>5. Sound(q)
  <2>1. MakesNoGhosts(Settle(W)) /\ Freezes(Settle(W))
    BY <1>1, <1>2, SettledParts
  <2>2. MayVanish = {} => KeepsCoherence(Settle(W))
    BY <1>3, SettledParts
  <2> HIDE DEF q
  <2>3. Resumable(q)
    BY DEF q
  <2> QED BY <1>4, <2>1, <2>2, <2>3 DEF Sound
<1> QED BY <1>5, AskSound DEF Ordinary

(* What is revived and what is archived are links of the person, and their *)
(* mirrors.                                                                *)
LEMMA RevivedWrites ==
  ASSUME RowsType, NEW s \in Room, NEW u, NEW w \in Revived(s, u)
  PROVE  /\ w.op # "del" /\ w.key[1] \in {"link", "mirror"}
         /\ w.key[1] = "link" => w.key[2] = s /\ w.val.by = u /\ IsFeedOwner(w.key[3], u)
<1>1. CASE w \in MirrorWrites(s, Revivable(s, u))
  <2>1. PICK l \in Revivable(s, u) : w = Put(<<"mirror", s, l[3]>>, "live")
    BY <1>1 DEF MirrorWrites
  <2> QED BY <2>1 DEF Put, Add, Set
<1>2. CASE w \notin MirrorWrites(s, Revivable(s, u))
  <2>1. PICK l \in Revivable(s, u) : w = Set(l, [rows[l] EXCEPT !.archived = FALSE, !.cap = 0])
    BY <1>2 DEF Revived
  <2>2. /\ l \in Links /\ l[2] = s /\ rows[l].by = u /\ Has(<<"feed", l[3]>>)
        /\ OwnerOf(l[3]) = u
    BY DEF Revivable
  <2>3. l[1] = "link" /\ rows[l] \in Link
    BY <2>2, ReadTypes DEF Links
  <2>4. w.op = "set" /\ w.key = l /\ w.val.by = u
    BY <2>1, <2>2, <2>3 DEF Set, Link
  <2> QED BY <2>2, <2>3, <2>4 DEF IsFeedOwner
<1> QED BY <1>1, <1>2

(* What archives the links of a person is writes.                          *)
LEMMA ArchivedWrites ==
  ASSUME RowsType, NEW s \in Room, NEW u, NEW w \in Archived(s, u)
  PROVE  /\ w.op # "del" /\ w.key[1] \in {"link", "mirror"}
         /\ w.key[1] = "link" =>
              w.key \in LeaverLinks(s, u) /\ w.val.by = u /\ w.val.archived
<1>1. CASE w \in MirrorWrites(s, LeaverLinks(s, u))
  <2>1. PICK l \in LeaverLinks(s, u) : w = Put(<<"mirror", s, l[3]>>, "live")
    BY <1>1 DEF MirrorWrites
  <2> QED BY <2>1 DEF Put, Add, Set
<1>2. CASE w \notin MirrorWrites(s, LeaverLinks(s, u))
  <2>1. PICK l \in LeaverLinks(s, u) :
          w = Set(l, [rows[l] EXCEPT !.archived = TRUE, !.cap = LastSeq(l[3])])
    BY <1>2 DEF Archived
  <2>2. l \in Links /\ rows[l].by = u
    BY DEF LeaverLinks
  <2>3. l[1] = "link" /\ rows[l] \in Link
    BY <2>2, ReadTypes DEF Links
  <2>4. w.op = "set" /\ w.key = l /\ w.val.by = u /\ w.val.archived
    BY <2>1, <2>2, <2>3 DEF Set, Link
  <2> QED BY <2>3, <2>4
<1> QED BY <1>1, <1>2

(* A request without a second half has nothing to resume.                  *)
LEMMA NothingLeft ==
  ASSUME NEW who, NEW what, NEW W, NEW logs PROVE Resumable(Asked(who, what, W, logs, Done))
BY DEF Resumable, Asked, Done

(* What friends do is sound.                                               *)
LEMMA FriendsSound == ASSUME IInv, NEW u \in User, Friends(u) PROVE StayAlive' /\ FreshSound'
<1>0. RowsType /\ StayAlive /\ FreshSound
  BY DEF IInv, Shapes
<1>1. ASSUME NEW v \in User, NEW s \in Room \cup {NoSpace}, NEW role \in Assignable,
             SendFriendRequest(u, v, s, role)
      PROVE  StayAlive' /\ FreshSound'
  <2>1. Alive(u) /\ Alive(v) /\ Edge(u, v)[1] = "friend" /\ Edge(u, v)[2] = {u, v}
    BY <1>1 DEF SendFriendRequest, Edge
  <2>2. CASE ~ Has(Edge(u, v))
    <3> DEFINE e == [by |-> u, status |-> "pending", space |-> s, role |-> role]
               W == {Add(Edge(u, v), e)}
    <3>1. Ask(u, "request", W, {}, Done)
      BY <1>1, <2>2 DEF SendFriendRequest
    <3>2. \A w \in W : w.key = Edge(u, v) /\ w.op # "del"
      BY DEF Add
    <3>3. Ordinary(W)
      BY <2>1, <3>2 DEF Ordinary
    <3> HIDE DEF W
    <3> QED BY <1>0, <2>1, <3>1, <3>2, <3>3, PlainSound, NothingLeft
  <2>3. CASE Has(Edge(u, v))
    <3> DEFINE e == [rows[Edge(u, v)] EXCEPT !.status = "accepted"]
               n == IF s = NoSpace THEN Done
                    ELSE [kind |-> "invite", space |-> s, to |-> v, role |-> role]
               W == {Set(Edge(u, v), e)}
    <3>1. Ask(u, "reciprocate", W, {}, n)
      BY <1>1, <2>3 DEF SendFriendRequest
    <3>2. \A w \in W : w.key = Edge(u, v) /\ w.op # "del"
      BY DEF Set
    <3>3. Ordinary(W)
      BY <2>1, <3>2 DEF Ordinary
    <3>4. /\ n.kind # "deleteFeed" /\ (n.kind = "invite" => n.to = v)
          /\ \A x \in Settle(W) : x.key = Edge(u, v)
      BY <3>2, Settled DEF Done
    <3> HIDE DEF W, n
    <3>5. Resumable(Asked(u, "reciprocate", W, {}, n))
      BY <2>1, <3>4 DEF Resumable, Asked
    <3> QED BY <1>0, <2>1, <3>1, <3>2, <3>3, <3>5, PlainSound
  <2> QED BY <2>2, <2>3
<1>2. ASSUME NEW v \in User, AcceptFriendRequest(u, v) PROVE StayAlive' /\ FreshSound'
  <2> DEFINE edge == rows[Edge(u, v)]
             joins == edge.space # NoSpace /\ ~ IsMember(edge.space, u)
             e == [edge EXCEPT !.status = "accepted"]
             M == {Add(<<"member", edge.space, u>>, edge.role)} \cup Revived(edge.space, u)
             W == {Set(Edge(u, v), e)} \cup IF joins THEN M ELSE {}
             logs == IF joins THEN LogsOf(edge.space, Revivable(edge.space, u)) ELSE {}
  <2>1. /\ Alive(u) /\ Has(Edge(u, v)) /\ u # v
        /\ Ask(u, "befriend", W, logs, Done)
    BY <1>2 DEF AcceptFriendRequest
  <2>2. Edge(u, v)[1] = "friend" /\ Edge(u, v)[2] = {u, v} /\ edge \in Friendship
    BY <1>0, <2>1, ReadTypes DEF Edge
  <2>3. joins => edge.space \in Room
    BY <2>2 DEF Friendship
  <2>4. ASSUME NEW w \in W
        PROVE  /\ w.op # "del"
               /\ \/ w.key = Edge(u, v)
                  \/ w.key[1] = "member" /\ w.key[3] = u
                  \/ w.key[1] = "mirror"
                  \/ /\ joins /\ w.key[1] = "link" /\ w.key[2] = edge.space /\ w.val.by = u
                     /\ IsFeedOwner(w.key[3], u)
    <3>1. CASE w = Set(Edge(u, v), e)
      BY <3>1 DEF Set
    <3>2. CASE joins /\ w = Add(<<"member", edge.space, u>>, edge.role)
      BY <3>2 DEF Add
    <3>3. CASE joins /\ w \in Revived(edge.space, u)
      BY <1>0, <2>3, <3>3, RevivedWrites
    <3> QED BY <3>1, <3>2, <3>3
  <2>5. Ordinary(W)
    BY <2>2, <2>4 DEF Ordinary
  <2>6. Ghosts = {} => Alive(v)
    BY <2>1, <2>2 DEF Ghosts, Has
  <2>7. joins => Stands(W, <<"member", edge.space, u>>)
    <3>1. joins => Add(<<"member", edge.space, u>>, edge.role) \in W
      OBVIOUS
    <3>2. ~ Dies(W, <<"member", edge.space, u>>)
      BY <2>4 DEF Dies
    <3> QED BY <3>1, <3>2 DEF Stands, Born, Add
  <2> HIDE DEF W, edge, logs
  <2>8. \A w \in W : w.op # "del" =>
           /\ w.key[1] = "member" => w.key[3] = u
           /\ w.key[1] = "friend" => w.key[2] = {u, v}
           /\ w.key[1] # "invite"
    BY <2>2, <2>4
  <2>9. \A w \in W : w.op # "del" /\ w.key[1] = "link" =>
           IsFeedOwner(w.key[3], w.val.by) /\ Stands(W, <<"member", w.key[2], w.val.by>>)
    BY <2>2, <2>4, <2>7
  <2> QED BY <1>0, <2>1, <2>4, <2>5, <2>6, <2>8, <2>9, PlainSound, NothingLeft
<1>3. ASSUME NEW v \in User, RemoveFriend(u, v) PROVE StayAlive' /\ FreshSound'
  <2> DEFINE W == Del({Edge(u, v)})
  <2>1. \A w \in W : w.op = "del" /\ w.key = <<"friend", {u, v}>>
    BY DEF Del, Edge
  <2>2. Ask(u, "unfriend", W, {}, Done) /\ Ordinary(W)
    BY <1>3, <2>1 DEF RemoveFriend, Ordinary
  <2> HIDE DEF W
  <2> QED BY <1>0, <2>1, <2>2, PlainSound, NothingLeft
<1> QED BY <1>1, <1>2, <1>3 DEF Friends

(* What is done with invitations is sound.                                 *)
LEMMA InvitationsSound ==
  ASSUME IInv, NEW u \in User, Invitations(u) PROVE StayAlive' /\ FreshSound'
<1>0. RowsType /\ StayAlive /\ FreshSound
  BY DEF IInv, Shapes
<1>1. ASSUME NEW s \in Room, NEW v \in User, NEW role \in Assignable,
             SendSpaceInvite(u, s, v, role)
      PROVE  StayAlive' /\ FreshSound'
  <2>1. PICK i \in FreshInvite : Ask(u, "invite", {NewInvite(i, s, u, v, role)}, {}, Done)
    BY <1>1 DEF SendSpaceInvite
  <2> DEFINE W == {NewInvite(i, s, u, v, role)}
  <2>2. \A w \in W : w.key[1] = "invite" /\ w.op # "del" /\ w.val.to = v /\ w.val.from = u
    BY DEF NewInvite, Add
  <2>3. Alive(u) /\ Has(Edge(u, v)) /\ Edge(u, v)[1] = "friend" /\ Edge(u, v)[2] = {u, v}
    BY <1>1 DEF SendSpaceInvite, AreFriends, Edge
  <2>4. Ghosts = {} => Alive(v)
    BY <2>3 DEF Ghosts, Has
  <2>5. Ordinary(W)
    BY <2>2 DEF Ordinary
  <2> HIDE DEF W
  <2>6. Ask(u, "invite", W, {}, Done)
    BY <2>1 DEF W
  <2> QED BY <1>0, <2>2, <2>3, <2>4, <2>5, <2>6, PlainSound, NothingLeft
<1>2. ASSUME NEW k \in Invites, RevokeInvite(u, k) PROVE StayAlive' /\ FreshSound'
  <2> DEFINE W == Del({k})
  <2>1. \A w \in W : w.op = "del" /\ w.key[1] = "invite"
    BY DEF Del, Invites
  <2>2. Ask(u, "revoke", W, {}, Done) /\ Ordinary(W)
    BY <1>2, <2>1 DEF RevokeInvite, Ordinary
  <2> HIDE DEF W
  <2> QED BY <1>0, <2>1, <2>2, PlainSound, NothingLeft
<1>3. ASSUME NEW k \in Invites, NEW yes \in BOOLEAN, RespondToInvite(u, k, yes)
      PROVE  StayAlive' /\ FreshSound'
  <2> DEFINE s == rows[k].space
             c == Set(k, [rows[k] EXCEPT !.status = IF yes THEN "accepted" ELSE "declined"])
             m == Add(<<"member", s, u>>, rows[k].role)
  <2>1. rows[k] \in Invitation /\ k[1] = "invite" /\ Alive(u)
    BY <1>0, <1>3, ReadTypes DEF RespondToInvite
  <2>2. s \in Room
    BY <2>1 DEF Invitation
  <2>3. c.op # "del" /\ c.key = k /\ c.val.status # "pending"
    BY <2>1 DEF Set, Invitation
  <2>4. m.op = "add" /\ m.key = <<"member", s, u>>
    BY DEF Add
  <2>5. CASE yes
    <3> DEFINE W == {c, m} \cup Revived(s, u)
               logs == LogsOf(s, Revivable(s, u))
    <3>1. Ask(u, "join", W, logs, Done)
      BY <1>3, <2>5 DEF RespondToInvite
    <3>2. ASSUME NEW w \in W
          PROVE  /\ w.op # "del"
                 /\ \/ w.key[1] = "invite" /\ w.val.status # "pending"
                    \/ w.key[1] = "member" /\ w.key[3] = u
                    \/ w.key[1] = "mirror"
                    \/ /\ w.key[1] = "link" /\ w.key[2] = s /\ w.val.by = u
                       /\ IsFeedOwner(w.key[3], u)
      <4>1. CASE w \in {c, m}
        BY <2>1, <2>3, <2>4, <4>1
      <4>2. CASE w \in Revived(s, u)
        BY <1>0, <2>2, <4>2, RevivedWrites
      <4> QED BY <4>1, <4>2
    <3>3. Ordinary(W)
      BY <3>2 DEF Ordinary
    <3>4. Stands(W, <<"member", s, u>>)
      BY <2>4, <3>2 DEF Stands, Born, Dies
    <3> HIDE DEF W, s, logs
    <3>5. \A w \in W : w.op # "del" /\ w.key[1] = "link" =>
             IsFeedOwner(w.key[3], w.val.by) /\ Stands(W, <<"member", w.key[2], w.val.by>>)
      BY <3>2, <3>4
    <3> QED BY <1>0, <2>1, <3>1, <3>2, <3>3, <3>5, PlainSound, NothingLeft
  <2>6. CASE ~ yes
    <3> DEFINE W == {c}
    <3>1. Ask(u, "decline", W, {}, Done)
      BY <1>3, <2>6 DEF RespondToInvite
    <3> HIDE DEF c
    <3>2. \A w \in W : w.op # "del" /\ w.key[1] = "invite" /\ w.val.status # "pending"
      BY <2>1, <2>3
    <3>3. Ordinary(W)
      BY <3>2 DEF Ordinary
    <3> HIDE DEF W
    <3> QED BY <1>0, <3>1, <3>2, <3>3, PlainSound, NothingLeft
  <2> QED BY <2>5, <2>6
<1> QED BY <1>1, <1>2, <1>3 DEF Invitations

(* Of a departure, only the leaver's membership is removed.                *)
LEMMA DepartureWrites ==
  ASSUME RowsType, NEW s \in Room, NEW u \in User, NEW w \in Departure(s, u)
  PROVE  \/ w.op = "del" /\ w.key = <<"member", s, u>>
         \/ /\ w.op # "del" /\ w.key[1] \in {"link", "mirror"}
            /\ w.key[1] = "link" => w.key \in LeaverLinks(s, u) /\ w.val.by = u /\ w.val.archived
         \/ /\ w.op # "del" /\ w.val = "owner" /\ IsOwner(s, u) /\ ~ HasAnotherOwner(s, u)
            /\ \E v \in OthersIn(s, u) : w.key = <<"member", s, v>>
<1>1. CASE w \in Del({<<"member", s, u>>})
  BY <1>1 DEF Del
<1>2. CASE w \in Archived(s, u)
  BY <1>2, ArchivedWrites
<1>3. CASE w \in Promotion(s, u)
  <2>1. /\ IsOwner(s, u) /\ ~ HasAnotherOwner(s, u) /\ OthersIn(s, u) # {}
        /\ w = Set(<<"member", s, Least(OthersIn(s, u))>>, "owner")
    BY <1>3 DEF Promotion
  <2>2. Least(OthersIn(s, u)) \in OthersIn(s, u)
    BY <2>1, LeastIn DEF OthersIn
  <2> QED BY <2>1, <2>2 DEF Set
<1> QED BY <1>1, <1>2, <1>3 DEF Departure

(* The members of a space they leave keep an owner, if any stays.          *)
LEMMA DepartureKeepsOwners ==
  ASSUME RowsType, NEW s \in Room, NEW u \in User, IsMember(s, u), Owned(s), NEW W,
         Departure(s, u) \subseteq W,
         \A w \in W : w.key[1] = "member" /\ w.key[2] = s => w \in Departure(s, u)
  PROVE  \/ \A v \in User : IsMember(s, v) => Dies(W, <<"member", s, v>>)
         \/ \E v \in User : OwnerStays(W, s, v)
<1>1. Dies(W, <<"member", s, u>>)
  <2>1. Has(<<"member", s, u>>)
    BY MemberRows
  <2>2. [op |-> "del", key |-> <<"member", s, u>>, val |-> Bare] \in Departure(s, u)
    BY <2>1 DEF Departure, Del, Has
  <2> QED BY <2>2 DEF Dies
<1>2. ASSUME NEW v \in OthersIn(s, u)
      PROVE  /\ Has(<<"member", s, v>>) /\ v \in User
             /\ \A w \in W : w.key = <<"member", s, v>> => w.op # "del" /\ w.val = "owner"
  <2>1. Has(<<"member", s, v>>) /\ v \in User /\ v # u
    BY MemberRows DEF OthersIn
  <2>2. ASSUME NEW w \in W, w.key = <<"member", s, v>> PROVE w.op # "del" /\ w.val = "owner"
    <3>1. w \in Departure(s, u)
      BY <2>2
    <3>2. w.key[1] = "member" /\ w.key # <<"member", s, u>>
      BY <2>1, <2>2
    <3> QED BY <3>1, <3>2, DepartureWrites
  <2> QED BY <2>1, <2>2
<1>3. CASE OthersIn(s, u) = {}
  <2>1. \A v \in User : IsMember(s, v) => v = u
    BY <1>3 DEF OthersIn
  <2> QED BY <1>1, <2>1
<1>4. CASE \E v \in OthersIn(s, u) : IsOwner(s, v)
  <2>1. PICK v \in OthersIn(s, u) : IsOwner(s, v)
    BY <1>4
  <2> QED BY <1>2, <2>1 DEF OwnerStays, Dies
<1>5. CASE OthersIn(s, u) # {} /\ ~ \E v \in OthersIn(s, u) : IsOwner(s, v)
  <2> DEFINE v == Least(OthersIn(s, u))
  <2>1. v \in OthersIn(s, u)
    BY <1>5, LeastIn DEF OthersIn
  <2>2. IsOwner(s, u)
    <3>1. PICK o \in User : IsOwner(s, o)
      BY DEF Owned
    <3> QED BY <1>5, <3>1 DEF OthersIn, IsOwner, IsMember
  <2>3. Set(<<"member", s, v>>, "owner") \in Departure(s, u)
    BY <1>5, <2>2 DEF Departure, Promotion, HasAnotherOwner
  <2> HIDE DEF v
  <2>4. Writes(W, <<"member", s, v>>)
    BY <2>3 DEF Writes, Set
  <2> QED BY <1>2, <2>1, <2>4 DEF OwnerStays, Dies
<1> QED BY <1>3, <1>4, <1>5

(* A change of role is sound.                                              *)
LEMMA RoleSound ==
  ASSUME IInv, NEW me \in User, NEW s \in Room, NEW u \in User, NEW role,
         ChangeMemberRole(me, s, u, role)
  PROVE  StayAlive' /\ FreshSound'
<1> DEFINE W == {Set(<<"member", s, u>>, role)}
           q == Asked(me, "role", W, {}, Done)
<1>0. RowsType /\ StayAlive /\ FreshSound /\ s \in Room
  BY DEF IInv, Shapes, Room
<1>1. Ask(me, "role", W, {}, Done) /\ IsMember(s, u) /\ (u = me => HasAnotherOwner(s, me))
      /\ IsOwner(s, me)
  BY DEF ChangeMemberRole
<1>2. \A w \in W : w.op = "set" /\ w.key = <<"member", s, u>>
  BY DEF Set
<1>3. Has(<<"member", s, u>>)
  BY <1>0, <1>1, MemberRows
<1>4. Ordinary(W)
  BY <1>2 DEF Ordinary
<1> HIDE DEF W
<1>5. KeepsOwners(W)
  <2>1. PICK o \in User \ {u} : IsOwner(s, o)
    BY <1>1 DEF HasAnotherOwner, OthersIn
  <2>2. ASSUME NEW x \in Room, Owned(x), \E v \in User : IsMember(x, v)
        PROVE  \E v \in User : OwnerStays(W, x, v)
    <3>1. PICK v \in User : IsOwner(x, v) /\ (x = s => v # u)
      <4>1. CASE x = s
        BY <2>1, <4>1
      <4>2. CASE x # s
        BY <2>2, <4>2 DEF Owned
      <4> QED BY <4>1, <4>2
    <3>2. Has(<<"member", x, v>>)
      BY <1>0, <3>1, MemberRows DEF Room
    <3>3. \A w \in W : w.key # <<"member", x, v>>
      BY <1>2, <3>1
    <3> QED BY <3>1, <3>2, <3>3 DEF OwnerStays, Dies
  <2> QED BY <1>2, <2>2 DEF KeepsOwners, Born
<1>6. MakesNoGhosts(W)
  <2>1. Ghosts = {} => Alive(u)
    BY <1>3 DEF Ghosts, Has
  <2> QED BY <1>2, <1>4, <2>1, OrdinaryGhostless
<1>7. Freezes(W)
  BY <1>2 DEF Freezes, Dies
<1>8. MayVanish = {} => KeepsCoherence(W)
  BY <1>0, <1>2, <1>4, OrdinaryCoherent
<1>9. Sound(q)
  <2>1. q.what = "role" /\ q.writes = Settle(W) /\ Resumable(q)
    BY NothingLeft DEF Asked
  <2> HIDE DEF q
  <2> QED BY <1>5, <1>6, <1>7, <1>8, <2>1, SettledParts DEF Sound
<1> QED BY <1>0, <1>1, <1>4, <1>9, AskSound DEF Ordinary

(* Where there are no ghosts, members have accounts.                       *)
LEMMA MembersAlive ==
  ASSUME RowsType, Ghosts = {}, NEW s \in Room, NEW u
  PROVE  \A v \in OthersIn(s, u) : Alive(v)
<1>1. ASSUME NEW v \in OthersIn(s, u) PROVE Alive(v)
  <2> DEFINE k == <<"member", s, v>>
  <2>1. k \in DOMAIN rows /\ k[1] = "member" /\ k[3] = v
    BY MemberRows DEF OthersIn, Has
  <2> HIDE DEF k
  <2> QED BY <2>1 DEF Ghosts
<1> QED BY <1>1

(* So is the removal of a member.                                          *)
LEMMA RemovalSound ==
  ASSUME IInv, NEW me \in User, NEW s \in Room, NEW u \in User, RemoveMember(me, s, u)
  PROVE  StayAlive' /\ FreshSound'
<1> DEFINE W == Departure(s, u)
           logs == LogsOf(s, LeaverLinks(s, u))
           q == Asked(me, "remove", W, logs, Done)
<1>0. RowsType /\ StayAlive /\ FreshSound /\ s \in Room
  BY DEF IInv, Shapes, Room
<1>1. Ask(me, "remove", W, logs, Done) /\ IsMember(s, u)
  BY DEF RemoveMember
<1>2. ASSUME NEW w \in W
      PROVE  \/ w.op = "del" /\ w.key = <<"member", s, u>>
             \/ /\ w.op # "del" /\ w.key[1] \in {"link", "mirror"}
                /\ w.key[1] = "link" =>
                     w.key \in LeaverLinks(s, u) /\ w.val.by = u /\ w.val.archived
             \/ /\ w.op # "del" /\ w.val = "owner"
                /\ \E v \in OthersIn(s, u) : w.key = <<"member", s, v>>
  BY <1>0, DepartureWrites
<1>3. Ordinary(W)
  BY <1>2 DEF Ordinary
<1>4. KeepsOwners(W)
  <2>1. ASSUME NEW x \in Room, Owned(x)
        PROVE  \/ \A v \in User : IsMember(x, v) => Dies(W, <<"member", x, v>>)
               \/ \E v \in User : OwnerStays(W, x, v)
    <3>1. CASE x = s
      BY <1>0, <1>1, <2>1, <3>1, DepartureKeepsOwners
    <3>2. CASE x # s /\ \E v \in User : IsMember(x, v)
      <4>1. PICK v \in User : IsOwner(x, v)
        BY <2>1, <3>2 DEF Owned
      <4>2. Has(<<"member", x, v>>)
        BY <1>0, <4>1, MemberRows DEF Room
      <4>3. \A w \in W : w.key # <<"member", x, v>>
        BY <1>2, <3>2
      <4> QED BY <4>1, <4>2, <4>3 DEF OwnerStays, Dies
    <3> QED BY <3>1, <3>2
  <2>2. ASSUME NEW x \in Room, NEW v \in User PROVE ~ Born(W, <<"member", x, v>>)
    <3>1. SUFFICES ASSUME NEW w \in W, w.op = "add", w.key = <<"member", x, v>> PROVE FALSE
      BY DEF Born
    <3>2. w \in Promotion(s, u)
      <4>1. w.key[1] = "member"
        BY <3>1
      <4> QED BY <1>0, <3>1, <4>1, ArchivedWrites DEF Departure, Del
    <3> QED BY <3>1, <3>2 DEF Promotion, Set
  <2> QED BY <2>1, <2>2 DEF KeepsOwners
<1>5. MakesNoGhosts(W)
  <2>1. Ghosts = {} => \A v \in OthersIn(s, u) : Alive(v)
    BY <1>0, MembersAlive
  <2>2. \A w \in W : w.op # "del" =>
          /\ w.key[1] = "member" => w.key[3] \in OthersIn(s, u)
          /\ w.key[1] \notin {"friend", "invite"}
    BY <1>2
  <2> HIDE DEF W
  <2> QED BY <1>3, <2>1, <2>2, OrdinaryGhostless
<1>6. Freezes(W)
  <2>1. \A w \in W : w.op # "del" /\ w.key[1] = "link" => w.val.archived
    BY <1>2
  <2>2. ASSUME NEW l \in Links, ~ rows[l].archived, Dies(W, <<"member", l[2], rows[l].by>>)
        PROVE  Writes(W, l)
    <3>1. PICK w \in W : w.op = "del" /\ w.key = <<"member", l[2], rows[l].by>>
      BY <2>2 DEF Dies
    <3>2. l[2] = s /\ rows[l].by = u
      BY <1>2, <3>1
    <3>3. l \in LeaverLinks(s, u)
      BY <2>2, <3>2 DEF LeaverLinks
    <3>4. Set(l, [rows[l] EXCEPT !.archived = TRUE, !.cap = LastSeq(l[3])]) \in W
      BY <3>3 DEF Departure, Archived
    <3> QED BY <3>4 DEF Writes, Set
  <2> QED BY <2>1, <2>2 DEF Freezes
<1>7. MayVanish = {} => KeepsCoherence(W)
  <2>1. ASSUME Coherent, NEW w \in W, w.op # "del", w.key[1] = "link"
        PROVE  IsFeedOwner(w.key[3], w.val.by)
    <3>1. w.key \in LeaverLinks(s, u) /\ w.val.by = u
      BY <1>2, <2>1
    <3>2. w.key \in Links /\ rows[w.key].by = u /\ w.key[3] \in Feed
      BY <1>0, <3>1, ReadTypes DEF LeaverLinks
    <3>3. w.key \in LinksOf(w.key[3])
      BY <3>2 DEF LinksOf
    <3> QED BY <2>1, <3>1, <3>2, <3>3 DEF Coherent
  <2> QED BY <1>0, <1>3, <2>1, OrdinaryCoherent
<1>9. Sound(q)
  <2>1. q.what = "remove" /\ q.writes = Settle(W) /\ Resumable(q)
    BY NothingLeft DEF Asked
  <2> HIDE DEF q, W
  <2> QED BY <1>4, <1>5, <1>6, <1>7, <2>1, SettledParts DEF Sound
<1> HIDE DEF W, logs
<1> QED BY <1>0, <1>1, <1>3, <1>9, AskSound DEF Ordinary

(* So is the first push to a space.                                        *)
LEMMA CreationSound ==
  ASSUME IInv, NEW me \in User, NEW s \in Space, FirstPush(me, s)
  PROVE  StayAlive' /\ FreshSound'
<1> DEFINE W == {Add(<<"space", s>>, 0), Add(<<"member", s, me>>, "owner")}
<1>0. RowsType /\ StayAlive /\ FreshSound
  BY DEF IInv, Shapes
<1>1. Ask(me, "create", W, {}, Done) /\ Alive(me)
  BY DEF FirstPush
<1>2. \A w \in W : w.op # "del" /\ w.key \in {<<"space", s>>, <<"member", s, me>>}
  BY DEF Add
<1>3. \A w \in W : /\ w.op # "del" /\ w.key[1] \in {"space", "member"}
                   /\ w.key[1] = "member" => w.key[3] = me
  BY <1>2
<1>4. Ordinary(W)
  BY <1>3 DEF Ordinary
<1> HIDE DEF W
<1> QED BY <1>0, <1>1, <1>3, <1>4, PlainSound, NothingLeft

(* What an account deletion removes, and what else it writes.              *)
LEMMA ErasureWrites ==
  ASSUME RowsType, NEW u \in User, NEW w \in Erasure(u)
  PROVE  \/ /\ w.op = "del"
            /\ w.key[1] \in {"space", "feed", "link", "mirror", "feeddel", "member", "friend",
                             "invite", "user"}
            /\ w.key[1] = "user" => w.key = <<"user", u>>
            /\ w.key[1] = "member" => w.key[2] \in SoleMember(u) \cup Prunable(u)
         \/ \E s \in Surviving(u) : w \in Departure(s, u)
<1>1. ASSUME NEW s \in SoleMember(u) \cup Prunable(u), w \in DeleteSpaceData(s)
      PROVE  /\ w.op = "del"
             /\ w.key[1] \in {"space", "member", "invite", "link", "mirror", "feeddel"}
             /\ w.key[1] = "member" => w.key[2] \in SoleMember(u) \cup Prunable(u)
  <2>1. /\ w.op = "del"
        /\ \/ w.key = <<"space", s>>
           \/ \E v \in User : w.key = <<"member", s, v>>
           \/ w.key \in Invites
           \/ w.key[1] \in {"link", "mirror", "feeddel"}
    BY <1>1 DEF DeleteSpaceData, Del
  <2> QED BY <2>1 DEF Invites
<1>2. ASSUME NEW f \in Prunable(u), w \in PruneFeed(f)
      PROVE  /\ w.op = "del"
             /\ w.key[1] \in {"feed", "space", "member", "invite", "link", "mirror", "feeddel"}
             /\ w.key[1] = "member" => w.key[2] \in SoleMember(u) \cup Prunable(u)
  <2>1. \/ w.op = "del" /\ (w.key \in LinksOf(f) \/ w.key = <<"feed", f>>)
        \/ w \in DeleteSpaceData(f)
    BY <1>2 DEF PruneFeed, Del
  <2> QED BY <1>1, <2>1 DEF LinksOf, Links
<1>3. CASE w \in LeaveOrDeleteSpaces(u)
  BY <1>1, <1>3 DEF LeaveOrDeleteSpaces
<1>4. CASE w \in PruneOwnedFeeds(u)
  BY <1>2, <1>4 DEF PruneOwnedFeeds
<1>5. CASE w \in Del(SocialRows(u) \cup {<<"user", u>>})
  <2>1. w.op = "del" /\ (w.key \in SocialRows(u) \/ w.key = <<"user", u>>)
    BY <1>5 DEF Del
  <2> QED BY <2>1 DEF SocialRows, Invites
<1> QED BY <1>3, <1>4, <1>5 DEF Erasure

(* What Del is given dies, if it is there.                                 *)
LEMMA DelKills ==
  ASSUME NEW K, NEW W, Del(K) \subseteq W, NEW k \in K, Has(k) PROVE Dies(W, k)
<1>1. [op |-> "del", key |-> k, val |-> Bare] \in W
  BY DEF Del, Has
<1> QED BY <1>1 DEF Dies

(* With an account its memberships, friendships and invitations go.        *)
LEMMA ErasureOfNames ==
  ASSUME RowsType, NEW u \in User, NEW k \in DOMAIN rows, Names(k, u)
  PROVE  Dies(Erasure(u), k)
<1>0. k \in Key /\ Has(k) /\ Holds(k, rows[k])
  BY DEF RowsType, Has
<1>1. CASE k[1] = "member"
  <2>1. PICK s \in Room : k = <<"member", s, u>>
    BY <1>0, <1>1 DEF Names, Key
  <2>2. IsMember(s, u)
    BY <1>0, <2>1, MemberRows
  <2>3. CASE s \in SoleMember(u)
    <3> DEFINE K == {<<"space", s>>} \cup {<<"member", s, v>> : v \in User}
                      \cup {j \in Invites : rows[j].space = s}
                      \cup {j \in DOMAIN rows : j[1] \in {"link", "mirror", "feeddel"} /\ j[2] = s}
    <3>1. Del(K) = DeleteSpaceData(s)
      BY DEF DeleteSpaceData
    <3>2. DeleteSpaceData(s) \subseteq Erasure(u)
      BY <2>3 DEF Erasure, LeaveOrDeleteSpaces
    <3>3. k \in K
      BY <2>1
    <3> HIDE DEF K
    <3> QED BY <1>0, <3>1, <3>2, <3>3, DelKills
  <2>4. CASE s \notin SoleMember(u)
    <3>1. s \in Surviving(u)
      BY <2>2, <2>4 DEF Surviving
    <3>2. Departure(s, u) \subseteq Erasure(u)
      BY <3>1 DEF Erasure, LeaveOrDeleteSpaces
    <3>3. Del({k}) \subseteq Erasure(u)
      BY <2>1, <3>2 DEF Departure
    <3> QED BY <1>0, <3>3, DelKills
  <2> QED BY <2>3, <2>4
<1>2. CASE k[1] # "member"
  <2>1. k \in SocialRows(u)
    BY <1>0, <1>2 DEF Names, SocialRows, Invites
  <2>2. Del(SocialRows(u) \cup {<<"user", u>>}) \subseteq Erasure(u)
    BY DEF Erasure
  <2> QED BY <1>0, <2>1, <2>2, DelKills
<1> QED BY <1>1, <1>2

(* A space of one's own goes with its links.                               *)
LEMMA ErasureOfLinks ==
  ASSUME RowsType, NEW u \in User, NEW l \in Links, ~ rows[l].archived, NEW v,
         Dies(Erasure(u), <<"member", l[2], v>>), v = rows[l].by
  PROVE  Writes(Erasure(u), l)
<1> DEFINE s == l[2]
<1>0. s \in Space /\ s \notin Feed /\ l \in DOMAIN rows /\ l[1] = "link" /\ Has(l)
  BY ReadTypes, SharingAssumption DEF Links, Has
<1>1. PICK w \in Erasure(u) : w.op = "del" /\ w.key = <<"member", s, v>>
  BY DEF Dies
<1>2. CASE s \in SoleMember(u)
  <2> DEFINE K == {<<"space", s>>} \cup {<<"member", s, x>> : x \in User}
                    \cup {j \in Invites : rows[j].space = s}
                    \cup {j \in DOMAIN rows : j[1] \in {"link", "mirror", "feeddel"} /\ j[2] = s}
  <2>1. Del(K) = DeleteSpaceData(s)
    BY DEF DeleteSpaceData
  <2>2. DeleteSpaceData(s) \subseteq Erasure(u)
    BY <1>2 DEF Erasure, LeaveOrDeleteSpaces
  <2>3. l \in K
    BY <1>0
  <2> HIDE DEF K, s
  <2>4. Dies(Erasure(u), l)
    BY <1>0, <2>1, <2>2, <2>3, DelKills
  <2> QED BY <2>4 DEF Dies, Writes
<1>3. CASE s \notin SoleMember(u)
  <2>1. PICK x \in Surviving(u) : w \in Departure(x, u)
    <3>1. w.key[1] = "member" /\ w.key[2] = s
      BY <1>1
    <3> HIDE DEF s
    <3> QED BY <1>0, <1>3, <3>1, ErasureWrites DEF Prunable
  <2>2. x \in Room
    BY DEF Surviving
  <2>3. w.key = <<"member", x, u>>
    BY <1>1, <2>1, <2>2, DepartureWrites
  <2>4. x = s /\ v = u
    BY <1>1, <2>3
  <2>5. l \in LeaverLinks(x, u)
    BY <2>4 DEF LeaverLinks
  <2>6. Set(l, [rows[l] EXCEPT !.archived = TRUE, !.cap = LastSeq(l[3])]) \in Departure(x, u)
    BY <2>5 DEF Departure, Archived
  <2>7. Departure(x, u) \subseteq Erasure(u)
    BY DEF Erasure, LeaveOrDeleteSpaces
  <2> QED BY <2>6, <2>7 DEF Writes, Set
<1> QED BY <1>2, <1>3

(* Of every space it leaves an owner behind, or nobody.                    *)
LEMMA ErasureKeepsOwners ==
  ASSUME RowsType, NEW u \in User PROVE KeepsOwners(Erasure(u))
<1> DEFINE W == Erasure(u)
<1>1. ASSUME NEW x \in Room, NEW v \in User PROVE ~ Born(W, <<"member", x, v>>)
  <2>1. SUFFICES ASSUME NEW w \in W, w.op = "add", w.key = <<"member", x, v>> PROVE FALSE
    BY DEF Born
  <2>2. w.key[1] = "member"
    BY <2>1
  <2>3. PICK s \in Surviving(u) : w \in Departure(s, u)
    BY <2>1, ErasureWrites
  <2>4. s \in Room
    BY DEF Surviving
  <2>5. w \in Promotion(s, u)
    BY <2>1, <2>2, <2>3, <2>4, ArchivedWrites DEF Departure, Del
  <2> QED BY <2>1, <2>5 DEF Promotion, Set
<1>2. ASSUME NEW x \in Room, Owned(x)
      PROVE  \/ \A v \in User : IsMember(x, v) => Dies(W, <<"member", x, v>>)
             \/ \E v \in User : OwnerStays(W, x, v)
  <2>0. CASE x \in Prunable(u)
    <3> DEFINE K == {<<"space", x>>} \cup {<<"member", x, v>> : v \in User}
                      \cup {j \in Invites : rows[j].space = x}
                      \cup {j \in DOMAIN rows : j[1] \in {"link", "mirror", "feeddel"} /\ j[2] = x}
    <3>1. Del(K) = DeleteSpaceData(x)
      BY DEF DeleteSpaceData
    <3>2. DeleteSpaceData(x) \subseteq Erasure(u)
      BY <2>0 DEF Erasure, PruneOwnedFeeds, PruneFeed
    <3>3. ASSUME NEW v \in User, IsMember(x, v) PROVE Dies(W, <<"member", x, v>>)
      <4>1. <<"member", x, v>> \in K /\ Has(<<"member", x, v>>)
        BY <3>3, MemberRows
      <4> HIDE DEF K
      <4> QED BY <3>1, <3>2, <4>1, DelKills
    <3> QED BY <3>3
  <2>1. CASE x \in SoleMember(u)
    <3>1. ASSUME NEW v \in User, IsMember(x, v) PROVE Dies(W, <<"member", x, v>>)
      <4>1. v = u
        BY <2>1, <3>1 DEF SoleMember, OthersIn
      <4>2. <<"member", x, v>> \in DOMAIN rows /\ Names(<<"member", x, v>>, u)
        BY <3>1, <4>1, MemberRows DEF Has, Names
      <4> QED BY <4>2, ErasureOfNames
    <3> QED BY <3>1
  <2>2. CASE x \notin SoleMember(u) \cup Prunable(u)
    <3>1. ASSUME NEW w \in W, w.key[1] = "member", w.key[2] = x
          PROVE  x \in Surviving(u) /\ w \in Departure(x, u)
      <4>1. PICK s \in Surviving(u) : w \in Departure(s, u)
        BY <2>2, <3>1, ErasureWrites
      <4>2. s \in Room
        BY DEF Surviving
      <4>3. w.key[2] = s
        BY <3>1, <4>1, <4>2, DepartureWrites
      <4> QED BY <3>1, <4>1, <4>3
    <3>2. CASE x \in Surviving(u)
      <4>1. Departure(x, u) \subseteq W
        BY <3>2 DEF Erasure, LeaveOrDeleteSpaces
      <4>2. IsMember(x, u)
        BY <3>2 DEF Surviving
      <4> HIDE DEF W
      <4> QED BY <1>2, <3>1, <4>1, <4>2, DepartureKeepsOwners
    <3>3. CASE x \notin Surviving(u) /\ \E v \in User : IsMember(x, v)
      <4>1. PICK v \in User : IsOwner(x, v)
        BY <1>2, <3>3 DEF Owned
      <4>2. Has(<<"member", x, v>>)
        BY <4>1, MemberRows
      <4>3. \A w \in W : w.key # <<"member", x, v>>
        BY <3>1, <3>3
      <4> HIDE DEF W
      <4> QED BY <4>1, <4>2, <4>3 DEF OwnerStays, Dies
    <3> QED BY <3>2, <3>3
  <2> QED BY <2>0, <2>1, <2>2
<1> QED BY <1>1, <1>2 DEF KeepsOwners

(* So is the deletion of an account.                                       *)
LEMMA ErasureSound ==
  ASSUME IInv, NEW u \in User, DeleteMe(u) PROVE StayAlive' /\ FreshSound'
<1> DEFINE W == Erasure(u)
           logs == UNION {LogsOf(s, LeaverLinks(s, u)) : s \in Surviving(u)}
           q == Asked(u, "vanish", W, logs, Done)
<1>0. RowsType /\ StayAlive /\ FreshSound
  BY DEF IInv, Shapes
<1>1. Ask(u, "vanish", W, logs, Done) /\ MayVanish # {}
  BY DEF DeleteMe, Erasure
<1>2. ASSUME NEW w \in W, w.op # "del"
      PROVE  /\ w.key[1] \in {"link", "mirror", "member"}
             /\ w.key[1] = "link" => w.val.archived
             /\ w.key[1] = "member" => \E s \in Room : w.key[3] \in OthersIn(s, u)
  <2>1. PICK s \in Surviving(u) : w \in Departure(s, u)
    BY <1>0, <1>2, ErasureWrites
  <2>2. s \in Room
    BY DEF Surviving
  <2> QED BY <1>0, <1>2, <2>1, <2>2, DepartureWrites
<1>3. ASSUME NEW x, Dies(W, <<"user", x>>) PROVE x = u
  <2>1. PICK w \in W : w.op = "del" /\ w.key = <<"user", x>>
    BY <1>3 DEF Dies
  <2>2. w.key[1] = "user"
    BY <2>1
  <2>3. \A s \in Surviving(u) : w \notin Departure(s, u)
    BY <1>0, <2>1, <2>2, DepartureWrites DEF Surviving
  <2>4. w.key = <<"user", u>>
    BY <1>0, <2>2, <2>3, ErasureWrites
  <2> QED BY <2>1, <2>4
<1>4. MakesNoGhosts(W)
  <2>1. ASSUME Ghosts = {}, NEW w \in W, w.op # "del" PROVE ForTheLiving(W, w)
    <3>1. CASE w.key[1] = "member"
      <4>1. PICK s \in Room : w.key[3] \in OthersIn(s, u)
        BY <1>2, <2>1, <3>1
      <4>2. Alive(w.key[3]) /\ w.key[3] # u
        BY <1>0, <2>1, <4>1, MembersAlive DEF OthersIn
      <4>3. ~ Dies(W, <<"user", w.key[3]>>)
        BY <1>3, <4>2
      <4> HIDE DEF W
      <4> QED BY <3>1, <4>2, <4>3 DEF ForTheLiving, Lives
    <3> QED BY <1>2, <2>1, <3>1 DEF ForTheLiving
  <2>2. ASSUME NEW x \in User, Dies(W, <<"user", x>>), NEW k \in DOMAIN rows, Names(k, x)
        PROVE  Dies(W, k)
    BY <1>0, <1>3, <2>2, ErasureOfNames
  <2> HIDE DEF W
  <2> QED BY <2>1, <2>2 DEF MakesNoGhosts
<1>5. Freezes(W)
  <2>1. ASSUME NEW l \in Links, ~ rows[l].archived, Dies(W, <<"member", l[2], rows[l].by>>)
        PROVE  Writes(W, l)
    BY <1>0, <2>1, ErasureOfLinks
  <2> QED BY <1>2, <2>1 DEF Freezes
<1>6. Sound(q)
  <2>1. q.what = "vanish" /\ q.writes = Settle(W) /\ Resumable(q)
    BY NothingLeft DEF Asked
  <2>2. KeepsOwners(W)
    BY <1>0, ErasureKeepsOwners
  <2> HIDE DEF q, W
  <2> QED BY <1>1, <1>4, <1>5, <2>1, <2>2, SettledParts DEF Sound
<1> HIDE DEF W, logs
<1> QED BY <1>0, <1>1, <1>6, AskSound

(* What members do is sound.                                               *)
LEMMA MembersSound == ASSUME IInv, NEW u \in User, Members(u) PROVE StayAlive' /\ FreshSound'
<1>1. ASSUME NEW s \in Room, NEW v \in User, NEW role \in Assignable,
             ChangeMemberRole(u, s, v, role)
      PROVE  StayAlive' /\ FreshSound'
  BY <1>1, RoleSound
<1>2. ASSUME NEW s \in Room, NEW v \in User, RemoveMember(u, s, v)
      PROVE  StayAlive' /\ FreshSound'
  BY <1>2, RemovalSound
<1>3. ASSUME NEW s \in Space, FirstPush(u, s) PROVE StayAlive' /\ FreshSound'
  BY <1>3, CreationSound
<1> QED BY <1>1, <1>2, <1>3, ErasureSound DEF Members

(* Taking a feed nobody has, or becoming one of its owners, and a member.  *)
LEMMA EntrySound ==
  ASSUME IInv, NEW me \in User, NEW f \in Feed, Alive(me), NEW W, NEW what,
         Ask(me, what, W, {}, Done),
         what \in {"register", "ensure"},
         \A w \in W : /\ w.op # "del"
                      /\ \/ w.key = <<"feed", f>> /\ w.val = me
                         \/ w.key = <<"co", f, me>> /\ Has(<<"feed", f>>)
                         \/ w.key \in {<<"space", f>>, <<"member", f, me>>},
         Stands(W, <<"member", f, me>>),
         MayVanish = {} /\ Writes(W, <<"feed", f>>) => ~ Has(<<"feed", f>>)
  PROVE  StayAlive' /\ FreshSound'
<1> DEFINE q == Asked(me, what, W, {}, Done)
<1>0. RowsType /\ StayAlive /\ FreshSound /\ f \in Room
  BY DEF IInv, Shapes, Room
<1>1. \A k : ~ Dies(W, k)
  BY DEF Dies
<1>2. \A w \in W : /\ w.key[1] \in {"feed", "co", "space", "member"} /\ w.op # "del"
                   /\ w.key[1] = "member" => w.key[3] = me
  OBVIOUS
<1>3. MakesNoGhosts(W)
  BY <1>1, <1>2 DEF MakesNoGhosts, ForTheLiving, Lives
<1>4. Freezes(W)
  BY <1>1, <1>2 DEF Freezes
<1>5. ASSUME MayVanish = {} PROVE KeepsCoherence(W)
  <2> SUFFICES ASSUME Coherent PROVE KeepsCoherence(W)
    BY DEF KeepsCoherence
  <2>1. ASSUME NEW g \in Feed, NEW u, IsFeedOwner(g, u) PROVE OwnsAfter(W, g, u)
    <3>1. CASE Has(<<"feed", g>>) /\ OwnerOf(g) = u
      <4>1. \A w \in W : w.key # <<"feed", g>>
        BY <1>5, <3>1 DEF Writes
      <4> QED BY <1>1, <3>1, <4>1 DEF OwnsAfter, OwnerAfter, Stands
    <3>2. CASE u \in CoOwners(g)
      BY <1>1, <3>2 DEF CoOwners, OwnsAfter, Stands
    <3> QED BY <2>1, <3>1, <3>2 DEF IsFeedOwner
  <2>2. ASSUME NEW g \in Feed, NEW u \in User, Stands(W, <<"co", g, u>>)
        PROVE  Stands(W, <<"feed", g>>)
    <3>1. CASE Has(<<"co", g, u>>)
      <4>1. Has(<<"feed", g>>)
        BY <3>1 DEF Coherent, CoOwners
      <4> QED BY <1>1, <4>1 DEF Stands
    <3>2. CASE ~ Has(<<"co", g, u>>)
      <4>1. PICK w \in W : w.key = <<"co", g, u>>
        BY <2>2, <3>2 DEF Stands, Born
      <4>2. g = f /\ u = me /\ Has(<<"feed", f>>)
        BY <4>1
      <4> QED BY <1>1, <4>2 DEF Stands
    <3> QED BY <3>1, <3>2
  <2>3. ASSUME NEW g \in Feed, NEW l \in LinksOf(g) PROVE OwnsAfter(W, g, rows[l].by)
    BY <2>1 DEF Coherent
  <2>4. \A w \in W : w.key[1] # "link"
    BY <1>2
  <2> QED BY <2>2, <2>3, <2>4 DEF KeepsCoherence, CoherentAfter
<1>6. Sound(q)
  <2>1. q.what = what /\ q.writes = Settle(W) /\ Resumable(q)
    BY NothingLeft DEF Asked
  <2> HIDE DEF q
  <2> QED BY <1>3, <1>4, <1>5, <2>1, SettledParts DEF Sound
<1>7. \A w \in W : w.key[1] # "user"
  BY <1>2
<1> QED BY <1>0, <1>6, <1>7, AskSound

(* Who joins a feed is a member of it.                                     *)
LEMMA JoinedFeed ==
  ASSUME RowsType, NEW me \in User, NEW f \in Feed, NEW W, JoinFeed(me, f) \subseteq W,
         \A w \in W : w.op # "del"
  PROVE  /\ Stands(W, <<"member", f, me>>)
         /\ \A w \in JoinFeed(me, f) : w.op # "del" /\ w.key = <<"member", f, me>>
         /\ \A w \in OpenFeed(f) : w.op # "del" /\ w.key = <<"space", f>>
<1>1. f \in Room
  BY DEF Room
<1>2. CASE IsMember(f, me)
  BY <1>1, <1>2, MemberRows DEF Stands, Dies, JoinFeed, OpenFeed, Add
<1>3. CASE ~ IsMember(f, me)
  <2>1. Add(<<"member", f, me>>, "owner") \in W
    BY <1>3 DEF JoinFeed
  <2> QED BY <1>3, <2>1 DEF Stands, Born, Dies, JoinFeed, OpenFeed, Add
<1> QED BY <1>2, <1>3

(* Registering a feed, and being assigned one, are sound.                  *)
LEMMA EntriesSound ==
  ASSUME IInv, NEW me \in User, NEW f \in Feed, RegisterFeed(me, f) \/ EnsureIbanFeed(me, f)
  PROVE  StayAlive' /\ FreshSound'
<1>0. RowsType /\ StayAlive /\ Alive(me)
  BY DEF IInv, Shapes, RegisterFeed, EnsureIbanFeed
<1>1. CASE RegisterFeed(me, f) /\ ~ Has(<<"feed", f>>)
  <2> DEFINE W == {Add(<<"feed", f>>, me)} \cup OpenFeed(f) \cup JoinFeed(me, f)
  <2>1. Ask(me, "register", W, {}, Done)
    BY <1>1 DEF RegisterFeed
  <2>2. \A w \in W : w.op # "del"
    BY DEF Add, OpenFeed, JoinFeed
  <2>3. /\ Stands(W, <<"member", f, me>>)
        /\ \A w \in JoinFeed(me, f) : w.op # "del" /\ w.key = <<"member", f, me>>
        /\ \A w \in OpenFeed(f) : w.op # "del" /\ w.key = <<"space", f>>
    BY <1>0, <2>2, JoinedFeed
  <2>4. \A w \in W : \/ w.key = <<"feed", f>> /\ w.val = me
                     \/ w.key \in {<<"space", f>>, <<"member", f, me>>}
    <3>1. \A w \in {Add(<<"feed", f>>, me)} : w.key = <<"feed", f>> /\ w.val = me
      BY DEF Add
    <3>2. \A w \in OpenFeed(f) \cup JoinFeed(me, f) :
            w.key \in {<<"space", f>>, <<"member", f, me>>}
      BY <2>3
    <3> QED BY <3>1, <3>2
  <2> HIDE DEF W
  <2> QED BY <1>0, <1>1, <2>1, <2>2, <2>3, <2>4, EntrySound
<1>2. CASE RegisterFeed(me, f) /\ Has(<<"feed", f>>)
  <2> DEFINE W == {Set(<<"feed", f>>, me)} \cup JoinFeed(me, f)
  <2>1. Ask(me, "register", W, {}, Done) /\ ~ Alive(OwnerOf(f))
    BY <1>2 DEF RegisterFeed
  <2>2. \A w \in W : w.op # "del"
    BY DEF Add, Set, JoinFeed
  <2>3. /\ Stands(W, <<"member", f, me>>)
        /\ \A w \in JoinFeed(me, f) : w.op # "del" /\ w.key = <<"member", f, me>>
    BY <1>0, <2>2, JoinedFeed
  <2>4. \A w \in W : \/ w.key = <<"feed", f>> /\ w.val = me
                     \/ w.key \in {<<"space", f>>, <<"member", f, me>>}
    BY <2>3 DEF Set
  <2>5. MayVanish # {}
    <3>1. OwnerOf(f) \in User
      BY <1>0, <1>2, ReadTypes
    <3> QED BY <1>0, <2>1, <3>1 DEF StayAlive
  <2> HIDE DEF W
  <2> QED BY <1>0, <2>1, <2>2, <2>3, <2>4, <2>5, EntrySound
<1>3. CASE EnsureIbanFeed(me, f)
  <2> DEFINE owns == IF ~ Has(<<"feed", f>>) THEN {Add(<<"feed", f>>, me)}
                     ELSE IF IsFeedOwner(f, me) THEN {} ELSE {Add(<<"co", f, me>>, Bare)}
             W == owns \cup OpenFeed(f) \cup JoinFeed(me, f)
  <2>1. Ask(me, "ensure", W, {}, Done)
    BY <1>3 DEF EnsureIbanFeed
  <2>2. \A w \in owns : /\ w.op # "del"
                        /\ \/ w.key = <<"feed", f>> /\ w.val = me /\ ~ Has(<<"feed", f>>)
                           \/ w.key = <<"co", f, me>> /\ Has(<<"feed", f>>)
    BY DEF Add
  <2> HIDE DEF owns
  <2>3. \A w \in W : w.op # "del"
    BY <2>2 DEF Add, OpenFeed, JoinFeed
  <2>4. /\ Stands(W, <<"member", f, me>>)
        /\ \A w \in JoinFeed(me, f) : w.op # "del" /\ w.key = <<"member", f, me>>
        /\ \A w \in OpenFeed(f) : w.op # "del" /\ w.key = <<"space", f>>
    BY <1>0, <2>3, JoinedFeed
  <2>5. \A w \in W : \/ w.key = <<"feed", f>> /\ w.val = me
                     \/ w.key = <<"co", f, me>> /\ Has(<<"feed", f>>)
                     \/ w.key \in {<<"space", f>>, <<"member", f, me>>}
    BY <2>2, <2>4
  <2>6. Writes(W, <<"feed", f>>) => ~ Has(<<"feed", f>>)
    BY <2>2, <2>4 DEF Writes
  <2> HIDE DEF W
  <2> QED BY <1>0, <2>1, <2>3, <2>4, <2>5, <2>6, EntrySound
<1> QED BY <1>1, <1>2, <1>3

(* What is done with feeds is sound.                                       *)
LEMMA FeedsSound == ASSUME IInv, NEW u \in User, Feeds(u) PROVE StayAlive' /\ FreshSound'
<1>0. RowsType /\ StayAlive /\ FreshSound
  BY DEF IInv, Shapes
<1> SUFFICES ASSUME NEW f \in Feed,
                    \/ RegisterFeed(u, f) \/ EnsureIbanFeed(u, f) \/ PushToFeed(u, f)
                    \/ DeleteFeedAccount(u, f)
                    \/ \E s \in Space : Attach(u, s, f) \/ Detach(u, s, f)
             PROVE  StayAlive' /\ FreshSound'
  BY DEF Feeds
<1>1. CASE PushToFeed(u, f)
  <2> DEFINE W == {Set(<<"space", f>>, LastSeq(f) + 1)}
  <2>1. Ask(u, "push", W, {f}, Done)
    BY <1>1 DEF PushToFeed
  <2>2. \A w \in W : w.op # "del" /\ w.key[1] = "space"
    BY DEF Set
  <2>3. Ordinary(W)
    BY <2>2 DEF Ordinary
  <2> HIDE DEF W
  <2> QED BY <1>0, <2>1, <2>2, <2>3, PlainSound, NothingLeft
<1>2. CASE DeleteFeedAccount(u, f)
  <2> DEFINE W == Del(DeadLinks(f))
             n == [kind |-> "deleteFeed", feed |-> f, owner |-> OwnerOf(f)]
  <2>1. Ask(u, "janitor", W, {}, n) /\ Alive(u) /\ Has(<<"feed", f>>)
    BY <1>2 DEF DeleteFeedAccount
  <2>2. \A w \in W : w.op = "del" /\ w.key[1] = "link"
    <3>1. \A w \in W : w.op = "del" /\ w.key \in DeadLinks(f)
      BY DEF Del
    <3>2. \A l \in DeadLinks(f) : l[1] = "link"
      BY DEF DeadLinks, LinksOf, Links
    <3> QED BY <3>1, <3>2
  <2>3. Ordinary(W)
    BY <2>2 DEF Ordinary
  <2> HIDE DEF W
  <2>4. Resumable(Asked(u, "janitor", W, {}, n))
    BY <2>1, <2>2, Settled DEF Resumable, Asked
  <2> HIDE DEF n
  <2> QED BY <1>0, <2>1, <2>2, <2>3, <2>4, PlainSound
<1>3. ASSUME NEW s \in Space, Attach(u, s, f) PROVE StayAlive' /\ FreshSound'
  <2> DEFINE v == [by |-> u, archived |-> FALSE, cap |-> 0]
             W == {Put(<<"link", s, f>>, v)}
  <2>1. Ask(u, "attach", W, {}, Done) /\ IsFeedOwner(f, u) /\ CanWrite(s, u)
    BY <1>3 DEF Attach
  <2>2. \A w \in W : w.op # "del" /\ w.key = <<"link", s, f>> /\ w.val.by = u
    BY DEF Put, Add, Set
  <2>3. Stands(W, <<"member", s, u>>)
    <3>1. Has(<<"member", s, u>>)
      BY <2>1 DEF CanWrite, RoleOf
    <3> QED BY <2>2, <3>1 DEF Stands, Dies
  <2> HIDE DEF W
  <2>4. Ordinary(W)
    BY <2>2 DEF Ordinary
  <2>5. \A w \in W : /\ w.key[1] = "link" /\ w.key[3] = f
                     /\ Stands(W, <<"member", w.key[2], w.val.by>>)
    BY <2>2, <2>3
  <2> QED BY <1>0, <2>1, <2>2, <2>4, <2>5, PlainSound, NothingLeft
<1>4. ASSUME NEW s \in Space, Detach(u, s, f) PROVE StayAlive' /\ FreshSound'
  <2> DEFINE W == Del({<<"link", s, f>>})
  <2>1. Ask(u, "detach", W, {}, Done)
    BY <1>4 DEF Detach
  <2>2. \A w \in W : w.op = "del" /\ w.key[1] = "link"
    BY DEF Del
  <2>3. Ordinary(W)
    BY <2>2 DEF Ordinary
  <2> HIDE DEF W
  <2> QED BY <1>0, <2>1, <2>2, <2>3, PlainSound, NothingLeft
<1> QED BY <1>1, <1>2, <1>3, <1>4, EntriesSound

(* A request goes on with a sound second half.                             *)
LEMMA HandedOver ==
  ASSUME StayAlive, FreshSound, UNCHANGED rows, NEW q, inflight' \subseteq inflight \cup {q},
         q.since = "nothing" => Sound(q),
         MayVanish = {} => \A w \in q.writes : w.key[1] # "user"
  PROVE  StayAlive' /\ FreshSound'
<1>1. StayAlive'
  BY DEF StayAlive, Alive, Has
<1>2. ASSUME NEW r \in inflight', r.since = "nothing" PROVE Sound(r)
  BY <1>2 DEF FreshSound
<1>3. ASSUME NEW r \in inflight', r.since = "nothing" PROVE Sound(r)'
  BY <1>2, <1>3, RowsAlone
<1> QED BY <1>1, <1>3 DEF FreshSound

(* Fewer requests are no less sound.                                       *)
LEMMA FewerSound ==
  ASSUME StayAlive, FreshSound, UNCHANGED rows, inflight' \subseteq inflight
  PROVE  StayAlive' /\ FreshSound'
<1>1. StayAlive'
  BY DEF StayAlive, Alive, Has
<1>2. ASSUME NEW r \in inflight', r.since = "nothing" PROVE Sound(r)'
  BY <1>2, RowsAlone DEF FreshSound
<1> QED BY <1>1, <1>2 DEF FreshSound

(* The invitation that follows a reciprocated request is sound.            *)
LEMMA FollowUpSound ==
  ASSUME IInv, NEW r \in inflight, AddSpaceInviteIfMissing(r) PROVE StayAlive' /\ FreshSound'
<1>0. RowsType /\ StayAlive /\ FreshSound /\ r \in Request /\ UNCHANGED rows
  BY DEF IInv, Shapes, AddSpaceInviteIfMissing
<1>1. CASE inflight' = inflight \ {r}
  BY <1>0, <1>1, FewerSound
<1>2. CASE inflight' # inflight \ {r}
  <2>1. PICK i \in FreshInvite :
          inflight' = (inflight \ {r}) \cup
            {[r EXCEPT !.what = "invite", !.next = Done, !.writes =
                {NewInvite(i, r.next.space, r.who, r.next.to, r.next.role)}]}
    BY <1>2 DEF AddSpaceInviteIfMissing
  <2> DEFINE W == {NewInvite(i, r.next.space, r.who, r.next.to, r.next.role)}
             q == [r EXCEPT !.what = "invite", !.next = Done, !.writes = W]
  <2>2. \A w \in W : /\ w.op # "del" /\ w.key[1] = "invite"
                     /\ w.val.to = r.next.to /\ w.val.from = r.who
    BY DEF NewInvite, Add
  <2>3. inflight' \subseteq inflight \cup {q}
    BY <2>1
  <2> HIDE DEF W
  <2>4. q.what = "invite" /\ q.next = Done /\ q.writes = W /\ q.since = r.since
    BY <1>0 DEF Request
  <2> HIDE DEF q
  <2>5. ASSUME r.since = "nothing" PROVE Sound(q)
    <3>1. Alive(r.who) /\ Alive(r.next.to)
      BY <1>0, <2>5 DEF FreshSound, Sound, Resumable, AddSpaceInviteIfMissing
    <3>2. Ordinary(W)
      BY <2>2 DEF Ordinary
    <3>3. MakesNoGhosts(W)
      BY <2>2, <3>1, <3>2, OrdinaryGhostless
    <3>4. Freezes(W)
      BY <2>2 DEF Freezes, Dies
    <3>5. MayVanish = {} => KeepsCoherence(W)
      BY <1>0, <2>2, <3>2, OrdinaryCoherent
    <3>6. Resumable(q)
      BY <2>4 DEF Resumable, Done
    <3> QED BY <2>4, <3>3, <3>4, <3>5, <3>6 DEF Sound
  <2>6. \A w \in W : w.key[1] # "user"
    BY <2>2
  <2> QED BY <1>0, <2>3, <2>4, <2>5, <2>6, HandedOver
<1> QED BY <1>1, <1>2

(* The op that tombstones a link's row is in the log, or on its way.       *)
LEMMA TombstonesTell ==
  ASSUME RowsType, NEW f \in Feed, NEW L \in SUBSET Links, \A l \in L : l[3] = f, NEW W,
         Tombstones(SpacesOf(L), f) \subseteq W,
         \A w \in W : w.op = "del" => w.key[1] \notin {"mirror", "feeddel"},
         \A w \in W : w.key[1] = "mirror" => w.val = "dead",
         \A l \in Links : Dies(W, l) => l \in L
  PROVE  Tells(W)
<1> SUFFICES ASSUME NEW l \in Links, Dies(W, l), Has(<<"space", l[2]>>),
                    ~ Has(<<"feeddel", l[2], l[3]>>)
             PROVE  /\ Stands(W, <<"feeddel", l[2], l[3]>>)
                    /\ Stands(W, <<"mirror", l[2], l[3]>>)
                    /\ Writes(W, <<"mirror", l[2], l[3]>>)
                    /\ \A w \in W : w.key = <<"mirror", l[2], l[3]>> => w.val = "dead"
  BY DEF Tells
<1> DEFINE s == l[2]
           m == <<"mirror", s, f>>
           d == <<"feeddel", s, f>>
<1>1. l \in L /\ l[3] = f
  OBVIOUS
<1>2. s \in Tombstoned(SpacesOf(L), f)
  BY <1>1 DEF Tombstoned, SpacesOf
<1>3. Put(m, "dead") \in W /\ Add(d, Bare) \in W
  BY <1>2 DEF Tombstones
<1>4. ~ Dies(W, m) /\ ~ Dies(W, d)
  BY DEF Dies
<1>5. \A w \in W : w.key = m => w.val = "dead"
  OBVIOUS
<1> HIDE DEF m, d
<1>6. Stands(W, d)
  BY <1>3, <1>4 DEF Stands, Born, Add
<1>7. Writes(W, m)
  BY <1>3 DEF Writes, Put, Add, Set
<1>8. Stands(W, m)
  BY <1>3, <1>4 DEF Stands, Born, Put, Add, Set
<1> QED BY <1>1, <1>5, <1>6, <1>7, <1>8 DEF m, d

(* What the tombstones of a feed write.                                    *)
LEMMA TombstoneWrites ==
  ASSUME NEW S, NEW f, NEW w \in Tombstones(S, f)
  PROVE  /\ w.op # "del" /\ w.key[1] \in {"mirror", "feeddel"}
         /\ w.key[1] = "mirror" => w.val = "dead"
<1>1. PICK s \in Tombstoned(S, f) :
        w \in {Put(<<"mirror", s, f>>, "dead"), Add(<<"feeddel", s, f>>, Bare)}
  BY DEF Tombstones
<1> QED BY <1>1 DEF Put, Add, Set

(* Writes that concern one feed leave the others as they are.              *)
LEMMA OthersCoherent ==
  ASSUME Coherent, NEW f \in Feed, NEW g \in Feed \ {f}, NEW W,
         \A w \in W : /\ w.key[1] \in {"feed", "co"} => w.key[2] = f
                      /\ w.key[1] = "link" => w.op = "del"
  PROVE  CoherentAfter(W, g)
<1>1. /\ \A w \in W : w.key # <<"feed", g>>
      /\ \A u : \A w \in W : w.key # <<"co", g, u>>
  OBVIOUS
<1>2. \A k : (\A w \in W : w.key # k) => (Stands(W, k) <=> Has(k)) /\ ~ Writes(W, k)
  BY DEF Stands, Born, Dies, Writes
<1>3. ASSUME NEW u, IsFeedOwner(g, u) PROVE OwnsAfter(W, g, u)
  BY <1>1, <1>2, <1>3 DEF IsFeedOwner, CoOwners, OwnsAfter, OwnerAfter
<1>4. ASSUME NEW u \in User, Stands(W, <<"co", g, u>>) PROVE Stands(W, <<"feed", g>>)
  BY <1>1, <1>2, <1>4 DEF Coherent, CoOwners
<1>5. \A l \in LinksOf(g) : OwnsAfter(W, g, rows[l].by)
  BY <1>3 DEF Coherent
<1> QED BY <1>1, <1>4, <1>5 DEF CoherentAfter

(* What a person gives up of a feed somebody else covers: the rows it      *)
(* removes, and the owner it hands over to.                                *)
LEMMA ViewWrites ==
  ASSUME NEW f, NEW me, NEW owner, NEW next, NEW w \in RemoveMyView(f, me, owner, next)
  PROVE  \/ w.op = "del" /\ w.key \in LinksBy(f, me)
         \/ w.op = "del" /\ w.key = <<"co", f, me>>
         \/ w.op = "del" /\ w.key = <<"co", f, next>> /\ owner = me /\ next # me
         \/ w.op # "del" /\ w.key = <<"feed", f>> /\ w.val = next /\ owner = me /\ next # me
         \/ /\ w.op # "del" /\ w.key[1] \in {"mirror", "feeddel"}
            /\ w.key[1] = "mirror" => w.val = "dead"
<1>1. CASE w \in Del(LinksBy(f, me) \cup {<<"co", f, me>>})
  BY <1>1 DEF Del
<1>2. CASE w \in Tombstones(SpacesOf(LinksBy(f, me)), f)
  BY <1>2, TombstoneWrites
<1>3. CASE w \in Succession(f, me, owner, next)
  <2>1. /\ owner = me /\ next # me
        /\ w = Set(<<"feed", f>>, next) \/ w \in Del({<<"co", f, next>>})
    BY <1>3 DEF Succession
  <2> QED BY <2>1 DEF Set, Del
<1> QED BY <1>1, <1>2, <1>3 DEF RemoveMyView

(* The others keep the feed, and one of them owns it.                      *)
LEMMA OthersKeep ==
  ASSUME RowsType, Coherent, NEW f \in Feed, NEW me \in User, NEW owner, NEW next,
         Has(<<"feed", f>>), OwnerOf(f) = owner,
         NEW u, u # me, IsFeedOwner(f, u)
  PROVE  OwnsAfter(RemoveMyView(f, me, owner, next), f, u)
<1> DEFINE W == RemoveMyView(f, me, owner, next)
<1>1. ASSUME NEW w \in W
      PROVE  /\ w.key = <<"feed", f>> => w.op # "del" /\ w.val = next /\ owner = me /\ next # me
             /\ w.key[1] = "co" => \/ w.key = <<"co", f, me>>
                                   \/ w.key = <<"co", f, next>> /\ owner = me /\ next # me
  <2>1. \/ w.key[1] \in {"link", "mirror", "feeddel"}
        \/ w.op = "del" /\ w.key = <<"co", f, me>>
        \/ w.op = "del" /\ w.key = <<"co", f, next>> /\ owner = me /\ next # me
        \/ w.op # "del" /\ w.key = <<"feed", f>> /\ w.val = next /\ owner = me /\ next # me
    BY ViewWrites DEF LinksBy, LinksOf, Links
  <2> HIDE DEF W
  <2>2. ASSUME w.key = <<"feed", f>>
        PROVE  w.op # "del" /\ w.val = next /\ owner = me /\ next # me
    <3>1. w.key[1] = "feed"
      BY <2>2
    <3>2. w.key # <<"co", f, me>> /\ w.key # <<"co", f, next>>
      BY <2>2
    <3> QED BY <2>1, <3>1, <3>2
  <2>3. ASSUME w.key[1] = "co"
        PROVE  \/ w.key = <<"co", f, me>>
               \/ w.key = <<"co", f, next>> /\ owner = me /\ next # me
    <3>1. w.key # <<"feed", f>>
      BY <2>3
    <3> QED BY <2>1, <2>3, <3>1
  <2> QED BY <2>2, <2>3
<1>2. owner = me /\ next # me => Set(<<"feed", f>>, next) \in W
  BY DEF RemoveMyView, Succession
<1> HIDE DEF W
<1>3. Stands(W, <<"feed", f>>)
  BY <1>1 DEF Stands, Dies
<1>4. CASE owner = me /\ next # me /\ u = next
  <2>1. Writes(W, <<"feed", f>>)
    BY <1>2, <1>4 DEF Writes, Set
  <2> QED BY <1>1, <1>3, <1>4, <2>1 DEF OwnsAfter, OwnerAfter, W
<1>5. CASE ~ (owner = me /\ next # me /\ u = next) /\ owner = u
  <2>1. \A w \in W : w.key # <<"feed", f>>
    BY <1>1, <1>5
  <2> QED BY <1>3, <1>5, <2>1 DEF OwnsAfter, OwnerAfter, W
<1>6. CASE ~ (owner = me /\ next # me /\ u = next) /\ owner # u
  <2>1. Has(<<"co", f, u>>)
    BY <1>6 DEF IsFeedOwner, CoOwners
  <2>2. ~ Dies(W, <<"co", f, u>>)
    <3>1. SUFFICES ASSUME NEW w \in W, w.key = <<"co", f, u>> PROVE FALSE
      BY DEF Dies
    <3>2. w.key[1] = "co"
      BY <3>1
    <3>3. w.key # <<"co", f, me>>
      BY <3>1
    <3>4. ~ (w.key = <<"co", f, next>> /\ owner = me /\ next # me)
      BY <1>6, <3>1
    <3> QED BY <1>1, <3>2, <3>3, <3>4
  <2> QED BY <2>1, <2>2 DEF OwnsAfter, Stands, W
<1> QED BY <1>4, <1>5, <1>6

(* What remains of a feed somebody else covers is coherent.                *)
LEMMA ViewCoherent ==
  ASSUME RowsType, Coherent, NEW f \in Feed, NEW me \in User,
         NEW owner, NEW next, Has(<<"feed", f>>), OwnerOf(f) = owner
  PROVE  KeepsCoherence(RemoveMyView(f, me, owner, next))
<1> DEFINE W == RemoveMyView(f, me, owner, next)
<1>1. ASSUME NEW w \in W
      PROVE  \/ w.op = "del" /\ w.key \in LinksBy(f, me) /\ w.key[1] = "link"
             \/ w.op = "del" /\ w.key = <<"co", f, me>>
             \/ w.op = "del" /\ w.key = <<"co", f, next>>
             \/ w.op # "del" /\ w.key = <<"feed", f>>
             \/ w.op # "del" /\ w.key[1] \in {"mirror", "feeddel"}
  BY ViewWrites DEF LinksBy, LinksOf, Links
<1>2. \A w \in W : /\ w.key[1] \in {"feed", "co"} => w.key[2] = f
                   /\ w.key[1] = "link" => w.op = "del"
                   /\ w.key[1] = "feed" => w.op # "del"
  BY <1>1
<1>3. ASSUME NEW u, u # me, IsFeedOwner(f, u) PROVE OwnsAfter(W, f, u)
  BY <1>3, OthersKeep
<1>4. Del(LinksBy(f, me) \cup {<<"co", f, me>>}) \subseteq W
  BY DEF RemoveMyView
<1> HIDE DEF W
<1>5. CoherentAfter(W, f)
  <2>1. Stands(W, <<"feed", f>>)
    BY <1>2 DEF Stands, Dies
  <2>2. ASSUME NEW l \in LinksOf(f), ~ Writes(W, l) PROVE OwnsAfter(W, f, rows[l].by)
    <3>1. rows[l].by # me
      <4>1. SUFFICES ASSUME rows[l].by = me PROVE FALSE
        OBVIOUS
      <4>2. l \in LinksBy(f, me) \cup {<<"co", f, me>>} /\ Has(l)
        BY <4>1 DEF LinksBy, LinksOf, Links, Has
      <4>3. Dies(W, l)
        BY <1>4, <4>2, DelKills
      <4> QED BY <2>2, <4>3 DEF Dies, Writes
    <3> QED BY <1>3, <3>1 DEF Coherent
  <2> QED BY <1>2, <2>1, <2>2 DEF CoherentAfter
<1>6. ASSUME NEW g \in Feed PROVE CoherentAfter(W, g)
  BY <1>2, <1>5, OthersCoherent
<1> QED BY <1>6 DEF KeepsCoherence, W

(* Who leaves a feed somebody else covers, leaves.                         *)
LEMMA ViewRevoked ==
  ASSUME RowsType, NEW f \in Feed, NEW me \in User,
         NEW owner, NEW next, Has(<<"feed", f>>), OwnerOf(f) = owner,
         owner = me => next # me
  PROVE  RevokesMine(me, RemoveMyView(f, me, owner, next)) /\ Tells(RemoveMyView(f, me, owner, next))
<1> DEFINE W == RemoveMyView(f, me, owner, next)
<1>1. ASSUME NEW w \in W
      PROVE  /\ w.key[1] \in {"feed", "co"} => w.key[2] = f
             /\ w.key[1] = "feed" => w.val = next /\ owner = me
             /\ w.key[1] = "co" => w.op = "del"
             /\ w.op = "del" => w.key[1] \notin {"mirror", "feeddel"}
             /\ w.key[1] = "mirror" => w.val = "dead"
             /\ w.key[1] = "link" => w.op = "del" /\ w.key \in LinksBy(f, me)
  BY ViewWrites DEF LinksBy, LinksOf, Links
<1>2. ASSUME Coherent, NEW u \in User \ {me}, IsFeedOwner(f, u) PROVE OwnsAfter(W, f, u)
  BY <1>2, OthersKeep
<1>3. /\ Del(LinksBy(f, me) \cup {<<"co", f, me>>}) \subseteq W
      /\ Tombstones(SpacesOf(LinksBy(f, me)), f) \subseteq W
      /\ owner = me => Set(<<"feed", f>>, next) \in W
  BY DEF RemoveMyView, Succession
<1> HIDE DEF W
<1>4. ~ Stands(W, <<"co", f, me>>)
  <2>1. ~ Born(W, <<"co", f, me>>)
    BY <1>1 DEF Born
  <2>2. Has(<<"co", f, me>>) => Dies(W, <<"co", f, me>>)
    BY <1>3, DelKills
  <2> QED BY <2>1, <2>2 DEF Stands
<1>5. /\ \A w \in W : w.key = <<"feed", f>> => w.val # me
      /\ Writes(W, <<"feed", f>>) \/ OwnerOf(f) # me
  <2>1. owner = me => Writes(W, <<"feed", f>>)
    BY <1>3 DEF Writes, Set
  <2> QED BY <1>1, <2>1
<1>6. RevokesMine(me, W)
  <2> SUFFICES ASSUME Coherent PROVE RevokesMine(me, W)
    BY DEF RevokesMine
  <2>1. ASSUME NEW l \in LinksBy(f, me) PROVE Dies(W, l)
    BY <1>3, DelKills DEF LinksBy, LinksOf, Links, Has
  <2>2. ASSUME NEW u \in User \ {me}, Covers(f, u) PROVE OwnsAfter(W, f, u)
    <3>1. IsFeedOwner(f, u)
      BY <2>2 DEF Covers, IsFeedOwner, Coherent, LinksBy
    <3> QED BY <1>2, <3>1
  <2>3. ASSUME NEW u \in User \ {me}, NEW l \in LinksBy(f, u) PROVE ~ Writes(W, l)
    <3>1. l[1] = "link" /\ l \notin LinksBy(f, me)
      BY DEF LinksBy, LinksOf, Links
    <3> QED BY <1>1, <3>1 DEF Writes
  <2>4. \A w \in W : w.op # "del" => w.key[1] # "link"
    BY <1>1
  <2> QED BY <1>1, <1>4, <1>5, <2>1, <2>2, <2>3, <2>4 DEF RevokesMine
<1>7. Tells(W)
  <2>1. LinksBy(f, me) \in SUBSET Links /\ \A l \in LinksBy(f, me) : l[3] = f
    BY DEF LinksBy, LinksOf
  <2>2. \A l \in Links : Dies(W, l) => l \in LinksBy(f, me)
    BY <1>1 DEF Dies, Links
  <2> QED BY <1>1, <1>3, <2>1, <2>2, TombstonesTell
<1> QED BY <1>6, <1>7 DEF W

(* What the deletion of a feed writes.                                     *)
LEMMA EraseWrites ==
  ASSUME NEW f, NEW me, NEW w \in EraseFeed(f, me)
  PROVE  \/ w.op = "del" /\ w.key \in LinksOf(f)
         \/ w.op = "del" /\ \E u \in User : w.key \in {<<"co", f, u>>, <<"member", f, u>>}
         \/ w.op = "del" /\ w.key \in {<<"space", f>>, <<"feed", f>>}
         \/ /\ w.op # "del" /\ w.key[1] \in {"mirror", "feeddel"}
            /\ w.key[1] = "mirror" => w.val = "dead"
<1>1. CASE w \in Tombstones(SpacesOf(LinksOf(f)), f)
  BY <1>1, TombstoneWrites
<1>2. CASE w \notin Tombstones(SpacesOf(LinksOf(f)), f)
  BY <1>2 DEF EraseFeed, Del
<1> QED BY <1>1, <1>2

(* Nothing of an erased feed remains to be coherent, or anybody's.         *)
LEMMA FeedErased ==
  ASSUME RowsType, NEW f \in Feed, NEW me \in User, NEW owner, Has(<<"feed", f>>),
         OwnerOf(f) = owner, ~ Covered(f, me, owner)
  PROVE  /\ KeepsCoherence(EraseFeed(f, me))
         /\ RevokesMine(me, EraseFeed(f, me)) /\ Tells(EraseFeed(f, me))
<1> DEFINE W == EraseFeed(f, me)
           K == LinksOf(f) \cup {<<"co", f, u>> : u \in User} \cup {<<"member", f, u>> : u \in User}
                  \cup {<<"space", f>>, <<"feed", f>>}
<1>1. ASSUME NEW w \in W
      PROVE  /\ w.key[1] \in {"feed", "co", "member"} => w.key[2] = f /\ w.op = "del"
             /\ w.key[1] = "link" => w.op = "del" /\ w.key \in LinksOf(f)
             /\ w.op = "del" => w.key[1] \notin {"mirror", "feeddel"}
             /\ w.key[1] = "mirror" => w.val = "dead"
  <2>1. \/ w.op = "del" /\ w.key \in LinksOf(f) /\ w.key[1] = "link"
        \/ /\ w.op = "del" /\ w.key[1] \in {"co", "member", "space", "feed"}
           /\ w.key[2] = f
        \/ /\ w.op # "del" /\ w.key[1] \in {"mirror", "feeddel"}
           /\ w.key[1] = "mirror" => w.val = "dead"
    BY EraseWrites DEF LinksOf, Links
  <2> HIDE DEF W
  <2> QED BY <2>1
<1>2. Del(K) \subseteq W /\ Tombstones(SpacesOf(LinksOf(f)), f) \subseteq W
  BY DEF EraseFeed
<1> HIDE DEF W
<1>3. ASSUME NEW k \in K PROVE Has(k) => Dies(W, k)
  <2> HIDE DEF K
  <2> QED BY <1>2, DelKills
<1>4. Dies(W, <<"feed", f>>)
  BY <1>3
<1>5. ASSUME NEW u \in User PROVE ~ Stands(W, <<"co", f, u>>)
  <2>1. ~ Born(W, <<"co", f, u>>)
    BY <1>1 DEF Born
  <2>2. Has(<<"co", f, u>>) => Dies(W, <<"co", f, u>>)
    BY <1>3
  <2> QED BY <2>1, <2>2 DEF Stands
<1>6. KeepsCoherence(W)
  <2> SUFFICES ASSUME Coherent PROVE KeepsCoherence(W)
    BY DEF KeepsCoherence
  <2>1. \A l \in LinksOf(f) : Writes(W, l)
    BY <1>3 DEF LinksOf, Links, Has, Dies, Writes
  <2>2. Writes(W, <<"feed", f>>)
    BY <1>4 DEF Dies, Writes
  <2>3. \A w \in W : w.key = <<"feed", f>> => w.op = "del"
    BY <1>1
  <2>4. CoherentAfter(W, f)
    BY <1>1, <1>5, <2>1, <2>2, <2>3 DEF CoherentAfter
  <2>5. ASSUME NEW g \in Feed PROVE CoherentAfter(W, g)
    BY <1>1, <2>4, OthersCoherent
  <2> QED BY <2>5 DEF KeepsCoherence
<1>7. ASSUME NEW u \in User \ {me}, Covers(f, u) PROVE FALSE
  BY <1>7 DEF Covered, Covers, LinksBy
<1>8. RevokesMine(me, W)
  <2>1. ASSUME NEW l \in LinksBy(f, me) PROVE Dies(W, l)
    BY <1>3 DEF LinksBy, LinksOf, Links, Has
  <2>2. \A w \in W : w.op # "del" => w.key[1] # "link"
    BY <1>1
  <2> QED BY <1>1, <1>4, <1>5, <1>7, <2>1, <2>2 DEF RevokesMine
<1>9. Tells(W)
  <2>1. LinksOf(f) \in SUBSET Links /\ \A l \in LinksOf(f) : l[3] = f
    BY DEF LinksOf
  <2>2. \A l \in Links : Dies(W, l) => l \in LinksOf(f)
    BY <1>1 DEF Dies, Links
  <2> QED BY <1>1, <1>2, <2>1, <2>2, TombstonesTell
<1> QED BY <1>6, <1>8, <1>9 DEF W

(* The judgement of a request to delete a feed is sound.                   *)
LEMMA JudgementSound ==
  ASSUME IInv, NEW r \in inflight, JudgeFeed(r) PROVE StayAlive' /\ FreshSound'
<1> DEFINE f == r.next.feed
           me == r.who
           owner == r.next.owner
<1>0. /\ RowsType /\ StayAlive /\ FreshSound /\ r \in Request /\ UNCHANGED rows
      /\ r.next \in [kind : {"deleteFeed"}, feed : Feed, owner : User]
      /\ r.what = "saved" /\ r.next.kind = "deleteFeed"
  BY DEF IInv, Shapes, JudgeFeed, Request, Continuation, Done
<1>1. f \in Feed /\ me \in User /\ owner \in User
  BY <1>0 DEF Request
<1>2. ASSUME r.since = "nothing"
      PROVE  Alive(me) /\ Has(<<"feed", f>>) /\ OwnerOf(f) = owner
  BY <1>0, <1>2 DEF FreshSound, Sound, Resumable
<1>3. CASE inflight' = inflight \ {r}
  BY <1>0, <1>3, FewerSound
<1>4. ASSUME NEW what \in {"leave", "erase"}, NEW W, NEW logs,
             inflight' = (inflight \ {r}) \cup
               {[r EXCEPT !.what = what, !.writes = Settle(W), !.logs = logs, !.next = Done]},
             \A w \in W : w.op # "del" => w.key[1] \in {"mirror", "feeddel", "feed"},
             \A w \in W : w.key[1] # "user",
             \A w \in W : w.op = "del" /\ w.key[1] = "member" => w.key[2] = f,
             r.since = "nothing" =>
               /\ MayVanish = {} => KeepsCoherence(W)
               /\ RevokesMine(me, W) /\ Tells(W)
      PROVE  StayAlive' /\ FreshSound'
  <2> DEFINE q == [r EXCEPT !.what = what, !.writes = Settle(W), !.logs = logs, !.next = Done]
  <2>1. inflight' \subseteq inflight \cup {q}
    BY <1>4
  <2>2. /\ q.what = what /\ q.next = Done /\ q.writes = Settle(W) /\ q.since = r.since
        /\ q.who = me
    BY <1>0 DEF Request
  <2> HIDE DEF q, f, me
  <2>3. ASSUME r.since = "nothing" PROVE Sound(q)
    <3>1. MakesNoGhosts(W)
      BY <1>4 DEF MakesNoGhosts, ForTheLiving, Dies
    <3>2. Freezes(W)
      <4>1. ASSUME NEW l \in Links, NEW u PROVE ~ Dies(W, <<"member", l[2], u>>)
        <5>1. l[2] \in Space /\ l[2] # f
          BY <1>0, <1>1, ReadTypes, SharingAssumption
        <5> QED BY <1>4, <5>1 DEF Dies
      <4> QED BY <1>4, <4>1 DEF Freezes
    <3>3. Resumable(q)
      BY <2>2 DEF Resumable, Done
    <3>4. q.what \notin {"remove", "role", "vanish"}
      BY <2>2
    <3> QED BY <1>4, <2>2, <2>3, <3>1, <3>2, <3>3, <3>4, SettledParts DEF Sound
  <2>4. \A w \in q.writes : w.key[1] # "user"
    BY <1>4, <2>2, Settled
  <2> QED BY <1>0, <2>1, <2>2, <2>3, <2>4, HandedOver
<1>5. CASE Covered(f, me, owner) /\ inflight' # inflight \ {r}
  <2>1. PICK next \in IF Successors(f, me) = {} THEN {me} ELSE Successors(f, me) :
          inflight' = (inflight \ {r}) \cup
            {[r EXCEPT !.what = "leave", !.writes = Settle(RemoveMyView(f, me, owner, next)),
                       !.logs = Tombstoned(SpacesOf(LinksBy(f, me)), f), !.next = Done]}
    BY <1>5 DEF JudgeFeed
  <2> DEFINE W == RemoveMyView(f, me, owner, next)
             logs == Tombstoned(SpacesOf(LinksBy(f, me)), f)
  <2>2. ASSUME NEW w \in W
        PROVE  /\ w.op # "del" => w.key[1] \in {"mirror", "feeddel", "feed"}
               /\ w.key[1] \notin {"user", "member"}
    BY ViewWrites DEF LinksBy, LinksOf, Links
  <2>3. owner = me => next # me
    <3>1. SUFFICES ASSUME owner = me PROVE next # me
      OBVIOUS
    <3>2. \/ CoOwners(f) \ {me} # {}
          \/ \E l \in LinksOf(f) : rows[l].by # me
      BY <1>5, <3>1 DEF Covered
    <3>3. Successors(f, me) # {}
      BY <3>2 DEF Successors
    <3>4. me \notin Successors(f, me)
      BY DEF Successors
    <3> QED BY <2>1, <3>3, <3>4
  <2>4. ASSUME r.since = "nothing"
        PROVE  /\ MayVanish = {} => KeepsCoherence(W)
               /\ RevokesMine(me, W) /\ Tells(W)
    <3> HIDE DEF f, me, owner
    <3>1. KeepsCoherence(W)
      <4>1. ASSUME Coherent PROVE KeepsCoherence(W)
        BY <1>0, <1>1, <1>2, <2>4, <4>1, ViewCoherent
      <4> QED BY <4>1 DEF KeepsCoherence
    <3>2. RevokesMine(me, W) /\ Tells(W)
      BY <1>0, <1>1, <1>2, <2>3, <2>4, ViewRevoked
    <3> QED BY <3>1, <3>2
  <2> HIDE DEF W, logs
  <2>5. inflight' = (inflight \ {r}) \cup
          {[r EXCEPT !.what = "leave", !.writes = Settle(W), !.logs = logs, !.next = Done]}
    BY <2>1 DEF W, logs
  <2> QED BY <1>4, <2>2, <2>4, <2>5
<1>6. CASE ~ Covered(f, me, owner) /\ inflight' # inflight \ {r}
  <2> DEFINE W == EraseFeed(f, me)
             logs == Tombstoned(SpacesOf(LinksOf(f)), f)
  <2>1. inflight' = (inflight \ {r}) \cup
          {[r EXCEPT !.what = "erase", !.writes = Settle(W), !.logs = logs, !.next = Done]}
    BY <1>6 DEF JudgeFeed
  <2>2. ASSUME NEW w \in W
        PROVE  /\ w.op # "del" => w.key[1] \in {"mirror", "feeddel", "feed"}
               /\ w.key[1] # "user"
               /\ w.key[1] = "member" => w.key[2] = f
    BY EraseWrites DEF LinksOf, Links
  <2>3. r.since = "nothing" =>
          /\ MayVanish = {} => KeepsCoherence(W)
          /\ RevokesMine(me, W) /\ Tells(W)
    <3> HIDE DEF f, me, owner
    <3> QED BY <1>0, <1>1, <1>2, <1>6, FeedErased
  <2> HIDE DEF W, logs
  <2> QED BY <1>4, <2>1, <2>2, <2>3
<1> QED BY <1>3, <1>5, <1>6

(* A request that has saved is sound if what it counts on holds.           *)
LEMMA RestSound ==
  ASSUME NEW q, q.what = "saved", q.writes = {}, Resumable(q)'
  PROVE  Sound(q)'
<1>1. MakesNoGhosts({})' /\ Freezes({})'
  BY DEF MakesNoGhosts, Freezes, Dies
<1>2. KeepsCoherence({})'
  <2> SUFFICES ASSUME Coherent', NEW f \in Feed PROVE CoherentAfter({}, f)'
    BY DEF KeepsCoherence
  <2>1. \A k : Stands({}, k)' <=> Has(k)'
    BY DEF Stands, Born, Dies
  <2>2. \A u : IsFeedOwner(f, u)' => OwnsAfter({}, f, u)'
    BY <2>1 DEF IsFeedOwner, CoOwners, OwnsAfter, OwnerAfter
  <2>3. \A u \in User : Has(<<"co", f, u>>)' => Has(<<"feed", f>>)'
    BY DEF Coherent, CoOwners
  <2>4. \A l \in LinksOf(f)' : OwnsAfter({}, f, rows[l].by)'
    <3>1. \A l \in LinksOf(f)' : IsFeedOwner(f, rows[l].by)'
      BY DEF Coherent
    <3> QED BY <2>2, <3>1
  <2> QED BY <2>1, <2>3, <2>4 DEF CoherentAfter
<1> QED BY <1>1, <1>2 DEF Sound

(* Who has an account keeps it through a save that writes no account.      *)
LEMMA StillAlive ==
  ASSUME NEW W, rows' = Applied(W), NEW u, Alive(u), \A w \in W : w.key # <<"user", u>>
  PROVE  Alive(u)'
<1>1. Stands(W, <<"user", u>>)
  BY DEF Stands, Dies, Alive
<1> QED BY <1>1, SavedRow DEF Alive

(* Overtaken requests write what they wrote, and count no longer.          *)
LEMMA Overtaken ==
  ASSUME Shapes, NEW R \in SUBSET inflight, NEW logs, NEW q \in Overtake(R, logs)
  PROVE  q.since # "nothing" /\ \E p \in R : q.writes = p.writes
<1>1. PICK p \in R : q = [p EXCEPT !.since = IF @ = "taken" \/ p.logs \cap logs # {}
                                             THEN "taken" ELSE "overtaken"]
  BY DEF Overtake
<1>2. p \in Request
  BY DEF Shapes
<1> QED BY <1>1, <1>2 DEF Request

(* A save leaves the requests in flight sound, and what is left of itself. *)
LEMMA SaveSound ==
  ASSUME IInv, Shapes', NEW r \in inflight, Save(r) PROVE StayAlive' /\ FreshSound'
<1>0. Shapes /\ RowsType /\ RowsType' /\ StayAlive /\ FreshSound /\ r \in Request
  BY DEF IInv, Shapes
<1>1. ASSUME NEW q \in Continued(r)
      PROVE  /\ q.what = "saved" /\ q.writes = {} /\ q.since = r.since /\ q.who = r.who
             /\ q.next = r.next
  BY <1>0 DEF Continued, Request
<1>2. CASE r.writes = {}
  <2>1. inflight' = Continued(r) \cup (inflight \ {r}) /\ UNCHANGED rows
    BY <1>2 DEF Save
  <2>2. StayAlive'
    BY <1>0, <1>1, <2>1 DEF StayAlive, Alive, Has
  <2>3. ASSUME NEW q \in inflight', q.since = "nothing" PROVE Sound(q)'
    <3>1. CASE q \in Continued(r)
      <4>1. Resumable(r)'
        BY <1>0, <1>1, <2>1, <2>3, <3>1 DEF FreshSound, Sound, Resumable, Alive, Has, OwnerOf
      <4>2. Resumable(q)'
        BY <1>1, <3>1, <4>1 DEF Resumable
      <4> QED BY <1>0, <1>1, <2>2, <3>1, <4>2, RestSound
    <3>2. CASE q \notin Continued(r)
      BY <1>0, <2>1, <2>3, <3>2, RowsAlone DEF FreshSound
    <3> QED BY <3>1, <3>2
  <2> QED BY <2>2, <2>3 DEF FreshSound
<1>3. CASE r.writes # {}
  <2> DEFINE W == r.writes
  <2>1. inflight' = Continued(r) \cup Overtake(inflight \ {r}, r.logs) /\ rows' = Applied(W)
    BY <1>3 DEF Save
  <2>2. ASSUME MayVanish = {}, NEW u \in User PROVE Alive(u)'
    <3>1. Alive(u) /\ \A w \in W : w.key # <<"user", u>>
      BY <1>0, <2>2 DEF StayAlive
    <3> QED BY <2>1, <3>1, StillAlive
  <2>3. StayAlive'
    <3>1. ASSUME MayVanish = {}, NEW q \in inflight', NEW w \in q.writes PROVE w.key[1] # "user"
      <4>1. q \in Overtake(inflight \ {r}, r.logs)
        BY <1>1, <2>1, <3>1
      <4>2. PICK p \in inflight \ {r} : q.writes = p.writes
        BY <1>0, <4>1, Overtaken
      <4> QED BY <1>0, <3>1, <4>2 DEF StayAlive
    <3> QED BY <2>2, <3>1 DEF StayAlive
  <2>4. ASSUME NEW q \in inflight', q.since = "nothing" PROVE Sound(q)'
    <3>1. q \in Continued(r)
      BY <1>0, <2>1, <2>4, Overtaken
    <3>2. Resumable(r)
      BY <1>0, <1>1, <2>4, <3>1 DEF FreshSound, Sound
    <3>3. q.what = "saved" /\ q.writes = {} /\ q.who = r.who /\ q.next = r.next
      BY <1>1, <3>1
    <3>4. ASSUME r.next.kind = "invite" PROVE Alive(r.who)' /\ Alive(r.next.to)'
      <4>1. Alive(r.who) /\ Alive(r.next.to) /\ \A w \in W : w.key[1] # "user"
        BY <3>2, <3>4 DEF Resumable
      <4> HIDE DEF W
      <4>2. Alive(r.who)'
        BY <2>1, <4>1, StillAlive
      <4>3. Alive(r.next.to)'
        BY <2>1, <4>1, StillAlive
      <4> QED BY <4>2, <4>3
    <3>5. ASSUME r.next.kind = "deleteFeed"
          PROVE  /\ Alive(r.who)'
                 /\ Has(<<"feed", r.next.feed>>)' /\ OwnerOf(r.next.feed)' = r.next.owner
      <4> DEFINE k == <<"feed", r.next.feed>>
      <4>1. Alive(r.who) /\ Has(k) /\ rows[k] = r.next.owner /\ \A w \in W : w.key[1] = "link"
        BY <3>2, <3>5 DEF Resumable, OwnerOf
      <4>2. Alive(r.who)'
        <5> HIDE DEF W
        <5> QED BY <2>1, <4>1, StillAlive
      <4>3. Stands(W, k) /\ ~ Writes(W, k) /\ k[1] # "invite"
        BY <4>1 DEF Stands, Dies, Writes
      <4>4. Has(k)' /\ rows'[k] = rows[k]
        <5> HIDE DEF W, k
        <5> QED BY <2>1, <4>3, SavedRow
      <4> QED BY <4>1, <4>2, <4>4 DEF OwnerOf
    <3>6. Resumable(q)'
      <4> HIDE DEF W
      <4> QED BY <3>3, <3>4, <3>5 DEF Resumable
    <3> QED BY <1>0, <2>3, <3>3, <3>6, RestSound
  <2> QED BY <2>3, <2>4 DEF FreshSound
<1> QED BY <1>2, <1>3

(* What devices push overtakes every request in flight.                    *)
LEMMA DevicesSound ==
  ASSUME IInv, NEW u \in User, NEW s \in Space, NEW f \in Feed,
         PushMirror(u, s, f) \/ Reconcile(u, s, f)
  PROVE  StayAlive' /\ FreshSound'
<1>0. Shapes /\ StayAlive /\ FreshSound
  BY DEF IInv
<1>1. CASE Reconcile(u, s, f)
  BY <1>0, <1>1, FewerSound DEF Reconcile
<1>2. CASE PushMirror(u, s, f)
  <2> DEFINE w == Put(<<"mirror", s, f>>, due[<<s, f>>])
  <2>1. rows' = Applied({w}) /\ inflight' = Overtake(inflight, {s})
    BY <1>2 DEF PushMirror
  <2>2. w.key = <<"mirror", s, f>>
    BY DEF Put, Add, Set
  <2> HIDE DEF w
  <2>3. ASSUME NEW x, Alive(x) PROVE Alive(x)'
    <3>1. \A y \in {w} : y.key # <<"user", x>>
      BY <2>2
    <3> QED BY <2>1, <2>3, <3>1, StillAlive
  <2>4. ASSUME NEW q \in inflight' PROVE q.since # "nothing" /\ \E p \in inflight : q.writes = p.writes
    BY <1>0, <2>1, Overtaken
  <2>5. StayAlive'
    BY <1>0, <2>3, <2>4 DEF StayAlive
  <2> QED BY <2>4, <2>5 DEF FreshSound
<1> QED BY <1>1, <1>2

(* IInv holds initially, and every step keeps it.                          *)
LEMMA InitIInv == Init => IInv
<1> SUFFICES ASSUME Init PROVE IInv
  OBVIOUS
<1>1. inflight = {} /\ \A u \in User : <<"user", u>> \in DOMAIN rows
  BY DEF Init
<1> QED BY <1>1, InitShapes DEF IInv, StayAlive, FreshSound, Alive, Has

(* Every step preserves the inductive invariant.                           *)
LEMMA NextIInv == IInv /\ [Next]_vars => IInv'
<1> SUFFICES ASSUME IInv, [Next]_vars PROVE IInv'
  OBVIOUS
<1>1. Shapes'
  BY NextShapes DEF IInv
<1>2. StayAlive /\ FreshSound
  BY DEF IInv
<1>3. CASE UNCHANGED vars
  BY <1>1, <1>2, <1>3, FewerSound DEF vars, IInv
<1>4. ASSUME NEW u \in User, Friends(u) \/ Invitations(u) \/ Members(u) \/ Feeds(u)
      PROVE  StayAlive' /\ FreshSound'
  BY <1>4, FriendsSound, InvitationsSound, MembersSound, FeedsSound
<1>5. ASSUME NEW u \in User, NEW s \in Space, NEW f \in Feed,
             PushMirror(u, s, f) \/ Reconcile(u, s, f)
      PROVE  StayAlive' /\ FreshSound'
  BY <1>5, DevicesSound
<1>6. ASSUME NEW r \in inflight,
             AddSpaceInviteIfMissing(r) \/ JudgeFeed(r) \/ Save(r) \/ Refuse(r)
      PROVE  StayAlive' /\ FreshSound'
  <2>1. Refuse(r) => UNCHANGED rows /\ inflight' \subseteq inflight
    BY DEF Refuse
  <2> QED BY <1>1, <1>2, <1>6, <2>1, FewerSound, FollowUpSound, JudgementSound, SaveSound
<1> QED BY <1>1, <1>3, <1>4, <1>5, <1>6 DEF Next, IInv

(* A save that nothing came before, in a state of IInv.                    *)
LEMMA Saved ==
  ASSUME IInv, NEW r \in inflight, Undisturbed(r)
  PROVE  /\ RowsType /\ r.who \in User /\ r.writes \in SUBSET Write /\ Sound(r)
         /\ \/ r.writes = {} /\ UNCHANGED rows
            \/ rows' = Applied(r.writes)
<1>1. r \in Request /\ Sound(r)
  BY DEF IInv, Shapes, FreshSound, Undisturbed
<1> QED BY <1>1 DEF IInv, Shapes, Request, Undisturbed, Save

(* Nobody's leaving, removal, change of role or account deletion leaves    *)
(* members without an owner.                                               *)
THEOREM OwnersRemain == Spec => NeverOwnerless
<1> DEFINE A == \A r \in inflight : Undisturbed(r) /\ r.what \in {"remove", "role", "vanish"}
                  => \A s \in Room : Owned(s) => Owned(s)'
<1>1. ASSUME IInv, [Next]_vars PROVE A
  <2> SUFFICES ASSUME NEW r \in inflight, Undisturbed(r),
                      r.what \in {"remove", "role", "vanish"}, NEW s \in Room, Owned(s)
               PROVE  Owned(s)'
    OBVIOUS
  <2>1. RowsType /\ r.writes \in SUBSET Write /\ KeepsOwners(r.writes)
    BY <1>1, Saved DEF Sound
  <2>2. CASE rows' = Applied(r.writes)
    BY <2>1, <2>2, OwnersKept
  <2>3. CASE UNCHANGED rows
    BY <2>3 DEF Owned, IsMember, IsOwner, RoleOf, Has
  <2> QED BY <1>1, <2>2, <2>3, Saved
<1>2. IInv /\ [Next]_vars => [A]_vars
  BY <1>1
<1> QED BY <1>2, InitIInv, NextIInv, PTL DEF Spec, NeverOwnerless

(* No undisturbed request leaves or makes a row for somebody without an    *)
(* account.                                                                *)
THEOREM GoneStaysGone == Spec => GoneIsGone
<1> DEFINE A == \A r \in inflight : Undisturbed(r) /\ Ghosts = {} => Ghosts' = {}
<1>1. ASSUME IInv, [Next]_vars PROVE A
  <2> SUFFICES ASSUME NEW r \in inflight, Undisturbed(r), Ghosts = {} PROVE Ghosts' = {}
    OBVIOUS
  <2>1. RowsType /\ r.writes \in SUBSET Write /\ MakesNoGhosts(r.writes)
    BY <1>1, Saved DEF Sound
  <2>2. CASE rows' = Applied(r.writes)
    BY <2>1, <2>2, GhostsBanned
  <2>3. CASE UNCHANGED rows
    BY <2>3 DEF Ghosts, Alive, Has
  <2> QED BY <1>1, <2>2, <2>3, Saved
<1>2. IInv /\ [Next]_vars => [A]_vars
  BY <1>1
<1> QED BY <1>2, InitIInv, NextIInv, PTL DEF Spec, GoneIsGone

(* What a leaver attached is frozen, and stays frozen.                     *)
THEOREM LeaversFreeze == Spec => FrozenAfterLeave
<1> DEFINE A == \A r \in inflight : Undisturbed(r) /\ Unfrozen = {} => Unfrozen' = {}
<1>1. ASSUME IInv, [Next]_vars PROVE A
  <2> SUFFICES ASSUME NEW r \in inflight, Undisturbed(r), Unfrozen = {} PROVE Unfrozen' = {}
    OBVIOUS
  <2>1. RowsType /\ r.writes \in SUBSET Write /\ Freezes(r.writes)
    BY <1>1, Saved DEF Sound
  <2>2. CASE rows' = Applied(r.writes)
    BY <2>1, <2>2, FrozenKept
  <2>3. CASE UNCHANGED rows
    BY <2>3 DEF Unfrozen, Links, IsMember, RoleOf, Has
  <2> QED BY <1>1, <2>2, <2>3, Saved
<1>2. IInv /\ [Next]_vars => [A]_vars
  BY <1>1
<1> QED BY <1>2, InitIInv, NextIInv, PTL DEF Spec, FrozenAfterLeave

(* Where nobody deletes an account, a feed with co-owners stays registered *)
(* and its links stay made by its owner and co-owners, through every       *)
(* handler that no other save crossed: the members' endpoints on a feed's  *)
(* own space, which take any space id, among them.                         *)
THEOREM CoherenceHolds == ASSUME MayVanish = {} PROVE Spec => StaysCoherent
<1> DEFINE A == \A r \in inflight : Undisturbed(r) /\ Coherent => Coherent'
<1>1. ASSUME IInv, [Next]_vars PROVE A
  <2> SUFFICES ASSUME NEW r \in inflight, Undisturbed(r), Coherent PROVE Coherent'
    OBVIOUS
  <2>1. RowsType /\ r.writes \in SUBSET Write /\ KeepsCoherence(r.writes)
    BY <1>1, Saved DEF Sound
  <2>2. CASE rows' = Applied(r.writes)
    BY <2>1, <2>2, CoherenceKept
  <2>3. CASE UNCHANGED rows
    BY <2>3 DEF Coherent, CoOwners, LinksOf, Links, IsFeedOwner, OwnerOf, IsMember, RoleOf,
                Alive, Has
  <2> QED BY <1>1, <2>2, <2>3, Saved
<1>2. IInv /\ [Next]_vars => [A]_vars
  BY <1>1
<1> QED BY <1>2, InitIInv, NextIInv, PTL DEF Spec, StaysCoherent

(* The deletion of a financial account, requested from a coherent state    *)
(* and crossed by no other save, takes the caller's ownership and links,   *)
(* and no one else's.  The caller's membership of the feed stays.          *)
THEOREM OthersKeepTheirs == Spec => RevokesMineOnly
<1> DEFINE A ==
      \A r \in inflight : Undisturbed(r) /\ r.what \in {"leave", "erase"} /\ Coherent =>
        \A f \in {w.key[2] : w \in {w \in r.writes : w.key[1] \in {"feed", "co"}}} :
          /\ ~ IsFeedOwner(f, r.who)' /\ (LinksBy(f, r.who) = {})'
          /\ \A u \in User \ {r.who} : Covers(f, u) =>
               /\ IsFeedOwner(f, u)'
               /\ \A l \in LinksBy(f, u) : l \in DOMAIN rows' /\ rows'[l] = rows[l]
<1>1. ASSUME IInv, [Next]_vars PROVE A
  <2> SUFFICES ASSUME NEW r \in inflight, Undisturbed(r), r.what \in {"leave", "erase"}, Coherent,
                      NEW w \in r.writes, w.key[1] \in {"feed", "co"}, NEW f, f = w.key[2]
               PROVE  /\ ~ IsFeedOwner(f, r.who)' /\ (LinksBy(f, r.who) = {})'
                      /\ \A u \in User \ {r.who} : Covers(f, u) =>
                           /\ IsFeedOwner(f, u)'
                           /\ \A l \in LinksBy(f, u) : l \in DOMAIN rows' /\ rows'[l] = rows[l]
    OBVIOUS
  <2>1. /\ RowsType /\ r.writes \in SUBSET Write /\ RevokesMine(r.who, r.writes)
        /\ r.who \in User /\ rows' = Applied(r.writes)
    BY <1>1, Saved DEF Sound
  <2>2. f \in Feed
    BY <2>1 DEF Write, Key
  <2> QED BY <2>1, <2>2, MineRevoked
<1>2. IInv /\ [Next]_vars => [A]_vars
  BY <1>1
<1> QED BY <1>2, InitIInv, NextIInv, PTL DEF Spec, RevokesMineOnly

(* The log of a space that showed a deleted account gets the op that says  *)
(* so: by the first deletion of that feed there, crossed by no other save. *)
(* The op has one id for good, so a repeat is skipped (FeedDeletion.cs).   *)
THEOREM DeletionsTravel == Spec => DeletionTold
<1> DEFINE A ==
      \A r \in inflight : Undisturbed(r) /\ r.what \in {"leave", "erase"} =>
        \A l \in Links \ DOMAIN rows' :
          LET told == <<"feeddel", l[2], l[3]>>
          IN  Has(<<"space", l[2]>>) /\ ~ Has(told) =>
                /\ Has(told)'
                /\ rows'[<<"mirror", l[2], l[3]>>] = "dead"
<1>1. ASSUME IInv, [Next]_vars PROVE A
  <2> SUFFICES ASSUME NEW r \in inflight, Undisturbed(r), r.what \in {"leave", "erase"},
                      NEW l \in Links \ DOMAIN rows', Has(<<"space", l[2]>>),
                      ~ Has(<<"feeddel", l[2], l[3]>>)
               PROVE  /\ Has(<<"feeddel", l[2], l[3]>>)'
                      /\ rows'[<<"mirror", l[2], l[3]>>] = "dead"
    OBVIOUS
  <2>1. RowsType /\ r.writes \in SUBSET Write /\ Tells(r.writes)
    BY <1>1, Saved DEF Sound
  <2>2. rows' = Applied(r.writes)
    BY <1>1, Saved DEF Links
  <2> QED BY <2>1, <2>2, DeletionsSaid
<1>2. IInv /\ [Next]_vars => [A]_vars
  BY <1>1
<1> QED BY <1>2, InitIInv, NextIInv, PTL DEF Spec, DeletionTold
----------------------------------------------------------------------------

(* What archived links show.                                               *)

(* The write archives a link.                                              *)
Archives(w) == w.op # "del" /\ w.key[1] = "link" /\ w.val.archived

(* A departure is on its own, and caps at the end of the feed links that   *)
(* are not capped yet.                                                     *)
CapsAtTheEnd(r) ==
  r.what = "remove" =>
    /\ inflight = {r}
    /\ \A w \in r.writes :
         /\ w.key[1] # "space"
         /\ Archives(w) => /\ w.key \in DOMAIN rows /\ ~ rows[w.key].archived
                           /\ w.val.cap = LastSeq(w.key[3])

(* The history of a feed goes with the archived links to it, starts empty, *)
(* and otherwise only gets longer.                                         *)
KeepsHistory(r) ==
  /\ \A f \in Feed : Dies(r.writes, <<"space", f>>) =>
       \A l \in LinksOf(f) : rows[l].archived => Dies(r.writes, l)
  /\ \A w \in r.writes : w.op = "add" /\ w.key[1] = "space" => w.val = 0
  /\ r.since # "taken" => \A w \in r.writes : w.op = "set" /\ w.key[1] = "space" =>
       w.key[2] \in r.logs /\ LastSeq(w.key[2]) <= w.val

(* The cap of an archived link lies within the history of its feed.        *)
CapInv ==
  /\ \A l \in Links : rows[l].archived => rows[l].cap <= LastSeq(l[3])
  /\ \A r \in inflight :
       /\ \A w \in r.writes : Archives(w) => r.what = "remove"
       /\ CapsAtTheEnd(r)
       /\ KeepsHistory(r)

(* What is kept in the same tables by another set of requests.             *)
LEMMA SameCaps ==
  ASSUME CapInv, UNCHANGED rows,
         \A r \in inflight' : /\ \A w \in r.writes : Archives(w) => r.what = "remove"
                              /\ CapsAtTheEnd(r)' /\ KeepsHistory(r)
  PROVE  CapInv'
<1>1. (\A l \in Links : rows[l].archived => rows[l].cap <= LastSeq(l[3]))'
  BY DEF CapInv, Links, LastSeq, Has
<1>2. \A r \in inflight' : KeepsHistory(r)'
  BY DEF KeepsHistory, LinksOf, Links, LastSeq, Has, Dies
<1> QED BY <1>1, <1>2 DEF CapInv, Archives

(* A request that archives nothing may be asked.                           *)
LEMMA AskCaps ==
  ASSUME CapInv, "remove" \notin Overlap,
         NEW who, NEW what, what # "remove", NEW W, NEW logs, NEW next,
         Ask(who, what, W, logs, next),
         \A w \in W : ~ Archives(w),
         \A w \in W : w.key[1] = "space" =>
           \/ w.op = "add" /\ w.val = 0
           \/ w.op = "set" /\ w.key[2] \in logs /\ LastSeq(w.key[2]) <= w.val
  PROVE  CapInv'
<1> DEFINE q == Asked(who, what, W, logs, next)
<1>1. inflight' = inflight \cup {q} /\ UNCHANGED rows
  BY DEF Ask, Asked
<1>2. \A r \in inflight : r.what # "remove"
  BY DEF Ask
<1>3. q.what = what /\ q.writes \subseteq W /\ q.logs = logs
  BY Settled DEF Asked
<1> HIDE DEF q
<1>4. ASSUME NEW r \in inflight'
      PROVE  /\ \A w \in r.writes : Archives(w) => r.what = "remove"
             /\ CapsAtTheEnd(r)' /\ KeepsHistory(r)
  <2>1. CASE r \in inflight
    BY <1>2, <2>1 DEF CapInv, CapsAtTheEnd
  <2>2. CASE r = q
    BY <1>3, <2>2 DEF CapsAtTheEnd, KeepsHistory, Dies
  <2> QED BY <1>1, <2>1, <2>2
<1> QED BY <1>1, <1>4, SameCaps

(* Most requests write neither links nor the history of a space.           *)
LEMMA AskOther ==
  ASSUME CapInv, "remove" \notin Overlap,
         NEW who, NEW what, what # "remove", NEW W, NEW logs, NEW next,
         Ask(who, what, W, logs, next),
         \A w \in W : w.key[1] \notin {"link", "space"} \/ (w.op = "del" /\ w.key[1] # "space")
  PROVE  CapInv'
<1>1. \A w \in W : ~ Archives(w) /\ w.key[1] # "space"
  BY DEF Archives
<1> QED BY <1>1, AskCaps

(* What is revived is not archived.                                        *)
LEMMA RevivedActive ==
  ASSUME RowsType, NEW s \in Room, NEW u, NEW w \in Revived(s, u)
  PROVE  ~ Archives(w) /\ w.key[1] # "space"
<1>1. w.key[1] \in {"link", "mirror"}
  BY RevivedWrites
<1>2. CASE w.key[1] = "link"
  <2>1. w \notin MirrorWrites(s, Revivable(s, u))
    <3>1. SUFFICES ASSUME w \in MirrorWrites(s, Revivable(s, u)) PROVE FALSE
      OBVIOUS
    <3>2. PICK l \in Revivable(s, u) : w = Put(<<"mirror", s, l[3]>>, "live")
      BY <3>1 DEF MirrorWrites
    <3> QED BY <1>2, <3>2 DEF Put, Add, Set
  <2>2. PICK l \in Revivable(s, u) : w = Set(l, [rows[l] EXCEPT !.archived = FALSE, !.cap = 0])
    BY <2>1 DEF Revived
  <2>3. rows[l] \in Link
    BY ReadTypes DEF Revivable
  <2> QED BY <1>2, <2>2, <2>3 DEF Archives, Set, Link
<1> QED BY <1>1, <1>2 DEF Archives

(* Friends and invitations archive nothing.                                *)
LEMMA FriendsCap ==
  ASSUME Shapes, CapInv, "remove" \notin Overlap, NEW u \in User, Friends(u) PROVE CapInv'
<1>0. RowsType
  BY DEF Shapes
<1>1. ASSUME NEW v \in User, NEW s \in Room \cup {NoSpace}, NEW role \in Assignable,
             SendFriendRequest(u, v, s, role)
      PROVE  CapInv'
  <2>1. CASE ~ Has(Edge(u, v))
    <3> DEFINE w == Add(Edge(u, v), [by |-> u, status |-> "pending", space |-> s, role |-> role])
    <3>1. Ask(u, "request", {w}, {}, Done)
      BY <1>1, <2>1 DEF SendFriendRequest
    <3>2. w.key = Edge(u, v)
      BY DEF Add
    <3> HIDE DEF w
    <3> QED BY <3>1, <3>2, AskOther DEF Edge
  <2>2. CASE Has(Edge(u, v))
    <3> DEFINE w == Set(Edge(u, v), [rows[Edge(u, v)] EXCEPT !.status = "accepted"])
               next == IF s = NoSpace THEN Done
                       ELSE [kind |-> "invite", space |-> s, to |-> v, role |-> role]
    <3>1. Ask(u, "reciprocate", {w}, {}, next)
      BY <1>1, <2>2 DEF SendFriendRequest
    <3>2. w.key = Edge(u, v)
      BY DEF Set
    <3> HIDE DEF w, next
    <3> QED BY <3>1, <3>2, AskOther DEF Edge
  <2> QED BY <2>1, <2>2
<1>2. ASSUME NEW v \in User, AcceptFriendRequest(u, v) PROVE CapInv'
  <2> DEFINE edge == rows[Edge(u, v)]
             joins == edge.space # NoSpace /\ ~ IsMember(edge.space, u)
             e == Set(Edge(u, v), [edge EXCEPT !.status = "accepted"])
             m == Add(<<"member", edge.space, u>>, edge.role)
             W == {e} \cup IF joins THEN {m} \cup Revived(edge.space, u) ELSE {}
             logs == IF joins THEN LogsOf(edge.space, Revivable(edge.space, u)) ELSE {}
  <2>1. Ask(u, "befriend", W, logs, Done) /\ u # v /\ Has(Edge(u, v))
    BY <1>2 DEF AcceptFriendRequest
  <2>2. edge \in Friendship
    BY <1>0, <2>1, ReadTypes
  <2>3. joins => edge.space \in Room
    BY <2>2 DEF Friendship
  <2>4. e.key[1] = "friend" /\ m.key[1] = "member"
    BY DEF Set, Add, Edge
  <2>5. joins => \A w \in Revived(edge.space, u) : ~ Archives(w) /\ w.key[1] # "space"
    BY <1>0, <2>3, RevivedActive
  <2> HIDE DEF e, m, edge, joins, logs
  <2>6. \A w \in W : ~ Archives(w) /\ w.key[1] # "space"
    BY <2>4, <2>5 DEF Archives
  <2> HIDE DEF W
  <2> QED BY <2>1, <2>6, AskCaps
<1>3. ASSUME NEW v \in User, RemoveFriend(u, v) PROVE CapInv'
  <2>1. \A w \in Del({Edge(u, v)}) : w.key[1] = "friend"
    BY DEF Del, Edge
  <2>2. Ask(u, "unfriend", Del({Edge(u, v)}), {}, Done)
    BY <1>3 DEF RemoveFriend
  <2> QED BY <2>1, <2>2, AskOther
<1> QED BY <1>1, <1>2, <1>3 DEF Friends

(* Invitations archive nothing.                                            *)
LEMMA InvitationsCap ==
  ASSUME Shapes, CapInv, "remove" \notin Overlap, NEW u \in User, Invitations(u) PROVE CapInv'
<1>0. RowsType
  BY DEF Shapes
<1>1. ASSUME NEW s \in Room, NEW v \in User, NEW role \in Assignable,
             SendSpaceInvite(u, s, v, role)
      PROVE  CapInv'
  <2>1. PICK i \in FreshInvite : Ask(u, "invite", {NewInvite(i, s, u, v, role)}, {}, Done)
    BY <1>1 DEF SendSpaceInvite
  <2>2. NewInvite(i, s, u, v, role).key[1] = "invite"
    BY DEF NewInvite, Add
  <2> QED BY <2>1, <2>2, AskOther
<1>2. ASSUME NEW k \in Invites, RevokeInvite(u, k) PROVE CapInv'
  <2>1. \A w \in Del({k}) : w.key[1] = "invite"
    BY DEF Del, Invites
  <2>2. Ask(u, "revoke", Del({k}), {}, Done)
    BY <1>2 DEF RevokeInvite
  <2> QED BY <2>1, <2>2, AskOther
<1>3. ASSUME NEW k \in Invites, NEW yes \in BOOLEAN, RespondToInvite(u, k, yes) PROVE CapInv'
  <2> DEFINE s == rows[k].space
             c == Set(k, [rows[k] EXCEPT !.status = IF yes THEN "accepted" ELSE "declined"])
             m == Add(<<"member", s, u>>, rows[k].role)
  <2>1. c.key[1] = "invite" /\ m.key[1] = "member"
    BY DEF Set, Add, Invites
  <2>2. s \in Room
    BY <1>0, ReadTypes DEF Invitation
  <2>3. CASE yes
    <3>1. Ask(u, "join", {c, m} \cup Revived(s, u), LogsOf(s, Revivable(s, u)), Done)
      BY <1>3, <2>3 DEF RespondToInvite
    <3>2. \A w \in Revived(s, u) : ~ Archives(w) /\ w.key[1] # "space"
      BY <1>0, <2>2, RevivedActive
    <3> DEFINE W == {c, m} \cup Revived(s, u)
               logs == LogsOf(s, Revivable(s, u))
    <3> HIDE DEF c, m, s, logs
    <3>3. \A w \in W : ~ Archives(w) /\ w.key[1] # "space"
      BY <2>1, <3>2 DEF Archives
    <3>4. Ask(u, "join", W, logs, Done)
      BY <3>1 DEF logs
    <3> HIDE DEF W
    <3> QED BY <3>3, <3>4, AskCaps
  <2>4. CASE ~ yes
    <3>1. Ask(u, "decline", {c}, {}, Done)
      BY <1>3, <2>4 DEF RespondToInvite
    <3> HIDE DEF c
    <3> QED BY <2>1, <3>1, AskOther
  <2> QED BY <2>3, <2>4
<1> QED BY <1>1, <1>2, <1>3 DEF Invitations

(* Of what members do, only a departure archives, on its own.              *)
LEMMA MembersCap ==
  ASSUME Shapes, CapInv, "remove" \notin Overlap, MayVanish = {}, NEW u \in User, Members(u)
  PROVE  CapInv'
<1>0. RowsType
  BY DEF Shapes
<1>1. ASSUME NEW s \in Room, NEW v \in User, NEW role, ChangeMemberRole(u, s, v, role)
      PROVE  CapInv'
  <2>1. Ask(u, "role", {Set(<<"member", s, v>>, role)}, {}, Done)
    BY <1>1 DEF ChangeMemberRole
  <2>2. Set(<<"member", s, v>>, role).key[1] = "member"
    BY DEF Set
  <2> QED BY <2>1, <2>2, AskOther
<1>2. ASSUME NEW s \in Room, NEW v \in User, RemoveMember(u, s, v) PROVE CapInv'
  <2> DEFINE W == Departure(s, v)
             logs == LogsOf(s, LeaverLinks(s, v))
  <2>0. PICK q : q = Asked(u, "remove", W, logs, Done)
    OBVIOUS
  <2>1. inflight' = {q} /\ UNCHANGED rows
    <3>1. Ask(u, "remove", W, logs, Done)
      BY <1>2 DEF RemoveMember
    <3> QED BY <2>0, <3>1 DEF Ask, Asked
  <2>2. q.what = "remove" /\ q.writes \subseteq W
    BY <2>0, Settled DEF Asked
  <2>3. ASSUME NEW w \in W
        PROVE  /\ w.key[1] # "space"
               /\ Archives(w) => /\ w.key \in DOMAIN rows /\ ~ rows[w.key].archived
                                 /\ w.val.cap = LastSeq(w.key[3])
    <3>0. s \in Room
      BY DEF Room
    <3>1. w.key[1] \in {"member", "link", "mirror"}
      BY <3>0, <1>0, DepartureWrites
    <3>2. ASSUME Archives(w)
          PROVE  /\ w.key \in DOMAIN rows /\ ~ rows[w.key].archived
                 /\ w.val.cap = LastSeq(w.key[3])
      <4>1. w \notin MirrorWrites(s, LeaverLinks(s, v))
        <5>1. SUFFICES ASSUME w \in MirrorWrites(s, LeaverLinks(s, v)) PROVE FALSE
          OBVIOUS
        <5>2. PICK l \in LeaverLinks(s, v) : w = Put(<<"mirror", s, l[3]>>, "live")
          BY <5>1 DEF MirrorWrites
        <5> QED BY <3>2, <5>2 DEF Put, Add, Set, Archives
      <4>2. w \in Archived(s, v)
        <5>1. w \notin Del({<<"member", s, v>>})
          BY <3>2 DEF Archives, Del
        <5>2. w \notin Promotion(s, v)
          BY <3>2 DEF Archives, Promotion, Set
        <5> QED BY <5>1, <5>2 DEF Departure
      <4>3. PICK l \in LeaverLinks(s, v) :
              w = Set(l, [rows[l] EXCEPT !.archived = TRUE, !.cap = LastSeq(l[3])])
        BY <4>1, <4>2 DEF Archived
      <4>4. l \in Links /\ ~ rows[l].archived /\ rows[l] \in Link
        BY <1>0, ReadTypes DEF LeaverLinks
      <4> QED BY <4>3, <4>4 DEF Set, Links, Link
    <3> QED BY <3>1, <3>2
  <2> HIDE DEF W
  <2>4. CapsAtTheEnd(q)'
    <3>1. \A x : LastSeq(x)' = LastSeq(x)
      BY <2>1 DEF LastSeq, Has
    <3>2. \A w : Archives(w)' <=> Archives(w)
      BY DEF Archives
    <3> QED BY <2>1, <2>2, <2>3, <3>1, <3>2 DEF CapsAtTheEnd
  <2>5. KeepsHistory(q)
    BY <2>2, <2>3 DEF KeepsHistory, Dies
  <2> QED BY <2>1, <2>2, <2>4, <2>5, SameCaps
<1>3. ASSUME NEW s \in Space, FirstPush(u, s) PROVE CapInv'
  <2> DEFINE a == Add(<<"space", s>>, 0)
             b == Add(<<"member", s, u>>, "owner")
  <2>1. Ask(u, "create", {a, b}, {}, Done)
    BY <1>3 DEF FirstPush
  <2>2. a.op = "add" /\ a.val = 0 /\ a.key[1] = "space" /\ b.op = "add" /\ b.key[1] = "member"
    BY DEF Add
  <2> HIDE DEF a, b
  <2> QED BY <2>1, <2>2, AskCaps DEF Archives
<1>4. ~ DeleteMe(u)
  BY DEF DeleteMe
<1> QED BY <1>1, <1>2, <1>3, <1>4 DEF Members

(* Pushes make the history of a feed longer; nothing else done with feeds  *)
(* touches it, or archives.                                                *)
LEMMA FeedsCap ==
  ASSUME Shapes, CapInv, "remove" \notin Overlap, NEW u \in User, Feeds(u) PROVE CapInv'
<1>0. RowsType
  BY DEF Shapes
<1> SUFFICES ASSUME NEW f \in Feed,
                    \/ RegisterFeed(u, f) \/ EnsureIbanFeed(u, f) \/ PushToFeed(u, f)
                    \/ DeleteFeedAccount(u, f)
                    \/ \E s \in Space : Attach(u, s, f) \/ Detach(u, s, f)
             PROVE  CapInv'
  BY DEF Feeds
<1>1. \A w \in OpenFeed(f) \cup JoinFeed(u, f) :
        /\ w.op = "add" /\ w.key[1] \in {"space", "member"}
        /\ w.key[1] = "space" => w.val = 0
  BY DEF OpenFeed, JoinFeed, Add
<1>2. ASSUME NEW what \in {"register", "ensure"}, NEW V, NEW J,
             J \subseteq OpenFeed(f) \cup JoinFeed(u, f),
             \A w \in V : w.key[1] \in {"feed", "co"}, Ask(u, what, V \cup J, {}, Done)
      PROVE  CapInv'
  <2> DEFINE W == V \cup J
  <2>1. \A w \in W : ~ Archives(w) /\ (w.key[1] = "space" => w.op = "add" /\ w.val = 0)
    BY <1>1, <1>2 DEF Archives
  <2>2. Ask(u, what, W, {}, Done)
    BY <1>2
  <2> HIDE DEF W
  <2> QED BY <2>1, <2>2, AskCaps
<1>3. CASE RegisterFeed(u, f)
  <2>1. CASE ~ Has(<<"feed", f>>)
    <3> DEFINE V == {Add(<<"feed", f>>, u)}
               J == OpenFeed(f) \cup JoinFeed(u, f)
    <3>1. V \cup J = {Add(<<"feed", f>>, u)} \cup OpenFeed(f) \cup JoinFeed(u, f)
      OBVIOUS
    <3>2. Ask(u, "register", V \cup J, {}, Done)
      BY <1>3, <2>1, <3>1 DEF RegisterFeed
    <3>3. \A w \in V : w.key[1] \in {"feed", "co"}
      BY DEF Add
    <3> HIDE DEF V
    <3> QED BY <1>2, <3>2, <3>3
  <2>2. CASE Has(<<"feed", f>>)
    <3> DEFINE V == {Set(<<"feed", f>>, u)}
    <3>1. Ask(u, "register", V \cup JoinFeed(u, f), {}, Done)
      BY <1>3, <2>2 DEF RegisterFeed
    <3>2. \A w \in V : w.key[1] \in {"feed", "co"}
      BY DEF Set
    <3> HIDE DEF V
    <3> QED BY <1>2, <3>1, <3>2
  <2> QED BY <2>1, <2>2
<1>4. CASE EnsureIbanFeed(u, f)
  <2> DEFINE V == IF ~ Has(<<"feed", f>>) THEN {Add(<<"feed", f>>, u)}
                  ELSE IF IsFeedOwner(f, u) THEN {} ELSE {Add(<<"co", f, u>>, Bare)}
             J == OpenFeed(f) \cup JoinFeed(u, f)
  <2>1. V \cup J = V \cup OpenFeed(f) \cup JoinFeed(u, f)
    OBVIOUS
  <2>2. Ask(u, "ensure", V \cup J, {}, Done)
    BY <1>4, <2>1 DEF EnsureIbanFeed
  <2>3. \A w \in V : w.key[1] \in {"feed", "co"}
    BY DEF Add
  <2> HIDE DEF V
  <2> QED BY <1>2, <2>2, <2>3
<1>5. CASE PushToFeed(u, f)
  <2> DEFINE w == Set(<<"space", f>>, LastSeq(f) + 1)
  <2>1. Ask(u, "push", {w}, {f}, Done)
    BY <1>5 DEF PushToFeed
  <2>2. w.op = "set" /\ w.key[1] = "space" /\ w.key[2] = f /\ LastSeq(f) <= w.val
    BY <1>0, ReadTypes DEF Set, Room
  <2> HIDE DEF w
  <2> QED BY <2>1, <2>2, AskCaps DEF Archives
<1>6. CASE DeleteFeedAccount(u, f)
  <2> DEFINE W == Del(DeadLinks(f))
             n == [kind |-> "deleteFeed", feed |-> f, owner |-> OwnerOf(f)]
  <2>1. Ask(u, "janitor", W, {}, n)
    BY <1>6 DEF DeleteFeedAccount
  <2>2. \A w \in W : w.op = "del" /\ w.key \in DeadLinks(f)
    BY DEF Del
  <2>3. \A l \in DeadLinks(f) : l[1] = "link"
    BY DEF DeadLinks, LinksOf, Links
  <2> HIDE DEF W, n
  <2> QED BY <2>1, <2>2, <2>3, AskOther
<1>7. ASSUME NEW s \in Space, Attach(u, s, f) PROVE CapInv'
  <2> DEFINE w == Put(<<"link", s, f>>, [by |-> u, archived |-> FALSE, cap |-> 0])
  <2>1. Ask(u, "attach", {w}, {}, Done)
    BY <1>7 DEF Attach
  <2>2. w.key[1] = "link" /\ ~ w.val.archived
    BY DEF Put, Add, Set
  <2> HIDE DEF w
  <2> QED BY <2>1, <2>2, AskCaps DEF Archives
<1>8. ASSUME NEW s \in Space, Detach(u, s, f) PROVE CapInv'
  <2> DEFINE W == Del({<<"link", s, f>>})
  <2>1. Ask(u, "detach", W, {}, Done)
    BY <1>8 DEF Detach
  <2>2. \A w \in W : w.op = "del" /\ w.key[1] = "link"
    BY DEF Del
  <2> HIDE DEF W
  <2> QED BY <2>1, <2>2, AskOther
<1> QED BY <1>3, <1>4, <1>5, <1>6, <1>7, <1>8

(* The second halves of requests archive nothing, and the history of a     *)
(* feed only goes with the links to it.                                    *)
LEMMA SecondHalvesCap ==
  ASSUME Shapes, CapInv, NEW r \in inflight, AddSpaceInviteIfMissing(r) \/ JudgeFeed(r)
  PROVE  CapInv'
<1>0. r \in Request /\ UNCHANGED rows /\ r.what = "saved"
  BY DEF Shapes, AddSpaceInviteIfMissing, JudgeFeed
<1>1. \A p \in inflight : p.what # "remove"
  BY <1>0 DEF CapInv, CapsAtTheEnd
<1>2. ASSUME NEW q, q.what # "remove", \A w \in q.writes : ~ Archives(w), KeepsHistory(q),
             inflight' \subseteq inflight \cup {q}
      PROVE  CapInv'
  <2>1. ASSUME NEW p \in inflight'
        PROVE  /\ \A w \in p.writes : Archives(w) => p.what = "remove"
               /\ CapsAtTheEnd(p)' /\ KeepsHistory(p)
    BY <1>1, <1>2 DEF CapInv, CapsAtTheEnd
  <2> QED BY <1>0, <2>1, SameCaps
<1>3. CASE inflight' = inflight \ {r}
  <2>1. ASSUME NEW p \in inflight'
        PROVE  /\ \A w \in p.writes : Archives(w) => p.what = "remove"
               /\ CapsAtTheEnd(p)' /\ KeepsHistory(p)
    BY <1>1, <1>3 DEF CapInv, CapsAtTheEnd
  <2> QED BY <1>0, <2>1, SameCaps
<1>4. CASE AddSpaceInviteIfMissing(r) /\ inflight' # inflight \ {r}
  <2>1. PICK i \in FreshInvite :
          inflight' = (inflight \ {r}) \cup
            {[r EXCEPT !.what = "invite", !.next = Done, !.writes =
                {NewInvite(i, r.next.space, r.who, r.next.to, r.next.role)}]}
    BY <1>4 DEF AddSpaceInviteIfMissing
  <2> DEFINE w == NewInvite(i, r.next.space, r.who, r.next.to, r.next.role)
             q == [r EXCEPT !.what = "invite", !.next = Done, !.writes = {w}]
  <2>2. inflight' \subseteq inflight \cup {q} /\ w.key[1] = "invite"
    BY <2>1 DEF NewInvite, Add
  <2> HIDE DEF w
  <2>3. q.what = "invite" /\ q.writes = {w}
    BY <1>0 DEF Request
  <2> HIDE DEF q
  <2>4. KeepsHistory(q) /\ \A x \in q.writes : ~ Archives(x)
    BY <2>2, <2>3 DEF KeepsHistory, Archives, Dies
  <2> QED BY <1>2, <2>2, <2>3, <2>4
<1>5. ASSUME NEW what \in {"leave", "erase"}, NEW W, NEW logs,
             inflight' = (inflight \ {r}) \cup
               {[r EXCEPT !.what = what, !.writes = Settle(W), !.logs = logs, !.next = Done]},
             \A w \in W : w.key[1] \in {"link", "space"} => w.op = "del",
             \A f \in Feed : Dies(W, <<"space", f>>) => \A l \in LinksOf(f) : Dies(W, l)
      PROVE  CapInv'
  <2> DEFINE q == [r EXCEPT !.what = what, !.writes = Settle(W), !.logs = logs, !.next = Done]
  <2>1. q.what = what /\ q.writes = Settle(W) /\ inflight' \subseteq inflight \cup {q}
    BY <1>0, <1>5 DEF Request
  <2> HIDE DEF q
  <2>2. \A w \in q.writes : w \in W
    BY <2>1, Settled
  <2>3. \A k : Dies(q.writes, k) <=> Dies(W, k)
    BY <2>1, Settled
  <2>4. KeepsHistory(q) /\ \A x \in q.writes : ~ Archives(x)
    BY <1>5, <2>2, <2>3 DEF KeepsHistory, Archives
  <2> QED BY <1>2, <1>5, <2>1, <2>4
<1>6. CASE JudgeFeed(r) /\ inflight' # inflight \ {r}
  <2> DEFINE f == r.next.feed
             me == r.who
             owner == r.next.owner
  <2>1. CASE Covered(f, me, owner)
    <3>1. PICK next :
            inflight' = (inflight \ {r}) \cup
              {[r EXCEPT !.what = "leave", !.writes = Settle(RemoveMyView(f, me, owner, next)),
                         !.logs = Tombstoned(SpacesOf(LinksBy(f, me)), f), !.next = Done]}
      BY <1>6, <2>1 DEF JudgeFeed
    <3> DEFINE W == RemoveMyView(f, me, owner, next)
               logs == Tombstoned(SpacesOf(LinksBy(f, me)), f)
    <3>2. ASSUME NEW w \in W
          PROVE  w.key[1] # "space" /\ (w.key[1] = "link" => w.op = "del")
      BY ViewWrites DEF LinksBy, LinksOf, Links
    <3> HIDE DEF W, logs
    <3>3. inflight' = (inflight \ {r}) \cup
            {[r EXCEPT !.what = "leave", !.writes = Settle(W), !.logs = logs, !.next = Done]}
      BY <3>1 DEF W, logs
    <3>4. \A w \in W : w.key[1] \in {"link", "space"} => w.op = "del"
      BY <3>2
    <3>5. \A g : ~ Dies(W, <<"space", g>>)
      BY <3>2 DEF Dies
    <3> QED BY <1>5, <3>3, <3>4, <3>5
  <2>2. CASE ~ Covered(f, me, owner)
    <3> DEFINE W == EraseFeed(f, me)
               logs == Tombstoned(SpacesOf(LinksOf(f)), f)
    <3>1. inflight' = (inflight \ {r}) \cup
            {[r EXCEPT !.what = "erase", !.writes = Settle(W), !.logs = logs, !.next = Done]}
      BY <1>6, <2>2 DEF JudgeFeed
    <3>2. ASSUME NEW w \in W
          PROVE  /\ w.key[1] \in {"link", "space"} => w.op = "del"
                 /\ w.key[1] = "space" => w.key = <<"space", f>>
      BY EraseWrites DEF LinksOf, Links
    <3>3. \A l \in LinksOf(f) : Dies(W, l)
      <4>1. Del(LinksOf(f) \cup {<<"co", f, u>> : u \in User} \cup {<<"member", f, u>> : u \in User}
                  \cup {<<"space", f>>, <<"feed", f>>}) \subseteq W
        BY DEF EraseFeed
      <4> HIDE DEF W
      <4> QED BY <4>1, DelKills DEF LinksOf, Links, Has
    <3>4. \A g \in Feed : Dies(W, <<"space", g>>) => g = f
      <4>1. ASSUME NEW g, NEW w \in W, w.key = <<"space", g>> PROVE g = f
        <5>1. w.key = <<"space", f>>
          BY <3>2, <4>1
        <5> QED BY <4>1, <5>1
      <4> HIDE DEF W
      <4> QED BY <4>1 DEF Dies
    <3> HIDE DEF W, logs, f, me, owner
    <3> QED BY <1>5, <3>1, <3>2, <3>3, <3>4
  <2> QED BY <2>1, <2>2
<1> QED BY <1>3, <1>4, <1>6

(* A save that erases no history makes none shorter.                       *)
LEMMA SavedSeq ==
  ASSUME RowsType, NEW W \in SUBSET Write, rows' = Applied(W), NEW x \in Room,
         ~ Dies(W, <<"space", x>>), \A w \in W : Fits(w),
         \A w \in W : w.op = "set" /\ w.key = <<"space", x>> => LastSeq(x) <= w.val
  PROVE  LastSeq(x) <= LastSeq(x)'
<1> DEFINE k == <<"space", x>>
<1>0. LastSeq(x) \in Nat /\ LastSeq(x) = (IF Has(k) THEN rows[k] ELSE 0)
      /\ LastSeq(x)' = (IF Has(k)' THEN rows'[k] ELSE 0) /\ k[1] = "space"
  BY ReadTypes DEF LastSeq
<1> HIDE DEF k
<1>1. CASE Writes(W, k)
  <2>1. PICK w \in W : w.key = k /\ w.op \in {"add", "set"}
    BY <1>1 DEF Writes, Dies, Write, k
  <2>2. Stands(W, k)
    BY <2>1 DEF Stands, Born, Fits, Has, k
  <2>3. Has(k)'
    BY <1>0, <2>2, SavedRow
  <2>4. PICK y \in W : y.key = k /\ y.op # "del" /\ rows'[k] = y.val
    BY <1>1, <2>3, SavedRow
  <2>5. y.val \in Nat
    BY <1>0, <2>4, SharingAssumption DEF Write, Holds
  <2>6. CASE y.op = "set"
    BY <1>0, <2>3, <2>4, <2>6 DEF k
  <2>7. CASE y.op = "add"
    BY <1>0, <2>3, <2>4, <2>5, <2>7 DEF Fits, Has
  <2> QED BY <2>4, <2>6, <2>7 DEF Write
<1>2. CASE ~ Writes(W, k)
  <2>1. Has(k)' <=> Has(k)
    BY <1>0, <1>2, SavedRow DEF Stands, Born, Dies, Writes
  <2>2. Has(k)' => rows'[k] = rows[k]
    BY <1>2, SavedRow
  <2> QED BY <1>0, <2>1, <2>2
<1> QED BY <1>1, <1>2

(* A link archived by a save, and one archived before.                     *)
LEMMA ArchivedSince ==
  ASSUME RowsType, NEW W \in SUBSET Write, rows' = Applied(W),
         NEW l \in DOMAIN rows', l[1] = "link", rows'[l].archived
  PROVE  \/ \E w \in W : Archives(w) /\ w.key = l /\ rows'[l] = w.val
         \/ l \in Links /\ rows'[l] = rows[l] /\ ~ Writes(W, l)
<1>1. Has(l)'
  BY DEF Has
<1>2. CASE Writes(W, l)
  BY <1>1, <1>2, SavedRow DEF Archives
<1>3. CASE ~ Writes(W, l)
  BY <1>1, <1>3, SavedRow DEF Links, Has
<1> QED BY <1>2, <1>3

(* What is left of an overtaken request.                                   *)
LEMMA OvertakenCaps ==
  ASSUME Shapes, NEW R \in SUBSET inflight, NEW logs, NEW q \in Overtake(R, logs)
  PROVE  \E p \in R : /\ q.writes = p.writes /\ q.what = p.what /\ q.logs = p.logs
                      /\ q.since # "taken" => p.since # "taken" /\ p.logs \cap logs = {}
<1>1. PICK p \in R : q = [p EXCEPT !.since = IF @ = "taken" \/ p.logs \cap logs # {}
                                             THEN "taken" ELSE "overtaken"]
  BY DEF Overtake
<1>2. p \in Request
  BY DEF Shapes
<1>3. /\ q.writes = p.writes /\ q.what = p.what /\ q.logs = p.logs
      /\ q.since = IF p.since = "taken" \/ p.logs \cap logs # {} THEN "taken" ELSE "overtaken"
  BY <1>1, <1>2 DEF Request
<1> QED BY <1>3

(* An overtaken request still erases or lengthens histories.               *)
LEMMA OvertakenHistory ==
  ASSUME Shapes, NEW W \in SUBSET Write, rows' = Applied(W), NEW logs,
         NEW p \in inflight, KeepsHistory(p), NEW q, q.writes = p.writes, q.logs = p.logs,
         q.since # "taken" => p.since # "taken" /\ p.logs \cap logs = {},
         \A w \in W : ~ Archives(w),
         \A w \in W : w.key[1] = "space" =>
           \/ w.op = "add" /\ w.val = 0
           \/ w.op = "set" /\ w.key[2] \in logs
           \/ w.op = "del"
  PROVE  KeepsHistory(q)'
<1>0. RowsType /\ p \in Request
  BY DEF Shapes
<1>1. ASSUME NEW f \in Feed, Dies(q.writes, <<"space", f>>),
             NEW l \in DOMAIN rows', l[1] = "link", l[3] = f, rows'[l].archived
      PROVE  Dies(q.writes, l)
  <2>1. l \in Links /\ rows'[l] = rows[l]
    BY <1>0, <1>1, ArchivedSince
  <2>2. l \in LinksOf(f) /\ rows[l].archived
    BY <1>1, <2>1 DEF LinksOf
  <2> QED BY <1>1, <2>2 DEF KeepsHistory
<1>2. ASSUME q.since # "taken", NEW w \in q.writes, w.op = "set", w.key[1] = "space"
      PROVE  w.key[2] \in q.logs /\ LastSeq(w.key[2])' <= w.val
  <2>0. PICK x : x = w.key[2]
    OBVIOUS
  <2>8. PICK k : k = <<"space", x>>
    OBVIOUS
  <2>1. x \in p.logs /\ x \notin logs /\ LastSeq(x) <= w.val
    BY <1>2, <2>0 DEF KeepsHistory
  <2>2. x \in Room /\ w.val \in Nat
    <3>1. w \in Write
      BY <1>0, <1>2 DEF Request
    <3>2. Holds(w.key, w.val) /\ w.key \in Key
      BY <1>2, <3>1 DEF Write
    <3> QED BY <1>2, <2>0, <3>2, SharingAssumption DEF Holds, Key
  <2>3. LastSeq(x) = (IF Has(k) THEN rows[k] ELSE 0)
        /\ LastSeq(x)' = (IF Has(k)' THEN rows'[k] ELSE 0)
        /\ k[1] = "space" /\ k[2] = x
    BY <2>8 DEF LastSeq
  <2>9. SUFFICES LastSeq(x)' <= w.val
    BY <1>2, <2>0, <2>1
  <2>4. CASE ~ Has(k)'
    BY <2>1, <2>2, <2>3, <2>4
  <2>5. CASE Has(k)' /\ Writes(W, k)
    <3>1. PICK y \in W : y.key = k /\ y.op # "del" /\ rows'[k] = y.val
      BY <2>5, SavedRow
    <3>2. y.val = 0
      BY <2>1, <2>3, <3>1
    <3> QED BY <2>2, <2>3, <2>5, <3>1, <3>2
  <2>6. CASE Has(k)' /\ ~ Writes(W, k)
    <3>1. Has(k) /\ rows'[k] = rows[k]
      BY <2>6, SavedRow
    <3> QED BY <2>1, <2>3, <2>6, <3>1
  <2> QED BY <2>4, <2>5, <2>6
<1>3. \A w \in q.writes : w.op = "add" /\ w.key[1] = "space" => w.val = 0
  BY DEF KeepsHistory
<1> QED BY <1>1, <1>2, <1>3 DEF KeepsHistory, LinksOf, Links

(* A save leaves archived links within the history of their feeds.         *)
LEMMA SaveCaps ==
  ASSUME Shapes, CapInv, NEW r \in inflight, Save(r) PROVE CapInv'
<1>0. RowsType /\ r \in Request
  BY DEF Shapes
<1>1. ASSUME NEW q \in Continued(r) PROVE q.what = "saved" /\ q.writes = {}
  BY <1>0, <1>1 DEF Continued, Request
<1>2. ASSUME NEW p \in inflight \ {r} PROVE p.what # "remove"
  BY DEF CapInv, CapsAtTheEnd
<1>3. CASE r.writes = {}
  <2>1. inflight' = Continued(r) \cup (inflight \ {r}) /\ UNCHANGED rows
    BY <1>3 DEF Save
  <2>2. ASSUME NEW q \in inflight'
        PROVE  /\ \A w \in q.writes : Archives(w) => q.what = "remove"
               /\ CapsAtTheEnd(q)' /\ KeepsHistory(q)
    <3>1. CASE q \in Continued(r)
      BY <1>1, <3>1 DEF CapsAtTheEnd, KeepsHistory, Dies
    <3>2. CASE q \in inflight \ {r}
      BY <1>2, <3>2 DEF CapInv, CapsAtTheEnd
    <3> QED BY <2>1, <3>1, <3>2
  <2> QED BY <2>1, <2>2, SameCaps
<1>4. CASE r.writes # {}
  <2> DEFINE W == r.writes
  <2>1. /\ inflight' = Continued(r) \cup Overtake(inflight \ {r}, r.logs)
        /\ rows' = Applied(W) /\ W \in SUBSET Write
        /\ r.since # "taken" /\ \A w \in W : Fits(w)
    BY <1>0, <1>4 DEF Save, Saves, Request
  <2>2. KeepsHistory(r) /\ CapsAtTheEnd(r) /\ \A w \in W : Archives(w) => r.what = "remove"
    BY DEF CapInv
  <2>3. ASSUME NEW f \in Feed, ~ Dies(W, <<"space", f>>) PROVE LastSeq(f) <= LastSeq(f)'
    <3>1. f \in Room
      BY DEF Room
    <3>2. \A w \in W : w.op = "set" /\ w.key = <<"space", f>> => LastSeq(f) <= w.val
      BY <2>1, <2>2 DEF KeepsHistory
    <3> HIDE DEF W
    <3> QED BY <1>0, <2>1, <2>3, <3>1, <3>2, SavedSeq
  <2>4. ASSUME NEW l \in DOMAIN rows', l[1] = "link", rows'[l].archived
        PROVE  rows'[l].cap <= LastSeq(l[3])'
    <3>0. PICK f : f = l[3]
      OBVIOUS
    <3>1. CASE \E w \in W : Archives(w) /\ w.key = l /\ rows'[l] = w.val
      <4>1. PICK w \in W : Archives(w) /\ w.key = l /\ rows'[l] = w.val
        BY <3>1
      <4>2. rows'[l].cap = LastSeq(f) /\ \A x \in W : x.key[1] # "space"
        BY <2>2, <3>0, <4>1 DEF CapsAtTheEnd
      <4>3. f \in Feed
        BY <2>1, <2>4, <3>0, <4>1 DEF Write, Key
      <4>4. ~ Dies(W, <<"space", f>>)
        BY <4>2 DEF Dies
      <4> QED BY <2>3, <3>0, <4>2, <4>3, <4>4
    <3>2. CASE l \in Links /\ rows'[l] = rows[l] /\ ~ Writes(W, l)
      <4>1. rows[l].cap <= LastSeq(f) /\ f \in Feed /\ rows[l].cap \in Nat
        BY <1>0, <2>4, <3>0, <3>2, ReadTypes DEF CapInv, Link
      <4>2. ~ Dies(W, <<"space", f>>)
        <5>1. SUFFICES ASSUME Dies(W, <<"space", f>>) PROVE FALSE
          OBVIOUS
        <5>2. l \in LinksOf(f) /\ rows[l].archived
          BY <2>4, <3>0, <3>2 DEF LinksOf
        <5>3. Dies(W, l)
          BY <2>2, <4>1, <5>1, <5>2 DEF KeepsHistory
        <5> QED BY <3>2, <5>3 DEF Dies, Writes
      <4>3. LastSeq(f) <= LastSeq(f)'
        BY <2>3, <4>1, <4>2
      <4>4. LastSeq(f) \in Nat /\ LastSeq(f)' \in Nat
        <5>1. f \in Room /\ RowsType'
          BY <1>0, <2>1, <4>1, AppliedTyped DEF Room
        <5>2. LastSeq(f)' \in Nat
          BY <5>1, SharingAssumption DEF RowsType, LastSeq, Has, Holds
        <5> QED BY <1>0, <5>1, <5>2, ReadTypes
      <4> QED BY <3>0, <3>2, <4>1, <4>3, <4>4
    <3> HIDE DEF W
    <3> QED BY <1>0, <2>1, <2>4, <3>1, <3>2, ArchivedSince
  <2>5. ASSUME NEW q \in Overtake(inflight \ {r}, r.logs)
        PROVE  /\ \A w \in q.writes : Archives(w) => q.what = "remove"
               /\ CapsAtTheEnd(q)' /\ KeepsHistory(q)'
    <3>1. PICK p \in inflight \ {r} :
            /\ q.writes = p.writes /\ q.what = p.what /\ q.logs = p.logs
            /\ q.since # "taken" => p.since # "taken" /\ p.logs \cap r.logs = {}
      BY OvertakenCaps
    <3>2. q.what # "remove" /\ KeepsHistory(p) /\ \A w \in p.writes : ~ Archives(w)
      BY <1>2, <3>1 DEF CapInv
    <3>3. r.what # "remove"
      BY <2>2, <3>1 DEF CapsAtTheEnd
    <3>4. \A w \in W : /\ ~ Archives(w)
                       /\ w.key[1] = "space" =>
                            \/ w.op = "add" /\ w.val = 0
                            \/ w.op = "set" /\ w.key[2] \in r.logs
                            \/ w.op = "del"
      BY <2>1, <2>2, <3>3 DEF KeepsHistory, Write
    <3> HIDE DEF W
    <3>5. KeepsHistory(q)'
      BY <2>1, <3>1, <3>2, <3>4, OvertakenHistory
    <3> QED BY <3>1, <3>2, <3>5 DEF CapsAtTheEnd
  <2>6. ASSUME NEW q \in inflight'
        PROVE  /\ \A w \in q.writes : Archives(w) => q.what = "remove"
               /\ CapsAtTheEnd(q)' /\ KeepsHistory(q)'
    <3>1. CASE q \in Continued(r)
      BY <1>1, <3>1 DEF CapsAtTheEnd, KeepsHistory, Dies
    <3> QED BY <2>1, <2>5, <3>1
  <2> QED BY <2>4, <2>6 DEF CapInv, Links, Archives
<1> QED BY <1>3, <1>4

(* So does the push of a mirror.                                           *)
LEMMA DevicesCap ==
  ASSUME Shapes, CapInv, NEW u \in User, NEW s \in Space, NEW f \in Feed,
         PushMirror(u, s, f) \/ Reconcile(u, s, f)
  PROVE  CapInv'
<1>0. RowsType
  BY DEF Shapes
<1>1. CASE Reconcile(u, s, f)
  <2>1. UNCHANGED <<rows, inflight>>
    BY <1>1 DEF Reconcile
  <2>2. ASSUME NEW r \in inflight' PROVE CapsAtTheEnd(r)'
    BY <2>1, <2>2 DEF CapInv, CapsAtTheEnd, Archives, LastSeq, Has
  <2> QED BY <2>1, <2>2, SameCaps DEF CapInv
<1>2. CASE PushMirror(u, s, f)
  <2>1. PICK w : /\ rows' = Applied({w}) /\ inflight' = Overtake(inflight, {s})
                 /\ w = Put(<<"mirror", s, f>>, due[<<s, f>>])
    BY <1>2 DEF PushMirror
  <2>2. w.key = <<"mirror", s, f>> /\ w.key[1] = "mirror" /\ w.op # "del"
    BY <2>1 DEF Put, Add, Set
  <2>3. {w} \in SUBSET Write
    <3>1. <<"mirror", s, f>> \in Key /\ due[<<s, f>>] \in {"live", "dead"}
      BY <1>2 DEF PushMirror, Shapes, Key
    <3> QED BY <1>0, <2>1, <3>1, WritesTyped DEF Holds
  <2>4. ASSUME NEW k, k[1] \in {"link", "space"}
        PROVE  /\ Has(k)' <=> Has(k)
               /\ Has(k) => rows'[k] = rows[k]
    <3>1. ~ Writes({w}, k)
      BY <2>2, <2>4 DEF Writes
    <3>2. Stands({w}, k) <=> Has(k)
      BY <3>1 DEF Stands, Born, Dies, Writes
    <3> QED BY <2>1, <2>4, <3>1, <3>2, SavedRow
  <2>5. ASSUME NEW x PROVE LastSeq(x)' = LastSeq(x)
    BY <2>4 DEF LastSeq
  <2>6. ASSUME NEW l \in DOMAIN rows', l[1] = "link", rows'[l].archived
        PROVE  rows'[l].cap <= LastSeq(l[3])'
    BY <2>4, <2>5, <2>6 DEF CapInv, Links, Has
  <2>7. ASSUME NEW q \in inflight'
        PROVE  /\ \A w1 \in q.writes : Archives(w1) => q.what = "remove"
               /\ CapsAtTheEnd(q)' /\ KeepsHistory(q)'
    <3>1. PICK p \in inflight :
            /\ q.writes = p.writes /\ q.what = p.what /\ q.logs = p.logs
            /\ q.since # "taken" => p.since # "taken" /\ p.logs \cap {s} = {}
      BY <2>1, OvertakenCaps
    <3>2. KeepsHistory(p) /\ CapsAtTheEnd(p) /\ \A y \in p.writes : Archives(y) => p.what = "remove"
      BY DEF CapInv
    <3>3. KeepsHistory(q)'
      <4>1. ASSUME NEW g \in Feed, Dies(q.writes, <<"space", g>>),
                   NEW l \in DOMAIN rows', l[1] = "link", l[3] = g, rows'[l].archived
            PROVE  Dies(q.writes, l)
        <5>1. l \in LinksOf(g) /\ rows[l].archived
          BY <2>4, <4>1 DEF LinksOf, Links, Has
        <5> QED BY <3>1, <3>2, <4>1, <5>1 DEF KeepsHistory
      <4>2. ASSUME q.since # "taken", NEW y \in q.writes, y.op = "set", y.key[1] = "space"
            PROVE  y.key[2] \in q.logs /\ LastSeq(y.key[2])' <= y.val
        BY <2>5, <3>1, <3>2, <4>2 DEF KeepsHistory
      <4>3. \A y \in q.writes : y.op = "add" /\ y.key[1] = "space" => y.val = 0
        BY <3>1, <3>2 DEF KeepsHistory
      <4> QED BY <4>1, <4>2, <4>3 DEF KeepsHistory, LinksOf, Links
    <3>4. CapsAtTheEnd(q)'
      <4>1. ASSUME q.what = "remove" PROVE inflight' = {q}
        <5>1. inflight = {p} /\ p \in Request
          BY <3>1, <3>2, <4>1 DEF CapsAtTheEnd, Shapes
        <5>2. \A x \in inflight' : x = q
          BY <2>1, <2>7, <5>1 DEF Overtake
        <5> QED BY <2>7, <5>2
      <4>2. ASSUME q.what = "remove", NEW y \in q.writes
            PROVE  /\ y.key[1] # "space"
                   /\ Archives(y) => /\ y.key \in DOMAIN rows' /\ ~ rows'[y.key].archived
                                     /\ y.val.cap = LastSeq(y.key[3])'
        <5>1. y.key[1] # "space"
          BY <3>1, <3>2, <4>2 DEF CapsAtTheEnd
        <5>2. ASSUME Archives(y)
              PROVE  /\ y.key \in DOMAIN rows' /\ ~ rows'[y.key].archived
                     /\ y.val.cap = LastSeq(y.key[3])'
          <6>1. /\ y.key \in DOMAIN rows /\ ~ rows[y.key].archived
                /\ y.val.cap = LastSeq(y.key[3]) /\ y.key[1] = "link"
            BY <3>1, <3>2, <4>2, <5>2 DEF CapsAtTheEnd, Archives
          <6> QED BY <2>4, <2>5, <6>1 DEF Has
        <5> QED BY <5>1, <5>2
      <4> QED BY <4>1, <4>2 DEF CapsAtTheEnd, Archives
    <3> QED BY <3>1, <3>2, <3>3, <3>4
  <2> QED BY <2>6, <2>7 DEF CapInv, Links, Archives
<1> QED BY <1>1, <1>2

(* CapInv holds, where nobody vanishes and departures do not overlap.      *)
LEMMA NextCaps ==
  ASSUME MayVanish = {}, "remove" \notin Overlap
  PROVE  Shapes /\ CapInv /\ [Next]_vars => CapInv'
<1> SUFFICES ASSUME Shapes, CapInv, [Next]_vars PROVE CapInv'
  OBVIOUS
<1>1. ASSUME UNCHANGED <<rows, inflight>> PROVE CapInv'
  <2>1. ASSUME NEW r \in inflight' PROVE CapsAtTheEnd(r)'
    BY <1>1, <2>1 DEF CapInv, CapsAtTheEnd, Archives, LastSeq, Has
  <2> QED BY <1>1, <2>1, SameCaps DEF CapInv
<1>2. ASSUME NEW u \in User, Friends(u) \/ Invitations(u) \/ Members(u) \/ Feeds(u)
      PROVE  CapInv'
  BY <1>2, FriendsCap, InvitationsCap, MembersCap, FeedsCap
<1>3. ASSUME NEW r \in inflight, Refuse(r) PROVE CapInv'
  <2>1. UNCHANGED rows /\ inflight' = inflight \ {r}
    BY <1>3 DEF Refuse
  <2>2. ASSUME NEW p \in inflight' PROVE CapsAtTheEnd(p)'
    BY <2>1, <2>2 DEF CapInv, CapsAtTheEnd
  <2> QED BY <2>1, <2>2, SameCaps DEF CapInv
<1> QED BY <1>1, <1>2, <1>3, DevicesCap, SecondHalvesCap, SaveCaps DEF Next, vars

(* Handlers only read; saves and the devices' pushes change the tables.    *)
LEMMA OnlySavesWrite ==
  ASSUME [Next]_vars
  PROVE  \/ UNCHANGED rows
         \/ \E r \in inflight : Save(r) /\ r.writes # {}
         \/ \E u \in User, s \in Space, f \in Feed : PushMirror(u, s, f)
<1>1. ASSUME NEW u \in User, Friends(u) PROVE UNCHANGED rows
  BY <1>1 DEF Friends, SendFriendRequest, AcceptFriendRequest, RemoveFriend, Ask
<1>2. ASSUME NEW u \in User, Invitations(u) PROVE UNCHANGED rows
  BY <1>2 DEF Invitations, SendSpaceInvite, RevokeInvite, RespondToInvite, Ask
<1>3. ASSUME NEW u \in User, Members(u) PROVE UNCHANGED rows
  BY <1>3 DEF Members, ChangeMemberRole, RemoveMember, FirstPush, DeleteMe, Ask
<1>4. ASSUME NEW u \in User, Feeds(u) PROVE UNCHANGED rows
  BY <1>4 DEF Feeds, RegisterFeed, EnsureIbanFeed, PushToFeed, DeleteFeedAccount, Attach,
              Detach, Ask
<1>5. ASSUME NEW r \in inflight,
             AddSpaceInviteIfMissing(r) \/ JudgeFeed(r) \/ Save(r) \/ Refuse(r)
      PROVE  UNCHANGED rows \/ (Save(r) /\ r.writes # {})
  BY <1>5 DEF AddSpaceInviteIfMissing, JudgeFeed, Save, Refuse
<1>6. ASSUME NEW u \in User, NEW s \in Space, NEW f \in Feed, Reconcile(u, s, f)
      PROVE  UNCHANGED rows
  BY <1>6 DEF Reconcile
<1> QED BY <1>1, <1>2, <1>3, <1>4, <1>5, <1>6 DEF Next, vars

(* A step leaves what an archived link shows.                              *)
LEMMA NothingNewer ==
  ASSUME Shapes, CapInv, NEW W \in SUBSET Write, rows' = Applied(W),
         \A w \in W : Archives(w) => w.key \in DOMAIN rows /\ ~ rows[w.key].archived,
         NEW l \in Links, l \in DOMAIN rows', rows[l].archived, rows'[l].archived
  PROVE  Visible(l)' <= Visible(l)
<1>0. RowsType /\ RowsType' /\ l[1] = "link"
  BY AppliedTyped DEF Shapes, Links
<1>1. rows'[l] = rows[l]
  BY <1>0, ArchivedSince
<1>2. rows[l].cap <= LastSeq(l[3]) /\ rows[l].cap \in Nat /\ l[3] \in Feed
  BY <1>0, ReadTypes DEF CapInv, Link
<1>3. LastSeq(l[3]) \in Nat /\ LastSeq(l[3])' \in Nat
  <2>1. l[3] \in Room
    BY <1>2 DEF Room
  <2>2. LastSeq(l[3])' \in Nat
    BY <1>0, <2>1, SharingAssumption DEF RowsType, LastSeq, Has, Holds
  <2> QED BY <1>0, <2>1, <2>2, ReadTypes
<1> QED BY <1>1, <1>2, <1>3 DEF Visible

(* Where nobody deletes an account and departures overlap nothing, an      *)
(* archived link shows nothing new, whatever its feed receives.            *)
THEOREM ArchivesAreClosed ==
  ASSUME MayVanish = {}, "remove" \notin Overlap PROVE Spec => NothingNewWhenArchived
<1> DEFINE A == \A l \in Links : l \in DOMAIN rows' /\ rows[l].archived /\ rows'[l].archived
                  => Visible(l)' <= Visible(l)
<1>1. Init => Shapes /\ CapInv
  <2> SUFFICES ASSUME Init PROVE Shapes /\ CapInv
    OBVIOUS
  <2>1. Links = {} /\ inflight = {}
    BY DEF Init, Links
  <2> QED BY <2>1, InitShapes DEF CapInv
<1>2. Shapes /\ CapInv /\ [Next]_vars => (Shapes /\ CapInv)'
  BY NextShapes, NextCaps
<1>3. ASSUME Shapes, CapInv, [Next]_vars PROVE A
  <2> SUFFICES ASSUME NEW l \in Links, l \in DOMAIN rows', rows[l].archived, rows'[l].archived
               PROVE  Visible(l)' <= Visible(l)
    OBVIOUS
  <2>0. RowsType
    BY <1>3 DEF Shapes
  <2>1. CASE UNCHANGED rows
    <3>1. LastSeq(l[3]) \in Nat /\ rows[l].cap \in Nat
      BY <2>0, ReadTypes DEF Link, Room
    <3> QED BY <2>1, <3>1 DEF Visible, LastSeq, Has
  <2>2. ASSUME NEW r \in inflight, Save(r), r.writes # {} PROVE Visible(l)' <= Visible(l)
    <3>1. rows' = Applied(r.writes) /\ r.writes \in SUBSET Write
      BY <1>3, <2>2 DEF Save, Shapes, Request
    <3>2. \A w \in r.writes : Archives(w) => w.key \in DOMAIN rows /\ ~ rows[w.key].archived
      BY <1>3 DEF CapInv, CapsAtTheEnd
    <3> QED BY <1>3, <3>1, <3>2, NothingNewer
  <2>3. ASSUME NEW u \in User, NEW s \in Space, NEW f \in Feed, PushMirror(u, s, f)
        PROVE  Visible(l)' <= Visible(l)
    <3>1. PICK w : rows' = Applied({w}) /\ w = Put(<<"mirror", s, f>>, due[<<s, f>>])
      BY <2>3 DEF PushMirror
    <3>2. ~ Archives(w)
      BY <3>1 DEF Archives, Put, Add, Set
    <3>3. {w} \in SUBSET Write
      <4>1. <<"mirror", s, f>> \in Key /\ due[<<s, f>>] \in {"live", "dead"}
        BY <1>3, <2>3 DEF PushMirror, Shapes, Key
      <4> QED BY <2>0, <3>1, <4>1, WritesTyped DEF Holds
    <3> QED BY <1>3, <3>1, <3>2, <3>3, NothingNewer
  <2>4. \/ UNCHANGED rows
        \/ \E r \in inflight : Save(r) /\ r.writes # {}
        \/ \E u \in User, s \in Space, f \in Feed : PushMirror(u, s, f)
    BY <1>3, OnlySavesWrite
  <2> QED BY <2>1, <2>2, <2>3, <2>4
<1>4. Shapes /\ CapInv /\ [Next]_vars => [A]_vars
  BY <1>3
<1> QED BY <1>1, <1>2, <1>4, PTL DEF Spec, NothingNewWhenArchived
=============================================================================
