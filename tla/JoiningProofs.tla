----------------------------- MODULE JoiningProofs -----------------------------
(***************************************************************************)
(* Theorems about Joining for all its constants, checked by TLAPS.         *)
(*                                                                         *)
(* As long as no links or requests of pages overlap and no member is read  *)
(* before it is set, one thing at most is under way besides the requests   *)
(* for members, and what deletions are due come before its answer: the     *)
(* answer of a link's request finds the one object that waits for it, that *)
(* of a page's finds none.                                                 *)
(***************************************************************************)
EXTENDS Joining, SequenceTheorems, FiniteSetTheorems, TLAPS

-----------------------------------------------------------------------------
(* Lists and finite sets. *)

(* What SubSeq cuts out of a list: a list, element by element. *)
LEMMA PartOfList ==
  ASSUME NEW S, NEW s \in Seq(S), NEW m \in 1..(Len(s) + 1), NEW n \in 0..Len(s), m <= n + 1
  PROVE  /\ SubSeq(s, m, n) \in Seq(S) /\ Len(SubSeq(s, m, n)) = n - m + 1
         /\ \A k \in 1..(n - m + 1) : SubSeq(s, m, n)[k] = s[m + k - 1]
<1>1. \A k \in m..n : s[k] \in S
  BY ElementOfSeq
<1> QED BY <1>1, SubSeqProperties

(* RemoveAt keeps the elements before i and moves the others down by one. *)
LEMMA RemoveAtProperties ==
  ASSUME NEW S, NEW s \in Seq(S), NEW i \in 1..Len(s)
  PROVE  /\ RemoveAt(s, i) \in Seq(S)
         /\ Len(RemoveAt(s, i)) = Len(s) - 1
         /\ \A j \in 1..(Len(s) - 1) :
              RemoveAt(s, i)[j] = IF j < i THEN s[j] ELSE s[j + 1]
<1> DEFINE a == SubSeq(s, 1, i - 1)
           b == SubSeq(s, i + 1, Len(s))
<1>1. PICK n \in Nat : n = Len(s)
  BY LenProperties
<1>2. /\ a \in Seq(S) /\ Len(a) = i - 1 /\ \A k \in 1..(i - 1) : a[k] = s[1 + k - 1]
      /\ b \in Seq(S) /\ Len(b) = n - (i + 1) + 1
      /\ \A k \in 1..(n - (i + 1) + 1) : b[k] = s[(i + 1) + k - 1]
  BY <1>1, PartOfList
<1>3. RemoveAt(s, i) = a \o b
  BY DEF RemoveAt
<1> HIDE DEF a, b
<1>4. /\ a \o b \in Seq(S) /\ Len(a \o b) = n - 1
      /\ \A k \in 1..(n - 1) : (a \o b)[k] = IF k <= i - 1 THEN a[k] ELSE b[k - (i - 1)]
  BY <1>1, <1>2, ConcatProperties
<1> QED BY <1>1, <1>2, <1>3, <1>4

(* SetToSeq puts every element of a finite set somewhere. *)
LEMMA SetToSeqProperties ==
  ASSUME NEW S, IsFiniteSet(S)
  PROVE  /\ SetToSeq(S) \in Seq(S)
         /\ Len(SetToSeq(S)) = Cardinality(S)
         /\ \A x \in S : \E i \in 1..Cardinality(S) : SetToSeq(S)[i] = x
<1> DEFINE n == Cardinality(S)
<1>1. n \in Nat /\ IsFiniteSet(1..n) /\ Cardinality(1..n) = n
  BY FS_CardinalityType, FS_Interval
<1>2. \E f \in [1..n -> S] : IsInjective(f)
  <2>1. PICK f \in Bijection(1..n, S) : TRUE
    BY FS_CardinalityType DEF ExistsBijection
  <2> QED BY <2>1 DEF Bijection, Injection, IsInjective
<1>3. SetToSeq(S) \in [1..n -> S] /\ IsInjective(SetToSeq(S))
  BY <1>2 DEF SetToSeq
<1> DEFINE s == SetToSeq(S)
<1> HIDE DEF s, n
<1>4. s \in Injection(1..n, S)
  BY <1>3 DEF s, Injection, IsInjective
<1>5. s \in Surjection(1..n, S)
  BY <1>1, <1>4, FS_Injection DEF n
<1> QED BY <1>1, <1>3, <1>5 DEF s, n, Surjection

(* The elements of a finite set, each changed by f. *)
LEMMA ImageFinite ==
  ASSUME NEW S, IsFiniteSet(S), NEW f
  PROVE  IsFiniteSet({f[x] : x \in S})
<1> DEFINE T == {f[x] : x \in S}
           g == [x \in S |-> f[x]]
<1>1. g \in Surjection(S, T)
  BY DEF Surjection
<1> HIDE DEF g, T
<1>2. IsFiniteSet(T)
  BY <1>1, FS_Surjection
<1> QED BY <1>2 DEF T

Extras == {"JoinManager", "UsernameResolver", "ChannelInfoProvider"}

\* Invitations are asked for by the manager, names by resolvers, and full infos
\* are those of supergroups.
Fits(x, t) ==
  /\ x = "JoinManager" => t \in Links
  /\ x = "UsernameResolver" => t \in Names
  /\ x = "ChannelInfoProvider" => TypeOf[t] = "Supergroup"

Asks == {r \in [extra : Extras, of : Titles] : Fits(r.extra, r.of)}

\* What is in queue.
Deletion == [kind : {"delete"}, n : Nat]
Failure  == {Error(r.extra, r.of, FALSE) : r \in Asks}
Untold   == {Error("ChannelInfoProvider", t, TRUE) : t \in Titles}
Success  == {Event(KindOfAnswer[r.extra], r.of) : r \in Asks}
Delivery == Deletion \cup Failure \cup Untold \cup Success

Resolver(c) == [n : 1..c, name : Names, type : ChatTypes \cup {"none"}, failed : BOOLEAN]
Provider(c) == [n : 1..c, chat : Titles, failed : BOOLEAN]

Types ==
  /\ ready \in BOOLEAN
  /\ asked \in Seq(Asks)
  /\ queue \in Seq(Delivery)
  /\ members \in [Titles -> Nat]
  /\ m_url \in AllUrls \cup {NoUrl}
  /\ connected \in BOOLEAN
  /\ connected => m_url # NoUrl
  /\ created \in Nat
  /\ resolvers \subseteq Resolver(created) /\ IsFiniteSet(resolvers)
  /\ providers \subseteq Provider(created) /\ IsFiniteSet(providers)
  /\ \A o, p \in resolvers \cup providers : o.n = p.n => o = p
  /\ told \in [signal : Signals, title : {0} \cup Titles, url : AllUrls \cup {NoUrl}]
  /\ opened \in [Titles -> Nat] /\ shown \in [Titles -> Nat]
  /\ pageAsks \in Nat
  /\ trouble \subseteq {"overlap", "memory", "silent"}

\* A request, or the event that answers it.
Carries(e, x, t) ==
  \/ e.kind = KindOfAnswer[x] /\ e.of = t
  \/ e.kind = "error" /\ ~e.ofMembers /\ e.extra = x /\ e.of = t
Pending(x, t) ==
  \/ \E i \in 1..Len(asked) : asked[i] = Request(x, t)
  \/ \E i \in 1..Len(queue) : Carries(queue[i], x, t)

Doomed(o) == \E i \in 1..Len(queue) : queue[i].kind = "delete" /\ queue[i].n = o.n
AllIdle == \A i \in 1..Len(queue) : Idle(queue[i])

\* One thing is under way at most, and behind the deletions that were due.
Alone ==
  /\ Len(asked) <= 1
  /\ \A i \in 1..Len(queue) : ~Idle(queue[i]) =>
       asked = <<>> /\ \A j \in 1..Len(queue) : j > i => Idle(queue[j]) /\ queue[j].kind # "delete"
  /\ connected => asked = <<>> /\ AllIdle

\* The object that waits for it is the only one that is not doomed.
Awaited ==
  /\ \A r \in resolvers : Doomed(r) \/ /\ Pending("UsernameResolver", r.name)
                                       /\ r.type # TypeOf[r.name] /\ ~r.failed
  /\ \A p \in providers : Doomed(p) \/ (Pending("ChannelInfoProvider", p.chat) /\ ~p.failed)
  /\ \A o, p \in resolvers \cup providers : Doomed(o) \/ Doomed(p) \/ o = p

Waiting(t) ==
  \/ \E r \in resolvers : ~Doomed(r) /\ r.name = t
  \/ \E p \in providers : ~Doomed(p) /\ p.chat = t

\* A link is; what a page asks for is not.
UnderWay(t) == Pending("JoinManager", t) \/ Waiting(t) \/ (connected /\ m_url.of = t)

Tallied ==
  \A t \in Titles : shown[t] <= opened[t] /\ (UnderWay(t) => shown[t] < opened[t])

Spelt ==
  /\ \A t \in Titles : Pending("JoinManager", t) => m_url = Url(t, "https")
  /\ told.signal = "inviteLinkReady" => told.url = Url(told.title, "https")

Orderly == Alone /\ Awaited /\ Tallied /\ Spelt

Inv == Types /\ (trouble = {} => Orderly)

-----------------------------------------------------------------------------
(* Types. *)

LEMMA DeliveryFacts ==
  ASSUME NEW e \in Delivery
  PROVE  /\ e.kind \in {"delete", "error", "chatInviteLinkInfo", "chat", "supergroupFullInfo"}
         /\ e.kind = "delete" => e.n \in Nat
         /\ e.kind = "error" => e.extra \in Extras /\ e.ofMembers \in BOOLEAN
         /\ e.kind # "delete" => e.of \in Titles
         /\ e.kind = "chatInviteLinkInfo" => e.of \in Links
         /\ e.kind = "chat" => e.of \in Names
         /\ e.kind = "supergroupFullInfo" => TypeOf[e.of] = "Supergroup"
<1>1. CASE e \in Deletion
  BY <1>1 DEF Deletion
<1>2. CASE e \in Failure
  <2>1. PICK r \in Asks : e = Error(r.extra, r.of, FALSE)
    BY <1>2 DEF Failure
  <2>2. e.kind = "error" /\ e.extra = r.extra /\ e.of = r.of /\ e.ofMembers = FALSE
    BY <2>1 DEF Error
  <2> QED BY <2>2 DEF Asks
<1>3. CASE e \in Untold
  <2>1. PICK t \in Titles : e = Error("ChannelInfoProvider", t, TRUE)
    BY <1>3 DEF Untold
  <2>2. e.kind = "error" /\ e.extra = "ChannelInfoProvider" /\ e.of = t /\ e.ofMembers = TRUE
    BY <2>1 DEF Error
  <2> QED BY <2>2 DEF Extras
<1>4. CASE e \in Success
  <2>1. PICK r \in Asks : e = Event(KindOfAnswer[r.extra], r.of)
    BY <1>4 DEF Success
  <2> QED BY <2>1 DEF Event, Asks, Extras, Fits, KindOfAnswer
<1> QED BY <1>1, <1>2, <1>3, <1>4 DEF Delivery

\* An event is about one request.
LEMMA CarriesFacts ==
  ASSUME NEW e \in Delivery
  PROVE  /\ \A x \in Extras : \A t : Carries(e, x, t) =>
              /\ e.kind # "delete" /\ ~Idle(e) /\ e.of = t
              /\ e.kind = "chatInviteLinkInfo" => x = "JoinManager"
              /\ e.kind = "chat" => x = "UsernameResolver"
              /\ e.kind = "supergroupFullInfo" => x = "ChannelInfoProvider"
              /\ e.kind = "error" => x = e.extra
         /\ e.kind = "chatInviteLinkInfo" => Carries(e, "JoinManager", e.of)
         /\ e.kind = "chat" => Carries(e, "UsernameResolver", e.of)
         /\ e.kind = "supergroupFullInfo" => Carries(e, "ChannelInfoProvider", e.of)
         /\ e.kind = "error" /\ ~e.ofMembers => Carries(e, e.extra, e.of)
BY DEF Delivery, Deletion, Failure, Untold, Success, Error, Event, Asks, Extras, Fits,
       KindOfAnswer, Carries, Idle

LEMMA LinksAndNames ==
  /\ Titles = Names \cup Links /\ Titles \subseteq Nat \ {0} /\ Names \cap Links = {}
  /\ \A t \in Names : TypeOf[t] \in {"Private", "Supergroup"}
  /\ \A t \in Links : TypeOf[t] \in {"BasicGroup", "Supergroup", "NoAccess"}
BY TitlesAssumption DEF Titles, ChatTypes

LEMMA UrlFacts ==
  /\ NoUrl \notin AllUrls /\ OtherUrl \in AllUrls /\ OtherUrl.of \notin Titles
  /\ NoUrl.of \notin Titles
  /\ \A url \in AllUrls : url # OtherUrl => url.of \in Titles
  /\ \A t \in Titles : Url(t, "https") \in AllUrls /\ Url(t, "https") # OtherUrl
<1>1. 0 \notin Titles
  BY LinksAndNames
<1>2. /\ NoUrl.of = 0 /\ OtherUrl.of = 0 /\ NoUrl.form = "none" /\ OtherUrl.form = "other"
      /\ \A t \in Titles, form \in Forms : Url(t, form).of = t
  BY DEF NoUrl, OtherUrl, Url
<1>3. "https" \in Forms
  BY DEF Forms
<1>4. NoUrl # OtherUrl
  BY <1>2
<1>5. ASSUME NEW url \in AllUrls
      PROVE  url = OtherUrl \/ \E t \in Titles, form \in Forms : url = Url(t, form)
  BY DEF AllUrls
<1>6. NoUrl \notin AllUrls
  BY <1>1, <1>2, <1>4, <1>5
<1>7. \A t \in Titles : Url(t, "https") \in AllUrls /\ Url(t, "https") # OtherUrl
  BY <1>1, <1>2, <1>3 DEF AllUrls
<1>8. OtherUrl \in AllUrls
  BY DEF AllUrls
<1> QED BY <1>1, <1>2, <1>5, <1>6, <1>7, <1>8

\* Numbers made later are greater.
LEMMA ObjectsGrow ==
  ASSUME NEW c \in Nat, NEW d \in Nat, c <= d
  PROVE  Resolver(c) \subseteq Resolver(d) /\ Provider(c) \subseteq Provider(d)
BY DEF Resolver, Provider

\* One request more.
LEMMA AskFacts ==
  ASSUME Types, NEW x \in Extras, NEW t \in Titles, Fits(x, t),
         asked' = Append(asked, Request(x, t))
  PROVE  asked' \in Seq(Asks)
<1>1. Request(x, t) \in Asks
  BY DEF Request, Asks
<1> QED BY <1>1, AppendProperties DEF Types

\* What a URL leads to.
LEMMA ParseFacts ==
  ASSUME NEW url \in AllUrls, parseUrl(url)
  PROVE  \/ /\ url = OtherUrl /\ m_url' = url
            /\ UNCHANGED <<asked, resolvers, providers, created>>
         \/ \E t \in Names :
              /\ url # OtherUrl /\ url.of = t /\ m_url' = url /\ resolveName(t)
         \/ \E t \in Links :
              /\ url # OtherUrl /\ url.of = t /\ m_url' = Url(t, "https")
              /\ asked' = Append(asked, Request("JoinManager", t))
              /\ UNCHANGED <<resolvers, providers, created>>
<1>1. CASE url = OtherUrl
  BY <1>1 DEF parseUrl, objects
<1>2. CASE url # OtherUrl /\ url.of \in Names
  BY <1>2 DEF parseUrl
<1>3. CASE url # OtherUrl /\ url.of \notin Names
  <2>1. url.of \in Links
    BY <1>3, UrlFacts, LinksAndNames
  <2> QED BY <1>3, <2>1 DEF parseUrl, checkChatInviteLink, objects
<1> QED BY <1>1, <1>2, <1>3

LEMMA ParseTypes ==
  ASSUME Types, NEW url \in AllUrls, parseUrl(url)
  PROVE  /\ m_url' \in AllUrls
         /\ asked' \in Seq(Asks)
         /\ created' \in Nat
         /\ resolvers' \subseteq Resolver(created') /\ IsFiniteSet(resolvers')
         /\ providers' \subseteq Provider(created') /\ IsFiniteSet(providers')
         /\ \A o, p \in resolvers' \cup providers' : o.n = p.n => o = p
<1>1. ASSUME NEW t \in Names, m_url' = url, resolveName(t)
      PROVE  /\ m_url' \in AllUrls
             /\ asked' \in Seq(Asks)
             /\ created' \in Nat
             /\ resolvers' \subseteq Resolver(created') /\ IsFiniteSet(resolvers')
             /\ providers' \subseteq Provider(created') /\ IsFiniteSet(providers')
             /\ \A o, p \in resolvers' \cup providers' : o.n = p.n => o = p
  <2>1. /\ asked' = Append(asked, Request("UsernameResolver", t))
        /\ created' = created + 1
        /\ UNCHANGED providers
    BY <1>1 DEF resolveName
  <2>2. PICK type \in ChatTypes \cup {"none"} :
          resolvers' = resolvers \cup
            {[n |-> created + 1, name |-> t, type |-> type, failed |-> FALSE]}
    BY <1>1 DEF resolveName
  <2> DEFINE r == [n |-> created + 1, name |-> t, type |-> type, failed |-> FALSE]
  <2>3. created' \in Nat /\ created <= created' /\ r \in Resolver(created')
    BY <2>1 DEF Types, Resolver
  <2>4. resolvers \subseteq Resolver(created') /\ providers \subseteq Provider(created')
    BY <2>3, ObjectsGrow DEF Types
  <2>5. IsFiniteSet(resolvers')
    BY <2>2, FS_AddElement DEF Types
  <2>6. \A o \in resolvers \cup providers : o.n # r.n
    BY DEF Types, Resolver, Provider
  <2>7. asked' \in Seq(Asks)
    BY <2>1, AskFacts, LinksAndNames DEF Extras, Fits
  <2> QED BY <1>1, <2>1, <2>2, <2>3, <2>4, <2>5, <2>6, <2>7 DEF Types
<1>2. ASSUME NEW t \in Links, asked' = Append(asked, Request("JoinManager", t))
      PROVE  asked' \in Seq(Asks)
  BY <1>2, AskFacts, LinksAndNames DEF Extras, Fits
<1>3. \A t \in Links : Url(t, "https") \in AllUrls
  BY UrlFacts, LinksAndNames
<1> QED BY <1>1, <1>2, <1>3, ParseFacts DEF Types

-----------------------------------------------------------------------------
(* The queue. *)

\* The first event goes, deletions come at the end.
LEMMA HandledFacts ==
  ASSUME Types, queue # <<>>, NEW d \in Seq(Deletion), queue' = Tail(queue) \o d
  PROVE  /\ Received \in Delivery /\ Received = queue[1] /\ Len(queue) \in Nat \ {0}
         /\ queue' \in Seq(Delivery)
         /\ \A i \in 1..Len(queue') :
              queue'[i].kind = "delete" \/ (i + 1 \in 2..Len(queue) /\ queue'[i] = queue[i + 1])
         /\ \A i \in 2..Len(queue) : i - 1 \in 1..Len(queue') /\ queue'[i - 1] = queue[i]
         /\ \A i \in 1..Len(d) : \E j \in 1..Len(queue') : queue'[j] = d[i]
<1>1. queue \in Seq(Delivery) /\ Deletion \subseteq Delivery
  BY DEF Types, Delivery
<1>2. /\ Received \in Delivery /\ Received = queue[1]
      /\ Len(queue) \in Nat \ {0}
  BY <1>1, EmptySeq, HeadTailProperties DEF Received
<1>3. /\ Tail(queue) \in Seq(Delivery)
      /\ Len(Tail(queue)) = Len(queue) - 1
      /\ \A i \in 1..Len(Tail(queue)) : Tail(queue)[i] = queue[i + 1]
  BY <1>1, HeadTailProperties
<1>4. d \in Seq(Delivery) /\ Len(d) \in Nat /\ \A i \in 1..Len(d) : d[i].kind = "delete"
  <2>1. \A i \in 1..Len(d) : d[i] \in Deletion
    BY ElementOfSeq
  <2>2. d \in Seq(Delivery)
    BY <2>1, <1>1
  <2> QED BY <2>1, <2>2, LenProperties DEF Deletion
<1> DEFINE a == Tail(queue)
<1>5. /\ a \o d \in Seq(Delivery)
      /\ Len(a \o d) = Len(a) + Len(d)
      /\ \A i \in 1..Len(a) + Len(d) : (a \o d)[i] = IF i <= Len(a) THEN a[i] ELSE d[i - Len(a)]
  BY <1>3, <1>4, ConcatProperties
<1>6. ASSUME NEW i \in 1..Len(queue')
      PROVE  queue'[i].kind = "delete" \/ (i + 1 \in 2..Len(queue) /\ queue'[i] = queue[i + 1])
  <2>1. CASE i <= Len(a)
    BY <2>1, <1>2, <1>3, <1>5
  <2>2. CASE i > Len(a)
    BY <2>2, <1>2, <1>3, <1>4, <1>5
  <2> QED BY <2>1, <2>2, <1>2, <1>3
<1>7. ASSUME NEW i \in 2..Len(queue)
      PROVE  i - 1 \in 1..Len(queue') /\ queue'[i - 1] = queue[i]
  BY <1>2, <1>3, <1>4, <1>5
<1>8. ASSUME NEW i \in 1..Len(d)
      PROVE  \E j \in 1..Len(queue') : queue'[j] = d[i]
  <2>1. Len(a) + i \in 1..Len(queue') /\ queue'[Len(a) + i] = d[i]
    BY <1>2, <1>3, <1>4, <1>5
  <2> QED BY <2>1
<1> QED BY <1>2, <1>5, <1>6, <1>7, <1>8

\* What is asked for and who is doomed afterwards, when doomed is.
Handled(doomed) ==
  /\ Received \in Delivery /\ Received = queue[1] /\ Len(queue) \in Nat \ {0}
  /\ queue' \in Seq(Delivery)
  /\ \A i \in 1..Len(queue') :
       queue'[i].kind = "delete" \/ (i + 1 \in 2..Len(queue) /\ queue'[i] = queue[i + 1])
  /\ \A o : Doomed(o) /\ (Received.kind = "delete" => Received.n # o.n) => Doomed(o)'
  /\ \A o \in doomed : Doomed(o)'

LEMMA QueueHandled ==
  ASSUME Types, queue # <<>>, NEW d \in Seq(Deletion), queue' = Tail(queue) \o d, NEW doomed,
         \A o \in doomed : \E i \in 1..Len(d) : d[i] = Delete(o)
  PROVE  Handled(doomed)
<1>1. ASSUME NEW o, Doomed(o), Received.kind = "delete" => Received.n # o.n
      PROVE  Doomed(o)'
  <2>1. PICK i \in 1..Len(queue) : queue[i].kind = "delete" /\ queue[i].n = o.n
    BY <1>1 DEF Doomed
  <2>2. i \in 2..Len(queue)
    BY <1>1, <2>1, HandledFacts
  <2>3. i - 1 \in 1..Len(queue') /\ queue'[i - 1] = queue[i]
    BY <2>2, HandledFacts
  <2> QED BY <2>1, <2>3 DEF Doomed
<1>2. ASSUME NEW o \in doomed
      PROVE  Doomed(o)'
  <2>1. PICK i \in 1..Len(d) : d[i] = Delete(o)
    OBVIOUS
  <2>2. PICK j \in 1..Len(queue') : queue'[j] = d[i]
    BY HandledFacts
  <2>3. queue'[j].kind = "delete" /\ queue'[j].n = o.n
    BY <2>1, <2>2 DEF Delete
  <2> QED BY <2>3 DEF Doomed
<1> QED BY <1>1, <1>2, HandledFacts DEF Handled

LEMMA DeleteLaterHandled ==
  ASSUME Types, queue # <<>>, NEW doomed, doomed \subseteq resolvers \cup providers,
         deleteLater(doomed)
  PROVE  Handled(doomed)
<1> DEFINE f == [o \in doomed |-> Delete(o)]
           D == {Delete(o) : o \in doomed}
<1>1. IsFiniteSet(resolvers \cup providers)
  BY FS_Union DEF Types
<1>2. IsFiniteSet(doomed)
  BY <1>1, FS_Subset
<1>3. IsFiniteSet({f[o] : o \in doomed}) /\ {f[o] : o \in doomed} = D
  <2>1. IsFiniteSet({f[o] : o \in doomed})
    BY <1>2, ImageFinite
  <2> QED BY <2>1
<1>4. D \subseteq Deletion
  BY DEF Types, Resolver, Provider, Deletion, Delete
<1>5. PICK d : d = SetToSeq(D)
  OBVIOUS
<1>6. d \in Seq(D) /\ \A x \in D : \E i \in 1..Len(d) : d[i] = x
  <2> HIDE DEF D
  <2> QED BY <1>3, <1>5, SetToSeqProperties
<1>7. d \in Seq(Deletion)
  BY <1>4, <1>6
<1>8. queue' = Tail(queue) \o d
  BY <1>5 DEF deleteLater
<1>9. \A o \in doomed : \E i \in 1..Len(d) : d[i] = Delete(o)
  BY <1>6
<1> QED BY <1>7, <1>8, <1>9, QueueHandled

LEMMA NothingDoomed ==
  ASSUME Types, queue # <<>>, queue' = Tail(queue)
  PROVE  Handled({})
<1>1. <<>> \in Seq(Deletion) /\ Tail(queue) \o <<>> = Tail(queue)
  BY HeadTailProperties, EmptySeq DEF Types
<1>2. PICK d : d = <<>>
  OBVIOUS
<1> QED BY <1>1, <1>2, QueueHandled

\* Objects made while a chat is joined.
LEMMA MadeProviders ==
  ASSUME Types, NEW t \in Titles, NEW times \in Nat,
         providers' =
           providers \cup {[n |-> created + i, chat |-> t, failed |-> FALSE] : i \in 1..times},
         created' = created + times
  PROVE  /\ created' \in Nat /\ created <= created'
         /\ providers' \subseteq Provider(created') /\ IsFiniteSet(providers')
         /\ \A o \in resolvers, p \in providers' : o.n = p.n => o = p
         /\ \A o, p \in providers' : o.n = p.n => o = p
<1> DEFINE f == [i \in 1..times |-> [n |-> created + i, chat |-> t, failed |-> FALSE]]
           M == {[n |-> created + i, chat |-> t, failed |-> FALSE] : i \in 1..times}
<1>1. created \in Nat /\ created' \in Nat /\ created <= created'
  BY DEF Types
<1>2. IsFiniteSet({f[i] : i \in 1..times}) /\ {f[i] : i \in 1..times} = M
  <2>1. IsFiniteSet(1..times)
    BY FS_Interval
  <2>2. IsFiniteSet({f[i] : i \in 1..times})
    <3> HIDE DEF f
    <3> QED BY <2>1, ImageFinite
  <2> QED BY <2>2
<1>3. \A p \in M : /\ p \in Provider(created') /\ p.n > created
                   /\ \A q \in M : q.n = p.n => q = p
  <2> SUFFICES ASSUME NEW p \in M
               PROVE  /\ p \in Provider(created') /\ p.n > created
                      /\ \A q \in M : q.n = p.n => q = p
    OBVIOUS
  <2>1. PICK i \in 1..times : p = [n |-> created + i, chat |-> t, failed |-> FALSE]
    OBVIOUS
  <2>2. p \in Provider(created') /\ p.n > created
    BY <1>1, <2>1 DEF Provider
  <2>3. ASSUME NEW q \in M, q.n = p.n
        PROVE  q = p
    <3>1. PICK j \in 1..times : q = [n |-> created + j, chat |-> t, failed |-> FALSE]
      OBVIOUS
    <3>2. created + i = created + j
      BY <2>1, <2>3, <3>1
    <3>3. i = j
      BY <3>2, <1>1
    <3> QED BY <2>1, <3>1, <3>3
  <2> QED BY <2>2, <2>3
<1>4. providers' = providers \cup M
  OBVIOUS
<1>5. IsFiniteSet(providers')
  <2> HIDE DEF M, f
  <2>1. IsFiniteSet(M) /\ IsFiniteSet(providers)
    BY <1>2 DEF Types
  <2>2. IsFiniteSet(providers \cup M)
    BY <2>1, FS_Union
  <2> QED BY <2>2, <1>4
<1> HIDE DEF M
<1>6. \A o \in resolvers \cup providers : o.n \in Nat /\ o.n <= created
  BY DEF Types, Resolver, Provider
<1>7. \A p \in M : p.n \in Nat
  BY <1>3 DEF Provider
<1>8. \A o \in resolvers \cup providers, p \in M : o.n # p.n
  BY <1>1, <1>3, <1>6, <1>7
<1>9. providers \subseteq Provider(created')
  BY <1>1, ObjectsGrow DEF Types
<1> QED BY <1>1, <1>3, <1>4, <1>5, <1>8, <1>9 DEF Types

LEMMA ToldTypes ==
  ASSUME Types, NEW t \in Titles, NEW times \in Nat, NEW signal \in Signals, Tells(signal, t, times)
  PROVE  /\ told' \in [signal : Signals, title : {0} \cup Titles, url : AllUrls \cup {NoUrl}]
         /\ shown' \in [Titles -> Nat]
BY DEF Tells, Told, Types

LEMMA JoinTypes ==
  ASSUME Types, NEW t \in Titles, NEW times \in Nat, tryToJoin(t, times)
  PROVE  /\ created' \in Nat /\ created <= created'
         /\ providers' \subseteq Provider(created') /\ IsFiniteSet(providers')
         /\ \A o \in resolvers, p \in providers' : o.n = p.n => o = p
         /\ \A o, p \in providers' : o.n = p.n => o = p
         /\ asked' \in Seq(Asks)
         /\ told' \in [signal : Signals, title : {0} \cup Titles, url : AllUrls \cup {NoUrl}]
         /\ shown' \in [Titles -> Nat]
         /\ trouble \subseteq trouble' /\ trouble' \subseteq {"overlap", "memory", "silent"}
<1>1. CASE TypeOf[t] = "Supergroup" /\ makeProviders(t, times) /\ UNCHANGED <<told, shown>>
  <2>1. PICK asking \in 0..times :
          /\ providers' =
              providers \cup {[n |-> created + i, chat |-> t, failed |-> FALSE] : i \in 1..times}
          /\ created' = created + times
          /\ asked' = asked \o [i \in 1..asking |-> Request("ChannelInfoProvider", t)]
          /\ trouble' = trouble \cup IF asking = times THEN {} ELSE {"memory"}
    BY <1>1 DEF makeProviders
  <2>2. Request("ChannelInfoProvider", t) \in Asks
    BY <1>1 DEF Request, Asks, Extras, Fits
  <2>3. [i \in 1..asking |-> Request("ChannelInfoProvider", t)] \in Seq(Asks)
    BY <2>2
  <2>4. asked' \in Seq(Asks)
    BY <2>1, <2>3, ConcatProperties DEF Types
  <2>5. trouble \subseteq trouble' /\ trouble' \subseteq {"overlap", "memory", "silent"}
    BY <2>1 DEF Types
  <2> QED BY <1>1, <2>1, <2>4, <2>5, MadeProviders DEF Types
<1>2. CASE /\ TypeOf[t] = "BasicGroup" /\ Tells("inviteIdReady", t, times)
           /\ UNCHANGED <<providers, created, asked, trouble>>
  BY <1>2, ToldTypes DEF Types, Signals
<1>3. CASE UNCHANGED <<told, shown, providers, created, asked, trouble>>
  BY <1>3 DEF Types
<1> QED BY <1>1, <1>2, <1>3 DEF tryToJoin

LEMMA OpenTypes ==
  ASSUME Types, NEW url \in AllUrls, openUrl(url)
  PROVE  Types'
<1>1. /\ opened' \in [Titles -> Nat]
      /\ trouble' \subseteq {"overlap", "memory", "silent"}
      /\ UNCHANGED <<ready, members, queue, told, shown, pageAsks>>
  BY DEF openUrl, Types, Troubles
<1>2. CASE ready
  <2>1. parseUrl(url) /\ UNCHANGED connected
    BY <1>2 DEF openUrl
  <2> QED BY <1>1, <2>1, ParseTypes, UrlFacts DEF Types
<1>3. CASE ~ready
  <2>1. m_url' = url /\ connected' = TRUE /\ UNCHANGED <<asked, objects>>
    BY <1>3 DEF openUrl
  <2> QED BY <1>1, <2>1, UrlFacts DEF Types, objects
<1> QED BY <1>2, <1>3

LEMMA StateTypes ==
  ASSUME Types, authorizationStateChanged
  PROVE  Types'
<1>1. /\ ready' \in BOOLEAN
      /\ trouble' \subseteq {"overlap", "memory", "silent"}
      /\ UNCHANGED <<members, queue, told, opened, shown, pageAsks>>
  BY DEF authorizationStateChanged, Types
<1>2. CASE connected /\ ready'
  <2>1. m_url \in AllUrls
    BY <1>2 DEF Types
  <2>2. parseUrl(m_url) /\ connected' = FALSE
    BY <1>2 DEF authorizationStateChanged, onAuthorizationStateChanged
  <2> QED BY <1>1, <2>1, <2>2, ParseTypes DEF Types
<1>3. CASE ~(connected /\ ready')
  <2>1. UNCHANGED <<connected, asked, objects, m_url>>
    BY <1>3 DEF authorizationStateChanged, onAuthorizationStateChanged
  <2> QED BY <1>1, <2>1 DEF Types, objects
<1> QED BY <1>2, <1>3

\* What the pages ask for.
LEMMA PageTypes ==
  ASSUME Types, NEW t \in Titles,
         \/ \E x \in {"UsernameResolver", "ChannelInfoProvider"} : pageAsksFor(x, t)
         \/ pageAsksMembers(t)
  PROVE  Types'
<1>1. /\ pageAsks' \in Nat
      /\ UNCHANGED <<ready, queue, m_url, connected, objects, told, opened, shown>>
  BY DEF pageAsksFor, pageAsksMembers, aPageAsks, Types
<1>2. CASE \E x \in {"UsernameResolver", "ChannelInfoProvider"} : pageAsksFor(x, t)
  <2>1. PICK x \in {"UsernameResolver", "ChannelInfoProvider"} : pageAsksFor(x, t)
    BY <1>2
  <2>2. asked' \in Seq(Asks)
    BY <2>1, AskFacts DEF pageAsksFor, Extras, Fits
  <2> QED BY <1>1, <2>1, <2>2 DEF pageAsksFor, Types, objects
<1>3. CASE pageAsksMembers(t)
  BY <1>1, <1>3 DEF pageAsksMembers, Types, objects
<1> QED BY <1>2, <1>3

\* TDLib answers a request that is there with an event for it.
LEMMA AnswerTypes ==
  ASSUME Types, Answers \/ Fails
  PROVE  Types'
<1>1. PICK i \in 1..Len(asked), event \in Delivery : Answer(i, event)
  <2>1. \A i \in 1..Len(asked) : asked[i] \in Asks
    BY ElementOfSeq DEF Types
  <2>2. CASE Answers
    <3>1. PICK i \in 1..Len(asked) :
            Answer(i, Event(KindOfAnswer[asked[i].extra], asked[i].of))
      BY <2>2 DEF Answers
    <3>2. Event(KindOfAnswer[asked[i].extra], asked[i].of) \in Delivery
      BY <2>1 DEF Delivery, Success
    <3> QED BY <3>1, <3>2
  <2>3. CASE Fails
    <3>1. PICK i \in 1..Len(asked) :
            Answer(i, Error(asked[i].extra, asked[i].of, FALSE))
      BY <2>3 DEF Fails
    <3>2. Error(asked[i].extra, asked[i].of, FALSE) \in Delivery
      BY <2>1 DEF Delivery, Failure
    <3> QED BY <3>1, <3>2
  <2> QED BY <2>2, <2>3
<1>2. /\ asked' = RemoveAt(asked, i)
      /\ queue' = Append(queue, event)
      /\ UNCHANGED <<ready, members, m_url, connected, objects, told, history>>
  BY <1>1 DEF Answer
<1>3. asked' \in Seq(Asks)
  BY <1>2, RemoveAtProperties DEF Types
<1>4. queue' \in Seq(Delivery)
  BY <1>2, AppendProperties DEF Types
<1> QED BY <1>2, <1>3, <1>4 DEF Types, objects, history

LEMMA MembersTypes ==
  ASSUME Types, NEW t \in Titles, AnswersMembers(t)
  PROVE  Types'
<1>1. /\ members' = [members EXCEPT ![t] = @ - 1] /\ members[t] > 0
      /\ queue' \in {queue, Append(queue, Error("ChannelInfoProvider", t, TRUE))}
      /\ UNCHANGED <<ready, asked, m_url, connected, objects, told, history>>
  BY DEF AnswersMembers
<1>2. members' \in [Titles -> Nat]
  BY <1>1 DEF Types
<1>3. Error("ChannelInfoProvider", t, TRUE) \in Delivery
  BY DEF Delivery, Untold
<1>4. PICK e : e = Error("ChannelInfoProvider", t, TRUE)
  OBVIOUS
<1>5. Append(queue, e) \in Seq(Delivery) /\ queue \in Seq(Delivery)
  BY <1>3, <1>4, AppendProperties DEF Types
<1>6. queue' \in Seq(Delivery)
  <2>1. queue' = queue \/ queue' = Append(queue, e)
    BY <1>1, <1>4
  <2> QED BY <1>5, <2>1
<1> QED BY <1>1, <1>2, <1>6 DEF Types, objects, history

LEMMA InvitationTypes ==
  ASSUME Types, chatInviteLinkInfoReceived
  PROVE  Types'
<1>1. /\ queue # <<>> /\ Received.kind = "chatInviteLinkInfo"
      /\ UNCHANGED <<ready, m_url, connected, opened, pageAsks>>
      /\ queue' = Tail(queue) /\ UNCHANGED <<resolvers, members>>
  BY DEF chatInviteLinkInfoReceived, Consume
<1>2. queue' \in Seq(Delivery) /\ Received \in Delivery
  BY <1>1, NothingDoomed DEF Handled
<1>3. Received.of \in Titles
  BY <1>1, <1>2, DeliveryFacts
<1>4. PICK t \in Titles : t = Received.of
  BY <1>3
<1>5. CASE /\ Tells("inviteLinkReady", t, 1)
           /\ UNCHANGED <<providers, created, asked, trouble>>
  BY <1>1, <1>2, <1>5, ToldTypes DEF Types, Signals
<1>6. CASE tryToJoin(t, 1)
  <2>1. resolvers' \subseteq Resolver(created')
    BY <1>1, <1>6, JoinTypes, ObjectsGrow DEF Types
  <2> QED BY <1>1, <1>2, <1>6, <2>1, JoinTypes DEF Types
<1> QED BY <1>4, <1>5, <1>6 DEF chatInviteLinkInfoReceived

\* The resolvers take the type of the chat.
Typed(r, type) == [r EXCEPT !.type = type]

LEMMA TypedResolvers ==
  ASSUME NEW c \in Nat, NEW R, R \subseteq Resolver(c), IsFiniteSet(R),
         \A o, p \in R : o.n = p.n => o = p, NEW type \in ChatTypes, NEW T,
         \A o \in T : \E r \in R : o = Typed(r, type)
  PROVE  /\ T \subseteq Resolver(c) /\ IsFiniteSet(T)
         /\ \A o, p \in T : o.n = p.n => o = p
         /\ \A o \in T : \E r \in R : o = Typed(r, type) /\ o.n = r.n
<1> DEFINE f == [r \in R |-> Typed(r, type)]
<1>1. IsFiniteSet(T)
  <2>1. T \subseteq {f[r] : r \in R}
    OBVIOUS
  <2>2. IsFiniteSet({f[r] : r \in R})
    <3> HIDE DEF f
    <3> QED BY ImageFinite
  <2> QED BY <2>1, <2>2, FS_Subset
<1>2. \A r \in R : Typed(r, type) \in Resolver(c) /\ Typed(r, type).n = r.n
  BY DEF Resolver, Typed
<1>3. \A o \in T : \E r \in R : o = Typed(r, type) /\ o.n = r.n
  BY <1>2
<1>4. T \subseteq Resolver(c)
  BY <1>2
<1>5. \A o, p \in T : o.n = p.n => o = p
  BY <1>3
<1> QED BY <1>1, <1>3, <1>4, <1>5

\* Some objects are marked as failed.
Failed(r, F) == [r EXCEPT !.failed = @ \/ r \in F]

LEMMA FailedObjects ==
  ASSUME NEW c \in Nat, NEW R, R \subseteq Resolver(c) \/ R \subseteq Provider(c), IsFiniteSet(R),
         NEW F, NEW T, \A o \in T : \E r \in R : o = Failed(r, F)
  PROVE  /\ R \subseteq Resolver(c) => T \subseteq Resolver(c)
         /\ R \subseteq Provider(c) => T \subseteq Provider(c)
         /\ IsFiniteSet(T)
         /\ \A o \in T : \E r \in R : o = Failed(r, F) /\ o.n = r.n
<1> DEFINE f == [r \in R |-> Failed(r, F)]
<1>1. IsFiniteSet(T)
  <2>1. T \subseteq {f[r] : r \in R}
    OBVIOUS
  <2>2. IsFiniteSet({f[r] : r \in R})
    <3> HIDE DEF f
    <3> QED BY ImageFinite
  <2> QED BY <2>1, <2>2, FS_Subset
<1>2. ASSUME NEW r \in R
      PROVE  /\ r \in Resolver(c) => Failed(r, F) \in Resolver(c) /\ Failed(r, F).n = r.n
             /\ r \in Provider(c) => Failed(r, F) \in Provider(c) /\ Failed(r, F).n = r.n
  <2>1. PICK b \in BOOLEAN : b = (r.failed \/ r \in F)
    BY DEF Resolver, Provider
  <2>2. Failed(r, F) = [r EXCEPT !.failed = b]
    BY <2>1 DEF Failed
  <2> QED BY <2>2 DEF Resolver, Provider
<1> QED BY <1>1, <1>2

LEMMA TwoClasses ==
  ASSUME NEW c, NEW r \in Resolver(c), NEW p \in Provider(c)
  PROVE  r # p
<1>1. "name" \in DOMAIN r /\ "name" \notin DOMAIN p
  BY DEF Resolver, Provider
<1> QED BY <1>1

\* What is known of the objects that heard an answer.
LEMMA Heard ==
  ASSUME Types, NEW H, H \subseteq resolvers \/ H \subseteq providers
  PROVE  IsFiniteSet(H) /\ Cardinality(H) \in Nat
BY FS_Subset, FS_CardinalityType DEF Types

LEMMA ChatTypesKept ==
  ASSUME Types, chatReceived
  PROVE  Types'
<1>1. /\ queue # <<>> /\ Received.kind = "chat"
      /\ UNCHANGED <<ready, members, m_url, connected, opened, pageAsks>>
  BY DEF chatReceived, Consume
<1>2. PICK heard : heard = {r \in resolvers : r.type # TypeOf[Received.of]}
  OBVIOUS
<1>3. /\ resolvers' = {[r EXCEPT !.type = TypeOf[Received.of]] : r \in resolvers}
      /\ deleteLater(heard)
      /\ tryToJoin(Received.of, Cardinality(heard))
  BY <1>2 DEF chatReceived
<1>4. queue' \in Seq(Delivery) /\ Received \in Delivery
  BY <1>1, <1>2, <1>3, DeleteLaterHandled DEF Handled
<1>5. PICK t \in Names : t = Received.of
  BY <1>1, <1>4, DeliveryFacts
<1>6. PICK times \in Nat : times = Cardinality(heard)
  BY <1>2, Heard
<1>7. t \in Titles /\ TypeOf[t] \in ChatTypes
  BY LinksAndNames DEF ChatTypes
<1>8. PICK R, T : R = resolvers /\ T = resolvers'
  OBVIOUS
<1>9. /\ T \subseteq Resolver(created) /\ IsFiniteSet(T)
      /\ \A o, p \in T : o.n = p.n => o = p
      /\ \A o \in T : \E r \in R : o.n = r.n
  <2>1. /\ created \in Nat /\ R \subseteq Resolver(created) /\ IsFiniteSet(R)
        /\ \A o, p \in R : o.n = p.n => o = p
    BY <1>8 DEF Types
  <2>2. \A o \in T : \E r \in R : o = Typed(r, TypeOf[t])
    BY <1>3, <1>5, <1>8 DEF Typed
  <2>3. PICK c, type : c = created /\ type = TypeOf[t]
    OBVIOUS
  <2>4. c \in Nat /\ R \subseteq Resolver(c) /\ type \in ChatTypes
    BY <2>1, <2>3, <1>7
  <2>5. \A o \in T : \E r \in R : o = Typed(r, type)
    BY <2>2, <2>3
  <2>6. /\ T \subseteq Resolver(c) /\ IsFiniteSet(T)
        /\ \A o, p \in T : o.n = p.n => o = p
        /\ \A o \in T : \E r \in R : o = Typed(r, type) /\ o.n = r.n
    BY <2>1, <2>4, <2>5, TypedResolvers
  <2> QED BY <2>3, <2>6
<1>10. tryToJoin(t, times)
  BY <1>3, <1>5, <1>6
<1>11. resolvers' \subseteq Resolver(created')
  BY <1>7, <1>8, <1>9, <1>10, JoinTypes, ObjectsGrow DEF Types
<1>12. \A o \in resolvers', p \in providers' : o.n # p.n
  <2> SUFFICES ASSUME NEW o \in resolvers', NEW p \in providers', o.n = p.n
               PROVE  FALSE
    OBVIOUS
  <2>1. PICK r \in resolvers : o.n = r.n
    BY <1>8, <1>9
  <2>2. r = p
    BY <2>1, <1>7, <1>10, JoinTypes
  <2>3. r \in Resolver(created') /\ p \in Provider(created')
    BY <1>7, <1>10, JoinTypes, ObjectsGrow DEF Types
  <2> QED BY <2>2, <2>3, TwoClasses
<1>13. \A o, p \in resolvers' \cup providers' : o.n = p.n => o = p
  BY <1>7, <1>8, <1>9, <1>10, <1>12, JoinTypes
<1>14. members' \in [Titles -> Nat]
  BY <1>1 DEF Types
<1> QED BY <1>1, <1>4, <1>7, <1>8, <1>9, <1>10, <1>11, <1>13, <1>14, JoinTypes DEF Types

LEMMA FullInfoTypes ==
  ASSUME Types, supergroupFullInfoReceived
  PROVE  Types'
<1>1. /\ queue # <<>> /\ Received.kind = "supergroupFullInfo"
      /\ UNCHANGED <<ready, m_url, connected, opened, pageAsks, objects, asked, trouble>>
  BY DEF supergroupFullInfoReceived, Consume
<1>2. PICK heard : heard = {p \in providers : p.chat = Received.of}
  OBVIOUS
<1>3. PICK signal \in Signals : deleteLater(heard) /\ Tells(signal, Received.of, Cardinality(heard))
  BY <1>2 DEF supergroupFullInfoReceived, Signals
<1>4. queue' \in Seq(Delivery) /\ Received \in Delivery
  BY <1>1, <1>2, <1>3, DeleteLaterHandled DEF Handled
<1>5. PICK t \in Titles : t = Received.of
  BY <1>1, <1>4, DeliveryFacts
<1>6. PICK times \in Nat : times = Cardinality(heard)
  BY <1>2, Heard
<1>7. members' \in [Titles -> Nat]
  <2>1. members' \in {members, [members EXCEPT ![t] = @ + times]}
    BY <1>2, <1>5, <1>6 DEF supergroupFullInfoReceived
  <2>2. CASE members' = members
    BY <2>2 DEF Types
  <2>3. CASE members' = [members EXCEPT ![t] = @ + times]
    <3>1. members \in [Titles -> Nat] /\ members[t] + times \in Nat
      BY DEF Types
    <3> QED BY <2>3, <3>1
  <2> QED BY <2>1, <2>2, <2>3
<1> QED BY <1>1, <1>3, <1>4, <1>5, <1>6, <1>7, ToldTypes DEF Types, objects

LEMMA ErrorTypes ==
  ASSUME Types, errorReceived
  PROVE  Types'
<1>1. /\ queue # <<>> /\ Received.kind = "error"
      /\ UNCHANGED <<ready, members, m_url, connected, opened, pageAsks, created, asked>>
  BY DEF errorReceived, Consume
<1>2. PICK R, P :
        /\ R = {r \in resolvers : Received.extra = "UsernameResolver" /\ ~r.failed}
        /\ P = {p \in providers : /\ Received.extra = "ChannelInfoProvider"
                                  /\ Received.of = p.chat
                                  /\ ~p.failed}
  OBVIOUS
<1>3. /\ resolvers' = {[r EXCEPT !.failed = @ \/ r \in R] : r \in resolvers}
      /\ providers' = {[p EXCEPT !.failed = @ \/ p \in P] : p \in providers}
      /\ deleteLater(R \cup P)
      /\ told' = IF R = {} THEN told ELSE Told("errorMessage", Received.of)
      /\ shown' = [t \in Titles |-> shown[t] + Cardinality({r \in R : r.name = t})]
      /\ trouble' = trouble \cup
           IF Received.extra = "JoinManager" \/ P # {} THEN {"silent"} ELSE {}
  BY <1>2, Zenon DEF errorReceived
<1>4. queue' \in Seq(Delivery) /\ Received \in Delivery
  <2>1. R \cup P \subseteq resolvers \cup providers
    BY <1>2
  <2> QED BY <2>1, <1>1, <1>3, DeleteLaterHandled DEF Handled
<1>5. told' \in [signal : Signals, title : {0} \cup Titles, url : AllUrls \cup {NoUrl}]
  BY <1>1, <1>3, <1>4, DeliveryFacts DEF Types, Signals, Told
<1>6. \A t \in Titles : Cardinality({r \in R : r.name = t}) \in Nat
  <2> SUFFICES ASSUME NEW t \in Titles
               PROVE  Cardinality({r \in R : r.name = t}) \in Nat
    OBVIOUS
  <2>1. {r \in R : r.name = t} \subseteq resolvers
    BY <1>2
  <2> QED BY <2>1, Heard
<1>7. shown' \in [Titles -> Nat]
  <2>1. \A t \in Titles : shown[t] \in Nat
    BY DEF Types
  <2>2. \A t \in Titles : shown[t] + Cardinality({r \in R : r.name = t}) \in Nat
    BY <1>6, <2>1
  <2> QED BY <1>3, <2>2
<1>8. trouble' \subseteq {"overlap", "memory", "silent"}
  BY <1>3 DEF Types
<1>9. PICK rs, ps, rt, pt : rs = resolvers /\ ps = providers /\ rt = resolvers' /\ pt = providers'
  OBVIOUS
<1>10. /\ rt \subseteq Resolver(created) /\ IsFiniteSet(rt)
       /\ \A o \in rt : \E r \in rs : o = Failed(r, R) /\ o.n = r.n
  <2>1. created \in Nat /\ rs \subseteq Resolver(created) /\ IsFiniteSet(rs)
    BY <1>9 DEF Types
  <2>2. \A o \in rt : \E r \in rs : o = Failed(r, R)
    BY <1>3, <1>9 DEF Failed
  <2>3. PICK c : c = created
    OBVIOUS
  <2>4. c \in Nat /\ rs \subseteq Resolver(c)
    BY <2>1, <2>3
  <2>5. /\ rt \subseteq Resolver(c) /\ IsFiniteSet(rt)
        /\ \A o \in rt : \E r \in rs : o = Failed(r, R) /\ o.n = r.n
    BY <2>1, <2>2, <2>4, FailedObjects
  <2> QED BY <2>3, <2>5
<1>11. /\ pt \subseteq Provider(created) /\ IsFiniteSet(pt)
       /\ \A o \in pt : \E p \in ps : o = Failed(p, P) /\ o.n = p.n
  <2>1. created \in Nat /\ ps \subseteq Provider(created) /\ IsFiniteSet(ps)
    BY <1>9 DEF Types
  <2>2. \A o \in pt : \E p \in ps : o = Failed(p, P)
    BY <1>3, <1>9 DEF Failed
  <2> QED BY <2>1, <2>2, FailedObjects
<1>12. \A o, p \in rt : o.n = p.n => o = p
  <2> SUFFICES ASSUME NEW o \in rt, NEW p \in rt, o.n = p.n
               PROVE  o = p
    OBVIOUS
  <2>1. PICK q, r \in rs : /\ o = Failed(q, R) /\ o.n = q.n
                           /\ p = Failed(r, R) /\ p.n = r.n
    BY <1>10
  <2>2. q = r
    BY <2>1, <1>9 DEF Types
  <2> QED BY <2>1, <2>2
<1>13. \A o, p \in pt : o.n = p.n => o = p
  <2> SUFFICES ASSUME NEW o \in pt, NEW p \in pt, o.n = p.n
               PROVE  o = p
    OBVIOUS
  <2>1. PICK q, r \in ps : /\ o = Failed(q, P) /\ o.n = q.n
                           /\ p = Failed(r, P) /\ p.n = r.n
    BY <1>11
  <2>2. q = r
    BY <2>1, <1>9 DEF Types
  <2> QED BY <2>1, <2>2
<1>14. \A o \in rt, p \in pt : o.n # p.n
  <2> SUFFICES ASSUME NEW o \in rt, NEW p \in pt, o.n = p.n
               PROVE  FALSE
    OBVIOUS
  <2>1. PICK r \in rs, q \in ps : o.n = r.n /\ p.n = q.n
    BY <1>10, <1>11
  <2>2. r = q /\ r \in Resolver(created) /\ q \in Provider(created)
    BY <2>1, <1>9 DEF Types
  <2> QED BY <2>2, TwoClasses
<1>15. \A o, p \in resolvers' \cup providers' : o.n = p.n => o = p
  BY <1>9, <1>12, <1>13, <1>14
<1> QED BY <1>1, <1>4, <1>5, <1>7, <1>8, <1>9, <1>10, <1>11, <1>15 DEF Types

LEMMA DeletedTypes ==
  ASSUME Types, deleted
  PROVE  Types'
<1>1. /\ queue # <<>> /\ queue' = Tail(queue)
      /\ resolvers' \subseteq resolvers /\ providers' \subseteq providers
      /\ UNCHANGED <<ready, members, m_url, connected, opened, pageAsks, created, asked, told,
                    shown, trouble>>
  BY DEF deleted, Consume
<1>2. queue' \in Seq(Delivery)
  BY <1>1, NothingDoomed DEF Handled
<1>3. IsFiniteSet(resolvers') /\ IsFiniteSet(providers')
  BY <1>1, FS_Subset DEF Types
<1> QED BY <1>1, <1>2, <1>3 DEF Types

LEMMA TypesStep ==
  Types /\ [Next]_vars => Types'
<1> SUFFICES ASSUME Types, [Next]_vars
             PROVE  Types'
  OBVIOUS
<1>1. CASE \E url \in AllUrls : openUrl(url)
  BY <1>1, OpenTypes
<1>2. CASE authorizationStateChanged
  BY <1>2, StateTypes
<1>3. CASE Answers \/ Fails
  BY <1>3, AnswerTypes
<1>4. CASE Handle
  BY <1>4, InvitationTypes, ChatTypesKept, FullInfoTypes, ErrorTypes, DeletedTypes DEF Handle
<1>5. CASE UNCHANGED vars
  BY <1>5 DEF vars, objects, history, Types
<1>6. CASE \E t \in Titles :
             \/ \E x \in {"UsernameResolver", "ChannelInfoProvider"} : pageAsksFor(x, t)
             \/ pageAsksMembers(t)
  BY <1>6, PageTypes
<1>7. CASE \E t \in Titles : AnswersMembers(t)
  BY <1>7, MembersTypes
<1> QED BY <1>1, <1>2, <1>3, <1>4, <1>5, <1>6, <1>7 DEF Next

-----------------------------------------------------------------------------
(* One thing at a time. *)

LEMMA NothingPending ==
  ASSUME Types, asked = <<>>, AllIdle
  PROVE  \A x \in Extras : \A t : ~Pending(x, t)
<1>1. \A i \in 1..Len(queue) : queue[i] \in Delivery /\ Idle(queue[i])
  BY ElementOfSeq DEF Types, AllIdle
<1>2. \A i \in 1..Len(queue), x \in Extras : \A t : ~Carries(queue[i], x, t)
  BY <1>1, CarriesFacts
<1>3. \A i \in 1..Len(asked) : FALSE
  OBVIOUS
<1> QED BY <1>2, <1>3 DEF Pending

\* Nothing was under way, so that only what is asked for now is.
LEMMA ParseOrder ==
  ASSUME Types, asked = <<>>, AllIdle, Awaited, NEW url \in AllUrls, parseUrl(url),
         UNCHANGED queue, ~Misled
  PROVE  /\ Len(asked') <= 1 /\ AllIdle'
         /\ \A t \in Titles : Pending("JoinManager", t)' => url.of = t /\ m_url' = Url(t, "https")
         /\ \A t \in Titles : Waiting(t)' => url.of = t
         /\ Awaited'
<1>1. \A o \in resolvers \cup providers : Doomed(o)
  BY NothingPending DEF Awaited, Extras
<1>2. \A o : Doomed(o)' <=> Doomed(o)
  BY DEF Doomed
<1>3. AllIdle'
  BY DEF AllIdle
<1>4. \A i \in 1..Len(queue), x \in Extras : \A s : ~Carries(queue[i], x, s)
  BY NothingPending DEF Pending
<1>5. ASSUME UNCHANGED <<resolvers, providers>>
      PROVE  Awaited' /\ \A t \in Titles : ~Waiting(t)'
  BY <1>1, <1>2, <1>5 DEF Awaited, Waiting
<1>6. CASE UNCHANGED <<asked, resolvers, providers>>
  <2>1. \A t : ~Pending("JoinManager", t)'
    BY <1>4, <1>6 DEF Pending, Extras
  <2> QED BY <1>3, <1>5, <1>6, <2>1
<1>7. ASSUME NEW t \in Names, url.of = t, resolveName(t)
      PROVE  /\ Len(asked') <= 1 /\ \A s : ~Pending("JoinManager", s)'
             /\ \A s \in Titles : Waiting(s)' => s = t
             /\ Awaited'
  <2>1. asked' = Append(asked, Request("UsernameResolver", t)) /\ UNCHANGED providers
    BY <1>7 DEF resolveName
  <2>2. PICK r : /\ resolvers' = resolvers \cup {r}
                 /\ r.n = created + 1 /\ r.name = t /\ r.failed = FALSE
    <3>1. PICK type \in ChatTypes \cup {"none"} :
            resolvers' = resolvers \cup
              {[n |-> created + 1, name |-> t, type |-> type, failed |-> FALSE]}
      BY <1>7 DEF resolveName
    <3>2. PICK r : r = [n |-> created + 1, name |-> t, type |-> type, failed |-> FALSE]
      OBVIOUS
    <3>3. resolvers' = resolvers \cup {r}
      BY <3>1, <3>2
    <3>4. r.n = created + 1 /\ r.name = t /\ r.failed = FALSE
      BY <3>2
    <3> QED BY <3>3, <3>4
  <2>3. asked' = <<Request("UsernameResolver", t)>>
    BY <2>1
  <2>4. \A s : ~Pending("JoinManager", s)'
    BY <1>4, <2>3 DEF Pending, Request, Extras
  <2>5. Pending("UsernameResolver", t)'
    BY <2>3 DEF Pending
  <2>6. r.type # TypeOf[r.name]
    <3>1. r \notin resolvers
      BY <2>2 DEF Types, Resolver
    <3> QED BY <2>2, <3>1 DEF Misled
  <2>7. Awaited'
    BY <1>1, <1>2, <2>1, <2>2, <2>5, <2>6 DEF Awaited
  <2>8. \A s \in Titles : Waiting(s)' => s = t
    BY <1>1, <1>2, <2>1, <2>2 DEF Waiting
  <2> QED BY <2>3, <2>4, <2>7, <2>8
<1>8. ASSUME NEW t \in Links, url.of = t, m_url' = Url(t, "https"),
             asked' = Append(asked, Request("JoinManager", t)),
             UNCHANGED <<resolvers, providers>>
      PROVE  /\ Len(asked') <= 1 /\ Awaited'
             /\ \A s : Pending("JoinManager", s)' => s = t
  <2>1. asked' = <<Request("JoinManager", t)>>
    BY <1>8
  <2>2. \A s : Pending("JoinManager", s)' => s = t
    BY <1>4, <2>1 DEF Pending, Request, Extras
  <2> QED BY <1>5, <1>8, <2>1, <2>2
<1> QED BY <1>3, <1>5, <1>6, <1>7, <1>8, ParseFacts

LEMMA OpenOrder ==
  ASSUME Types, Orderly, NEW url \in AllUrls, openUrl(url), trouble' = {}
  PROVE  Orderly'
<1>1. ~Busy /\ ~Misled
  BY DEF openUrl, Troubles
<1>2. asked = <<>> /\ ~connected /\ AllIdle
  BY <1>1 DEF Busy, AllIdle
<1>3. /\ opened' = [t \in Titles |-> IF url.of = t THEN opened[t] + 1 ELSE opened[t]]
      /\ UNCHANGED <<queue, told, shown>>
  BY DEF openUrl
<1>4. \A s \in Titles : /\ opened[s] \in Nat /\ shown[s] \in Nat /\ shown[s] <= opened[s]
                        /\ shown'[s] = shown[s] /\ opened'[s] \in Nat
                        /\ opened'[s] >= opened[s] /\ (s = url.of => opened'[s] = opened[s] + 1)
  BY <1>3 DEF Types, Orderly, Tallied
<1>5. told'.signal = "inviteLinkReady" => told'.url = Url(told'.title, "https")
  BY <1>3 DEF Orderly, Spelt
<1>6. CASE ready
  <2>1. parseUrl(url) /\ UNCHANGED connected
    BY <1>6 DEF openUrl
  <2>2. /\ Len(asked') <= 1 /\ AllIdle' /\ Awaited'
        /\ \A t \in Titles : Pending("JoinManager", t)' => url.of = t /\ m_url' = Url(t, "https")
        /\ \A t \in Titles : Waiting(t)' => url.of = t
    BY <1>1, <1>2, <1>3, <2>1, ParseOrder DEF Orderly
  <2>3. ~connected'
    BY <1>2, <2>1
  <2>4. Alone'
    BY <2>2, <2>3 DEF Alone, AllIdle
  <2>5. Tallied'
    BY <1>4, <2>2, <2>3 DEF Tallied, UnderWay
  <2>6. Spelt'
    BY <1>5, <2>2 DEF Spelt
  <2> QED BY <2>2, <2>4, <2>5, <2>6 DEF Orderly
<1>7. CASE ~ready
  <2>1. /\ m_url' = url /\ connected' = TRUE
        /\ UNCHANGED <<asked, objects>>
    BY <1>7 DEF openUrl
  <2>2. \A t : ~Pending("JoinManager", t)'
    <3>1. \A t : Pending("JoinManager", t)' <=> Pending("JoinManager", t)
      BY <1>3, <2>1 DEF Pending
    <3> QED BY <1>2, <3>1, NothingPending DEF Extras
  <2>3. Alone'
    BY <1>2, <1>3, <2>1 DEF Alone, AllIdle
  <2>4. \A o \in resolvers' \cup providers' : Doomed(o)'
    <3>1. \A o : Doomed(o)' <=> Doomed(o)
      BY <1>3 DEF Doomed
    <3>2. \A o \in resolvers \cup providers : Doomed(o)
      BY <1>2, NothingPending DEF Orderly, Awaited, Extras
    <3> QED BY <2>1, <3>1, <3>2 DEF objects
  <2>5. Awaited' /\ \A t : ~Waiting(t)'
    BY <2>4 DEF Awaited, Waiting
  <2>6. Tallied'
    BY <1>4, <2>1, <2>2, <2>5 DEF Tallied, UnderWay
  <2>7. Spelt'
    BY <1>5, <2>2 DEF Spelt
  <2> QED BY <2>3, <2>5, <2>6, <2>7 DEF Orderly
<1> QED BY <1>6, <1>7

\* A page asks while nobody waits; no object will hear the answer.
LEMMA PageOrder ==
  ASSUME Types, Orderly, NEW t \in Titles, NEW x \in {"UsernameResolver", "ChannelInfoProvider"},
         pageAsksFor(x, t), trouble' = {}
  PROVE  Orderly'
<1>1. asked = <<>> /\ ~connected /\ AllIdle
  BY DEF pageAsksFor, Busy, AllIdle
<1>2. /\ asked' = Append(asked, Request(x, t))
      /\ UNCHANGED <<queue, m_url, connected, objects, told, opened, shown>>
  BY DEF pageAsksFor, aPageAsks
<1>3. asked' = <<Request(x, t)>>
  BY <1>1, <1>2
<1>4. \A s : ~Pending("JoinManager", s)'
  <2>1. \A s : ~Pending("JoinManager", s)
    BY <1>1, NothingPending DEF Extras
  <2> QED BY <1>2, <1>3, <2>1 DEF Pending, Request
<1>5. \A o \in resolvers' \cup providers' : Doomed(o)'
  <2>1. \A o : Doomed(o)' <=> Doomed(o)
    BY <1>2 DEF Doomed
  <2>2. \A o \in resolvers \cup providers : Doomed(o)
    BY <1>1, NothingPending DEF Orderly, Awaited, Extras
  <2> QED BY <1>2, <2>1, <2>2 DEF objects
<1>6. Awaited' /\ \A s : ~Waiting(s)'
  BY <1>5 DEF Awaited, Waiting
<1>7. Alone'
  BY <1>1, <1>2, <1>3 DEF Alone, AllIdle
<1>8. Tallied'
  BY <1>1, <1>2, <1>4, <1>6 DEF Orderly, Tallied, UnderWay
<1>9. Spelt'
  BY <1>2, <1>4 DEF Orderly, Spelt
<1> QED BY <1>6, <1>7, <1>8, <1>9 DEF Orderly

\* What was under way stays under way.
LEMMA SameOrder ==
  ASSUME Orderly, UNCHANGED <<asked, queue, m_url, connected, objects, told, opened, shown>>
  PROVE  Orderly'
BY DEF Orderly, Alone, AllIdle, Awaited, Doomed, Pending, Carries, Waiting, Tallied, UnderWay,
       Spelt, objects

LEMMA StateOrder ==
  ASSUME Types, Orderly, authorizationStateChanged, trouble' = {}
  PROVE  Orderly'
<1>1. ~Misled /\ UNCHANGED <<queue, told, opened, shown>>
  BY DEF authorizationStateChanged
<1>2. CASE connected /\ ready'
  <2>1. PICK url \in AllUrls : m_url = url
    BY <1>2 DEF Types
  <2>2. parseUrl(url) /\ connected' = FALSE
    BY <1>2, <2>1 DEF authorizationStateChanged, onAuthorizationStateChanged
  <2>3. asked = <<>> /\ AllIdle
    BY <1>2 DEF Orderly, Alone
  <2>4. /\ Len(asked') <= 1 /\ AllIdle' /\ Awaited'
        /\ \A t \in Titles : Pending("JoinManager", t)' => url.of = t /\ m_url' = Url(t, "https")
        /\ \A t \in Titles : Waiting(t)' => url.of = t
    BY <1>1, <2>2, <2>3, ParseOrder DEF Orderly
  <2>5. Alone'
    BY <2>2, <2>4 DEF Alone, AllIdle
  <2>6. \A t \in Titles : url.of = t => UnderWay(t)
    BY <1>2, <2>1 DEF UnderWay
  <2>7. Tallied'
    BY <1>1, <2>2, <2>4, <2>6 DEF Orderly, Tallied, UnderWay
  <2>8. Spelt'
    BY <1>1, <2>4 DEF Orderly, Spelt
  <2> QED BY <2>4, <2>5, <2>7, <2>8 DEF Orderly
<1>3. CASE ~(connected /\ ready')
  <2>1. UNCHANGED <<connected, asked, objects, m_url>>
    BY <1>3 DEF authorizationStateChanged, onAuthorizationStateChanged
  <2> QED BY <1>1, <2>1, SameOrder
<1> QED BY <1>2, <1>3

\* An answer is about what was asked.
LEMMA AnswerCarries ==
  ASSUME NEW r \in Asks, NEW e,
         e = Event(KindOfAnswer[r.extra], r.of) \/ e = Error(r.extra, r.of, FALSE)
  PROVE  /\ e \in Delivery /\ e.kind # "delete" /\ ~Idle(e)
         /\ \A x \in Extras : \A t : Carries(e, x, t) <=> x = r.extra /\ t = r.of
BY DEF Asks, Extras, Fits, Event, Error, KindOfAnswer, Delivery, Failure, Success, Carries, Idle

LEMMA AnswerOrder ==
  ASSUME Types, Orderly, Answers \/ Fails
  PROVE  Orderly'
<1> DEFINE ForRequest(i, e) ==
             /\ Answer(i, e)
             /\ \/ e = Event(KindOfAnswer[asked[i].extra], asked[i].of)
                \/ e = Error(asked[i].extra, asked[i].of, FALSE)
<1>0. PICK i \in 1..Len(asked) : \E e : ForRequest(i, e)
  BY DEF Answers, Fails
<1>1. PICK e : ForRequest(i, e)
  BY <1>0
<1>2. /\ asked' = RemoveAt(asked, i)
      /\ queue' = Append(queue, e)
      /\ UNCHANGED <<m_url, connected, objects, told, opened, shown>>
  BY <1>1 DEF Answer, history
<1>3. Len(asked) = 1 /\ i = 1 /\ asked[1] \in Asks /\ Len(queue) \in Nat
  <2>1. Len(asked) \in Nat /\ Len(queue) \in Nat
    BY LenProperties DEF Types
  <2>2. Len(asked) <= 1 /\ i \in 1..Len(asked)
    BY <1>1 DEF Orderly, Alone
  <2>3. Len(asked) = 1 /\ i = 1
    BY <2>1, <2>2
  <2> QED BY <2>1, <2>3, ElementOfSeq DEF Types
<1>4. asked' = <<>>
  <2>1. asked \in Seq(Asks) /\ i \in 1..Len(asked)
    BY <1>3 DEF Types
  <2>2. RemoveAt(asked, i) \in Seq(Asks) /\ Len(RemoveAt(asked, i)) = Len(asked) - 1
    BY <2>1, RemoveAtProperties
  <2>3. asked' \in Seq(Asks) /\ Len(asked') = 0
    BY <1>2, <1>3, <2>2
  <2> QED BY <2>3, EmptySeq
<1>5. ~connected /\ AllIdle
  <2>1. asked # <<>>
    BY <1>3
  <2>2. ~connected /\ \A j \in 1..Len(queue) : Idle(queue[j])
    BY <2>1 DEF Orderly, Alone
  <2> QED BY <2>2 DEF AllIdle
<1>6. PICK r \in Asks : r = asked[1]
  BY <1>3
<1>7. /\ e \in Delivery /\ e.kind # "delete" /\ ~Idle(e)
      /\ \A x \in Extras : \A t : Carries(e, x, t) <=> x = r.extra /\ t = r.of
  BY <1>1, <1>3, <1>6, AnswerCarries
<1>8. /\ Len(queue') = Len(queue) + 1 /\ queue'[Len(queue) + 1] = e
      /\ \A j \in 1..Len(queue) : queue'[j] = queue[j]
  BY <1>2, <1>7, AppendProperties DEF Types
<1>9. \A j \in 1..Len(queue') : j \in 1..Len(queue) \/ j = Len(queue')
  BY <1>3, <1>8
<1>10. \A x \in Extras : \A t : Pending(x, t)' <=> Pending(x, t)
  <2> SUFFICES ASSUME NEW x \in Extras, NEW t
               PROVE  Pending(x, t)' <=> Pending(x, t)
    OBVIOUS
  <2>1. \A j \in 1..Len(queue) : ~Carries(queue[j], x, t)
    BY <1>5, CarriesFacts, ElementOfSeq DEF Types, AllIdle
  <2>2. Pending(x, t) <=> x = r.extra /\ t = r.of
    BY <1>3, <1>6, <2>1 DEF Pending, Request, Asks
  <2>3. Pending(x, t)' <=> Carries(e, x, t)
    <3>1. Len(queue') \in 1..Len(queue')
      BY <1>3, <1>8
    <3>2. \A j \in 1..Len(asked') : FALSE
      BY <1>4
    <3> QED BY <1>8, <1>9, <2>1, <3>1, <3>2 DEF Pending
  <2> QED BY <1>7, <2>2, <2>3
<1>11. \A o : Doomed(o)' <=> Doomed(o)
  BY <1>3, <1>7, <1>8, <1>9 DEF Doomed
<1>12. Alone'
  <2>1. \A j \in 1..Len(queue') : ~Idle(queue'[j]) => j = Len(queue')
    BY <1>5, <1>8, <1>9 DEF AllIdle
  <2>2. \A j, k \in 1..Len(queue') : ~(k > j /\ j = Len(queue'))
    BY <1>3, <1>8
  <2> QED BY <1>2, <1>4, <1>5, <2>1, <2>2 DEF Alone
<1>13. Awaited'
  BY <1>2, <1>10, <1>11 DEF Orderly, Awaited, objects, Extras
<1>14. \A t : Waiting(t)' <=> Waiting(t)
  BY <1>2, <1>11 DEF Waiting, objects
<1>15. Tallied'
  BY <1>2, <1>10, <1>14 DEF Orderly, Tallied, UnderWay, Extras
<1>16. Spelt'
  BY <1>2, <1>10 DEF Orderly, Spelt, Extras
<1> QED BY <1>12, <1>13, <1>15, <1>16 DEF Orderly

\* That the members of a group are not told comes in among the rest.
LEMMA MembersOrder ==
  ASSUME Types, Orderly, NEW s \in Titles, AnswersMembers(s)
  PROVE  Orderly'
<1>1. /\ queue' \in {queue, Append(queue, Error("ChannelInfoProvider", s, TRUE))}
      /\ UNCHANGED <<asked, m_url, connected, objects, told, opened, shown>>
  BY DEF AnswersMembers, history
<1>2. CASE queue' = queue
  BY <1>1, <1>2, SameOrder
<1>3. CASE queue' = Append(queue, Error("ChannelInfoProvider", s, TRUE))
  <2>1. PICK e : e = Error("ChannelInfoProvider", s, TRUE)
    OBVIOUS
  <2>2. /\ e \in Delivery /\ Idle(e) /\ e.kind # "delete"
    BY <2>1 DEF Delivery, Untold, Idle, Error
  <2>3. \A x \in Extras : \A t : ~Carries(e, x, t)
    BY <2>2, CarriesFacts
  <2>4. /\ Len(queue) \in Nat
        /\ Len(queue') = Len(queue) + 1 /\ queue'[Len(queue) + 1] = e
        /\ \A j \in 1..Len(queue) : j \in 1..Len(queue') /\ queue'[j] = queue[j]
    <3>1. queue \in Seq(Delivery) /\ queue' = Append(queue, e)
      BY <1>3, <2>1 DEF Types
    <3>2. Len(queue) \in Nat
      BY <3>1, LenProperties
    <3>3. /\ Len(Append(queue, e)) = Len(queue) + 1 /\ Append(queue, e)[Len(queue) + 1] = e
          /\ \A j \in 1..Len(queue) : Append(queue, e)[j] = queue[j]
      BY <2>2, <3>1, AppendProperties
    <3> QED BY <3>1, <3>2, <3>3
  <2>5. \A j \in 1..Len(queue') :
          \/ j \in 1..Len(queue) /\ queue'[j] = queue[j]
          \/ j = Len(queue') /\ queue'[j] = e
    BY <2>4
  <2>6. \A x \in Extras : \A t : Pending(x, t)' <=> Pending(x, t)
    <3> SUFFICES ASSUME NEW x \in Extras, NEW t
                 PROVE  Pending(x, t)' <=> Pending(x, t)
      OBVIOUS
    <3>1. (\E i \in 1..Len(queue') : Carries(queue'[i], x, t))
            <=> \E i \in 1..Len(queue) : Carries(queue[i], x, t)
      BY <2>3, <2>4, <2>5
    <3> QED BY <1>1, <3>1 DEF Pending, Carries
  <2>7. \A o : Doomed(o)' <=> Doomed(o)
    BY <2>2, <2>4, <2>5 DEF Doomed
  <2>8. AllIdle => AllIdle'
    BY <2>2, <2>5 DEF AllIdle
  <2>9. Alone'
    <3>1. ASSUME NEW i \in 1..Len(queue'), ~Idle(queue'[i])
          PROVE  /\ asked' = <<>>
                 /\ \A j \in 1..Len(queue') :
                      j > i => Idle(queue'[j]) /\ queue'[j].kind # "delete"
      <4>1. i \in 1..Len(queue) /\ ~Idle(queue[i])
        BY <2>2, <2>5, <3>1
      <4>2. /\ asked = <<>>
            /\ \A j \in 1..Len(queue) : j > i => Idle(queue[j]) /\ queue[j].kind # "delete"
        BY <4>1 DEF Orderly, Alone
      <4> QED BY <1>1, <2>2, <2>5, <4>2
    <3>2. /\ Len(asked') <= 1
          /\ connected' => asked' = <<>> /\ AllIdle'
      BY <1>1, <2>8 DEF Orderly, Alone
    <3>3. \A i \in 1..Len(queue') : ~Idle(queue'[i]) =>
            asked' = <<>> /\ \A j \in 1..Len(queue') :
              j > i => Idle(queue'[j]) /\ queue'[j].kind # "delete"
      BY <3>1
    <3> QED BY <3>2, <3>3 DEF Alone
  <2>10. Awaited'
    BY <1>1, <2>6, <2>7 DEF Orderly, Awaited, objects, Extras
  <2>11. \A t : Waiting(t)' <=> Waiting(t)
    BY <1>1, <2>7 DEF Waiting, objects
  <2>12. Tallied'
    BY <1>1, <2>6, <2>11 DEF Orderly, Tallied, UnderWay, Extras
  <2>13. Spelt'
    BY <1>1, <2>6 DEF Orderly, Spelt, Extras
  <2> QED BY <2>9, <2>10, <2>12, <2>13 DEF Orderly
<1> QED BY <1>1, <1>2, <1>3

\* Behind the answer nothing is due that an object waits for, and all objects
\* that live wait for it.
OnlyUntold == \A i \in 2..Len(queue) : Idle(queue[i]) /\ queue[i].kind # "delete"

LEMMA LastAnswer ==
  ASSUME Types, Orderly, queue # <<>>, ~Idle(Received)
  PROVE  /\ OnlyUntold /\ asked = <<>> /\ ~connected
         /\ Received \in Delivery /\ Received.of \in Titles
         /\ \A x \in Extras : \A t : Pending(x, t) <=> Carries(Received, x, t)
         /\ \A r \in resolvers : /\ Carries(Received, "UsernameResolver", r.name)
                                 /\ r.type # TypeOf[r.name] /\ ~r.failed
         /\ \A p \in providers : Carries(Received, "ChannelInfoProvider", p.chat) /\ ~p.failed
         /\ \A o, p \in resolvers \cup providers : o = p
         /\ \/ Carries(Received, "JoinManager", Received.of)
            \/ resolvers \cup providers # {}
            => shown[Received.of] < opened[Received.of]
<1>1. Received \in Delivery /\ Received = queue[1] /\ Len(queue) \in Nat \ {0}
  BY EmptySeq, HeadTailProperties, ElementOfSeq DEF Types, Received
<1>2. OnlyUntold /\ asked = <<>> /\ ~connected
  <2>1. 1 \in 1..Len(queue) /\ ~Idle(queue[1])
    BY <1>1
  <2>2. /\ asked = <<>>
        /\ \A j \in 1..Len(queue) : j > 1 => Idle(queue[j]) /\ queue[j].kind # "delete"
    BY <2>1 DEF Orderly, Alone
  <2>3. ~AllIdle
    BY <2>1 DEF AllIdle
  <2>4. \A j \in 2..Len(queue) : j \in 1..Len(queue) /\ j > 1
    BY <1>1
  <2> QED BY <2>2, <2>3, <2>4 DEF Orderly, Alone, OnlyUntold
<1>3. \A x \in Extras : \A t : Pending(x, t) <=> Carries(Received, x, t)
  <2> SUFFICES ASSUME NEW x \in Extras, NEW t
               PROVE  Pending(x, t) <=> Carries(Received, x, t)
    OBVIOUS
  <2>1. \A i \in 2..Len(queue) : ~Carries(queue[i], x, t)
    <3>1. \A i \in 2..Len(queue) : queue[i] \in Delivery /\ Idle(queue[i])
      BY <1>1, <1>2, ElementOfSeq DEF Types, OnlyUntold
    <3> QED BY <3>1, CarriesFacts
  <2>2. \A i \in 1..Len(queue) : i = 1 \/ i \in 2..Len(queue)
    BY <1>1
  <2>3. 1 \in 1..Len(queue)
    BY <1>1
  <2> QED BY <1>1, <1>2, <2>1, <2>2, <2>3 DEF Pending
<1>4. \A o : ~Doomed(o)
  <2>1. \A i \in 1..Len(queue) : queue[i].kind # "delete"
    BY <1>1, <1>2 DEF OnlyUntold, Idle
  <2> QED BY <2>1 DEF Doomed
<1>5. Received.of \in Titles
  BY <1>1, DeliveryFacts DEF Idle
<1>6. \A r \in resolvers : /\ Carries(Received, "UsernameResolver", r.name)
                           /\ r.type # TypeOf[r.name] /\ ~r.failed
  BY <1>3, <1>4 DEF Orderly, Awaited, Extras
<1>7. \A p \in providers : Carries(Received, "ChannelInfoProvider", p.chat) /\ ~p.failed
  BY <1>3, <1>4 DEF Orderly, Awaited, Extras
<1>8. \A o, p \in resolvers \cup providers : o = p
  BY <1>4 DEF Orderly, Awaited
<1>9. ASSUME \/ Carries(Received, "JoinManager", Received.of)
             \/ resolvers \cup providers # {}
      PROVE  shown[Received.of] < opened[Received.of]
  <2>1. \A r \in resolvers : r.name = Received.of
    BY <1>1, <1>6, CarriesFacts DEF Extras
  <2>2. \A p \in providers : p.chat = Received.of
    BY <1>1, <1>7, CarriesFacts DEF Extras
  <2>3. UnderWay(Received.of)
    <3>1. CASE Carries(Received, "JoinManager", Received.of)
      BY <1>3, <3>1 DEF UnderWay, Extras
    <3>2. CASE resolvers \cup providers # {}
      BY <1>4, <2>1, <2>2, <3>2 DEF UnderWay, Waiting
    <3> QED BY <1>9, <3>1, <3>2
  <2> QED BY <1>5, <2>3 DEF Orderly, Tallied
<1> QED BY <1>1, <1>2, <1>3, <1>5, <1>6, <1>7, <1>8, <1>9

LEMMA AtMostOne ==
  ASSUME NEW S, \A x, y \in S : x = y
  PROVE  /\ Cardinality(S) \in {0, 1}
         /\ Cardinality(S) = 0 => S = {}
<1>1. CASE S = {}
  BY <1>1, FS_EmptySet
<1>2. CASE S # {}
  <2>1. PICK x : S = {x}
    BY <1>2
  <2> QED BY <2>1, FS_Singleton
<1> QED BY <1>1, <1>2

\* Afterwards nobody waits, and those who heard the answer are doomed.
LEMMA Calm ==
  ASSUME OnlyUntold, NEW doomed, Handled(doomed)
  PROVE  AllIdle' /\ \A o \in doomed : Doomed(o)'
BY DEF Handled, AllIdle, OnlyUntold, Idle

LEMMA NothingPendingNow ==
  Types /\ asked = <<>> /\ AllIdle => \A x \in Extras : \A t : ~Pending(x, t)
BY NothingPending

LEMMA NothingPendingNext ==
  Types' /\ asked' = <<>> /\ AllIdle' => \A x \in Extras : \A t : ~Pending(x, t)'
<1>1. (Types /\ asked = <<>> /\ AllIdle => \A x \in Extras : \A t : ~Pending(x, t))'
  BY NothingPendingNow, PTL
<1> QED BY <1>1

\* Nothing more is asked for.
LEMMA CalmOrder ==
  ASSUME Types', AllIdle', asked' = <<>>,
         ~connected', \A o \in resolvers' \cup providers' : Doomed(o)',
         \A t \in Titles : shown'[t] <= opened'[t],
         told'.signal = "inviteLinkReady" => told'.url = Url(told'.title, "https")
  PROVE  Orderly'
<1>1. \A x \in Extras : \A t : ~Pending(x, t)'
  BY NothingPendingNext
<1>2. Alone'
  BY DEF Alone, AllIdle
<1>3. Awaited'
  BY DEF Awaited
<1>4. Tallied'
  <2>1. \A t : ~Waiting(t)'
    BY DEF Waiting
  <2> QED BY <1>1, <2>1 DEF Tallied, UnderWay, Extras
<1>5. Spelt'
  BY <1>1 DEF Spelt, Extras
<1> QED BY <1>2, <1>3, <1>4, <1>5 DEF Orderly

LEMMA IdleAsksNothing ==
  ASSUME NEW e, Idle(e), NEW x \in Extras, NEW t
  PROVE  ~Carries(e, x, t)
BY DEF Carries, Extras, KindOfAnswer, Idle

\* One object at most has heard of the chat, and it asks or tells.
LEMMA JoinOrder ==
  ASSUME Types, Types', Orderly, AllIdle', asked = <<>>, ~connected',
         opened' = opened, NEW t \in Titles, providers = {},
         NEW times \in {0, 1}, tryToJoin(t, times), \A o \in resolvers' : Doomed(o)', trouble' = {},
         times = 1 => shown[t] < opened[t]
  PROVE  Orderly'
<1>1. \A s \in Titles : opened[s] \in Nat /\ shown[s] \in Nat /\ shown[s] <= opened[s]
  BY DEF Types, Orderly, Tallied
<1>2. told.signal = "inviteLinkReady" => told.url = Url(told.title, "https")
  BY DEF Orderly, Spelt
<1>3. CASE TypeOf[t] = "Supergroup" /\ makeProviders(t, times) /\ UNCHANGED <<told, shown>>
  <2>1. PICK asking \in 0..times :
          /\ providers' =
              providers \cup {[n |-> created + i, chat |-> t, failed |-> FALSE] : i \in 1..times}
          /\ asked' = asked \o [i \in 1..asking |-> Request("ChannelInfoProvider", t)]
          /\ trouble' = trouble \cup IF asking = times THEN {} ELSE {"memory"}
    BY <1>3 DEF makeProviders
  <2>2. asking = times
    BY <2>1
  <2>3. CASE times = 0
    <3>1. asked' = <<>>
      <4>1. [i \in 1..asking |-> Request("ChannelInfoProvider", t)] = <<>>
        BY <2>2, <2>3
      <4> QED BY <2>1, <4>1
    <3>2. providers' = {}
      BY <2>1, <2>3
    <3> QED BY <1>1, <1>2, <1>3, <3>1, <3>2, CalmOrder
  <2>4. CASE times = 1
    <3>1. asked' = <<Request("ChannelInfoProvider", t)>>
      <4>1. [i \in 1..asking |-> Request("ChannelInfoProvider", t)]
              = <<Request("ChannelInfoProvider", t)>>
        BY <2>2, <2>4
      <4> QED BY <2>1, <4>1
    <3>2. PICK p : providers' = {p} /\ p.chat = t /\ ~p.failed
      <4>1. providers' = {[n |-> created + 1, chat |-> t, failed |-> FALSE]}
        BY <2>1, <2>4
      <4>2. PICK p : p = [n |-> created + 1, chat |-> t, failed |-> FALSE]
        OBVIOUS
      <4>3. providers' = {p} /\ p.chat = t /\ ~p.failed
        BY <4>1, <4>2
      <4> QED BY <4>3
    <3>3. Pending("ChannelInfoProvider", t)'
      BY <3>1 DEF Pending
    <3>4. \A x \in Extras : \A s : Pending(x, s)' => x = "ChannelInfoProvider" /\ s = t
      <4>1. \A i \in 1..Len(queue'), x \in Extras : \A s : ~Carries(queue'[i], x, s)
        BY IdleAsksNothing DEF AllIdle
      <4>2. \A x, s : (\E i \in 1..Len(asked') : asked'[i] = Request(x, s))
                        => x = "ChannelInfoProvider" /\ s = t
        BY <3>1 DEF Request
      <4>3. \A x \in Extras : \A s : Pending(x, s)' =>
              \/ \E i \in 1..Len(asked') : asked'[i] = Request(x, s)
              \/ \E i \in 1..Len(queue') : Carries(queue'[i], x, s)
        BY DEF Pending
      <4> QED BY <4>1, <4>2, <4>3
    <3>5. Alone'
      BY <3>1 DEF Alone, AllIdle
    <3>6. Awaited'
      BY <3>2, <3>3 DEF Awaited
    <3>7. Tallied'
      <4>1. \A s : Waiting(s)' => s = t
        BY <3>2 DEF Waiting
      <4> QED BY <1>1, <1>3, <2>4, <3>4, <4>1 DEF Tallied, UnderWay, Extras
    <3>8. Spelt'
      BY <1>2, <1>3, <3>4 DEF Spelt, Extras
    <3> QED BY <3>5, <3>6, <3>7, <3>8 DEF Orderly
  <2> QED BY <2>3, <2>4
<1>4. CASE /\ TypeOf[t] = "BasicGroup" /\ Tells("inviteIdReady", t, times)
           /\ UNCHANGED <<providers, created, asked, trouble>>
  <2>1. \A s \in Titles : shown'[s] <= opened'[s]
    BY <1>1, <1>4 DEF Tells, Types
  <2>2. told'.signal = "inviteLinkReady" => told'.url = Url(told'.title, "https")
    BY <1>2, <1>4 DEF Tells, Told
  <2> QED BY <1>4, <2>1, <2>2, CalmOrder
<1>5. CASE UNCHANGED <<told, shown, providers, created, asked, trouble>>
  BY <1>1, <1>2, <1>5, CalmOrder
<1> QED BY <1>3, <1>4, <1>5 DEF tryToJoin

LEMMA InvitationOrder ==
  ASSUME Types, Orderly, chatInviteLinkInfoReceived, trouble' = {}
  PROVE  Orderly'
<1>1. /\ queue # <<>> /\ Received.kind = "chatInviteLinkInfo"
      /\ UNCHANGED <<ready, m_url, connected, opened, pageAsks>>
      /\ queue' = Tail(queue) /\ UNCHANGED <<resolvers, members>>
  BY DEF chatInviteLinkInfoReceived, Consume
<1>2. /\ OnlyUntold /\ asked = <<>> /\ ~connected
      /\ Received \in Delivery /\ Received.of \in Titles
      /\ Pending("JoinManager", Received.of)
      /\ resolvers = {} /\ providers = {}
      /\ shown[Received.of] < opened[Received.of]
  BY <1>1, LastAnswer, CarriesFacts DEF Extras, Idle
<1>3. AllIdle'
  BY <1>1, <1>2, NothingDoomed, Calm
<1>4. Types'
  BY InvitationTypes
<1>5. PICK t \in Titles : t = Received.of
  BY <1>2
<1>6. CASE /\ Tells("inviteLinkReady", t, 1)
           /\ UNCHANGED <<providers, created, asked, trouble>>
  <2>1. m_url = Url(t, "https")
    BY <1>2, <1>5 DEF Orderly, Spelt
  <2>2. told'.signal = "inviteLinkReady" => told'.url = Url(told'.title, "https")
    BY <1>6, <2>1 DEF Tells, Told
  <2>3. \A s \in Titles : shown'[s] <= opened'[s]
    BY <1>1, <1>2, <1>5, <1>6 DEF Tells, Types, Orderly, Tallied
  <2> QED BY <1>1, <1>2, <1>3, <1>4, <1>6, <2>2, <2>3, CalmOrder
<1>7. CASE tryToJoin(t, 1)
  BY <1>1, <1>2, <1>3, <1>4, <1>5, <1>7, JoinOrder
<1> QED BY <1>5, <1>6, <1>7 DEF chatInviteLinkInfoReceived

LEMMA ChatOrder ==
  ASSUME Types, Orderly, chatReceived, trouble' = {}
  PROVE  Orderly'
<1>1. /\ queue # <<>> /\ Received.kind = "chat"
      /\ UNCHANGED <<ready, members, m_url, connected, opened, pageAsks>>
  BY DEF chatReceived, Consume
<1>2. /\ OnlyUntold /\ asked = <<>> /\ ~connected
      /\ Received \in Delivery /\ Received.of \in Titles
      /\ providers = {}
      /\ \A r \in resolvers : r.name = Received.of /\ r.type # TypeOf[r.name]
      /\ \A o, p \in resolvers : o = p
      /\ resolvers # {} => shown[Received.of] < opened[Received.of]
  BY <1>1, LastAnswer, CarriesFacts DEF Extras, Idle
<1>3. PICK heard : heard = {r \in resolvers : r.type # TypeOf[Received.of]}
  OBVIOUS
<1>4. /\ resolvers' = {[r EXCEPT !.type = TypeOf[Received.of]] : r \in resolvers}
      /\ deleteLater(heard)
      /\ tryToJoin(Received.of, Cardinality(heard))
  BY <1>3 DEF chatReceived
<1>5. heard = resolvers
  BY <1>2, <1>3
<1>6. AllIdle' /\ \A o \in heard : Doomed(o)'
  BY <1>1, <1>2, <1>3, <1>4, DeleteLaterHandled, Calm
<1>7. Types'
  BY ChatTypesKept
<1>8. \A o \in resolvers' : Doomed(o)'
  <2> SUFFICES ASSUME NEW o \in resolvers'
               PROVE  Doomed(o)'
    OBVIOUS
  <2>1. PICK r \in resolvers : o = [r EXCEPT !.type = TypeOf[Received.of]]
    BY <1>4
  <2>2. o.n = r.n
    BY <2>1 DEF Types, Resolver
  <2>3. Doomed(r)'
    BY <1>5, <1>6
  <2> QED BY <2>2, <2>3 DEF Doomed
<1>9. PICK t \in Titles, times \in {0, 1} :
        /\ t = Received.of /\ times = Cardinality(heard)
        /\ times = 1 => shown[t] < opened[t]
  <2>1. Cardinality(heard) \in {0, 1}
    BY <1>2, <1>5, AtMostOne
  <2>2. Cardinality(heard) = 1 => resolvers # {}
    BY <1>5, FS_EmptySet
  <2> QED BY <1>2, <2>1, <2>2
<1> QED BY <1>1, <1>2, <1>4, <1>6, <1>7, <1>8, <1>9, JoinOrder

LEMMA FullInfoOrder ==
  ASSUME Types, Orderly, supergroupFullInfoReceived, trouble' = {}
  PROVE  Orderly'
<1>1. /\ queue # <<>> /\ Received.kind = "supergroupFullInfo"
      /\ UNCHANGED <<ready, m_url, connected, opened, pageAsks, objects, asked, trouble>>
  BY DEF supergroupFullInfoReceived, Consume
<1>2. /\ OnlyUntold /\ asked = <<>> /\ ~connected
      /\ Received \in Delivery /\ Received.of \in Titles
      /\ resolvers = {}
      /\ \A p \in providers : p.chat = Received.of
      /\ \A o, p \in providers : o = p
      /\ providers # {} => shown[Received.of] < opened[Received.of]
  BY <1>1, LastAnswer, CarriesFacts DEF Extras, Idle
<1>3. PICK heard : heard = {p \in providers : p.chat = Received.of}
  OBVIOUS
<1>4. PICK signal \in {"errorMessage", "inviteIdReady"} :
        deleteLater(heard) /\ Tells(signal, Received.of, Cardinality(heard))
  BY <1>3 DEF supergroupFullInfoReceived
<1>5. heard = providers
  BY <1>2, <1>3
<1>6. AllIdle' /\ \A o \in heard : Doomed(o)'
  BY <1>1, <1>2, <1>3, <1>4, DeleteLaterHandled, Calm
<1>7. Types'
  BY FullInfoTypes
<1>8. PICK times \in {0, 1} :
        times = Cardinality(heard) /\ (times = 1 => shown[Received.of] < opened[Received.of])
  <2>1. Cardinality(heard) \in {0, 1}
    BY <1>2, <1>5, AtMostOne
  <2>2. Cardinality(heard) = 1 => providers # {}
    BY <1>5, FS_EmptySet
  <2> QED BY <1>2, <2>1, <2>2
<1>9. \A s \in Titles : shown'[s] <= opened'[s]
  BY <1>1, <1>2, <1>4, <1>8 DEF Tells, Types, Orderly, Tallied
<1>10. told'.signal = "inviteLinkReady" => told'.url = Url(told'.title, "https")
  BY <1>4, <1>8 DEF Tells, Told, Orderly, Spelt
<1>11. \A o \in resolvers' \cup providers' : Doomed(o)'
  BY <1>1, <1>2, <1>5, <1>6 DEF objects
<1> QED BY <1>1, <1>2, <1>6, <1>7, <1>9, <1>10, <1>11, CalmOrder

\* The first event goes, and nobody has waited for it.
LEMMA IdleOrder ==
  ASSUME Types, Orderly, queue # <<>>, queue' = Tail(queue), Idle(Received),
         resolvers' \subseteq resolvers, providers' \subseteq providers,
         Received.kind = "delete" => \A o \in resolvers' \cup providers' : o.n # Received.n,
         UNCHANGED <<m_url, connected, opened, asked, told, shown>>
  PROVE  Orderly'
<1>1. /\ Received = queue[1] /\ Len(queue) \in Nat \ {0}
      /\ Len(queue') = Len(queue) - 1
      /\ \A i \in 1..Len(queue') : i + 1 \in 1..Len(queue) /\ queue'[i] = queue[i + 1]
      /\ \A i \in 1..Len(queue) : i = 1 \/ (i - 1 \in 1..Len(queue') /\ queue'[i - 1] = queue[i])
  <2>1. queue \in Seq(Delivery)
    BY DEF Types
  <2>2. Len(queue) \in Nat \ {0}
    BY <2>1, EmptySeq, LenProperties
  <2>3. /\ Received = queue[1]
        /\ Len(queue') = Len(queue) - 1
        /\ \A i \in 1..Len(queue') : queue'[i] = queue[i + 1]
    BY <2>1, HeadTailProperties DEF Received
  <2> QED BY <2>2, <2>3
<1>2. \A x \in Extras : \A t : Pending(x, t)' <=> Pending(x, t)
  <2> SUFFICES ASSUME NEW x \in Extras, NEW t
               PROVE  Pending(x, t)' <=> Pending(x, t)
    OBVIOUS
  <2>1. ~Carries(queue[1], x, t)
    BY <1>1, IdleAsksNothing
  <2>2. (\E i \in 1..Len(queue') : Carries(queue'[i], x, t))
          <=> \E i \in 1..Len(queue) : Carries(queue[i], x, t)
    BY <1>1, <2>1
  <2> QED BY <2>2 DEF Pending, Carries
<1>3. \A o \in resolvers' \cup providers' : Doomed(o) => Doomed(o)'
  <2> SUFFICES ASSUME NEW o \in resolvers' \cup providers', Doomed(o)
               PROVE  Doomed(o)'
    OBVIOUS
  <2>1. PICK i \in 1..Len(queue) : queue[i].kind = "delete" /\ queue[i].n = o.n
    BY DEF Doomed
  <2>2. i # 1
    BY <1>1, <2>1
  <2>3. i - 1 \in 1..Len(queue') /\ queue'[i - 1] = queue[i]
    BY <1>1, <2>2
  <2> QED BY <2>1, <2>3 DEF Doomed
<1>4. AllIdle => AllIdle'
  BY <1>1 DEF AllIdle
<1>5. Alone'
  <2>1. \A i \in 1..Len(queue') : ~Idle(queue'[i]) =>
          asked' = <<>> /\ \A j \in 1..Len(queue') :
            j > i => Idle(queue'[j]) /\ queue'[j].kind # "delete"
    <3> SUFFICES ASSUME NEW i \in 1..Len(queue'), ~Idle(queue'[i])
                 PROVE  /\ asked' = <<>>
                        /\ \A j \in 1..Len(queue') :
                             j > i => Idle(queue'[j]) /\ queue'[j].kind # "delete"
      OBVIOUS
    <3>1. i + 1 \in 1..Len(queue) /\ ~Idle(queue[i + 1])
      BY <1>1
    <3>2. /\ asked = <<>>
          /\ \A j \in 1..Len(queue) : j > i + 1 => Idle(queue[j]) /\ queue[j].kind # "delete"
      BY <3>1 DEF Orderly, Alone
    <3>3. ASSUME NEW j \in 1..Len(queue'), j > i
          PROVE  Idle(queue'[j]) /\ queue'[j].kind # "delete"
      <4>1. j + 1 \in 1..Len(queue) /\ queue'[j] = queue[j + 1] /\ j + 1 > i + 1
        BY <1>1, <3>3
      <4> QED BY <3>2, <4>1
    <3> QED BY <3>2, <3>3
  <2> QED BY <1>4, <2>1 DEF Orderly, Alone
<1>6. Awaited'
  <2>1. ASSUME NEW r \in resolvers'
        PROVE  Doomed(r)' \/ (Pending("UsernameResolver", r.name)'
                              /\ r.type # TypeOf[r.name] /\ ~r.failed)
    BY <1>2, <1>3 DEF Orderly, Awaited, Extras
  <2>2. ASSUME NEW p \in providers'
        PROVE  Doomed(p)' \/ (Pending("ChannelInfoProvider", p.chat)' /\ ~p.failed)
    <3>1. Doomed(p) \/ (Pending("ChannelInfoProvider", p.chat) /\ ~p.failed)
      BY DEF Orderly, Awaited
    <3> QED BY <1>2, <1>3, <3>1 DEF Extras
  <2>3. \A o, p \in resolvers' \cup providers' : Doomed(o)' \/ Doomed(p)' \/ o = p
    <3>1. \A o, p \in resolvers' \cup providers' : Doomed(o) \/ Doomed(p) \/ o = p
      BY DEF Orderly, Awaited
    <3> QED BY <1>3, <3>1
  <2> QED BY <2>1, <2>2, <2>3 DEF Awaited
<1>7. \A t : Waiting(t)' => Waiting(t)
  BY <1>3 DEF Waiting
<1>8. Tallied'
  BY <1>2, <1>7 DEF Orderly, Tallied, UnderWay, Extras
<1>9. Spelt'
  BY <1>2 DEF Orderly, Spelt, Extras
<1> QED BY <1>5, <1>6, <1>8, <1>9 DEF Orderly

LEMMA DeletedOrder ==
  ASSUME Types, Orderly, deleted
  PROVE  Orderly'
<1>1. /\ queue # <<>> /\ queue' = Tail(queue) /\ Received.kind = "delete"
      /\ resolvers' = {o \in resolvers : o.n # Received.n}
      /\ providers' = {o \in providers : o.n # Received.n}
      /\ UNCHANGED <<m_url, connected, opened, asked, told, shown>>
  BY DEF deleted, Consume
<1> QED BY <1>1, IdleOrder DEF Idle

LEMMA ErrorOrder ==
  ASSUME Types, Orderly, errorReceived, trouble' = {}
  PROVE  Orderly'
<1>1. /\ queue # <<>> /\ Received.kind = "error"
      /\ UNCHANGED <<ready, members, m_url, connected, opened, pageAsks, created, asked>>
  BY DEF errorReceived, Consume
<1>2. PICK R, P :
        /\ R = {r \in resolvers : Received.extra = "UsernameResolver" /\ ~r.failed}
        /\ P = {p \in providers : /\ Received.extra = "ChannelInfoProvider"
                                  /\ Received.of = p.chat
                                  /\ ~p.failed}
  OBVIOUS
<1>3. /\ resolvers' = {[r EXCEPT !.failed = @ \/ r \in R] : r \in resolvers}
      /\ providers' = {[p EXCEPT !.failed = @ \/ p \in P] : p \in providers}
      /\ deleteLater(R \cup P)
      /\ told' = IF R = {} THEN told ELSE Told("errorMessage", Received.of)
      /\ shown' = [t \in Titles |-> shown[t] + Cardinality({r \in R : r.name = t})]
      /\ trouble' = trouble \cup
           IF Received.extra = "JoinManager" \/ P # {} THEN {"silent"} ELSE {}
  BY <1>2, Zenon DEF errorReceived
<1>4. Received.extra # "JoinManager" /\ P = {}
  BY <1>3
<1>5. providers' = providers
  <2>1. \A p \in providers : [p EXCEPT !.failed = @ \/ p \in P] = p
    <3> SUFFICES ASSUME NEW p \in providers
                 PROVE  [p EXCEPT !.failed = @ \/ p \in P] = p
      OBVIOUS
    <3>1. p \in Provider(created) /\ p \notin P
      BY <1>4 DEF Types
    <3>2. (p.failed \/ p \in P) = p.failed
      BY <3>1 DEF Provider
    <3> QED BY <3>1, <3>2 DEF Provider
  <2> QED BY <1>3, <2>1
<1>6. CASE Received.ofMembers
  <2>1. Received \in Delivery
    BY <1>1, HeadTailProperties, EmptySeq, ElementOfSeq DEF Types, Received
  <2>2. R = {}
    <3>1. Received.extra = "ChannelInfoProvider"
      BY <1>1, <1>6, <2>1 DEF Delivery, Deletion, Failure, Untold, Success, Error, Event,
                              Asks, Extras, KindOfAnswer
    <3> QED BY <1>2, <3>1
  <2>3. resolvers' = resolvers
    <3>1. \A r \in resolvers : [r EXCEPT !.failed = @ \/ r \in R] = r
      <4> SUFFICES ASSUME NEW r \in resolvers
                   PROVE  [r EXCEPT !.failed = @ \/ r \in R] = r
        OBVIOUS
      <4>1. r \in Resolver(created) /\ r \notin R
        BY <2>2 DEF Types
      <4>2. (r.failed \/ r \in R) = r.failed
        BY <4>1 DEF Resolver
      <4> QED BY <4>1, <4>2 DEF Resolver
    <3> QED BY <1>3, <3>1
  <2>4. queue' = Tail(queue)
    <3>1. PICK d : d = SetToSeq({Delete(o) : o \in R \cup P})
      OBVIOUS
    <3>2. {Delete(o) : o \in R \cup P} = {}
      BY <1>4, <2>2
    <3>3. d \in Seq({}) /\ Len(d) = 0
      BY <3>1, <3>2, SetToSeqProperties, FS_EmptySet
    <3>4. d = <<>>
      BY <3>3, EmptySeq
    <3>5. queue' = Tail(queue) \o d
      BY <1>3, <3>1 DEF deleteLater
    <3>6. Tail(queue) \in Seq(Delivery)
      BY <1>1, HeadTailProperties DEF Types
    <3> QED BY <3>4, <3>5, <3>6, ConcatEmptySeq
  <2>5. told' = told /\ shown' = shown
    <3>1. \A t \in Titles : shown[t] \in Nat /\ Cardinality({r \in R : r.name = t}) = 0
      <4>1. \A t : {r \in R : r.name = t} = {}
        BY <2>2
      <4> QED BY <4>1, FS_EmptySet DEF Types
    <3> QED BY <1>3, <2>2, <3>1 DEF Types
  <2> QED BY <1>1, <1>5, <1>6, <2>3, <2>4, <2>5, IdleOrder DEF Idle
<1>7. CASE ~Received.ofMembers
  <2>1. /\ OnlyUntold /\ asked = <<>> /\ ~connected
        /\ Received \in Delivery /\ Received.of \in Titles
        /\ \A r \in resolvers : /\ r.name = Received.of /\ ~r.failed
                                /\ Received.extra = "UsernameResolver"
        /\ \A p \in providers : /\ p.chat = Received.of /\ ~p.failed
                                /\ Received.extra = "ChannelInfoProvider"
        /\ \A o, p \in resolvers : o = p
        /\ resolvers # {} => shown[Received.of] < opened[Received.of]
    BY <1>1, <1>7, LastAnswer, CarriesFacts DEF Extras, Idle
  <2>2. R = resolvers /\ providers = {}
    BY <1>2, <1>4, <2>1
  <2>3. AllIdle' /\ \A o \in R : Doomed(o)'
    <3>1. R \cup P \subseteq resolvers \cup providers
      BY <1>2
    <3>2. Handled(R \cup P)
      BY <1>1, <1>3, <3>1, DeleteLaterHandled
    <3> QED BY <2>1, <3>2, Calm
  <2>4. Types'
    BY ErrorTypes
  <2>5. \A s \in Titles : shown'[s] <= opened'[s]
    <3> SUFFICES ASSUME NEW s \in Titles
                 PROVE  shown'[s] <= opened'[s]
      OBVIOUS
    <3>1. /\ shown[s] \in Nat /\ opened[s] \in Nat /\ shown[s] <= opened[s]
          /\ s = Received.of /\ R # {} => shown[s] < opened[s]
      BY <2>1, <2>2 DEF Types, Orderly, Tallied
    <3>2. PICK n : n = Cardinality({r \in R : r.name = s})
      OBVIOUS
    <3>3. n \in {0, 1}
      BY <2>1, <2>2, <3>2, AtMostOne
    <3>4. ~(s = Received.of /\ R # {}) => n = 0
      <4>1. ~(s = Received.of /\ R # {}) => {r \in R : r.name = s} = {}
        BY <2>1, <2>2
      <4> QED BY <3>2, <4>1, FS_EmptySet
    <3> QED BY <1>1, <1>3, <3>1, <3>2, <3>3, <3>4
  <2>6. told'.signal = "inviteLinkReady" => told'.url = Url(told'.title, "https")
    BY <1>3 DEF Told, Orderly, Spelt
  <2>7. \A o \in resolvers' \cup providers' : Doomed(o)'
    <3> SUFFICES ASSUME NEW o \in resolvers'
                 PROVE  Doomed(o)'
      BY <1>5, <2>2
    <3>1. PICK r \in resolvers : o = [r EXCEPT !.failed = @ \/ r \in R]
      BY <1>3
    <3>2. o.n = r.n
      BY <3>1 DEF Types, Resolver
    <3>3. Doomed(r)'
      BY <2>2, <2>3
    <3> QED BY <3>2, <3>3 DEF Doomed
  <2> QED BY <1>1, <2>1, <2>3, <2>4, <2>5, <2>6, <2>7, CalmOrder
<1> QED BY <1>6, <1>7

-----------------------------------------------------------------------------
(* Theorems. *)

LEMMA InvInit ==
  Init => Inv
<1> SUFFICES ASSUME Init
             PROVE  Inv
  OBVIOUS
<1>1. Types
  <2>1. IsFiniteSet({})
    BY FS_EmptySet
  <2>2. /\ asked \in Seq(Asks) /\ queue \in Seq(Delivery)
        /\ m_url \in AllUrls \cup {NoUrl} /\ m_url = NoUrl
        /\ members \in [Titles -> Nat]
    BY DEF Init
  <2>3. told \in [signal : Signals, title : {0} \cup Titles, url : AllUrls \cup {NoUrl}]
    BY <2>2 DEF Init, Signals
  <2> QED BY <2>1, <2>2, <2>3 DEF Init, Types
<1>2. asked = <<>> /\ AllIdle
  BY DEF Init, AllIdle
<1>3. \A x \in Extras : \A t : ~Pending(x, t)
  BY <1>1, <1>2, NothingPending
<1>4. Alone
  BY <1>2 DEF Init, Alone, AllIdle
<1>5. Awaited
  BY DEF Init, Awaited
<1>6. Tallied
  <2>1. \A t \in Titles : shown[t] <= opened[t] /\ ~UnderWay(t)
    BY <1>3 DEF Init, UnderWay, Waiting, Extras
  <2> QED BY <2>1 DEF Tallied
<1>7. Spelt
  BY <1>3 DEF Init, Spelt, Extras
<1> QED BY <1>1, <1>4, <1>5, <1>6, <1>7 DEF Inv, Orderly

\* What the manager does not recover from stays on record.
LEMMA TroubleGrows ==
  ASSUME Types, [Next]_vars
  PROVE  trouble \subseteq trouble'
<1>1. CASE \E url \in AllUrls : openUrl(url)
  BY <1>1 DEF openUrl
<1>2. CASE authorizationStateChanged
  BY <1>2 DEF authorizationStateChanged
<1>3. CASE Answers \/ Fails
  BY <1>3 DEF Answers, Fails, Answer, history
<1>4. CASE chatInviteLinkInfoReceived
  BY <1>4 DEF chatInviteLinkInfoReceived, tryToJoin, makeProviders
<1>5. CASE chatReceived
  BY <1>5 DEF chatReceived, tryToJoin, makeProviders
<1>6. CASE supergroupFullInfoReceived \/ errorReceived \/ deleted
  BY <1>6 DEF supergroupFullInfoReceived, errorReceived, deleted
<1>7. CASE UNCHANGED vars
  BY <1>7 DEF vars, history
<1>8. CASE \E t \in Titles :
             \/ \E x \in {"UsernameResolver", "ChannelInfoProvider"} : pageAsksFor(x, t)
             \/ pageAsksMembers(t)
             \/ AnswersMembers(t)
  BY <1>8 DEF pageAsksFor, pageAsksMembers, AnswersMembers, history
<1> QED BY <1>1, <1>2, <1>3, <1>4, <1>5, <1>6, <1>7, <1>8 DEF Next, Handle

LEMMA InvStep ==
  Inv /\ [Next]_vars => Inv'
<1> SUFFICES ASSUME Inv, [Next]_vars
             PROVE  Inv'
  OBVIOUS
<1>1. Types /\ Types'
  BY TypesStep DEF Inv
<1>2. SUFFICES ASSUME trouble' = {}
               PROVE  Orderly'
  BY <1>1 DEF Inv
<1>3. Orderly
  BY <1>1, <1>2, TroubleGrows DEF Inv
<1>4. CASE \E url \in AllUrls : openUrl(url)
  BY <1>1, <1>2, <1>3, <1>4, OpenOrder
<1>5. CASE authorizationStateChanged
  BY <1>1, <1>2, <1>3, <1>5, StateOrder
<1>6. CASE Answers \/ Fails
  BY <1>1, <1>3, <1>6, AnswerOrder
<1>7. CASE Handle
  BY <1>1, <1>2, <1>3, <1>7, InvitationOrder, ChatOrder, FullInfoOrder, ErrorOrder, DeletedOrder
     DEF Handle
<1>8. CASE UNCHANGED vars
  BY <1>3, <1>8, SameOrder DEF vars, history
<1>9. CASE \E t \in Titles :
             \E x \in {"UsernameResolver", "ChannelInfoProvider"} : pageAsksFor(x, t)
  BY <1>1, <1>2, <1>3, <1>9, PageOrder
<1>10. CASE \E t \in Titles : pageAsksMembers(t)
  BY <1>3, <1>10, SameOrder DEF pageAsksMembers, aPageAsks
<1>11. CASE \E t \in Titles : AnswersMembers(t)
  BY <1>1, <1>3, <1>11, MembersOrder
<1> QED BY <1>4, <1>5, <1>6, <1>7, <1>8, <1>9, <1>10, <1>11 DEF Next

LEMMA Invariance ==
  Spec => []Inv
BY InvInit, InvStep, PTL DEF Spec

(* Every variable keeps its type, whatever TDLib answers and in what order:   *)
(* resolveName, tryToJoin and the slots for answers and errors.               *)
THEOREM TypeCorrect ==
  Spec => []TypeOK
<1>1. Inv => TypeOK
  <2> SUFFICES ASSUME Types
               PROVE  TypeOK
    BY DEF Inv
  <2>1. \A i \in 1..Len(asked) :
          asked[i] \in {Request(e, t) : e \in DOMAIN KindOfAnswer, t \in Titles}
    <3> SUFFICES ASSUME NEW i \in 1..Len(asked)
                 PROVE  \E e \in DOMAIN KindOfAnswer, t \in Titles : asked[i] = Request(e, t)
      OBVIOUS
    <3>1. asked[i] \in Asks
      BY ElementOfSeq DEF Types
    <3>2. asked[i] = Request(asked[i].extra, asked[i].of)
      BY <3>1 DEF Asks, Request
    <3> QED BY <3>1, <3>2 DEF Asks, Extras, KindOfAnswer
  <2> QED BY <2>1 DEF Types, TypeOK, Resolver, Provider
<1> QED BY <1>1, Invariance, PTL

(* A link of a form parseUrl knows that is opened while nobody else waits is  *)
(* offered or reported once: the answer finds the one resolver or provider    *)
(* that waits for it, since the others are doomed and deleteLater comes       *)
(* before the next answer; the answer of a page's request finds none, and so  *)
(* does a late error of a request for members, or the trouble is on record.   *)
THEOREM OneDialog ==
  Spec => []OneDialogEach
<1>1. Inv => OneDialogEach
  BY DEF Inv, Orderly, Tallied, OneDialogEach
<1> QED BY <1>1, Invariance, PTL

(* The link that is offered is the one the title belongs to, rewritten for    *)
(* TDLib: parseUrl sets m_url before it asks, and no other link comes between *)
(* the question and inviteLinkReady.                                          *)
THEOREM RightLink ==
  Spec => []LinkGoesWithTitle
<1>1. Inv => LinkGoesWithTitle
  BY DEF Inv, Orderly, Spelt, LinkGoesWithTitle
<1> QED BY <1>1, Invariance, PTL
=============================================================================
