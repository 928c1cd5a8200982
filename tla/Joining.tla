-------------------------------- MODULE Joining --------------------------------
(***************************************************************************)
(* Links to chats that other programs hand to Depecher: JoinManager, the   *)
(* UsernameResolvers and ChannelInfoProviders it makes, and TDLib.         *)
(*                                                                         *)
(* A link is an invitation or a user name.  What it leads to is asked of   *)
(* TDLib, and the user is offered a dialog for joining or gets a message.  *)
(* TDLib answers in any order; the answers and the deletions of objects    *)
(* that were doomed with deleteLater() are events of the main loop, first  *)
(* come, first served.  An answer tells by its @extra which class asked,   *)
(* not which object: also the pages have resolvers and providers, and the  *)
(* manager's objects hear their answers.                                   *)
(***************************************************************************)
EXTENDS Integers, FiniteSets, SequencesExt

CONSTANTS
  Names,      \* user names
  Links,      \* invitations, each with two spellings
  TypeOf,     \* of the chat behind a name or link
  Restricted, \* the supergroups TDLib gives a restriction reason for
  MaxAsks     \* bound: links opened, and requests of the pages

Titles == Names \cup Links

\* "NoAccess": of an invitation whose chat is not known before one joins.
ChatTypes == {"Private", "BasicGroup", "Supergroup"}

ASSUME TitlesAssumption ==
  /\ Titles \subseteq Nat \ {0}
  /\ IsFiniteSet(Titles)
  /\ Names \cap Links = {}
  /\ TypeOf \in [Titles -> ChatTypes \cup {"NoAccess"}]
  /\ \A t \in Names : TypeOf[t] \in {"Private", "Supergroup"}
  /\ \A t \in Links : TypeOf[t] # "Private"
  /\ Restricted \subseteq {t \in Titles : TypeOf[t] = "Supergroup"}
  /\ MaxAsks \in Nat

VARIABLES
  ready,      \* authorizationState() is Ready
  asked,      \* requests TDLib has not answered
  members,    \* how many requests for the members of a group it has not answered
  queue,      \* events of the main loop
  m_url,
  connected,  \* to authorizationStateChanged
  resolvers,  \* UsernameResolvers: number, name, m_chatTypeEnum, whether m_error is set
  providers,  \* ChannelInfoProviders: number, chat, whether m_error is set
  created,    \* numbers the objects
  told,       \* the last signal to the pages
  opened, shown,  \* links of a known form handed over, and dialogs for them (history)
  pageAsks,   \* counts the requests of the pages (history)
  trouble     \* what the manager does not recover from (history)

objects == <<resolvers, providers, created>>
history == <<opened, shown, pageAsks, trouble>>
vars == <<ready, asked, members, queue, m_url, connected, objects, told, history>>

Url(t, form) == [of |-> t, form |-> form]
Forms == {"https", "tg"}
NoUrl == Url(0, "none")

\* One no pattern matches: http, or a name at telegram.me or telegram.dog.
OtherUrl == Url(0, "other")
AllUrls == {OtherUrl} \cup {Url(t, form) : t \in Titles, form \in Forms}

Request(extra, t) == [extra |-> extra, of |-> t]
Event(kind, t) == [kind |-> kind, of |-> t]

\* A provider's two requests fail with the same @extra: ofMembers is not seen.
Error(extra, t, ofMembers) ==
  [kind |-> "error", extra |-> extra, of |-> t, ofMembers |-> ofMembers]

-----------------------------------------------------------------------------
(* TDLib. *)

Answer(i, event) ==
  /\ asked' = RemoveAt(asked, i)
  /\ queue' = Append(queue, event)
  /\ UNCHANGED <<ready, members, m_url, connected, objects, told, history>>

KindOfAnswer ==
  [JoinManager |-> "chatInviteLinkInfo", UsernameResolver |-> "chat",
   ChannelInfoProvider |-> "supergroupFullInfo"]

Answers ==
  \E i \in 1..Len(asked) : Answer(i, Event(KindOfAnswer[asked[i].extra], asked[i].of))

Fails ==
  \E i \in 1..Len(asked) : Answer(i, Error(asked[i].extra, asked[i].of, FALSE))

\* The members fill a list of the provider; only their failing matters here.
AnswersMembers(t) ==
  /\ members[t] > 0
  /\ members' = [members EXCEPT ![t] = @ - 1]
  /\ queue' \in {queue, Append(queue, Error("ChannelInfoProvider", t, TRUE))}
  /\ UNCHANGED <<ready, asked, m_url, connected, objects, told, history>>

-----------------------------------------------------------------------------
(* Opening a link. *)

\* The memory of a new resolver may hold any type already.
resolveName(t) ==
  /\ asked' = Append(asked, Request("UsernameResolver", t))
  /\ created' = created + 1
  /\ \E type \in ChatTypes \cup {"none"} :
       resolvers' = resolvers \cup {[n |-> created + 1, name |-> t, type |-> type,
                                     failed |-> FALSE]}
  /\ UNCHANGED providers

checkChatInviteLink(t) ==
  /\ asked' = Append(asked, Request("JoinManager", t))
  /\ UNCHANGED objects

\* Mutant: the invitation is offered as it was spelt.
parseUrl_AsSpelt(url) ==
  /\ m_url' = url
  /\ IF url = OtherUrl THEN UNCHANGED <<asked, objects>>
     ELSE IF url.of \in Names THEN resolveName(url.of) ELSE checkChatInviteLink(url.of)

\* Mutant: the pattern of names is tried before the one of invitations.
parseUrl_NamesFirst(url) ==
  /\ m_url' = url
  /\ IF url # OtherUrl THEN resolveName(url.of) ELSE UNCHANGED <<asked, objects>>

\* tg://join?invite= is rewritten; the two spellings of a name lead to one.
\* What no pattern matches is dropped without a word.
parseUrl(url) ==
  IF url = OtherUrl
  THEN m_url' = url /\ UNCHANGED <<asked, objects>>
  ELSE IF url.of \in Names
  THEN m_url' = url /\ resolveName(url.of)
  ELSE m_url' = Url(url.of, "https") /\ checkChatInviteLink(url.of)

\* Nobody waits for it: a deletion, or that the members of a group are not told.
Idle(e) == e.kind = "delete" \/ (e.kind = "error" /\ e.ofMembers)

\* Something is under way that a new link may be mixed up with.
Busy == asked # <<>> \/ connected \/ \E i \in 1..Len(queue) : ~Idle(queue[i])

\* A new resolver that will take the answer for what it knows, and stay.
Misled == \E r \in resolvers' \ resolvers : r.type = TypeOf[r.name]

Troubles == (IF Busy THEN {"overlap"} ELSE {}) \cup (IF Misled THEN {"memory"} ELSE {})

MayAsk == LET add(t, n) == n + opened[t] IN FoldSet(add, pageAsks, Titles) < MaxAsks

openUrl(url) ==
  /\ MayAsk
  /\ opened' = [t \in Titles |-> IF url.of = t THEN opened[t] + 1 ELSE opened[t]]
  /\ IF ready
     THEN parseUrl(url) /\ UNCHANGED connected
     ELSE m_url' = url /\ connected' = TRUE /\ UNCHANGED <<asked, objects>>
  /\ trouble' = trouble \cup Troubles
  /\ UNCHANGED <<ready, members, queue, told, shown, pageAsks>>

\* Mutant: the first state that comes ends the waiting.
onAuthorizationStateChanged_AnyState(isReady) ==
  /\ connected' = FALSE
  /\ IF connected /\ isReady THEN parseUrl(m_url) ELSE UNCHANGED <<asked, objects, m_url>>

\* However many links were opened, the slot is called once and takes the last.
onAuthorizationStateChanged(isReady) ==
  IF connected /\ isReady
  THEN connected' = FALSE /\ parseUrl(m_url)
  ELSE UNCHANGED <<connected, asked, objects, m_url>>

authorizationStateChanged ==
  /\ ~ready
  /\ ready' \in BOOLEAN
  /\ onAuthorizationStateChanged(ready')
  /\ trouble' = trouble \cup IF Misled THEN {"memory"} ELSE {}
  /\ UNCHANGED <<members, queue, told, opened, shown, pageAsks>>

-----------------------------------------------------------------------------
(* The pages: UserPage.qml has a UsernameResolver for the names in messages   *)
(* and a ChannelInfoProvider for the group it shows.                          *)

aPageAsks ==
  /\ ready
  /\ MayAsk
  /\ pageAsks' = pageAsks + 1
  /\ UNCHANGED <<ready, queue, m_url, connected, objects, told, opened, shown>>

pageAsksFor(extra, t) ==
  /\ aPageAsks
  /\ IF extra = "UsernameResolver" THEN t \in Names ELSE TypeOf[t] = "Supergroup"
  /\ asked' = Append(asked, Request(extra, t))
  /\ trouble' = trouble \cup IF Busy THEN {"overlap"} ELSE {}
  /\ UNCHANGED members

\* The provider of a page has had its full info.
pageAsksMembers(t) ==
  /\ aPageAsks
  /\ TypeOf[t] = "Supergroup"
  /\ members' = [members EXCEPT ![t] = @ + 1]
  /\ UNCHANGED <<asked, trouble>>

-----------------------------------------------------------------------------
(* Answers. *)

Received == Head(queue)

Consume(kind) ==
  /\ queue # <<>>
  /\ Received.kind = kind
  /\ UNCHANGED <<ready, m_url, connected, opened, pageAsks>>

Delete(o) == [kind |-> "delete", n |-> o.n]

\* Mutant: the answered objects live on.
deleteLater_Not(doomed) == queue' = Tail(queue)

\* The objects that were answered are deleted in a later turn of the main loop.
deleteLater(doomed) == queue' = Tail(queue) \o SetToSeq({Delete(o) : o \in doomed})

\* Only inviteLinkReady has a link.
Told(signal, t) ==
  [signal |-> signal, title |-> t, url |-> IF signal = "inviteLinkReady" THEN m_url ELSE NoUrl]

\* The pages hear of a chat as many times as objects have heard of it.
Tells(signal, t, times) ==
  /\ told' = IF times = 0 THEN told ELSE Told(signal, t)
  /\ shown' = [shown EXCEPT ![t] = @ + times]

\* A provider whose memory holds the id of the group already does not ask.
makeProviders(t, times) ==
  \E asking \in 0..times :
    /\ providers' =
         providers \cup {[n |-> created + i, chat |-> t, failed |-> FALSE] : i \in 1..times}
    /\ created' = created + times
    /\ asked' = asked \o [i \in 1..asking |-> Request("ChannelInfoProvider", t)]
    /\ trouble' = trouble \cup IF asking = times THEN {} ELSE {"memory"}

\* Called so many times for one chat.  A private chat is not joined.
tryToJoin(t, times) ==
  \/ /\ TypeOf[t] = "Supergroup"
     /\ makeProviders(t, times)
     /\ UNCHANGED <<told, shown>>
  \/ /\ TypeOf[t] = "BasicGroup"
     /\ Tells("inviteIdReady", t, times)
     /\ UNCHANGED <<providers, created, asked, trouble>>
  \/ /\ TypeOf[t] = "Private"
     /\ UNCHANGED <<told, shown, providers, created, asked, trouble>>

\* The title is the answer's, the link that of m_url.
chatInviteLinkInfoReceived ==
  LET t == Received.of IN
  /\ Consume("chatInviteLinkInfo")
  /\ queue' = Tail(queue)
  /\ IF TypeOf[t] = "NoAccess"
     THEN Tells("inviteLinkReady", t, 1) /\ UNCHANGED <<providers, created, asked, trouble>>
     ELSE tryToJoin(t, 1)
  /\ UNCHANGED <<resolvers, members>>

\* Every resolver takes the answer; one that knows the type already is silent.
chatReceived ==
  LET t == Received.of
      heard == {r \in resolvers : r.type # TypeOf[t]} IN
  /\ Consume("chat")
  /\ resolvers' = {[r EXCEPT !.type = TypeOf[t]] : r \in resolvers}
  /\ deleteLater(heard)
  /\ tryToJoin(t, Cardinality(heard))
  /\ UNCHANGED members

\* Every provider of the group takes the answer, and asks for the members if the
\* user may see them, doomed as it is.
supergroupFullInfoReceived ==
  LET t == Received.of
      heard == {p \in providers : p.chat = t} IN
  /\ Consume("supergroupFullInfo")
  /\ deleteLater(heard)
  /\ Tells(IF t \in Restricted THEN "errorMessage" ELSE "inviteIdReady", t, Cardinality(heard))
  /\ \E mayGet \in BOOLEAN :
       members' = IF mayGet THEN [members EXCEPT ![t] = @ + Cardinality(heard)] ELSE members
  /\ UNCHANGED <<objects, asked, trouble>>

\* Every resolver that has no error yet reports one, about its own name; the
\* providers go without a word, also when another's request or the members
\* failed; nobody hears of an invitation that failed.
errorReceived ==
  LET ofResolvers == {r \in resolvers : Received.extra = "UsernameResolver" /\ ~r.failed}
      ofProviders == {p \in providers : /\ Received.extra = "ChannelInfoProvider"
                                        /\ Received.of = p.chat
                                        /\ ~p.failed} IN
  /\ Consume("error")
  /\ resolvers' = {[r EXCEPT !.failed = @ \/ r \in ofResolvers] : r \in resolvers}
  /\ providers' = {[p EXCEPT !.failed = @ \/ p \in ofProviders] : p \in providers}
  /\ deleteLater(ofResolvers \cup ofProviders)
  /\ told' = IF ofResolvers = {} THEN told ELSE Told("errorMessage", Received.of)
  /\ shown' = [t \in Titles |-> shown[t] + Cardinality({r \in ofResolvers : r.name = t})]
  /\ trouble' = trouble \cup
       IF Received.extra = "JoinManager" \/ ofProviders # {} THEN {"silent"} ELSE {}
  /\ UNCHANGED <<created, asked, members>>

deleted ==
  LET rest(os) == {o \in os : o.n # Received.n} IN
  /\ Consume("delete")
  /\ queue' = Tail(queue)
  /\ resolvers' = rest(resolvers)
  /\ providers' = rest(providers)
  /\ UNCHANGED <<created, asked, members, told, shown, trouble>>

Handle ==
  \/ chatInviteLinkInfoReceived \/ chatReceived \/ supergroupFullInfoReceived
  \/ errorReceived \/ deleted

-----------------------------------------------------------------------------
Init ==
  /\ ready \in BOOLEAN
  /\ asked = <<>>
  /\ members = [t \in Titles |-> 0]
  /\ queue = <<>>
  /\ m_url = NoUrl
  /\ connected = FALSE
  /\ resolvers = {}
  /\ providers = {}
  /\ created = 0
  /\ told = [signal |-> "none", title |-> 0, url |-> NoUrl]
  /\ opened = [t \in Titles |-> 0]
  /\ shown = [t \in Titles |-> 0]
  /\ pageAsks = 0
  /\ trouble = {}

Next ==
  \/ \E url \in AllUrls : openUrl(url)
  \/ authorizationStateChanged
  \/ \E t \in Titles :
       \/ \E extra \in {"UsernameResolver", "ChannelInfoProvider"} : pageAsksFor(extra, t)
       \/ pageAsksMembers(t)
       \/ AnswersMembers(t)
  \/ Answers \/ Fails
  \/ Handle

\* The event loop runs, and TDLib answers each request, if only with an error.
Fairness == WF_vars(Handle) /\ WF_vars(Answers \/ Fails)

Spec == Init /\ [][Next]_vars
FairSpec == Spec /\ Fairness

-----------------------------------------------------------------------------
(* Properties.  trouble names what they cannot promise: "overlap", a link or  *)
(* a page that asks while a link or a page waits for an answer (or a link for *)
(* the sign-in); "memory", members read before they are set; "silent", errors *)
(* nobody reports: of an invitation, or one that a provider goes with, be it  *)
(* the error of an earlier request for the members.                           *)

Signals == {"none", "inviteLinkReady", "inviteIdReady", "errorMessage"}

(* Every variable keeps its type. *)
TypeOK ==
  /\ ready \in BOOLEAN
  /\ \A i \in 1..Len(asked) : asked[i] \in {Request(e, t) : e \in DOMAIN KindOfAnswer, t \in Titles}
  /\ members \in [Titles -> Nat]
  /\ m_url \in AllUrls \cup {NoUrl}
  /\ connected \in BOOLEAN
  /\ {created, pageAsks} \subseteq Nat
  /\ resolvers \subseteq [n : 1..created, name : Names, type : ChatTypes \cup {"none"},
                          failed : BOOLEAN]
  /\ providers \subseteq [n : 1..created, chat : Titles, failed : BOOLEAN]
  /\ \A o, p \in resolvers \cup providers : o.n = p.n => o = p
  /\ told \in [signal : Signals, title : {0} \cup Titles, url : AllUrls \cup {NoUrl}]
  /\ {opened, shown} \subseteq [Titles -> Nat]
  /\ trouble \subseteq {"overlap", "memory", "silent"}

(* A link of a form parseUrl knows that is opened while neither another link
   nor a page waits for an answer is offered or reported once, whatever the
   pages ask for when it is done: no resolver and no provider that has had its
   answer lives to hear the answer of the next, or a page's (deleteLater in
   resolveName and tryToJoin). *)
OneDialogEach == trouble = {} => \A t \in Titles : shown[t] <= opened[t]

(* The link that is offered is the one the title belongs to, in the spelling
   TDLib takes for joining (inviteLinkReady). *)
LinkGoesWithTitle ==
  trouble = {} /\ told.signal = "inviteLinkReady" => told.url = Url(told.title, "https")

(* A link of a form parseUrl knows (JoinManager.cpp:41-61; http links and names
   at telegram.me and telegram.dog are dropped) is offered or reported in the
   end, once the user is signed in, unless it is somebody's private chat or one
   of the troubles has come up. *)
EventuallyShown ==
  \A t \in Titles :
    TypeOf[t] # "Private" /\ ready /\ opened[t] > shown[t]
      ~> opened[t] = shown[t] \/ trouble # {}
=============================================================================
