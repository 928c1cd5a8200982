----------------------------- MODULE SessionProofs -----------------------------
(***************************************************************************)
(* Theorems about Session for all its constants, checked by TLAPS.         *)
(*                                                                         *)
(* The invariant follows the authorization states on their way: who is     *)
(* ready stays so until the end, a process that starts gets to the stage   *)
(* of its database and no further before the user has done something, and  *)
(* a dialog that would miss Ready has no Ready coming.                     *)
(***************************************************************************)
EXTENDS Session, SequenceTheorems, TLAPS

RequestNames ==
  {"setTdlibParameters", "setEncryptionKey", "setPhoneNumber", "checkCode", "registerUser",
   "checkPassword", "logOut", "close", "getChats"}

\* What is in inbox.
Delivery ==
  [kind : {"updateAuthorizationState"}, state : AuthorizationStates]
    \cup [kind : {"updateConnectionState"}, connection : ConnectionStates]
    \cup [kind : {"error"}, code : {400, 401, 420}]
    \cup [kind : {"chats"}]

\* The requests under way, and the states that are told.
Asked == {requests[i] : i \in 1..Len(requests)}
Tells(m, state) == m.kind = "updateAuthorizationState" /\ m.state = state
Told == {state \in AuthorizationStates : \E i \in 1..Len(inbox) : Tells(inbox[i], state)}

Early == {"WaitTdlibParameters", "WaitEncryptionKey"}
Final == {"LoggingOut", "Closing", "Closed"}
\* Who is ready stays so to the end.
Past == Final \cup {"Ready"}
\* Where a process gets to by itself.
Start == Early \cup {stage} \cup Final

ToReady == {"checkCode", "registerUser", "checkPassword"}
SignIns == ToReady \cup {"setPhoneNumber"}

Types ==
  /\ auth \in AuthorizationStates
  /\ stage \in Stages
  /\ connection \in ConnectionStates
  /\ requests \in Seq(RequestNames)
  /\ inbox \in Seq(Delivery)
  /\ m_authorizationState \in AuthorizationStates
  /\ m_connectionState \in ConnectionStates
  /\ floodCounter \in 0..FloodLimit
  /\ view \in {"none", "open", "closing"}
  /\ page \in {"none", "ChatsPage", "AuthorizeDialog", "AreYouSureDialog", "SignInDialog"}
  /\ m_currentAuthorizationState \in AuthorizationStates \cup {NoDialog}
  /\ dialogState \in {"", "password", "code", "register"}
  /\ pressed \subseteq {"code", "name"}
  /\ quitting \in BOOLEAN
  /\ quitOnCloseUi \in BOOLEAN
  /\ running \in BOOLEAN
  /\ trouble \subseteq {"unauthorized", "deadDialog", "resumed", "left"}
  /\ events \in 0..MaxEvents
  /\ restarts \in 0..MaxRestarts

\* The order of the states told: nothing but the end follows Ready.
InOrder ==
  /\ m_authorizationState \in Past => Told \cup {auth} \subseteq Past
  /\ \A i, j \in 1..Len(inbox), s, t \in AuthorizationStates :
       i < j /\ Tells(inbox[i], s) /\ Tells(inbox[j], t) /\ s \in Past => t \in Past
  /\ Told \cap Past # {} => auth \in Past

\* Nobody has signed in since the process was started.
Starting ==
  /\ Asked \cap SignIns = {}
  /\ {auth, m_authorizationState} \cup Told \subseteq Start
  /\ (Told \cup {m_authorizationState}) \cap Stages # {} => auth \notin Early

SignedIn == {auth, m_authorizationState} \cup Told \subseteq Past

\* Ready is not told, and no request leads to it.
NoReadyComes ==
  /\ Asked \cap ToReady = {}
  /\ auth \notin Early \cup {"Ready"}
  /\ "Ready" \notin Told \cup {m_authorizationState}

Heeded == trouble \cap {"unauthorized", "left"} = {}
OnDialog == page \in {"AreYouSureDialog", "SignInDialog"}

PagesInv ==
  Heeded =>
    /\ ~OnDialog => Starting \/ SignedIn
    /\ page = "AuthorizeDialog" \/ (OnDialog /\ m_currentAuthorizationState = "Ready")
         => NoReadyComes
    /\ OnDialog /\ m_currentAuthorizationState = "Ready" => dialogState = ""
    /\ OnDialog => view = "open" /\ m_authorizationState # "Ready"

Live ==
  /\ floodCounter < FloodLimit
  /\ quitting => quitOnCloseUi
  /\ view = "open" => page # "none"
  /\ InOrder
  /\ PagesInv

Inv == Types /\ ReadyShowsChats /\ (running => Live)

-----------------------------------------------------------------------------
(* The streams. *)

\* The streams and the counts alone, for the provers' sake.
LEMMA StreamTypes ==
  Types => requests \in Seq(RequestNames) /\ inbox \in Seq(Delivery)
BY DEF Types

LEMMA CountTypes ==
  Types => floodCounter \in 0..FloodLimit /\ events \in 0..MaxEvents /\ restarts \in 0..MaxRestarts
BY DEF Types

LEMMA LiveShowsChats == Types /\ Live => ReadyShowsChats
BY DEF Types, Live, PagesInv, ReadyShowsChats, Heeded, OnDialog, NoReadyComes

LEMMA DeliveryFacts ==
  ASSUME NEW m \in Delivery
  PROVE  /\ m.kind \in {"updateAuthorizationState", "updateConnectionState", "error", "chats"}
         /\ m.kind = "updateAuthorizationState" => m.state \in AuthorizationStates
         /\ m.kind = "updateConnectionState" => m.connection \in ConnectionStates
         /\ m.kind = "error" => m.code \in {400, 401, 420}
BY DEF Delivery

\* A request is added.
LEMMA AskFacts ==
  ASSUME Types, NEW r \in RequestNames, requests' = Append(requests, r)
  PROVE  requests' \in Seq(RequestNames) /\ Asked' \subseteq Asked \cup {r}
<1>1. /\ requests' \in Seq(RequestNames)
      /\ Len(requests') = Len(requests) + 1
      /\ \A i \in 1..(Len(requests) + 1) :
           requests'[i] = IF i <= Len(requests) THEN requests[i] ELSE r
  BY StreamTypes, AppendProperties
<1>2. Len(requests) \in Nat
  BY StreamTypes, LenProperties
<1>3. ASSUME NEW i \in 1..(Len(requests) + 1)
      PROVE  requests'[i] \in Asked \cup {r}
  BY <1>1, <1>2 DEF Asked
<1> QED BY <1>1, <1>3 DEF Asked

\* Something is told.
LEMMA TellFacts ==
  ASSUME Types, NEW m \in Delivery, inbox' = Append(inbox, m),
         UNCHANGED m_authorizationState
  PROVE  /\ inbox' \in Seq(Delivery)
         /\ Told' = Told \cup {state \in AuthorizationStates : Tells(m, state)}
         /\ InOrder /\ (auth \in Past => auth' \in Past)
              /\ (\A state \in AuthorizationStates : Tells(m, state) => auth' = state)
              => InOrder'
<1>1. Len(inbox) \in Nat
  BY StreamTypes, LenProperties
<1>2. /\ inbox' \in Seq(Delivery)
      /\ Len(inbox') = Len(inbox) + 1
      /\ \A i \in 1..(Len(inbox) + 1) : inbox'[i] = IF i <= Len(inbox) THEN inbox[i] ELSE m
  BY StreamTypes, AppendProperties
<1>3. Told' = Told \cup {state \in AuthorizationStates : Tells(m, state)}
  <2>1. ASSUME NEW state \in AuthorizationStates
        PROVE  (\E i \in 1..(Len(inbox) + 1) : Tells(inbox'[i], state))
                 <=> (\E i \in 1..Len(inbox) : Tells(inbox[i], state)) \/ Tells(m, state)
    BY <1>1, <1>2
  <2>2. Told' = {state \in AuthorizationStates :
                   \E i \in 1..(Len(inbox) + 1) : Tells(inbox'[i], state)}
    BY <1>2 DEF Told, Tells
  <2> QED BY <2>1, <2>2 DEF Told
<1>4. ASSUME InOrder, auth \in Past => auth' \in Past,
             \A state \in AuthorizationStates : Tells(m, state) => auth' = state
      PROVE  InOrder'
  <2>1. Told \cap Past # {} => auth' \in Past
    BY <1>4 DEF InOrder
  <2>2. m_authorizationState' \in Past => Told' \cup {auth'} \subseteq Past
    BY <1>3, <1>4 DEF InOrder
  <2>3. Told' \cap Past # {} => auth' \in Past
    BY <1>3, <1>4, <2>1
  <2>4. ASSUME NEW i \in 1..(Len(inbox) + 1), NEW j \in 1..(Len(inbox) + 1), i < j,
               NEW s \in AuthorizationStates, NEW t \in AuthorizationStates,
               Tells(inbox'[i], s), Tells(inbox'[j], t), s \in Past
        PROVE  t \in Past
    <3>1. i \in 1..Len(inbox) /\ Tells(inbox[i], s)
      BY <1>1, <1>2, <2>4
    <3>2. CASE j \in 1..Len(inbox)
      BY <1>2, <1>4, <2>4, <3>1, <3>2 DEF InOrder
    <3>3. CASE j = Len(inbox) + 1
      <4>1. s \in Told
        BY <3>1 DEF Told
      <4>2. t = auth'
        BY <1>1, <1>2, <1>4, <2>4, <3>3
      <4> QED BY <2>1, <2>4, <4>1, <4>2
    <3> QED BY <1>1, <3>2, <3>3
  <2> QED BY <1>2, <2>2, <2>3, <2>4 DEF InOrder, Tells
<1> QED BY <1>2, <1>3, <1>4

\* A request is taken, and something is told.
LEMMA AnswerFacts ==
  ASSUME Types, NEW m \in Delivery, Answer(m)
  PROVE  /\ Request \in Asked
         /\ requests' \in Seq(RequestNames) /\ Asked' \subseteq Asked
         /\ inbox' \in Seq(Delivery)
         /\ Told' = Told \cup {state \in AuthorizationStates : Tells(m, state)}
         /\ InOrder /\ (auth \in Past => auth' \in Past)
              /\ (\A state \in AuthorizationStates : Tells(m, state) => auth' = state)
              => InOrder'
<1>1. /\ Len(requests) \in Nat /\ Len(requests) >= 1
      /\ inbox' = Append(inbox, m)
      /\ UNCHANGED m_authorizationState
  BY StreamTypes, EmptySeq, LenProperties DEF Answer, wrapper
<1>2. Request \in Asked
  BY <1>1 DEF Request, Asked
<1>3. /\ requests' \in Seq(RequestNames)
      /\ Len(requests') = Len(requests) - 1
      /\ \A i \in 1..(Len(requests) - 1) : requests'[i] = requests[i + 1]
  BY StreamTypes, HeadTailProperties DEF Answer
<1>4. Asked' \subseteq Asked
  <2>1. ASSUME NEW i \in 1..(Len(requests) - 1) PROVE requests'[i] \in Asked
    BY <1>1, <1>3 DEF Asked
  <2> QED BY <1>3, <2>1 DEF Asked
<1> QED BY <1>1, <1>2, <1>3, <1>4, TellFacts

\* The first message is handled.
LEMMA ConsumeFacts ==
  ASSUME Types, NEW kind, Consume(kind)
  PROVE  /\ Received \in Delivery /\ Received.kind = kind
         /\ inbox' \in Seq(Delivery)
         /\ Told' \subseteq Told
         /\ kind = "updateAuthorizationState" => Received.state \in Told
         /\ InOrder /\ (\/ m_authorizationState' = m_authorizationState
                        \/ Tells(Received, m_authorizationState'))
              => InOrder'
<1>1. /\ Len(inbox) \in Nat /\ Len(inbox) >= 1
      /\ Received = inbox[1]
      /\ auth' = auth
  BY StreamTypes, EmptySeq, LenProperties DEF Consume, Received, tdlib
<1>2. /\ inbox' \in Seq(Delivery)
      /\ Len(inbox') = Len(inbox) - 1
      /\ \A i \in 1..(Len(inbox) - 1) : inbox'[i] = inbox[i + 1]
  BY StreamTypes, HeadTailProperties DEF Consume
<1>3. Received \in Delivery /\ Received.kind = kind
  BY <1>1, StreamTypes, ElementOfSeq DEF Consume
<1>4. Told' \subseteq Told
  <2>1. ASSUME NEW state \in AuthorizationStates, NEW i \in 1..(Len(inbox) - 1),
               Tells(inbox'[i], state)
        PROVE  state \in Told
    <3>1. i + 1 \in 1..Len(inbox) /\ Tells(inbox[i + 1], state)
      BY <1>1, <1>2, <2>1
    <3> QED BY <3>1 DEF Told
  <2>2. Told' = {state \in AuthorizationStates :
                   \E i \in 1..(Len(inbox) - 1) : Tells(inbox'[i], state)}
    BY <1>2 DEF Told, Tells
  <2> QED BY <2>1, <2>2
<1>5. kind = "updateAuthorizationState" => Received.state \in Told
  BY <1>1, <1>3, DeliveryFacts DEF Told, Tells
<1>6. ASSUME InOrder, \/ m_authorizationState' = m_authorizationState
                      \/ Tells(Received, m_authorizationState')
      PROVE  InOrder'
  <2>1. ASSUME NEW i \in 1..(Len(inbox) - 1), NEW j \in 1..(Len(inbox) - 1), i < j,
               NEW s \in AuthorizationStates, NEW t \in AuthorizationStates,
               Tells(inbox'[i], s), Tells(inbox'[j], t), s \in Past
        PROVE  t \in Past
    <3>1. i + 1 \in 1..Len(inbox) /\ j + 1 \in 1..Len(inbox) /\ i + 1 < j + 1
      BY <1>1, <2>1
    <3>2. Tells(inbox[i + 1], s) /\ Tells(inbox[j + 1], t)
      BY <1>2, <2>1
    <3> QED BY <1>6, <2>1, <3>1, <3>2 DEF InOrder
  <2>2. Told' \cap Past # {} => auth' \in Past
    BY <1>1, <1>4, <1>6 DEF InOrder
  <2>3. ASSUME m_authorizationState' \in Past
        PROVE  Told' \cup {auth'} \subseteq Past
    <3>1. CASE m_authorizationState \in Past
      BY <1>1, <1>4, <1>6, <3>1 DEF InOrder
    <3>2. CASE Tells(Received, m_authorizationState')
      <4>1. m_authorizationState' \in Told
        BY <1>1, <1>3, <3>2, DeliveryFacts DEF Told, Tells
      <4>2. auth \in Past
        BY <1>6, <2>3, <4>1 DEF InOrder
      <4>3. ASSUME NEW state \in Told' PROVE state \in Past
        <5>1. PICK i \in 1..(Len(inbox) - 1) : Tells(inbox'[i], state)
          BY <1>2 DEF Told, Tells
        <5>2. /\ i + 1 \in 1..Len(inbox) /\ 1 < i + 1 /\ 1 \in 1..Len(inbox)
              /\ Tells(inbox[i + 1], state)
          BY <1>1, <1>2, <5>1
        <5>3. state \in AuthorizationStates /\ m_authorizationState' \in AuthorizationStates
          BY <4>1 DEF Told
        <5> QED BY <1>1, <1>6, <2>3, <3>2, <5>2, <5>3 DEF InOrder
      <4> QED BY <1>1, <4>2, <4>3
    <3> QED BY <1>6, <2>3, <3>1, <3>2
  <2> QED BY <1>2, <2>1, <2>2, <2>3 DEF InOrder, Tells
<1> QED BY <1>2, <1>3, <1>4, <1>5, <1>6

-----------------------------------------------------------------------------
(* TDLib's steps. *)

\* What TDLib's step leaves alone.
LEMMA AnswerLeaves ==
  ASSUME NEW m, Answer(m)
  PROVE  /\ running
         /\ UNCHANGED <<m_authorizationState, m_connectionState, floodCounter, view, page,
                        m_currentAuthorizationState, dialogState, pressed, quitting,
                        quitOnCloseUi, running, restarts, trouble>>
BY DEF Answer, wrapper, window, dialog, process

\* A step that tells nothing of a state and asks for no sign-in.
LEMMA QuietStep ==
  ASSUME Types, Live, InOrder', Told' \subseteq Told, auth' = auth, stage' = stage,
         m_authorizationState' = m_authorizationState, Asked' \cap SignIns \subseteq Asked
  PROVE  (Starting => Starting') /\ (SignedIn => SignedIn') /\ (NoReadyComes => NoReadyComes')
BY DEF Types, Live, Starting, SignedIn, NoReadyComes, SignIns, ToReady, Start

\* A step that keeps the window, the dialog and the troubles.
LEMMA PagesStep ==
  ASSUME Live, InOrder', m_authorizationState' = m_authorizationState,
         (Starting => Starting') /\ (SignedIn => SignedIn') /\ (NoReadyComes => NoReadyComes'),
         UNCHANGED <<floodCounter, view, page, m_currentAuthorizationState, dialogState,
                     quitting, quitOnCloseUi, trouble>>
  PROVE  Live'
BY DEF Live, PagesInv, Heeded, OnDialog

LEMMA NextStatesFacts ==
  ASSUME Types, NEW r, NEW state \in NextStates(r)
  PROVE  /\ state \in AuthorizationStates
         /\ auth \in Past => state \in Past
         /\ r \notin SignIns =>
              \/ auth = "WaitTdlibParameters" /\ state = "WaitEncryptionKey"
              \/ auth = "WaitEncryptionKey" /\ state = stage
              \/ state \in Final
         /\ r \notin ToReady /\ auth \notin Early \cup {"Ready"}
              => state \notin Early \cup {"Ready"}
<1> USE DEF Types, AuthorizationStates, Stages, Past, Final, Early, SignIns, ToReady
<1>1. CASE r = "setTdlibParameters" /\ auth = "WaitTdlibParameters"
  BY <1>1 DEF NextStates
<1>2. CASE r = "setEncryptionKey" /\ auth = "WaitEncryptionKey"
  BY <1>2 DEF NextStates
<1>3. CASE r = "setPhoneNumber" /\ auth \in Stages \ {"Ready"}
  BY <1>3 DEF NextStates
<1>4. CASE r = "checkCode" /\ auth = "WaitCode"
  BY <1>4 DEF NextStates
<1>5. CASE r = "registerUser" /\ auth = "WaitRegistration"
  BY <1>5 DEF NextStates
<1>6. CASE r = "checkPassword" /\ auth = "WaitPassword"
  BY <1>6 DEF NextStates
<1>7. CASE r = "logOut" /\ auth = "Ready"
  BY <1>7 DEF NextStates
<1>8. CASE r = "close" /\ auth # "Closed"
  BY <1>8 DEF NextStates
<1> QED BY <1>1, <1>2, <1>3, <1>4, <1>5, <1>6, <1>7, <1>8 DEF NextStates

LEMMA EntersSafe ==
  ASSUME Types, running => Live, NEW state \in NextStates(Request), Enters(state)
  PROVE  Types' /\ Live'
<1> DEFINE m == Authorization(state)
<1>1. /\ Answer(m) /\ auth' = state
      /\ stage' = IF state \in Stages THEN state ELSE stage
      /\ UNCHANGED <<connection, events>>
  BY DEF Enters
<1>2. /\ running /\ Live
      /\ UNCHANGED <<m_authorizationState, m_connectionState, floodCounter, view, page,
                     m_currentAuthorizationState, dialogState, pressed, quitting,
                     quitOnCloseUi, running, restarts, trouble>>
  BY <1>1, AnswerLeaves
<1>3. PICK r : r = Request
  OBVIOUS
<1>4. /\ state \in AuthorizationStates
      /\ auth \in Past => state \in Past
      /\ r \notin SignIns =>
           \/ auth = "WaitTdlibParameters" /\ state = "WaitEncryptionKey"
           \/ auth = "WaitEncryptionKey" /\ state = stage
           \/ state \in Final
      /\ r \notin ToReady /\ auth \notin Early \cup {"Ready"} => state \notin Early \cup {"Ready"}
  BY <1>3, NextStatesFacts
<1>5. m \in Delivery /\ \A s \in AuthorizationStates : Tells(m, s) <=> s = state
  BY <1>4 DEF Delivery, Authorization, Tells
<1>6. /\ r \in Asked
      /\ requests' \in Seq(RequestNames) /\ Asked' \subseteq Asked
      /\ inbox' \in Seq(Delivery)
      /\ Told' = Told \cup {state}
      /\ InOrder'
  BY <1>1, <1>2, <1>3, <1>4, <1>5, AnswerFacts DEF Live
<1>7. Types'
  BY <1>1, <1>2, <1>4, <1>6 DEF Types
<1>8. ASSUME Starting PROVE Starting'
  <2>1. r \notin SignIns
    BY <1>6, <1>8 DEF Starting
  <2>2. stage' = stage
    BY <1>1, <1>4, <2>1 DEF Final, Stages, Types
  <2>3. state \in Start
    BY <1>4, <2>1 DEF Start, Early
  <2>4. {auth', m_authorizationState'} \cup Told' \subseteq Start'
    BY <1>1, <1>2, <1>6, <1>8, <2>2, <2>3 DEF Starting, Start
  <2>5. ASSUME (Told' \cup {m_authorizationState'}) \cap Stages # {} PROVE auth' \notin Early
    <3>1. CASE auth = "WaitTdlibParameters" /\ state = "WaitEncryptionKey"
      BY <1>2, <1>6, <1>8, <2>5, <3>1 DEF Starting, Stages, Early
    <3>2. CASE state = stage
      BY <1>1, <3>2 DEF Types, Stages, Early
    <3>3. CASE state \in Final
      BY <1>1, <3>3 DEF Final, Early
    <3> QED BY <1>4, <2>1, <3>1, <3>2, <3>3
  <2> QED BY <1>6, <1>8, <2>4, <2>5 DEF Starting
<1>9. SignedIn => SignedIn'
  BY <1>1, <1>2, <1>4, <1>6 DEF SignedIn
<1>10. NoReadyComes => NoReadyComes'
  BY <1>1, <1>2, <1>4, <1>6 DEF NoReadyComes
<1>11. Live'
  BY <1>2, <1>6, <1>8, <1>9, <1>10, PagesStep
<1> QED BY <1>7, <1>11

\* The answer to something else.
LEMMA AnswerSafe ==
  ASSUME Types, running => Live, NEW m \in Delivery, m.kind # "updateAuthorizationState",
         Answer(m), UNCHANGED tdlib, events' \in 0..MaxEvents
  PROVE  Types' /\ Live'
<1>1. /\ running /\ Live
      /\ UNCHANGED <<m_authorizationState, m_connectionState, floodCounter, view, page,
                     m_currentAuthorizationState, dialogState, pressed, quitting,
                     quitOnCloseUi, running, restarts, trouble>>
  BY AnswerLeaves
<1>2. UNCHANGED <<auth, stage, connection>> /\ \A s \in AuthorizationStates : ~Tells(m, s)
  BY DEF tdlib, Tells
<1>3. /\ requests' \in Seq(RequestNames) /\ Asked' \subseteq Asked
      /\ inbox' \in Seq(Delivery)
      /\ Told' = Told
      /\ InOrder'
  BY <1>1, <1>2, AnswerFacts DEF Live
<1>4. (Starting => Starting') /\ (SignedIn => SignedIn') /\ (NoReadyComes => NoReadyComes')
  BY <1>1, <1>2, <1>3, QuietStep
<1>5. Live'
  BY <1>1, <1>3, <1>4, PagesStep
<1> QED BY <1>1, <1>2, <1>3, <1>5 DEF Types

LEMMA HandlesRequestSafe ==
  ASSUME Types, running => Live, HandlesRequest
  PROVE  Types' /\ Live'
<1>1. CASE \E state \in NextStates(Request) : Enters(state)
  BY <1>1, EntersSafe
<1>2. ASSUME NEW m, m = IF Request = "getChats" /\ auth = "Ready"
                        THEN [kind |-> "chats"] ELSE Error(ErrorCode),
             Answer(m), UNCHANGED <<tdlib, events>>
      PROVE  Types' /\ Live'
  <2>1. m \in Delivery /\ m.kind # "updateAuthorizationState"
    BY <1>2 DEF Delivery, Error, ErrorCode
  <2> QED BY <1>2, <2>1, AnswerSafe DEF Types
<1> QED BY <1>1, <1>2 DEF HandlesRequest

\* What happens unasked is counted.
LEMMA HappensFacts ==
  ASSUME Types, Happens
  PROVE  running /\ events' \in 0..MaxEvents /\ events' # events
BY CountTypes, BoundsAssumption DEF Happens

LEMMA RefusesSafe ==
  ASSUME Types, running => Live, NEW code \in {400, 420}, Refuses(code)
  PROVE  Types' /\ Live'
<1>1. Error(code) \in Delivery /\ Error(code).kind # "updateAuthorizationState"
  BY DEF Error, Delivery
<1> QED BY <1>1, HappensFacts, AnswerSafe DEF Refuses

\* The network comes and goes.
LEMMA ConnectionSafe ==
  ASSUME Types, running => Live, Connects \/ LosesConnection
  PROVE  Types' /\ Live' /\ UNCHANGED running
<1>1. PICK state \in ConnectionStates : ConnectionChanges(state)
  BY DEF Connects, LosesConnection, ConnectionStates
<1>2. /\ running /\ Live
      /\ connection' = state
      /\ UNCHANGED <<auth, stage, requests, m_authorizationState, m_connectionState, floodCounter,
                     view, page, m_currentAuthorizationState, dialogState, pressed, quitting,
                     quitOnCloseUi, running, restarts, trouble>>
  BY <1>1 DEF ConnectionChanges, wrapper, window, dialog, process
<1>3. PICK m \in Delivery : /\ m.kind = "updateConnectionState"
                            /\ inbox' = Append(inbox, m)
  BY <1>1 DEF ConnectionChanges, Delivery
<1>4. \A s \in AuthorizationStates : ~Tells(m, s)
  BY <1>3 DEF Tells
<1>5. inbox' \in Seq(Delivery) /\ Told' = Told /\ InOrder' /\ Asked' = Asked
  BY <1>2, <1>3, <1>4, TellFacts DEF Live, Asked
<1>6. (Starting => Starting') /\ (SignedIn => SignedIn') /\ (NoReadyComes => NoReadyComes')
  BY <1>2, <1>5, QuietStep
<1>7. Live'
  BY <1>2, <1>5, <1>6, PagesStep
<1>8. events' \in 0..MaxEvents
  BY HappensFacts DEF Connects, LosesConnection, Types
<1> QED BY <1>2, <1>5, <1>7, <1>8 DEF Types

-----------------------------------------------------------------------------
(* The main thread's steps. *)

\* A state comes to the dialogs and the chats page.
LEMMA setAuthorizationStateSafe ==
  ASSUME Types, running => Live, setAuthorizationState
  PROVE  Types' /\ Live'
<1>1. PICK state : state = Received.state
  OBVIOUS
<1>2. /\ Consume("updateAuthorizationState")
      /\ requests' = requests \o Answers(state)
      /\ m_authorizationState' = state
      /\ IF state = m_authorizationState
         THEN UNCHANGED <<page, dialog>>
         ELSE authorizationStateChanged(state)
      /\ UNCHANGED <<m_connectionState, floodCounter, view, running, trouble>>
  BY <1>1 DEF setAuthorizationState
<1>3. /\ running /\ Live
      /\ UNCHANGED <<auth, stage, connection, quitting, quitOnCloseUi, restarts, events>>
  BY <1>2 DEF Consume, tdlib
<1>4. /\ state \in Told /\ state \in AuthorizationStates
      /\ inbox' \in Seq(Delivery)
      /\ Told' \subseteq Told
      /\ InOrder'
  BY <1>1, <1>2, <1>3, ConsumeFacts DEF Live, Tells, Told
<1>5. requests' \in Seq(RequestNames) /\ Asked' \cap SignIns \subseteq Asked
  <2>1. CASE Answers(state) = <<>>
    <3>1. requests' = requests
      BY <1>2, <2>1, ConcatEmptySeq DEF Types
    <3> QED BY <3>1 DEF Types, Asked
  <2>2. ASSUME NEW r \in {"setTdlibParameters", "setEncryptionKey"}, Answers(state) = <<r>>
        PROVE  requests' \in Seq(RequestNames) /\ Asked' \cap SignIns \subseteq Asked
    <3>1. r \in RequestNames /\ r \notin SignIns
      BY DEF RequestNames, SignIns, ToReady
    <3>2. requests' = Append(requests, r)
      BY <1>2, <2>2, <3>1, AppendIsConcat DEF Types
    <3> QED BY <3>1, <3>2, AskFacts
  <2> QED BY <2>1, <2>2 DEF Answers
<1>6. ChatsPage(state) \in {"ChatsPage", "AuthorizeDialog"}
  BY DEF ChatsPage
<1>7. Types'
  <2>1. page' \in {page, "ChatsPage", "AuthorizeDialog"}
    BY <1>2, <1>6 DEF authorizationStateChanged
  <2>2. /\ m_currentAuthorizationState' \in {m_currentAuthorizationState, state}
        /\ dialogState' \in {"", "password", "code", "register"}
        /\ pressed' \subseteq {"code", "name"}
    BY <1>2 DEF authorizationStateChanged, DialogStateIn, AsksFor, PressedIn, dialog, Types
  <2> QED BY <1>2, <1>3, <1>4, <1>5, <2>1, <2>2 DEF Types
<1>8. ASSUME Starting PROVE Starting'
  BY <1>2, <1>3, <1>4, <1>5, <1>8 DEF Starting, Start
<1>9. SignedIn => SignedIn'
  BY <1>2, <1>3, <1>4 DEF SignedIn
<1>10. NoReadyComes => NoReadyComes' /\ state # "Ready"
  BY <1>2, <1>3, <1>4, <1>5 DEF NoReadyComes, SignIns
<1>11. state = "Ready" => SignedIn'
  BY <1>2, <1>4 DEF SignedIn, InOrder, Past
<1>12. ASSUME Starting, state \in {"WaitPhoneNumber", "WaitCode"} PROVE NoReadyComes'
  <2>1. state \in Stages /\ state \notin Early \cup Final \cup {"Ready"}
    BY <1>12 DEF Stages, Early, Final
  <2>2. state = stage /\ auth \notin Early
    BY <1>4, <1>12, <2>1 DEF Starting, Start
  <2>3. "Ready" \notin Start
    BY <1>12, <2>2 DEF Start, Early, Final
  <2> QED BY <1>2, <1>3, <1>4, <1>8, <1>12, <2>2, <2>3
          DEF Starting, NoReadyComes, SignIns, Start
<1>13. ASSUME Heeded PROVE PagesInv'
  <2>1. /\ ~OnDialog => Starting \/ SignedIn
        /\ page = "AuthorizeDialog" \/ (OnDialog /\ m_currentAuthorizationState = "Ready")
             => NoReadyComes
        /\ OnDialog /\ m_currentAuthorizationState = "Ready" => dialogState = ""
        /\ OnDialog => view = "open" /\ m_authorizationState # "Ready"
    BY <1>3, <1>13 DEF Live, PagesInv
  <2>2. CASE state = m_authorizationState
    BY <1>2, <1>8, <1>9, <1>10, <2>1, <2>2 DEF PagesInv, OnDialog, dialog
  <2>3. CASE state # m_authorizationState /\ OnDialog
    <3>1. /\ m_currentAuthorizationState' = state
          /\ page' = IF state = "Ready" /\ m_currentAuthorizationState # state
                     THEN "ChatsPage" ELSE page
      BY <1>2, <2>1, <2>3 DEF authorizationStateChanged, HasDialog, OnDialog
    <3>2. CASE state = "Ready"
      <4>1. page' = "ChatsPage"
        BY <1>10, <2>1, <2>3, <3>1, <3>2
      <4> QED BY <1>11, <3>2, <4>1 DEF PagesInv, OnDialog
    <3>3. CASE state # "Ready"
      BY <1>2, <2>1, <2>3, <3>1, <3>3 DEF PagesInv, OnDialog
    <3> QED BY <3>2, <3>3
  <2>4. CASE state # m_authorizationState /\ ~OnDialog
    <3>1. /\ page' = IF view = "open" /\ page = "ChatsPage" THEN ChatsPage(state) ELSE page
          /\ UNCHANGED dialog
      BY <1>2, <2>4 DEF authorizationStateChanged, HasDialog, OnDialog
    <3>2. Starting' \/ SignedIn'
      BY <1>8, <1>9, <2>1, <2>4
    <3>3. CASE page' = page
      BY <1>10, <2>1, <2>4, <3>1, <3>2, <3>3 DEF PagesInv, OnDialog
    <3>4. CASE page' = "ChatsPage"
      BY <3>2, <3>4 DEF PagesInv, OnDialog
    <3>5. CASE page' = "AuthorizeDialog" /\ page # page'
      <4>1. state \in {"WaitPhoneNumber", "WaitCode"}
        BY <3>1, <3>5 DEF ChatsPage
      <4>2. state \notin Past
        BY <4>1 DEF Past, Final
      <4>3. Starting
        BY <1>4, <2>1, <2>4, <4>2 DEF SignedIn
      <4> QED BY <1>12, <3>2, <3>5, <4>1, <4>3 DEF PagesInv, OnDialog
    <3> QED BY <1>6, <3>1, <3>3, <3>4, <3>5
  <2> QED BY <2>2, <2>3, <2>4
<1>14. PagesInv'
  BY <1>2, <1>13 DEF PagesInv, Heeded
<1>15. view' = "open" => page' # "none"
  BY <1>2, <1>3, <1>6 DEF Live, authorizationStateChanged
<1> QED BY <1>2, <1>3, <1>4, <1>7, <1>14, <1>15 DEF Live

\* An error is handled: the fifth complaint ends the process.
LEMMA errorReceivedSafe ==
  ASSUME Types, running => Live, ReadyShowsChats, errorReceived
  PROVE  /\ Types' /\ ReadyShowsChats' /\ (running' => Live')
         /\ running' <=> floodCounter' # FloodLimit
<1>1. /\ Consume("error")
      /\ floodCounter' = floodCounter + (IF Received.code = 420 THEN 1 ELSE 0)
      /\ running' = (floodCounter' < FloodLimit)
      /\ page' \in {page, "AuthorizeDialog"}
      /\ trouble \subseteq trouble'
      /\ trouble' \subseteq trouble \cup {"unauthorized", "deadDialog"}
      /\ page' # page => "unauthorized" \in trouble'
      /\ UNCHANGED <<requests, m_authorizationState, m_connectionState, view,
                     m_currentAuthorizationState, dialogState, pressed>>
  BY DEF errorReceived, dialog
<1>2. /\ running /\ Live
      /\ UNCHANGED <<auth, stage, connection, quitting, quitOnCloseUi, restarts, events>>
  BY <1>1 DEF Consume, tdlib
<1>3. inbox' \in Seq(Delivery) /\ Told' \subseteq Told /\ InOrder'
  BY <1>1, <1>2, ConsumeFacts DEF Live
<1>4. floodCounter' \in 0..FloodLimit /\ (floodCounter' < FloodLimit <=> floodCounter' # FloodLimit)
  <2>1. floodCounter \in 0..FloodLimit /\ floodCounter < FloodLimit
    BY <1>2, CountTypes DEF Live
  <2> QED BY <1>1, <2>1, FloodAssumption
<1>5. Types'
  <2>1. running' \in BOOLEAN
    BY <1>1
  <2> QED BY <1>1, <1>2, <1>3, <1>4, <2>1 DEF Types
<1>6. ReadyShowsChats'
  BY <1>1 DEF ReadyShowsChats
<1>7. PagesInv'
  <2>1. Asked' = Asked
    BY <1>1 DEF Asked
  <2>2. (Starting => Starting') /\ (SignedIn => SignedIn') /\ (NoReadyComes => NoReadyComes')
    BY <1>1, <1>2, <1>3, <2>1, QuietStep
  <2>3. Heeded' => Heeded /\ page' = page
    BY <1>1 DEF Heeded
  <2> QED BY <1>1, <1>2, <2>2, <2>3 DEF Live, PagesInv, OnDialog
<1>8. view' = "open" => page' # "none"
  BY <1>1, <1>2 DEF Live
<1> QED BY <1>1, <1>2, <1>3, <1>4, <1>5, <1>6, <1>7, <1>8 DEF Live

\* Connections and lists of chats.
LEMMA OthersSafe ==
  ASSUME Types, running => Live, setConnectionState \/ addChats
  PROVE  Types' /\ Live' /\ UNCHANGED running
<1>1. PICK kind \in {"updateConnectionState", "chats"} :
        /\ Consume(kind)
        /\ UNCHANGED <<requests, m_authorizationState, floodCounter, running, view, page,
                       m_currentAuthorizationState, dialogState, pressed, trouble>>
        /\ m_connectionState' = IF kind = "chats" THEN m_connectionState
                                ELSE Received.connection
  BY DEF addChats, setConnectionState, wrapper, window, dialog
<1>2. /\ running /\ Live
      /\ UNCHANGED <<auth, stage, connection, quitting, quitOnCloseUi, restarts, events>>
  BY <1>1 DEF Consume, tdlib
<1>3. /\ inbox' \in Seq(Delivery) /\ Told' \subseteq Told /\ InOrder' /\ Asked' = Asked
      /\ m_connectionState' \in ConnectionStates
  <2>1. /\ inbox' \in Seq(Delivery) /\ Told' \subseteq Told /\ InOrder'
        /\ Received \in Delivery /\ Received.kind = kind
    BY <1>1, <1>2, ConsumeFacts DEF Live
  <2>2. m_connectionState \in ConnectionStates
    BY DEF Types
  <2> QED BY <1>1, <2>1, <2>2, DeliveryFacts DEF Asked
<1>4. (Starting => Starting') /\ (SignedIn => SignedIn') /\ (NoReadyComes => NoReadyComes')
  BY <1>1, <1>2, <1>3, QuietStep
<1> QED BY <1>1, <1>2, <1>3, <1>4, PagesStep DEF Types

-----------------------------------------------------------------------------
(* The window's steps and the user's. *)

\* The streams, but for what is asked.
Still == UNCHANGED <<auth, stage, connection, inbox, m_authorizationState, m_connectionState>>

LEMMA StillFacts ==
  ASSUME Types, Live, Still, NEW r \in RequestNames, requests' \in {requests, Append(requests, r)}
  PROVE  /\ requests' \in Seq(RequestNames) /\ Asked' \subseteq Asked \cup {r}
         /\ Told' = Told /\ InOrder'
         /\ r \notin SignIns =>
              (Starting => Starting') /\ (SignedIn => SignedIn') /\ (NoReadyComes => NoReadyComes')
<1>1. requests' \in Seq(RequestNames) /\ Asked' \subseteq Asked \cup {r}
  <2>1. CASE requests' = requests
    BY <2>1 DEF Types, Asked
  <2>2. CASE requests' = Append(requests, r)
    BY <2>2, AskFacts
  <2> QED BY <2>1, <2>2
<1>2. Told' = Told /\ InOrder'
  BY DEF Still, Told, InOrder, Live
<1> QED BY <1>1, <1>2, QuietStep DEF Still

LEMMA showAppSafe ==
  ASSUME Types, running => Live, showApp
  PROVE  Types' /\ Live'
<1>1. /\ Still
      /\ UNCHANGED <<requests, floodCounter, m_currentAuthorizationState,
                     dialogState, pressed, quitting, quitOnCloseUi, running, restarts, trouble>>
      /\ IF view = "none" THEN OpensView ELSE UNCHANGED <<view, page>>
  BY DEF showApp, Still, tdlib, wrapper, dialog, process, window
<1>2. running /\ Live /\ events' \in 0..MaxEvents
  BY HappensFacts DEF showApp
<1>3. /\ InOrder'
      /\ (Starting => Starting') /\ (SignedIn => SignedIn') /\ (NoReadyComes => NoReadyComes')
  BY <1>1, <1>2, StillFacts DEF RequestNames, SignIns, ToReady
<1>4. ChatsPage(m_authorizationState) \in {"ChatsPage", "AuthorizeDialog"}
  BY DEF ChatsPage
<1>5. Types'
  BY <1>1, <1>2, <1>4 DEF Types, Still, OpensView
<1>6. view' = "open" => page' # "none"
  BY <1>1, <1>2, <1>4 DEF OpensView, Live
<1>7. ASSUME Heeded PROVE PagesInv'
  <2>1. CASE view = "none"
    <3>1. ~OnDialog /\ (Starting \/ SignedIn)
      BY <1>2, <1>7, <2>1 DEF Live, PagesInv
    <3>2. page' = ChatsPage(m_authorizationState)
      BY <1>1, <2>1 DEF OpensView
    <3>3. CASE page' = "AuthorizeDialog"
      <4>1. m_authorizationState \in {"WaitPhoneNumber", "WaitCode"}
        BY <3>2, <3>3 DEF ChatsPage
      <4>2. Starting
        BY <3>1, <4>1 DEF SignedIn, Past, Final
      <4>3. m_authorizationState = stage /\ auth \notin Early
        BY <4>1, <4>2 DEF Starting, Start, Early, Final, Stages
      <4>4. "Ready" \notin Start
        BY <4>1, <4>3 DEF Start, Early, Final
      <4>5. NoReadyComes
        BY <4>2, <4>3, <4>4 DEF Starting, NoReadyComes, SignIns
      <4> QED BY <1>3, <3>1, <3>3, <4>5 DEF PagesInv, OnDialog
    <3>4. CASE page' = "ChatsPage"
      BY <1>3, <3>1, <3>4 DEF PagesInv, OnDialog
    <3> QED BY <1>4, <3>2, <3>3, <3>4
  <2>2. CASE view # "none"
    BY <1>1, <1>2, <1>3, <2>2, <1>7 DEF Live, PagesInv, OnDialog, Still
  <2> QED BY <2>1, <2>2
<1>8. PagesInv'
  BY <1>1, <1>7 DEF PagesInv, Heeded
<1> QED BY <1>1, <1>2, <1>3, <1>5, <1>6, <1>8 DEF Live

LEMMA onViewClosingSafe ==
  ASSUME Types, running => Live, onViewClosing
  PROVE  Types' /\ Live'
<1>1. /\ Still
      /\ UNCHANGED <<requests, floodCounter, page, m_currentAuthorizationState,
                     dialogState, pressed, quitting, quitOnCloseUi, running, restarts>>
      /\ view = "open" /\ view' = "closing"
      /\ trouble' = trouble \cup (IF HasDialog THEN {"left"} ELSE {})
  BY DEF onViewClosing, Still, tdlib, wrapper, dialog, process
<1>2. running /\ Live /\ events' \in 0..MaxEvents
  BY HappensFacts DEF onViewClosing
<1>3. /\ InOrder'
      /\ (Starting => Starting') /\ (SignedIn => SignedIn') /\ (NoReadyComes => NoReadyComes')
  BY <1>1, <1>2, StillFacts DEF RequestNames, SignIns, ToReady
<1>4. PagesInv'
  BY <1>1, <1>2, <1>3 DEF Live, PagesInv, Heeded, OnDialog, HasDialog
<1>5. Types'
  BY <1>1, <1>2 DEF Types, Still
<1> QED BY <1>1, <1>2, <1>3, <1>4, <1>5 DEF Live

LEMMA onViewDestroyedSafe ==
  ASSUME Types, running => Live, onViewDestroyed
  PROVE  Types' /\ Live'
<1>1. /\ Still /\ running /\ Live
      /\ UNCHANGED <<floodCounter, quitOnCloseUi, running, restarts, trouble, events>>
      /\ view = "closing" /\ view' = "none" /\ page' = "none"
      /\ m_currentAuthorizationState' = NoDialog /\ dialogState' = "" /\ pressed' = {}
      /\ requests' \in {requests, Append(requests, "close")}
      /\ quitting' = (quitting \/ quitOnCloseUi)
  BY DEF onViewDestroyed, Still, tdlib, wrapper
<1>2. /\ requests' \in Seq(RequestNames) /\ InOrder'
      /\ (Starting => Starting') /\ (SignedIn => SignedIn') /\ (NoReadyComes => NoReadyComes')
  BY <1>1, StillFacts DEF RequestNames, SignIns, ToReady
<1>3. PagesInv'
  BY <1>1, <1>2 DEF Live, PagesInv, Heeded, OnDialog
<1>4. quitting' \in BOOLEAN /\ (quitting' => quitOnCloseUi')
  BY <1>1 DEF Types, Live
<1>5. Types'
  BY <1>1, <1>2, <1>4 DEF Types, Still
<1> QED BY <1>1, <1>2, <1>3, <1>4, <1>5 DEF Live

\* The process ends, and nothing is left of what it had in memory.
LEMMA ExitsSafe ==
  ASSUME Inv, Exits, auth' \in AuthorizationStates, stage' \in Stages, events' \in 0..MaxEvents
  PROVE  Inv'
<1>1. inbox' \in Seq(Delivery) /\ requests' \in Seq(RequestNames)
  BY EmptySeq DEF Exits, NewMemory
<1>2. floodCounter' \in 0..FloodLimit
  <2>1. floodCounter' = 0
    BY DEF Exits, NewMemory
  <2> QED BY <2>1, FloodAssumption
<1>3. /\ connection' \in ConnectionStates /\ m_connectionState' \in ConnectionStates
      /\ m_authorizationState' \in AuthorizationStates
      /\ m_currentAuthorizationState' \in AuthorizationStates \cup {NoDialog}
  BY DEF Exits, NewMemory, ConnectionStates, AuthorizationStates
<1>4. /\ dialogState' = "" /\ pressed' = {} /\ trouble' = {}
      /\ quitting' = FALSE /\ running' = FALSE
      /\ view' = "none" /\ page' = "none" /\ UNCHANGED <<quitOnCloseUi, restarts>>
  BY DEF Exits, NewMemory
<1>5. Types'
  BY <1>1, <1>2, <1>3, <1>4 DEF Inv, Types
<1> QED BY <1>5 DEF Inv, Exits, ReadyShowsChats

LEMMA EndsSafe ==
  ASSUME Inv, Closes \/ CloseTimeout \/ Killed
  PROVE  /\ Inv'
         /\ auth' = "Closed" \/ (quitOnCloseUi /\ quitting) \/ events' # events
<1>1. CASE Closes
  <2>1. stage' \in Stages /\ auth' = "Closed"
    BY <1>1 DEF Inv, Types, Closes, Stages
  <2> QED BY <1>1, <2>1, ExitsSafe DEF Inv, Types, Closes, AuthorizationStates
<1>2. CASE CloseTimeout
  <2>1. quitOnCloseUi /\ quitting
    BY <1>2 DEF Inv, Live, CloseTimeout, Exits
  <2> QED BY <1>2, <2>1, ExitsSafe DEF Inv, Types, CloseTimeout
<1>3. CASE Killed
  BY <1>3, HappensFacts, ExitsSafe DEF Inv, Types, Killed
<1> QED BY <1>1, <1>2, <1>3

LEMMA AcceptNumberSafe ==
  ASSUME Types, running => Live, AcceptNumber
  PROVE  Types' /\ Live'
<1>1. /\ Still /\ running /\ Live
      /\ UNCHANGED <<floodCounter, view, quitting, quitOnCloseUi, running, restarts, events>>
      /\ view = "open" /\ page = "AuthorizeDialog" /\ page' = "AreYouSureDialog"
      /\ m_currentAuthorizationState' \in AuthorizationStates \cup {NoDialog}
      /\ dialogState' = "" /\ pressed' = {}
      /\ requests' \in {requests, Append(requests, "setEncryptionKey")}
      /\ trouble \subseteq trouble' /\ trouble' \subseteq trouble \cup {"resumed"}
  BY DEF AcceptNumber, AuthorizationStates, On, elsewhere, Still, tdlib, wrapper, process
<1>2. /\ requests' \in Seq(RequestNames) /\ InOrder'
      /\ (NoReadyComes => NoReadyComes')
  BY <1>1, StillFacts DEF RequestNames, SignIns, ToReady
<1>3. PagesInv'
  <2>1. Heeded' => NoReadyComes
    BY <1>1 DEF Live, PagesInv, Heeded
  <2> QED BY <1>1, <1>2, <2>1 DEF PagesInv, OnDialog, NoReadyComes
<1>4. Types'
  BY <1>1, <1>2 DEF Types, Still
<1> QED BY <1>1, <1>2, <1>3, <1>4 DEF Live

LEMMA ConfirmNumberSafe ==
  ASSUME Types, running => Live, ConfirmNumber
  PROVE  Types' /\ Live'
<1>1. /\ Still /\ running /\ Live
      /\ UNCHANGED <<floodCounter, view, quitting, quitOnCloseUi, running, restarts, events,
                     m_currentAuthorizationState, dialogState, pressed, trouble>>
      /\ view = "open" /\ page = "AreYouSureDialog" /\ page' = "SignInDialog"
      /\ requests' = Append(requests, "setPhoneNumber")
  BY DEF ConfirmNumber, On, Sends, elsewhere, Still, tdlib, wrapper, process, dialog
<1>2. /\ requests' \in Seq(RequestNames) /\ Asked' \subseteq Asked \cup {"setPhoneNumber"}
      /\ InOrder' /\ Told' = Told
  BY <1>1, StillFacts DEF RequestNames
<1>3. NoReadyComes => NoReadyComes'
  BY <1>1, <1>2 DEF NoReadyComes, ToReady, Still
<1>4. PagesInv'
  BY <1>1, <1>3 DEF Live, PagesInv, Heeded, OnDialog, Still
<1>5. Types'
  BY <1>1, <1>2 DEF Types, Still
<1> QED BY <1>1, <1>2, <1>4, <1>5 DEF Live

\* What is sent from SignInDialog may lead to Ready: the handler has heard of the
\* state it is sent for, or holds that of the password, which are other ones.
LEMMA SignInSafe ==
  ASSUME Types, running => Live, SignIn \/ SignInWithPassword
  PROVE  Types' /\ Live'
<1>1. /\ Still /\ running /\ Live
      /\ UNCHANGED <<floodCounter, view, page, quitting, quitOnCloseUi, running, restarts, events,
                     m_currentAuthorizationState, dialogState>>
      /\ page = "SignInDialog" /\ pressed' \subseteq {"code", "name"}
      /\ trouble \subseteq trouble' /\ trouble' \subseteq trouble \cup {"deadDialog"}
  <2>1. CASE SignIn
    BY <2>1 DEF SignIn, Button, On, Sends, elsewhere, Still, tdlib, wrapper, process, Types
  <2>2. CASE SignInWithPassword
    BY <2>2
       DEF SignInWithPassword, On, Sends, elsewhere, Still, tdlib, wrapper, process, dialog, Types
  <2> QED BY <2>1, <2>2
<1>2. PICK r \in ToReady : /\ requests' \in {requests, Append(requests, r)}
                           /\ Heeded /\ m_currentAuthorizationState = "Ready"
                                => requests' = requests
  <2>1. CASE SignIn
    <3>1. Heeded /\ m_currentAuthorizationState = "Ready" => dialogState = ""
      BY <1>1 DEF Live, PagesInv, OnDialog
    <3>2. \/ dialogState \in {"code", "register"}
             /\ \E r \in ToReady : requests' = Append(requests, r)
          \/ requests' = requests
      BY <2>1 DEF SignIn, Sends, ToReady
    <3>3. CASE requests' = requests
      BY <3>3 DEF ToReady
    <3>4. CASE requests' # requests
      BY <3>1, <3>2, <3>4
    <3> QED BY <3>3, <3>4
  <2>2. CASE SignInWithPassword
    BY <2>2 DEF SignInWithPassword, Fields, AsksFor, Sends, ToReady
  <2> QED BY <2>1, <2>2
<1>3. requests' \in Seq(RequestNames) /\ InOrder' /\ Told' = Told
  BY <1>1, <1>2, StillFacts DEF RequestNames, ToReady
<1>4. Heeded /\ m_currentAuthorizationState = "Ready" => (NoReadyComes => NoReadyComes')
  BY <1>1, <1>2, <1>3 DEF NoReadyComes, Asked, Still
<1>5. PagesInv'
  BY <1>1, <1>4 DEF Live, PagesInv, Heeded, OnDialog, Still
<1>6. Types'
  BY <1>1, <1>3 DEF Types, Still
<1> QED BY <1>1, <1>3, <1>5, <1>6 DEF Live

\* The user leaves a dialog or the chats.
LEMMA LeavesSafe ==
  ASSUME Types, running => Live, GoesBack \/ LogOut
  PROVE  Types' /\ Live'
<1>1. /\ Still /\ Happens
      /\ UNCHANGED <<floodCounter, view, quitting, quitOnCloseUi, running, restarts>>
      /\ m_currentAuthorizationState' \in {m_currentAuthorizationState, NoDialog}
      /\ dialogState' \in {"", dialogState} /\ pressed' \subseteq {"code", "name"}
      /\ page' = "AuthorizeDialog" /\ trouble' = trouble \cup {"left"}
      /\ requests' \in {requests, Append(requests, "logOut")}
  <2>1. CASE GoesBack
    BY <2>1 DEF GoesBack, elsewhere, Still, tdlib, wrapper, process
  <2>2. CASE LogOut
    BY <2>2 DEF LogOut, Sends, elsewhere, Still, tdlib, wrapper, process, dialog, Types
  <2> QED BY <2>1, <2>2
<1>2. running /\ Live /\ events' \in 0..MaxEvents
  BY <1>1, HappensFacts
<1>3. requests' \in Seq(RequestNames) /\ InOrder'
  BY <1>1, <1>2, StillFacts DEF RequestNames
<1>4. PagesInv'
  BY <1>1 DEF PagesInv, Heeded
<1>5. Types'
  BY <1>1, <1>2, <1>3 DEF Types, Still
<1> QED BY <1>1, <1>2, <1>3, <1>4, <1>5 DEF Live

LEMMA ResetDialogsSafe ==
  ASSUME Types, running => Live, ResetDialogs
  PROVE  Types' /\ Live'
<1>1. /\ Still /\ Happens
      /\ UNCHANGED <<floodCounter, view, page, m_currentAuthorizationState,
                     dialogState, pressed, quitting, quitOnCloseUi, running, restarts, trouble>>
      /\ requests' = Append(requests, "getChats")
  BY DEF ResetDialogs, Sends, elsewhere, Still, tdlib, wrapper, process, dialog
<1>2. running /\ Live /\ events' \in 0..MaxEvents
  BY <1>1, HappensFacts
<1>3. /\ requests' \in Seq(RequestNames) /\ InOrder'
      /\ (Starting => Starting') /\ (SignedIn => SignedIn') /\ (NoReadyComes => NoReadyComes')
  BY <1>1, <1>2, StillFacts DEF RequestNames, SignIns, ToReady
<1>4. Live'
  BY <1>1, <1>2, <1>3, PagesStep DEF Still
<1> QED BY <1>1, <1>2, <1>3, <1>4 DEF Types, Still

-----------------------------------------------------------------------------
(* The start of a process. *)

Started ==
  /\ requests = <<>>
  /\ inbox = <<Authorization("WaitTdlibParameters")>>
  /\ auth = "WaitTdlibParameters"
  /\ connection = "WaitingForNetwork"
  /\ m_connectionState = "WaitingForNetwork"
  /\ m_authorizationState = "WaitTdlibParameters"
  /\ floodCounter = 0
  /\ m_currentAuthorizationState = NoDialog
  /\ dialogState = ""
  /\ pressed = {}
  /\ quitting = FALSE
  /\ quitOnCloseUi \in BOOLEAN
  /\ running = TRUE
  /\ view = IF quitOnCloseUi THEN "open" ELSE "none"
  /\ page = IF quitOnCloseUi THEN "ChatsPage" ELSE "none"
  /\ trouble = {}

LEMMA StartedSafe ==
  ASSUME Started, stage \in Stages, events \in 0..MaxEvents, restarts \in 0..MaxRestarts
  PROVE  Types /\ Live
<1>1. inbox[1] = Authorization("WaitTdlibParameters") /\ Len(inbox) = 1 /\ Len(requests) = 0
  BY DEF Started
<1>2. inbox \in Seq(Delivery) /\ requests \in Seq(RequestNames)
  <2>1. Authorization("WaitTdlibParameters") \in Delivery
    BY DEF Delivery, Authorization, AuthorizationStates
  <2>2. /\ inbox = <<Authorization("WaitTdlibParameters")>>
        /\ requests = <<>>
    BY DEF Started
  <2> QED BY <2>1, <2>2, EmptySeq
<1>3. floodCounter \in 0..FloodLimit /\ floodCounter < FloodLimit
  <2>1. floodCounter = 0
    BY DEF Started
  <2> QED BY <2>1, FloodAssumption
<1>4. Types
  BY <1>2, <1>3 DEF Types, Started, AuthorizationStates, ConnectionStates
<1>5. Told \subseteq {"WaitTdlibParameters"} /\ Asked = {}
  BY <1>1 DEF Told, Asked, Tells, Authorization
<1>6. InOrder
  <2>1. "WaitTdlibParameters" \notin Past
    BY DEF Past, Final
  <2>2. \A i, j \in 1..Len(inbox) : ~(i < j)
    BY <1>1
  <2> QED BY <1>5, <2>1, <2>2 DEF InOrder, Started
<1>7. Starting
  BY <1>5 DEF Starting, Started, Start, Early, Stages
<1>8. PagesInv
  BY <1>7 DEF PagesInv, Started, OnDialog
<1> QED BY <1>3, <1>4, <1>6, <1>8 DEF Live, Started

LEMMA StartedIsSafe ==
  Started /\ stage \in Stages /\ events \in 0..MaxEvents /\ restarts \in 0..MaxRestarts
    => Types /\ Live
BY StartedSafe

\* The same in the next state.
LEMMA StartedSafeNext ==
  Started' /\ stage' \in Stages /\ events' \in 0..MaxEvents /\ restarts' \in 0..MaxRestarts
    => Types' /\ Live'
<1>1. (Started /\ stage \in Stages /\ events \in 0..MaxEvents /\ restarts \in 0..MaxRestarts)'
        => (Types /\ Live)'
  BY StartedIsSafe, PTL
<1>2. Stages' = Stages /\ (0..MaxEvents)' = 0..MaxEvents /\ (0..MaxRestarts)' = 0..MaxRestarts
  BY DEF Stages
<1> QED BY <1>1, <1>2

LEMMA mainSafe ==
  ASSUME Types, main
  PROVE  Types' /\ Live'
<1>1. /\ Started' /\ stage' \in Stages /\ events' \in 0..MaxEvents
  BY DEF main, NewMemory, Started, Types
<1>2. restarts' \in 0..MaxRestarts
  BY CountTypes, BoundsAssumption DEF main
<1> QED BY <1>1, <1>2, StartedSafeNext

-----------------------------------------------------------------------------
(* The invariant. *)

LEMMA InvInit == Init => Inv
<1> SUFFICES ASSUME Init PROVE Inv
  OBVIOUS
<1>1. Started /\ stage \in Stages /\ events = 0 /\ restarts = 0
  BY DEF Init, Started
<1>2. events \in 0..MaxEvents /\ restarts \in 0..MaxRestarts
  BY <1>1, BoundsAssumption
<1> QED BY <1>1, <1>2, StartedSafe, LiveShowsChats DEF Inv

\* Of the steps that end the process, each has its reason.
Reason ==
  auth' = "Closed" \/ floodCounter' = FloodLimit \/ events' # events
    \/ (quitOnCloseUi /\ quitting)

LEMMA InvStep ==
  ASSUME Inv, [Next]_vars
  PROVE  Inv' /\ (running /\ ~running' => Reason)
<1>1. Types /\ ReadyShowsChats /\ (running => Live)
  BY DEF Inv
<1>2. Types' /\ Live' => Inv'
  <2>1. Types' /\ Live' => ReadyShowsChats'
    BY DEF Types, Live, PagesInv, ReadyShowsChats, Heeded, OnDialog, NoReadyComes
  <2> QED BY <2>1 DEF Inv
<1>3. CASE HandlesRequest
  <2>1. UNCHANGED running
    BY <1>3 DEF HandlesRequest, Enters, Answer, process
  <2> QED BY <1>1, <1>2, <1>3, <2>1, HandlesRequestSafe
<1>4. ASSUME NEW code \in {400, 420}, Refuses(code)
      PROVE  Inv' /\ (running /\ ~running' => Reason)
  BY <1>1, <1>2, <1>4, RefusesSafe, HappensFacts DEF Refuses, Reason
<1>5. CASE Closes \/ CloseTimeout \/ Killed
  BY <1>5, EndsSafe DEF Reason
<1>6. CASE setAuthorizationState
  <2>1. UNCHANGED running
    BY <1>6 DEF setAuthorizationState
  <2> QED BY <1>1, <1>2, <1>6, <2>1, setAuthorizationStateSafe
<1>7. CASE errorReceived
  BY <1>1, <1>7, errorReceivedSafe DEF Inv, Reason
<1>8. CASE setConnectionState \/ addChats \/ Connects \/ LosesConnection
  BY <1>1, <1>2, <1>8, OthersSafe, ConnectionSafe
<1>9. CASE showApp \/ onViewClosing
  BY <1>1, <1>2, <1>9, showAppSafe, onViewClosingSafe, HappensFacts
     DEF showApp, onViewClosing, Reason
<1>10. CASE onViewDestroyed
  <2>1. UNCHANGED running
    BY <1>10 DEF onViewDestroyed
  <2> QED BY <1>1, <1>2, <1>10, <2>1, onViewDestroyedSafe
<1>11. CASE main
  BY <1>1, <1>2, <1>11, mainSafe DEF main
<1>12. CASE GoesOn
  <2>1. UNCHANGED running
    BY <1>12 DEF GoesOn, AcceptNumber, ConfirmNumber, SignIn, SignInWithPassword, elsewhere, process
  <2> QED BY <1>1, <1>2, <1>12, <2>1, AcceptNumberSafe, ConfirmNumberSafe, SignInSafe DEF GoesOn
<1>13. CASE GoesBack \/ LogOut
  BY <1>1, <1>2, <1>13, LeavesSafe, HappensFacts DEF GoesBack, LogOut, Reason
<1>14. CASE ResetDialogs
  BY <1>1, <1>2, <1>14, ResetDialogsSafe, HappensFacts DEF ResetDialogs, Reason
<1>15. CASE UNCHANGED vars
  <2>1. UNCHANGED <<auth, stage, connection, requests, inbox, m_authorizationState,
                    m_connectionState, floodCounter, view, page, m_currentAuthorizationState,
                    dialogState, pressed, quitting, quitOnCloseUi, running, trouble, events,
                    restarts>>
    BY <1>15 DEF vars, tdlib, wrapper, window, dialog, process
  <2>2. Types'
    BY <1>1, <2>1 DEF Types
  <2>3. Live => Live'
    <3>1. Told' = Told /\ Asked' = Asked /\ (InOrder => InOrder')
      BY <2>1 DEF Told, Asked, InOrder
    <3>2. Starting' = Starting /\ SignedIn' = SignedIn /\ NoReadyComes' = NoReadyComes
      BY <2>1, <3>1 DEF Starting, SignedIn, NoReadyComes, Start
    <3> QED BY <2>1, <3>1, <3>2 DEF Live, PagesInv, Heeded, OnDialog
  <2> QED BY <1>1, <2>1, <2>2, <2>3 DEF Inv, ReadyShowsChats
<1> QED BY <1>3, <1>4, <1>5, <1>6, <1>7, <1>8, <1>9, <1>10, <1>11, <1>12, <1>13, <1>14, <1>15
        DEF Next, Handle

-----------------------------------------------------------------------------
(* The theorems. *)

\* Every variable keeps its type: in particular the process does not go on after
\* the last complaint of floods that it puts up with.
THEOREM TypeCorrect == Spec => []TypeOK
<1>1. Inv => TypeOK
  <2> SUFFICES ASSUME Inv PROVE TypeOK
    OBVIOUS
  <2>1. \A i \in 1..Len(inbox) : inbox[i] \in Delivery
    BY ElementOfSeq DEF Inv, Types
  <2> QED BY <2>1, DeliveryFacts DEF Inv, Types, TypeOK
<1> QED BY <1>1, InvInit, InvStep, PTL DEF Spec

\* Whoever is signed in sees the chats and no dialog, unless a dialog or the
\* chats were left or a request was refused before TDLib was ready.
THEOREM ReadyShows == Spec => []ReadyShowsChats
<1>1. Inv => ReadyShowsChats
  BY DEF Inv
<1> QED BY <1>1, InvInit, InvStep, PTL DEF Spec

\* The process ends because TDLib has closed, of the last complaint of floods,
\* because it is killed, or of the close of the window when no daemon is wanted.
THEOREM EndsWithReason == Spec => EndsForAReason
<1>1. Inv /\ [Next]_vars
        => [running /\ ~running' =>
              auth' = "Closed" \/ floodCounter' = FloodLimit \/ events' # events
              \/ (quitOnCloseUi /\ quitting)]_vars
  BY InvStep DEF Reason
<1> QED BY <1>1, InvInit, InvStep, PTL DEF Spec, EndsForAReason
=============================================================================
