-------------------------------- MODULE Session --------------------------------
(***************************************************************************)
(* The life of the process, of its window and of the authorization.        *)
(*                                                                         *)
(* TDLib says in which authorization state it is; TdlibJsonWrapper answers *)
(* two of the states itself, the dialogs the others.  A dialog's handler   *)
(* hears of changes only.  The process is started by D-Bus or by the user, *)
(* has a window or none, and ends when TDLib is closed, when a timer runs  *)
(* out after the window was closed, when TDLib complains of floods, or     *)
(* because it is killed; TDLib's database outlives it.                     *)
(*                                                                         *)
(* Numbers, codes and names are left out, and pages that are pushed upon   *)
(* the chats page.                                                         *)
(***************************************************************************)
EXTENDS Integers, Sequences

CONSTANTS
  FloodLimit,    \* the fifth complaint in the code
  MaxRequests,   \* bound: what is under way when the user asks for more
  MaxEvents,     \* bound: what happens unasked
  MaxRestarts    \* bound: starts after the first

ASSUME FloodAssumption == FloodLimit \in Nat \ {0}
ASSUME BoundsAssumption == {MaxRequests, MaxEvents, MaxRestarts} \subseteq Nat

VARIABLES
  auth, stage,            \* TDLib's state, and the one its database is in
  connection,             \* TDLib's to the servers
  requests, inbox,        \* to TDLib, and its updates and answers
  m_authorizationState, m_connectionState, floodCounter,   \* TdlibJsonWrapper's
  view, page,             \* the window and the page on top
  m_currentAuthorizationState,   \* of the handler in SignInDialog
  dialogState,            \* signInDialog.state
  pressed,                \* where btnsignin is disabled: asked for the name, or else
  quitting,               \* the timer in main() runs
  quitOnCloseUi, running,
  trouble,                \* what the dialogs do not recover from (history)
  events, restarts        \* count to their bounds

tdlib   == <<auth, stage, connection>>
wrapper == <<m_authorizationState, m_connectionState, floodCounter>>
dialog  == <<m_currentAuthorizationState, dialogState, pressed>>
window  == <<view, page>>
process == <<quitting, quitOnCloseUi, running, restarts>>
vars == <<tdlib, requests, inbox, wrapper, window, dialog, process, trouble, events>>

Stages == {"WaitPhoneNumber", "WaitCode", "WaitRegistration", "WaitPassword", "Ready"}
AuthorizationStates ==
  Stages \cup {"WaitTdlibParameters", "WaitEncryptionKey", "LoggingOut", "Closing", "Closed"}
\* The first stands for the other states of a connection that is not ready.
ConnectionStates == {"WaitingForNetwork", "Ready"}

NoDialog == "none"

Happens == running /\ events < MaxEvents /\ events' = events + 1

-----------------------------------------------------------------------------
(* TDLib. *)

Authorization(state) == [kind |-> "updateAuthorizationState", state |-> state]
Error(code) == [kind |-> "error", code |-> code]

Request == Head(requests)

Answer(message) ==
  /\ running
  /\ requests # <<>>
  /\ requests' = Tail(requests)
  /\ inbox' = Append(inbox, message)
  /\ UNCHANGED <<wrapper, window, dialog, process, trouble>>

Enters(state) ==
  /\ Answer(Authorization(state))
  /\ auth' = state
  /\ stage' = IF state \in Stages THEN state ELSE stage
  /\ UNCHANGED <<connection, events>>

\* The authorization states a request leads to.
NextStates(request) ==
  CASE request = "setTdlibParameters" /\ auth = "WaitTdlibParameters" -> {"WaitEncryptionKey"}
    [] request = "setEncryptionKey" /\ auth = "WaitEncryptionKey" -> {stage}
    [] request = "setPhoneNumber" /\ auth \in Stages \ {"Ready"} -> {"WaitCode"}
    [] request = "checkCode" /\ auth = "WaitCode" ->
         {"WaitRegistration", "WaitPassword", "Ready"}
    [] request = "registerUser" /\ auth = "WaitRegistration" -> {"Ready"}
    [] request = "checkPassword" /\ auth = "WaitPassword" -> {"Ready"}
    [] request = "logOut" /\ auth = "Ready" -> {"LoggingOut"}
    [] request = "close" /\ auth # "Closed" -> {"Closing"}
    [] OTHER -> {}

\* TDLib is not authorized, or the request is out of place.
ErrorCode ==
  IF auth \in {"WaitTdlibParameters", "WaitEncryptionKey"} \/ Request = "getChats" THEN 401 ELSE 400

HandlesRequest ==
  /\ requests # <<>>
  /\ \/ \E state \in NextStates(Request) : Enters(state)
     \/ /\ NextStates(Request) = {}
        /\ Answer(IF Request = "getChats" /\ auth = "Ready"
                  THEN [kind |-> "chats"] ELSE Error(ErrorCode))
        /\ UNCHANGED <<tdlib, events>>

\* A wrong code, password or name; or too many requests.
Refuses(code) ==
  /\ Happens
  /\ requests # <<>>
  /\ Request \in {"setPhoneNumber", "checkCode", "registerUser", "checkPassword", "getChats"}
  /\ Answer(Error(code))
  /\ UNCHANGED tdlib

\* What needs the network is kept until TDLib has one, which the order of the
\* answers above leaves open.
ConnectionChanges(state) ==
  /\ running
  /\ connection # state
  /\ connection' = state
  /\ inbox' = Append(inbox, [kind |-> "updateConnectionState", connection |-> state])
  /\ UNCHANGED <<auth, stage, requests, wrapper, window, dialog, process, trouble>>

Connects == ConnectionChanges("Ready") /\ UNCHANGED events
LosesConnection == ConnectionChanges("WaitingForNetwork") /\ Happens

-----------------------------------------------------------------------------
(* The end of the process, and its start. *)

\* What was in memory is gone; TdlibJsonWrapper's states are those of zeroed
\* memory, and no handler is there.
NewMemory ==
  /\ requests' = <<>>
  /\ connection' = "WaitingForNetwork"
  /\ m_authorizationState' = "WaitTdlibParameters"
  /\ m_connectionState' = "WaitingForNetwork"
  /\ floodCounter' = 0
  /\ m_currentAuthorizationState' = NoDialog
  /\ dialogState' = ""
  /\ pressed' = {}
  /\ quitting' = FALSE
  /\ trouble' = {}

Exits ==
  /\ running
  /\ running' = FALSE
  /\ NewMemory
  /\ inbox' = <<>>
  /\ view' = "none"
  /\ page' = "none"
  /\ UNCHANGED <<quitOnCloseUi, restarts>>

\* The listening thread ends the process without going through the queue.
Closes ==
  /\ Exits
  /\ auth \in {"LoggingOut", "Closing"}
  /\ auth' = "Closed"
  /\ stage' = IF auth = "LoggingOut" THEN "WaitPhoneNumber" ELSE stage
  /\ UNCHANGED events

Killed == Exits /\ Happens /\ UNCHANGED <<auth, stage>>

main ==
  /\ ~running
  /\ restarts < MaxRestarts
  /\ restarts' = restarts + 1
  /\ running' = TRUE
  /\ NewMemory
  /\ inbox' = <<Authorization("WaitTdlibParameters")>>
  /\ auth' = "WaitTdlibParameters"
  /\ quitOnCloseUi' \in BOOLEAN
  /\ view' = IF quitOnCloseUi' THEN "open" ELSE "none"
  /\ page' = IF quitOnCloseUi' THEN "ChatsPage" ELSE "none"
  /\ UNCHANGED <<stage, events>>

-----------------------------------------------------------------------------
(* The main thread. *)

Received == Head(inbox)

Consume(kind) ==
  /\ running
  /\ inbox # <<>>
  /\ Received.kind = kind
  /\ inbox' = Tail(inbox)
  /\ UNCHANGED <<tdlib, quitting, quitOnCloseUi, restarts, events>>

HasDialog == view = "open" /\ page \in {"AreYouSureDialog", "SignInDialog"}

\* ChatsPage asks for the number when it is needed, be it at its start.
ChatsPage(state) ==
  IF state \in {"WaitPhoneNumber", "WaitCode"} THEN "AuthorizeDialog" ELSE "ChatsPage"

\* What a dialog asks for in a state.
AsksFor(state) ==
  CASE state = "WaitPassword" -> "password"
    [] state = "WaitCode" -> "code"
    [] state = "WaitRegistration" -> "register"
    [] OTHER -> ""

\* The fields on the screen: the states of the flickable follow the handler's by
\* their "when", one that is in its memory from the start included.
Fields == AsksFor(m_currentAuthorizationState)

\* The state of the dialog itself is set by the handler's signal only, which
\* does not come for a state the handler has in memory already.
DialogStateIn(state) ==
  IF AsksFor(state) # "" /\ m_currentAuthorizationState # state
  THEN AsksFor(state) ELSE dialogState

\* The button that is disabled by hand stays so.  The fields for the name have a
\* binding of their own for it, which is set anew when they are shown and is
\* undone when they are not.
PressedIn(state) ==
  IF state = "WaitRegistration" /\ m_currentAuthorizationState # state
  THEN pressed \ {"name"} ELSE pressed

\* Mutant: the dialogs leave for the chats only from a password.
authorizationStateChanged_Password(state) ==
  IF HasDialog
  THEN /\ m_currentAuthorizationState' = state
       /\ dialogState' = DialogStateIn(state)
       /\ pressed' = PressedIn(state)
       /\ page' = IF state = "Ready" /\ m_currentAuthorizationState = "WaitPassword"
                  THEN "ChatsPage" ELSE page
  ELSE /\ page' = IF view = "open" /\ page = "ChatsPage" THEN ChatsPage(state) ELSE page
       /\ UNCHANGED dialog

\* The slots of authorizationStateChanged: ChatsPage's and the handler's.
authorizationStateChanged(state) ==
  IF HasDialog
  THEN /\ m_currentAuthorizationState' = state
       /\ dialogState' = DialogStateIn(state)
       /\ pressed' = PressedIn(state)
       /\ page' = IF state = "Ready" /\ m_currentAuthorizationState # state
                  THEN "ChatsPage" ELSE page
  ELSE /\ page' = IF view = "open" /\ page = "ChatsPage" THEN ChatsPage(state) ELSE page
       /\ UNCHANGED dialog

Answers(state) ==
  CASE state = "WaitTdlibParameters" -> <<"setTdlibParameters">>
    [] state = "WaitEncryptionKey" -> <<"setEncryptionKey">>
    [] OTHER -> <<>>

\* Mutant: a state that is the known one already is not answered.
setAuthorizationState_EarlyReturn ==
  LET state == Received.state IN
  /\ Consume("updateAuthorizationState")
  /\ m_authorizationState' = state
  /\ IF state = m_authorizationState
     THEN UNCHANGED <<requests, page, dialog>>
     ELSE requests' = requests \o Answers(state) /\ authorizationStateChanged(state)
  /\ UNCHANGED <<m_connectionState, floodCounter, view, running, trouble>>

setAuthorizationState ==
  LET state == Received.state IN
  /\ Consume("updateAuthorizationState")
  /\ requests' = requests \o Answers(state)
  /\ m_authorizationState' = state
  /\ IF state = m_authorizationState
     THEN UNCHANGED <<page, dialog>>
     ELSE authorizationStateChanged(state)
  /\ UNCHANGED <<m_connectionState, floodCounter, view, running, trouble>>

setConnectionState ==
  /\ Consume("updateConnectionState")
  /\ m_connectionState' = Received.connection
  /\ UNCHANGED <<requests, m_authorizationState, floodCounter, running, window, dialog, trouble>>

\* Mutant: one complaint of floods more is put up with.
errorReceived_OneMore ==
  /\ Consume("error")
  /\ floodCounter' = floodCounter + (IF Received.code = 420 THEN 1 ELSE 0)
  /\ running' = (floodCounter' <= FloodLimit)
  /\ page' = IF view = "open" /\ page = "ChatsPage" /\ Received.code = 401
             THEN "AuthorizeDialog" ELSE page
  /\ trouble' = trouble
       \cup (IF page' # page THEN {"unauthorized"} ELSE {})
       \cup (IF HasDialog /\ m_authorizationState # "WaitPassword" THEN {"deadDialog"} ELSE {})
  /\ UNCHANGED <<requests, m_authorizationState, m_connectionState, view, dialog>>

errorReceived ==
  /\ Consume("error")
  /\ floodCounter' = floodCounter + (IF Received.code = 420 THEN 1 ELSE 0)
  /\ running' = (floodCounter' < FloodLimit)
  /\ page' = IF view = "open" /\ page = "ChatsPage" /\ Received.code = 401
             THEN "AuthorizeDialog" ELSE page
  /\ trouble' = trouble
       \cup (IF page' # page THEN {"unauthorized"} ELSE {})
       \cup (IF HasDialog /\ m_authorizationState # "WaitPassword" THEN {"deadDialog"} ELSE {})
  /\ UNCHANGED <<requests, m_authorizationState, m_connectionState, view, dialog>>

\* The list of chats, which ChatList has.
addChats ==
  /\ Consume("chats")
  /\ UNCHANGED <<requests, wrapper, running, window, dialog, trouble>>

Handle == setAuthorizationState \/ setConnectionState \/ errorReceived \/ addChats

-----------------------------------------------------------------------------
(* The window. *)

OpensView ==
  /\ view' = "open"
  /\ page' = ChatsPage(m_authorizationState)

\* The view exists for one more turn of the event loop after it was closed.
\* Until then it is destroyed and shown again in vain.
showApp ==
  /\ Happens
  /\ IF view = "none" THEN OpensView ELSE UNCHANGED window
  /\ UNCHANGED <<tdlib, requests, inbox, wrapper, dialog, process, trouble>>

onViewClosing ==
  /\ Happens
  /\ view = "open"
  /\ view' = "closing"
  /\ trouble' = trouble \cup (IF HasDialog THEN {"left"} ELSE {})
  /\ UNCHANGED <<tdlib, requests, inbox, wrapper, page, dialog, process>>

\* Mutant: TDLib is closed, and no timer waits for it.
onViewDestroyed_NoTimer ==
  /\ running
  /\ view = "closing"
  /\ view' = "none"
  /\ page' = "none"
  /\ m_currentAuthorizationState' = NoDialog
  /\ dialogState' = ""
  /\ pressed' = {}
  /\ requests' = IF quitOnCloseUi THEN Append(requests, "close") ELSE requests
  /\ UNCHANGED <<tdlib, inbox, wrapper, process, trouble, events>>

\* Mutant: the timer is started whether or not a daemon is wanted.
onViewDestroyed_AlwaysTimer ==
  /\ running
  /\ view = "closing"
  /\ view' = "none"
  /\ page' = "none"
  /\ m_currentAuthorizationState' = NoDialog
  /\ dialogState' = ""
  /\ pressed' = {}
  /\ requests' = Append(requests, "close")
  /\ quitting' = TRUE
  /\ UNCHANGED <<tdlib, inbox, wrapper, quitOnCloseUi, running, restarts, trouble, events>>

onViewDestroyed ==
  /\ running
  /\ view = "closing"
  /\ view' = "none"
  /\ page' = "none"
  /\ m_currentAuthorizationState' = NoDialog
  /\ dialogState' = ""
  /\ pressed' = {}
  /\ requests' = IF quitOnCloseUi THEN Append(requests, "close") ELSE requests
  /\ quitting' = (quitting \/ quitOnCloseUi)
  /\ UNCHANGED <<tdlib, inbox, wrapper, quitOnCloseUi, running, restarts, trouble, events>>

\* Nothing stops the timer, be the window open again or not.
CloseTimeout == quitting /\ Exits /\ UNCHANGED <<auth, stage, events>>

-----------------------------------------------------------------------------
(* The user's way through the dialogs. *)

On(p) == running /\ view = "open" /\ page = p

Sends(request) ==
  /\ Len(requests) + Len(inbox) < MaxRequests
  /\ requests' = Append(requests, request)

elsewhere == <<tdlib, inbox, wrapper, view, process>>

\* The handler of SignInDialog is created with AreYouSureDialog; its state is
\* whatever is in memory, one that a dialog heeds or another, and no one tells
\* it the present one.
AcceptNumber ==
  /\ On("AuthorizeDialog")
  /\ page' = "AreYouSureDialog"
  /\ m_currentAuthorizationState' \in (Stages \ {"WaitPhoneNumber"}) \cup {NoDialog}
  /\ dialogState' = ""
  /\ pressed' = {}
  /\ requests' = IF m_authorizationState = "WaitEncryptionKey"
                 THEN Append(requests, "setEncryptionKey") ELSE requests
  /\ trouble' = trouble \cup (IF m_authorizationState = "WaitPhoneNumber" THEN {} ELSE {"resumed"})
  /\ UNCHANGED <<elsewhere, events>>

\* The dialog can be accepted only while there is a connection.
ConfirmNumber ==
  /\ On("AreYouSureDialog")
  /\ m_connectionState = "Ready"
  /\ page' = "SignInDialog"
  /\ Sends("setPhoneNumber")
  /\ UNCHANGED <<elsewhere, dialog, trouble, events>>

Button == IF Fields = "register" THEN "name" ELSE "code"

\* Until the dialog has a state the button does nothing but disable itself.
SignIn ==
  /\ On("SignInDialog")
  /\ Fields # "password"
  /\ Button \notin pressed
  /\ pressed' = pressed \cup {Button}
  /\ \/ /\ dialogState = "code"
        /\ Sends("checkCode")
        /\ UNCHANGED trouble
     \/ /\ dialogState = "register"
        /\ Sends("registerUser")
        /\ UNCHANGED trouble
     \/ /\ dialogState \in {"", "password"}
        /\ trouble' = trouble \cup {"deadDialog"}
        /\ UNCHANGED requests
  /\ UNCHANGED <<elsewhere, page, m_currentAuthorizationState, dialogState, events>>

SignInWithPassword ==
  /\ On("SignInDialog")
  /\ Fields = "password"
  /\ Sends("checkPassword")
  /\ UNCHANGED <<elsewhere, page, dialog, trouble, events>>

GoesOn == AcceptNumber \/ ConfirmNumber \/ SignIn \/ SignInWithPassword

GoesBack ==
  /\ Happens
  /\ HasDialog
  /\ page' = "AuthorizeDialog"
  /\ m_currentAuthorizationState' = NoDialog
  /\ dialogState' = ""
  /\ pressed' = {}
  /\ trouble' = trouble \cup {"left"}
  /\ UNCHANGED <<elsewhere, requests>>

ResetDialogs ==
  /\ Happens
  /\ On("ChatsPage")
  /\ Sends("getChats")
  /\ UNCHANGED <<elsewhere, page, dialog, trouble>>

LogOut ==
  /\ Happens
  /\ On("ChatsPage")
  /\ Sends("logOut")
  /\ page' = "AuthorizeDialog"
  /\ trouble' = trouble \cup {"left"}
  /\ UNCHANGED <<elsewhere, dialog>>

-----------------------------------------------------------------------------
Init ==
  /\ stage \in Stages
  /\ auth = "WaitTdlibParameters"
  /\ connection = "WaitingForNetwork"
  /\ m_connectionState = "WaitingForNetwork"
  /\ requests = <<>>
  /\ inbox = <<Authorization("WaitTdlibParameters")>>
  /\ m_authorizationState = "WaitTdlibParameters"
  /\ floodCounter = 0
  /\ m_currentAuthorizationState = NoDialog
  /\ dialogState = ""
  /\ pressed = {}
  /\ quitting = FALSE
  /\ quitOnCloseUi \in BOOLEAN
  /\ running = TRUE
  /\ view = IF quitOnCloseUi THEN "open" ELSE "none"
  /\ page = IF quitOnCloseUi THEN "ChatsPage" ELSE "none"
  /\ trouble = {}
  /\ events = 0
  /\ restarts = 0

Next ==
  \/ HandlesRequest \/ Refuses(400) \/ Refuses(420) \/ Connects \/ LosesConnection \/ Closes
  \/ Handle
  \/ showApp \/ onViewClosing \/ onViewDestroyed \/ CloseTimeout \/ Killed \/ main
  \/ GoesOn \/ GoesBack \/ ResetDialogs \/ LogOut

\* TDLib handles requests and finds the network again, the event loop and its
\* timer run, and the user goes on with the dialogs.  TDLib need not close.
Fairness ==
  /\ WF_vars(HandlesRequest)
  /\ WF_vars(Connects)
  /\ WF_vars(Handle)
  /\ WF_vars(onViewDestroyed)
  /\ WF_vars(CloseTimeout)
  /\ WF_vars(GoesOn)

Spec == Init /\ [][Next]_vars
FairSpec == Spec /\ Fairness

-----------------------------------------------------------------------------
(* Properties. *)

(* Every variable keeps its type. *)
TypeOK ==
  /\ auth \in AuthorizationStates
  /\ stage \in Stages
  /\ connection \in ConnectionStates
  /\ \A i \in 1..Len(inbox) :
       inbox[i].kind \in {"updateAuthorizationState", "updateConnectionState", "error", "chats"}
  /\ m_connectionState \in ConnectionStates
  /\ m_authorizationState \in AuthorizationStates
  /\ floodCounter \in 0..FloodLimit
  /\ view \in {"none", "open", "closing"}
  /\ page \in {"none", "ChatsPage", "AuthorizeDialog", "AreYouSureDialog", "SignInDialog"}
  /\ m_currentAuthorizationState \in AuthorizationStates \cup {NoDialog}
  /\ dialogState \in {"", "password", "code", "register"}
  /\ pressed \subseteq {"code", "name"}
  /\ quitting \in BOOLEAN
  /\ quitOnCloseUi \in BOOLEAN
  /\ running \in BOOLEAN
  /\ trouble \subseteq {"unauthorized", "deadDialog", "resumed", "left"}
  /\ events \in 0..MaxEvents
  /\ restarts \in 0..MaxRestarts

(* Whoever is signed in sees the chats and no dialog, unless the user left the
   dialog or the chats before the answer, or a request was refused before TDLib
   was ready: then nobody listens for Ready. *)
ReadyShowsChats ==
  view = "open" /\ m_authorizationState = "Ready" /\ trouble \cap {"unauthorized", "left"} = {}
  => page = "ChatsPage"

(* The daemon goes on without a window.  Whatever ends the process is TDLib
   that has closed, the fifth complaint of floods, a kill, or the close of the
   window when no daemon is wanted. *)
EndsForAReason ==
  [][running /\ ~running' =>
       auth' = "Closed" \/ floodCounter' = FloodLimit \/ events' # events
       \/ (quitOnCloseUi /\ quitting)]_vars

(* The user who goes on through the dialogs gets to the chats, the network being
   there in the end.  What the code does not recover from is excluded by name:
   - a dialog opened while TDLib is not waiting for a number, in the middle of a
     sign-in that a restart has interrupted, does not know of it ("resumed");
   - after a wrong code or name, a flood or another error the button stays
     disabled ("deadDialog");
   - the button that is pressed while the dialog has no state sends nothing and
     stays disabled, too: before TDLib asks for the code, or although it does,
     when the handler's memory held that state from the start, so that no change
     was signalled (AuthenticationHandler.cpp:74; "deadDialog", even in a sign-in
     that nothing has interrupted);
   - a request that is refused before TDLib is ready shows the dialogs of the
     number to someone who is signed in ("unauthorized");
   - the user leaves the dialogs, the chats or the window ("left");
   - ChatsPage opens no dialog for a name or a password;
   - TDLib is closing, or the process has ended. *)
EventuallySignedIn ==
  (view = "open" /\ running) ~>
    \/ m_authorizationState = "Ready" /\ page = "ChatsPage"
    \/ view # "open" \/ ~running \/ trouble # {}
    \/ page = "ChatsPage" /\ m_authorizationState \in {"WaitRegistration", "WaitPassword"}
    \/ auth \in {"LoggingOut", "Closing"}

(* When no daemon is wanted the process ends after the window was closed, even
   if TDLib does not. *)
QuitsAfterViewClosed == (view = "closing" /\ quitOnCloseUi) ~> ~running
=============================================================================
