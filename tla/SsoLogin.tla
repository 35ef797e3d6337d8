------------------------------ MODULE SsoLogin ------------------------------
(***************************************************************************)
(* Adding a character: the browser is sent to the login page with a random *)
(* state, a web server on the local host waits for the redirect with the   *)
(* code, and a slot of the main thread trades the code for tokens and the  *)
(* id of the character.  The trade waits in a local event loop, in which   *)
(* the main thread does everything else, further logins included.          *)
(*                                                                         *)
(* The row of the new character is added in Accounts.                      *)
(***************************************************************************)
EXTENDS Naturals, Sequences

CONSTANTS
  Chars,      \* ids of the characters of the player
  MaxStarts,  \* bound: starts of the callback server
  MaxLogins   \* bound: signals queued, and slots on the stack

ASSUME CharsAssumption == Chars \subseteq Nat \ {0}
ASSUME LoginBounds == {MaxStarts, MaxLogins} \subseteq Nat

(* The state sent along is a hash of a random number, taken to be new each *)
(* time; it is told by the start of the server that made it.  0 is "".     *)
States == 0 .. MaxStarts

(* A code that the login page gave to a character, with the page's state; a*)
(* page gives one code to each character.                                  *)
Codes == [state : States, char : Chars]

VARIABLES
  listening,  \* m_server.isListening()
  state,      \* m_sso_state
  starts,     \* history: states generated so far, in any session
  tabs,       \* states of the login pages left open in the browser
  spent,      \* codes that the login server has traded for tokens
  queued,     \* codeReceived signals queued for the main thread
  logins      \* onCodeReceived slots on the stack, the innermost last

server == <<listening, state, starts>>
loginVars == <<server, tabs, spent, queued, logins>>

InnerLogin == logins[Len(logins)]
AtLogin(place) == logins # <<>> /\ InnerLogin.at = place
LoginReturned == SubSeq(logins, 1, Len(logins) - 1)

LoginInit ==
  /\ listening = FALSE /\ state = 0 /\ starts = 0
  /\ tabs = {} /\ spent = {}
  /\ queued = <<>> /\ logins = <<>>

-----------------------------------------------------------------------------
(* Mutant: a state is generated only when there is none yet.               *)
StartKeepsState ==
  /\ listening' = TRUE
  /\ starts' = starts + 1
  /\ state' = IF state = 0 THEN starts' ELSE state

(* startSsoHandlerHttpServer, on a free port.                              *)
StartSsoHandlerHttpServer ==
  /\ listening' = TRUE
  /\ starts' = starts + 1
  /\ state' = starts'

(* slotStartSsoAuth: the server is started unless it listens, and the page *)
(* is opened whatever came of that, with the state there is.               *)
SlotStartSsoAuth(portFree) ==
  /\ IF listening \/ ~portFree
     THEN UNCHANGED server
     ELSE starts < MaxStarts /\ StartSsoHandlerHttpServer
  /\ tabs' = tabs \cup {state'}
  /\ UNCHANGED <<spent, queued, logins>>

(* stopSsoHandlerHttpServer: the state stays.                              *)
StopSsoHandlerHttpServer ==
  /\ listening' = FALSE
  /\ UNCHANGED <<state, starts>>

(* slotCancelSsoAuth: signals already queued stay, and logins under way.   *)
SlotCancelSsoAuth ==
  /\ listening
  /\ StopSsoHandlerHttpServer
  /\ UNCHANGED <<tabs, spent, queued, logins>>

(* HttpSsoCallbackResource::deliver, in a thread of the server: the user   *)
(* logs in on a page and is redirected, or loads the redirected page again.*)
Deliver(code) ==
  /\ listening
  /\ code.state \in tabs
  /\ Len(queued) < MaxLogins
  /\ queued' = Append(queued, code)
  /\ UNCHANGED <<server, tabs, spent, logins>>

(* eveapi_request_first_access_token: the request for the tokens, and the  *)
(* one for the id that follows it.                                         *)
RequestTokens(code) == [code |-> code, at |-> "token"]
RequestCharacterId(login) == [login EXCEPT !.at = "verify"]

(* onCodeReceived, in the event loop of the thread or of a login: a code   *)
(* with another state is refused, else its tokens are requested.           *)
OnCodeReceived ==
  /\ queued # <<>>
  /\ Len(logins) < MaxLogins
  /\ queued' = Tail(queued)
  /\ logins' = IF Head(queued).state # state THEN logins
               ELSE Append(logins, RequestTokens(Head(queued)))
  /\ UNCHANGED <<server, tabs, spent>>

(* The slot emits ssoAuthError and returns.                                *)
LoginFails(place) ==
  /\ AtLogin(place)
  /\ logins' = LoginReturned
  /\ UNCHANGED <<server, tabs, queued>>

(* /oauth/token: a code is good for one trade.                             *)
TokensAnswered ==
  /\ AtLogin("token")
  /\ InnerLogin.code \notin spent
  /\ spent' = spent \cup {InnerLogin.code}
  /\ logins' = [logins EXCEPT ![Len(logins)] = RequestCharacterId(InnerLogin)]
  /\ UNCHANGED <<server, tabs, queued>>

TokensRefused == LoginFails("token") /\ UNCHANGED spent

(* No answer in 15 s; the login server may still have made the trade.      *)
TokensTimedOut ==
  /\ LoginFails("token")
  /\ spent' \in {spent, spent \cup {InnerLogin.code}}

(* /oauth/verify: an answer without a CharacterID, or none.                *)
VerifyRefused == LoginFails("verify") /\ UNCHANGED spent
VerifyTimedOut == LoginFails("verify") /\ UNCHANGED spent

(* The id is known: the slot adds the character and returns.               *)
Verified ==
  /\ AtLogin("verify")
  /\ logins' = LoginReturned
  /\ UNCHANGED <<server, tabs, spent, queued>>

(* The timers of the requests, which need no answer to end them.           *)
LoginTimedOut == TokensTimedOut \/ VerifyTimedOut

(* A new process: no state, no slots; the browser keeps its pages.         *)
LoginRestart ==
  /\ listening' = FALSE /\ state' = 0
  /\ queued' = <<>> /\ logins' = <<>>
  /\ UNCHANGED <<starts, tabs, spent>>

-----------------------------------------------------------------------------
LoginTypeOK ==
  /\ listening \in BOOLEAN
  /\ state \in States /\ starts \in States
  /\ tabs \subseteq States
  /\ spent \subseteq Codes
  /\ queued \in Seq(Codes) /\ Len(queued) <= MaxLogins
  /\ logins \in Seq([code : Codes, at : {"token", "verify"}])
  /\ Len(logins) <= MaxLogins
=============================================================================
