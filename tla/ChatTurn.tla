------------------------------- MODULE ChatTurn -------------------------------
(***************************************************************************)
(* The conversation as the page keeps it, turn after turn: the script of   *)
(* the Streamlit page (frontend/enterprise_ai_frontend/app.py) posts a     *)
(* prompt, takes the envelopes of EventStream one by one (api_client.py,   *)
(* turns.py) and changes the session state (state.py), while the request   *)
(* may be refused, the connection may break, and the user may use whatever *)
(* control the page shows, which stops the script where it is.             *)
(*                                                                         *)
(* The controls are those the script drew when it started: PENDING was     *)
(* still false then, so they work while the turn is in progress.           *)
(***************************************************************************)
EXTENDS EventStream

CONSTANT MaxTurns \* bound: prompts

ASSUME TurnAssumption == MaxTurns \in Nat \ {0}

VARIABLES
    page,      \* "login", "idle", or "reading": the loop over stream_chat
    read,      \* envelopes of the stream that the page took
    enabled,   \* the controls the page shows are enabled
    prompts,   \* prompts posted so far
    effective, \* the conversation of the turn in the backend
    messages,  \* MESSAGES: whose, for which prompt, of which conversation
    session,   \* SESSION_ID: a conversation, or NoConversation
    waiting,   \* PENDING
    error      \* LAST_ERROR is set

server == <<graph, earlier, parts, runtime, adapter, expired, span>>
shown == <<messages, session, waiting, error>>
turn == <<prompts, effective>>
chat == <<page, read, enabled, turn, shown>>

NoConversation == 0

Question(n) == [role |-> "user", prompt |-> n, of |-> NoConversation]
Reply == [role |-> "assistant", prompt |-> prompts, of |-> effective]

Has(message) == \E i \in DOMAIN messages : messages[i] = message

Taken == IF read = 0 THEN Unsent ELSE wire[read]

\* The validator of the stream that is read.
Validator == INSTANCE StreamContract WITH accepted <- read, last <- Taken

-----------------------------------------------------------------------------
(* The session state.                                                      *)

\* record_error()
RecordError ==
    /\ waiting' = FALSE /\ error' = TRUE
    /\ UNCHANGED <<messages, session>>

\* complete(): one assistant message for each request, and the conversation
\* that it names is the one to continue.
Completes ==
    IF Has(Reply) THEN UNCHANGED shown
    ELSE /\ messages' = Append(messages, Reply)
         /\ session' = effective
         /\ waiting' = FALSE /\ error' = FALSE

\* new_conversation(), clear_all() and authenticate().
Cleared(e) ==
    /\ messages' = <<>> /\ session' = NoConversation
    /\ waiting' = FALSE /\ error' = e

\* Leaving the loop closes response and client.
HangUp == client' = IF page = "reading" THEN "gone" ELSE client

-----------------------------------------------------------------------------
(* What the user does.                                                     *)

\* A prompt: the question is shown and posted with SESSION_ID; without one
\* the backend makes a conversation up.  A conversation that is continued
\* left its final_output in the checkpoint.  (A stream that this interrupts
\* goes on out of sight as if the client had left.)
Prompt ==
    /\ page # "login" /\ enabled /\ prompts < MaxTurns
    /\ page' = "reading" /\ read' = 0
    /\ prompts' = prompts + 1
    /\ effective' = IF session = NoConversation THEN prompts + 1 ELSE session
    /\ messages' = Append(messages, Question(prompts + 1))
    /\ waiting' = TRUE /\ error' = FALSE
    /\ UNCHANGED <<enabled, session>>
    /\ node' = "start" /\ busy' = FALSE /\ failing' = FALSE
    /\ path' \in 1..MaxNodes
    /\ history' = 0 /\ journal' = 0 /\ parts' = <<>>
    /\ earlier' \in IF session = NoConversation THEN {NoResponse}
                    ELSE [of : {"earlier"}, failed : BOOLEAN]
    /\ expected' = 0 /\ ended' = FALSE /\ expired' = FALSE
    /\ pending' = "none" /\ item' = NoItem /\ asked' = 0
    /\ phase' = "new" /\ held' = "none" /\ wire' = <<>>
    /\ span' = IF span = "off" THEN "off" ELSE "none"
    /\ client' = "here"

\* Mutant: only what is shown is cleared.
NewConversationShallow ==
    /\ page # "login" /\ enabled
    /\ messages' = <<>> /\ waiting' = FALSE /\ error' = FALSE
    /\ page' = "idle"
    /\ HangUp
    /\ UNCHANGED <<server, read, enabled, turn, session>>

\* The button, in a turn or between turns.
NewConversation ==
    /\ page # "login" /\ enabled
    /\ Cleared(FALSE)
    /\ page' = "idle"
    /\ HangUp
    /\ UNCHANGED <<server, read, enabled, turn>>

LogOut ==
    /\ page # "login" /\ enabled
    /\ Cleared(FALSE)
    /\ page' = "login"
    /\ HangUp
    /\ UNCHANGED <<server, read, enabled, turn>>

\* Streamlit runs the script anew without any of the page's controls.  It
\* stops a turn in progress; PENDING stays, and disables what is drawn now.
Rerun ==
    /\ page # "login"
    /\ page' = "idle"
    /\ enabled' = ~waiting
    /\ HangUp
    /\ UNCHANGED <<server, read, turn, shown>>

LogIn ==
    /\ page = "login"
    /\ Cleared(FALSE)
    /\ page' = "idle" /\ enabled' = TRUE
    /\ UNCHANGED <<server, client, read, turn>>

-----------------------------------------------------------------------------
(* The script in the loop over stream_chat.                                *)

\* The backend answers with a status and no stream.
TurnedAway ==
    /\ page = "reading" /\ phase = "new"
    /\ phase' = "closed" /\ client' = "gone"
    /\ UNCHANGED <<graph, earlier, parts, runtime, pending, item, asked, held,
                   wire, expired, span, read, enabled, turn>>

\* 401: the token has expired, is not one the backend issued, or grants other
\* permissions than its role has.  The page logs the user out.
TokenRefused == TurnedAway /\ page' = "login" /\ Cleared(TRUE)

\* 429 and 503: the user's bucket is empty or could not be asked.  What else
\* is wrong with a request is shown in the same way.
LimitReached == TurnedAway /\ page' = "idle" /\ RecordError

\* The next envelope, once the validator accepted it.
Take ==
    /\ page = "reading" /\ read < Len(wire)
    /\ UNCHANGED <<server, enabled, turn>>
    /\ read' = read + 1
    /\ Validator!Accept(wire[read + 1])
    /\ CASE Taken'.type = "stream.error" ->
              RecordError /\ page' = "idle" /\ client' = "gone"
         [] Taken'.type \in {"response.completed", "response.failed"} ->
              Completes /\ UNCHANGED <<page, client>>
         [] OTHER -> UNCHANGED <<page, client, shown>>

\* The response is complete, the validator saw the terminal envelope, and the
\* script runs anew.
TurnEnds ==
    /\ page = "reading" /\ phase = "closed" /\ read = Len(wire)
    /\ Taken.type \in Validator!Terminal
    /\ page' = "idle" /\ enabled' = ~waiting
    /\ UNCHANGED <<server, client, read, turn, shown>>

\* Mutant: a stream that is interrupted only ends the loop.
BreaksQuietly ==
    /\ page = "reading"
    /\ page' = "idle" /\ waiting' = FALSE
    /\ client' = "gone"
    /\ UNCHANGED <<server, read, enabled, turn, messages, session, error>>

\* A read times out or the connection breaks, wherever the stream is; the
\* script is not run anew, so the controls stay as they are drawn.
Breaks ==
    /\ page = "reading"
    /\ RecordError
    /\ page' = "idle"
    /\ client' = "gone"
    /\ UNCHANGED <<server, read, enabled, turn>>

Script == Take \/ TurnEnds

-----------------------------------------------------------------------------

ChatInit ==
    /\ Init
    /\ page = "idle" /\ read = 0 /\ enabled = TRUE
    /\ prompts = 0 /\ effective = NoConversation
    /\ messages = <<>> /\ session = NoConversation
    /\ waiting = FALSE /\ error = FALSE

\* The backend's side, once there is a request; the client leaves when the
\* page hangs up.
Backend(A) == prompts > 0 /\ A /\ UNCHANGED chat

ChatNext ==
    \/ Prompt \/ NewConversation \/ LogOut \/ Rerun \/ LogIn
    \/ TokenRefused \/ LimitReached \/ Take \/ TurnEnds \/ Breaks
    \/ Backend(Run) \/ Backend(FinalizeRaises) \/ Backend(GraphRaises)
    \/ Backend(Generator) \/ Backend(ClaimRefused) \/ Backend(Timeout)
    \/ Backend(Adapter) \/ Backend(Ping) \/ Backend(Cancelled)

allVars == <<vars, chat>>

ChatSpec == ChatInit /\ [][ChatNext]_allVars

\* The tasks of the backend run as in EventStream, and the script reads what
\* arrives.
FairChat ==
    /\ ChatSpec
    /\ WF_allVars(Backend(Run)) /\ WF_allVars(Backend(Generator))
    /\ WF_allVars(Backend(Adapter)) /\ WF_allVars(Backend(Ping))
    /\ WF_allVars(Script)

-----------------------------------------------------------------------------
(* What the page guarantees.                                               *)

\* The answers shown are all of the conversation the next prompt continues,
\* and without an answer there is none to continue; each follows its question
\* and is shown once.  Refused, broken, interrupted and failed turns, new
\* conversations and new logins in between change nothing of that.
OneConversation ==
    LET replies == {i \in DOMAIN messages : messages[i].role = "assistant"}
    IN /\ (session = NoConversation) = (replies = {})
       /\ \A i \in replies :
            /\ messages[i].of = session
            /\ i > 1 /\ messages[i - 1] = Question(messages[i].prompt)
            /\ \A j \in replies : messages[j] = messages[i] => j = i

\* docs/streamlit-chat-ui-design.md: errors "never create a false assistant
\* answer".  A turn ends, and when it does its prompt has an answer or an
\* error that says why not, unless the user stopped the script, which leaves
\* it waiting, or cleared the conversation.
EveryPromptIsSettled ==
    page = "reading"
        ~> page # "reading" /\ \/ Has(Reply) \/ error
                                \/ waiting \/ messages = <<>>
===============================================================================
