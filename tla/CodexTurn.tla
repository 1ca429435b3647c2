------------------------------ MODULE CodexTurn ------------------------------
(***************************************************************************)
(* The turns of one Codex session: CodexAppServerSession of                *)
(* codex_client.py reads one JSON line after the other from the pipe of    *)
(* the app-server, first while it awaits the response to turn/start        *)
(* (_request), then while it awaits turn/completed (_wait_for_turn).       *)
(* Between two turns nobody reads.  The server is external: it may ask for *)
(* approvals, chat, and report other turns than the one awaited, and it    *)
(* numbers its requests as it likes, with numbers the client uses too.  A  *)
(* completion of another thread names its turn, as the protocol has it.    *)
(***************************************************************************)
EXTENDS Naturals, Sequences

CONSTANTS
    MaxTurns,   \* turns of the session
    Msgs,       \* the agent messages of a turn
    PipeBound   \* bound on the lines in the pipe

ASSUME TurnsAssumption == MaxTurns \in Nat \ {0}
ASSUME PipeAssumption == PipeBound \in Nat \ {0}

(* The k-th turn/start request is request k and starts turn k.             *)
Turns == 1 .. MaxTurns
Unnamed == 0                \* a completion that names no turn
Foreign == MaxTurns + 1     \* the turn of another thread of the server

Lines == [kind : {"response"}, id : Turns]
            \union [kind : {"approval", "input"}, id : Turns]
            \union [kind : {"delta", "item"}, msg : Msgs]
            \union [kind : {"done"}, turn : Turns \union {Unnamed, Foreign},
                    good : BOOLEAN, items : SUBSET Msgs]
            \union [kind : {"error", "eof", "chatter"}]

VARIABLES
    client,     \* "idle", "sent" (awaits turn/start), "turn" or "failed"
    turn,       \* the turn begun last
    text,       \* how often each message is in _agent_text_capture
    pipe,       \* lines written by the server and not yet read
    pending,    \* has the server yet to respond to turn/start?
    working,    \* is the server working on the turn?
    asked,      \* does the server wait for an answer?
    spoken,     \* messages whose text was sent, not before the response
    delta,      \* messages sent in deltas
    completed,  \* turns the server has completed
    overtaken   \* did a completion go out before the response?

server == <<pending, working, spoken, delta, completed, overtaken>>
vars == <<client, turn, text, pipe, asked, server>>

Silence == [m \in Msgs |-> 0]
HasText == text # Silence

TypeOK ==
    /\ client \in {"idle", "sent", "turn", "failed"}
    /\ turn \in 0 .. MaxTurns
    /\ text \in [Msgs -> 0 .. 1]
    /\ pipe \in Seq(Lines) /\ Len(pipe) <= PipeBound
    /\ pending \in BOOLEAN /\ working \in BOOLEAN /\ asked \in BOOLEAN
    /\ spoken \subseteq Msgs /\ delta \subseteq Msgs
    /\ completed \subseteq Turns
    /\ overtaken \in BOOLEAN

Init ==
    /\ client = "idle"
    /\ turn = 0
    /\ text = Silence
    /\ pipe = <<>>
    /\ pending = FALSE
    /\ working = FALSE
    /\ asked = FALSE
    /\ spoken = {}
    /\ delta = {}
    /\ completed = {}
    /\ overtaken = FALSE

-----------------------------------------------------------------------------
(* The server *)

Writes(line) ==
    /\ Len(pipe) < PipeBound
    /\ \A k \in DOMAIN pipe : pipe[k].kind # "eof"
    /\ pipe' = Append(pipe, line)
    /\ UNCHANGED <<client, turn, text>>

Respond ==
    /\ pending
    /\ pending' = FALSE
    /\ Writes([kind |-> "response", id |-> turn])
    /\ UNCHANGED <<working, asked, spoken, delta, completed, overtaken>>

Refuse ==
    /\ pending
    /\ pending' = FALSE
    /\ working' = FALSE
    /\ Writes([kind |-> "error"])
    /\ UNCHANGED <<asked, spoken, delta, completed, overtaken>>

(* Having asked, the server waits.                                         *)
Ask(kind, id) ==
    /\ working /\ ~asked
    /\ asked' = TRUE
    /\ Writes([kind |-> kind, id |-> id])
    /\ UNCHANGED server

(* The text of a message is sent in deltas, and then or instead as an item. *)
SendDelta(m) ==
    /\ working /\ ~asked
    /\ m \notin delta
    /\ delta' = delta \union {m}
    /\ spoken' = IF pending THEN spoken ELSE spoken \union {m}
    /\ Writes([kind |-> "delta", msg |-> m])
    /\ UNCHANGED <<pending, working, asked, completed, overtaken>>

SendItem(m) ==
    /\ working /\ ~asked
    /\ delta' = delta \union {m}
    /\ spoken' = IF pending THEN spoken ELSE spoken \union {m}
    /\ Writes([kind |-> "item", msg |-> m])
    /\ UNCHANGED <<pending, working, asked, completed, overtaken>>

(* The turn ends, well or not; its last line may repeat all messages.      *)
Complete(named, good, items) ==
    /\ working /\ ~asked
    /\ working' = FALSE
    /\ completed' = completed \union {turn}
    /\ overtaken' = (overtaken \/ pending)
    /\ spoken' = IF pending THEN spoken ELSE spoken \union items
    /\ Writes([kind |-> "done", turn |-> IF named THEN turn ELSE Unnamed,
               good |-> good, items |-> items])
    /\ UNCHANGED <<pending, asked, delta>>

Chat ==
    /\ \/ Writes([kind |-> "chatter"])
       \/ Writes([kind |-> "done", turn |-> Foreign, good |-> TRUE, items |-> {}])
    /\ UNCHANGED <<asked, server>>

Die ==
    /\ working' = FALSE
    /\ pending' = FALSE
    /\ Writes([kind |-> "eof"])
    /\ UNCHANGED <<asked, spoken, delta, completed, overtaken>>

-----------------------------------------------------------------------------
(* The client *)

(* run_turn sends turn/start, on a session that has not failed.            *)
StartTurn ==
    /\ client = "idle"
    /\ turn < MaxTurns
    /\ client' = "sent"
    /\ turn' = turn + 1
    /\ pending' = TRUE
    /\ working' = TRUE
    /\ spoken' = {}
    /\ delta' = {}
    /\ text' = Silence
    /\ overtaken' = FALSE
    /\ UNCHANGED <<pipe, asked, completed>>

Reads == client \in {"sent", "turn"} /\ pipe # <<>>
Line == Head(pipe)
Taken == pipe' = Tail(pipe) /\ UNCHANGED <<turn, server>>

(* _request: a line with the id of the request and no method               *)
AnyLineIsResponse(line) == line.kind \in {"response", "approval", "input"} /\ line.id = turn
IsResponse(line) == line.kind = "response" /\ line.id = turn

ReadResponse ==
    /\ Reads
    /\ client = "sent"
    /\ IsResponse(Line)
    /\ client' = "turn"
    /\ Taken
    /\ UNCHANGED <<text, asked>>

(* A request for input that _auto_answer_tool_user_input has no answer to   *)
Unanswerable(line) == line.kind = "input"

(* _handle_server_request approves whatever may be approved; a request for *)
(* input that has no stock answer is answered with nothing and ends the    *)
(* session.  A request with a method is one in either loop.                *)
AnswerRequest ==
    /\ Reads
    /\ Line.kind \in {"approval", "input"}
    /\ ~(client = "sent" /\ IsResponse(Line))
    /\ asked' = FALSE
    /\ client' = IF Unanswerable(Line) THEN "failed" ELSE client
    /\ Taken
    /\ UNCHANGED text

(* _agent_text_from_notification: text is captured while a turn is         *)
(* awaited, from an item or a completion only if there is none yet.        *)
LosingCapture(line) ==
    text' = IF client # "turn" THEN text
            ELSE CASE line.kind = "delta" -> [text EXCEPT ![line.msg] = @ + 1]
                   [] OTHER -> text

Capture(line) ==
    text' = IF client # "turn" THEN text
            ELSE CASE line.kind = "delta" -> [text EXCEPT ![line.msg] = @ + 1]
                   [] line.kind = "item" /\ ~HasText -> [text EXCEPT ![line.msg] = @ + 1]
                   [] line.kind = "done" /\ ~HasText ->
                        [m \in Msgs |-> IF m \in line.items THEN 1 ELSE 0]
                   [] OTHER -> text

(* Is line the completion awaited?  One that names no turn is.             *)
EndsAnyTurn(line) == client = "turn" /\ line.kind = "done"
EndsNamedTurn(line) == client = "turn" /\ line.kind = "done" /\ line.turn = turn
EndsTurn(line) == client = "turn" /\ line.kind = "done" /\ line.turn \in {Unnamed, turn}

ReadNotification ==
    /\ Reads
    /\ Line.kind \in {"delta", "item", "done", "chatter"}
    /\ Capture(Line)
    /\ client' = IF ~EndsTurn(Line) THEN client
                 ELSE IF Line.good THEN "idle" ELSE "failed"
    /\ Taken
    /\ UNCHANGED asked

(* An error response, the end of the pipe, or a line that is no JSON       *)
ReadFailure ==
    /\ Reads
    /\ Line.kind \in {"error", "eof"}
    /\ client' = "failed"
    /\ Taken
    /\ UNCHANGED <<text, asked>>

(* A request times out when one line is too long in coming ...             *)
RequestTimesOut ==
    /\ client = "sent"
    /\ pipe = <<>>
    /\ client' = "failed"
    /\ UNCHANGED <<turn, text, pipe, asked, server>>

(* ... and a turn when its deadline passes, whatever there is to read.     *)
QuietTurnTimesOut ==
    /\ client = "turn"
    /\ pipe = <<>>
    /\ client' = "failed"
    /\ UNCHANGED <<turn, text, pipe, asked, server>>

TurnTimesOut ==
    /\ client = "turn"
    /\ client' = "failed"
    /\ UNCHANGED <<turn, text, pipe, asked, server>>

(* The session is stopped; the next attempt opens one of its own.          *)
Reopen ==
    /\ client = "failed" \/ (client = "idle" /\ turn = MaxTurns)
    /\ client' = "idle"
    /\ turn' = 0
    /\ text' = Silence
    /\ pipe' = <<>>
    /\ pending' = FALSE
    /\ working' = FALSE
    /\ asked' = FALSE
    /\ spoken' = {}
    /\ delta' = {}
    /\ completed' = {}
    /\ overtaken' = FALSE

ClientStep ==
    \/ ReadResponse
    \/ AnswerRequest
    \/ ReadNotification
    \/ ReadFailure

ServerStep ==
    \/ Respond
    \/ Refuse
    \/ \E kind \in {"approval", "input"}, id \in Turns : Ask(kind, id)
    \/ \E m \in Msgs : SendDelta(m) \/ SendItem(m)
    \/ \E named, good \in BOOLEAN, items \in {{}, Msgs} : Complete(named, good, items)
    \/ Chat
    \/ Die

Next ==
    \/ StartTurn
    \/ ClientStep
    \/ RequestTimesOut
    \/ TurnTimesOut
    \/ ServerStep
    \/ Reopen

(* The client reads what is there, and its deadlines pass.                 *)
Spec ==
    /\ Init /\ [][Next]_vars
    /\ WF_vars(ClientStep)
    /\ WF_vars(RequestTimesOut)
    /\ WF_vars(TurnTimesOut)

-----------------------------------------------------------------------------
(* Properties *)

(* run_turn reports a turn as completed only if it is the turn it started  *)
(* and the server completed it: neither the server's requests, nor late    *)
(* lines of an earlier turn, nor other threads are taken for its response  *)
(* or its end.                                                             *)
TurnIsReal == [][client = "turn" /\ client' = "idle" => turn \in completed]_vars

(* Client and server never wait for each other: a request the server waits *)
(* on is still to be read, or has been answered, also one made before the  *)
(* response to turn/start and one that has the number of that request.     *)
NobodyIsLeftWaiting ==
    asked /\ client # "failed" => \E k \in DOMAIN pipe : pipe[k].kind \in {"approval", "input"}

(* The text of a turn has no message twice, however often the server sends *)
(* it, and is not empty if the server sent any since it responded.         *)
TextIsFaithful ==
    /\ \A m \in Msgs : text[m] <= 1
    /\ client = "idle" /\ turn > 0 /\ spoken # {} => HasText

(* A turn that the server completed runs into its deadline only when the   *)
(* completion is still in the pipe or overtook the response, in which case *)
(* _request has thrown it away.                                            *)
CompletionIsSeen ==
    [][client = "turn" /\ pipe = <<>> /\ turn \in completed /\ client' = "failed"
          => overtaken]_vars

(* A turn ends, also when the server never stops talking and never         *)
(* completes it.                                                           *)
TurnEnds == client = "turn" ~> client # "turn"
=============================================================================
