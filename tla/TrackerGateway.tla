--------------------------- MODULE TrackerGateway ---------------------------
(***************************************************************************)
(* CodexMcpGateway.call_tool of tracker.py: a tracker operation over MCP.  *)
(* Each attempt starts an app-server, makes three requests of it, reading  *)
(* line by line what it writes until the response is there, and ends it in *)
(* a finally.  An attempt that failed in a way that may pass is made anew. *)
(* The app-server and the tool it calls are external: it may interleave    *)
(* requests of its own and notices, be silent, chat, exit, and run a tool  *)
(* whose answer never arrives.  The caller may be cancelled at any point.  *)
(* Calls share only _next_id, from which each takes ids nobody else has.   *)
(***************************************************************************)
EXTENDS Naturals

CONSTANT Attempts   \* CODEX_MCP_GATEWAY_ATTEMPTS

ASSUME AttemptsAssumption == Attempts \in Nat \ {0}

VARIABLES
    pc,         \* where call_tool is suspended
    attempt,    \* the attempt it is in
    verdict,    \* what the attempt has come to
    server,     \* its app-server process
    chats,      \* does the server write lines for ever, no response among them?
    holds,      \* does a child of the server keep stderr open for ever?
    asked,      \* was the tool asked for in this attempt?
    ran,        \* did the tool run in this attempt?
    runs,       \* how often the tool ran in this call
    lost,       \* attempts in which it ran and the answer was lost
    refused,    \* did the tool answer that it cannot be done?
    struck      \* where the call was cancelled, if it was

call == <<pc, attempt, verdict>>
tool == <<asked, ran, runs, lost, refused>>
vars == <<call, server, chats, holds, tool, struck>>

Requests == {"initialize", "thread", "tool"}    \* awaiting the response
Waits == Requests \union {"stderr", "terminate", "kill", "sleep", "spawn"}

TypeOK ==
    /\ pc \in Waits \union {"ended"}
    /\ attempt \in 1 .. Attempts
    /\ verdict \in {"none", "answer", "again", "raise", "untyped", "cancelled"}
    /\ server \in {"none", "alive", "exited", "signalled", "killed", "dead"}
    /\ chats \in BOOLEAN /\ holds \in BOOLEAN
    /\ asked \in BOOLEAN /\ ran \in BOOLEAN /\ refused \in BOOLEAN
    /\ runs \in 0 .. Attempts
    /\ lost \in 0 .. Attempts
    /\ struck \in Waits \union {"nowhere"}

Init ==
    /\ pc = "spawn"
    /\ attempt = 1
    /\ verdict = "none"
    /\ server = "none"
    /\ chats = FALSE /\ holds = FALSE
    /\ asked = FALSE /\ ran = FALSE
    /\ runs = 0 /\ lost = 0
    /\ refused = FALSE
    /\ struck = "nowhere"

-----------------------------------------------------------------------------
(* The end of an attempt *)

(* What ends the call is returned or raised; after an error that may pass  *)
(* the gateway sleeps, unless this was the last attempt.                   *)
Conclude(v) == pc' = IF v = "again" THEN "sleep" ELSE "ended"

(* finally: a process that has not exited is signalled and awaited.        *)
Finally(v) ==
    /\ verdict' = v
    /\ IF server = "alive" THEN server' = "signalled" /\ pc' = "terminate"
       ELSE UNCHANGED server /\ Conclude(v)

(* _retryable_mcp_gateway_error                                            *)
VerdictOf(retryable) == IF retryable /\ attempt < Attempts THEN "again" ELSE "raise"

-----------------------------------------------------------------------------
(* An attempt *)

(* create_subprocess_exec, or an OSError; the first request is sent.       *)
Spawn ==
    /\ pc = "spawn"
    /\ \/ pc' = "initialize" /\ server' = "alive" /\ UNCHANGED verdict
       \/ pc' = "ended" /\ verdict' = "untyped" /\ UNCHANGED server
    /\ UNCHANGED <<attempt, chats, holds, tool, struck>>

(* An error code that may pass, or not.  The answer of a tool that ran and *)
(* did its work is lost if what comes is not that answer.                  *)
Fail(retryable) ==
    /\ Finally(VerdictOf(retryable))
    /\ lost' = IF ran THEN lost + 1 ELSE lost

(* The lines of the server: an id or none, a method or none, and what a    *)
(* response says.  A tool answers when it ran, or refuses, or the transport *)
(* of the server to it fails.                                              *)
Lines == [id : {"awaited", "other", "none"}, method : BOOLEAN,
          body : {"result", "error", "refusal", "transport"}]

Written(line) ==
    /\ server = "alive"
    /\ pc # "tool" => line.body \in {"result", "error"}
    /\ pc = "tool" /\ line.body = "result" => ran
    /\ line.body = "refusal" => ~ran

(* Faulty: goes by the id alone, which a request of the server may have.   *)
HasAwaitedId(line) == line.id = "awaited"

IsResponse(line) == line.id = "awaited" /\ ~line.method

(* A request of the server or a notice: answered, or passed over.  Taken   *)
(* for the response, it is one without a result.                           *)
ReadOther(line) ==
    /\ pc \in Requests /\ Written(line)
    /\ line.id # "awaited" \/ line.method
    /\ IF IsResponse(line) /\ pc # "initialize"
       THEN Finally(VerdictOf(TRUE))
       ELSE UNCHANGED <<pc, verdict, server>>
    /\ UNCHANGED <<attempt, chats, holds, tool, struck>>

(* The next request is written to a pipe that a server that exited has     *)
(* closed: drain() raises a ConnectionResetError.                          *)
ReadResponse(line) ==
    /\ pc \in {"initialize", "thread"} /\ Written(line)
    /\ IsResponse(line)
    /\ IF line.body = "error" THEN Finally(VerdictOf(TRUE)) /\ UNCHANGED asked
       ELSE \/ /\ pc' = IF pc = "initialize" THEN "thread" ELSE "tool"
               /\ asked' = (pc = "thread")
               /\ UNCHANGED <<verdict, server>>
            \/ /\ server' = "exited"
               /\ verdict' = "untyped"
               /\ pc' = "ended"
               /\ UNCHANGED asked
    /\ UNCHANGED <<attempt, chats, holds, ran, runs, lost, refused, struck>>

(* The response to mcpServer/tool/call, and _decode_tool_response.         *)
ReadAnswer(line) ==
    /\ pc = "tool" /\ Written(line)
    /\ IsResponse(line) /\ ~line.method
    /\ CASE line.body = "result" -> Finally("answer") /\ UNCHANGED <<lost, refused>>
         [] line.body = "refusal" -> Fail(FALSE) /\ refused' = TRUE
         [] OTHER -> Fail(TRUE) /\ UNCHANGED refused
    /\ UNCHANGED <<attempt, chats, holds, asked, ran, runs, struck>>

(* Thirty seconds without a line, a line too long, or one that is not JSON. *)
ReadFails ==
    /\ pc \in Requests /\ server = "alive" /\ ~chats
    /\ Fail(TRUE)
    /\ UNCHANGED <<attempt, chats, holds, asked, ran, runs, refused, struck>>

(* A line that is not UTF-8, or a result of an unexpected type.            *)
ReadFailsUntyped ==
    /\ pc \in Requests /\ server = "alive"
    /\ Finally("untyped")
    /\ UNCHANGED <<attempt, chats, holds, tool, struck>>

(* At the end of stdout stderr is read to its end, without a timeout.      *)
ReadEnd ==
    /\ pc \in Requests /\ server = "exited"
    /\ pc' = "stderr"
    /\ UNCHANGED <<attempt, verdict, server, chats, holds, tool, struck>>

StderrRead ==
    /\ pc = "stderr" /\ ~holds
    /\ Fail(TRUE)
    /\ UNCHANGED <<attempt, chats, holds, asked, ran, runs, refused, struck>>

Terminated ==
    /\ pc = "terminate" /\ server = "dead"
    /\ Conclude(verdict)
    /\ UNCHANGED <<attempt, verdict, server, chats, holds, tool, struck>>

(* Faulty: awaits the process for as long as it takes.                     *)
NeverKill == FALSE /\ UNCHANGED vars

(* Five seconds after terminate().                                         *)
Kill ==
    /\ pc = "terminate" /\ server = "signalled"
    /\ server' = "killed"
    /\ pc' = "kill"
    /\ UNCHANGED <<attempt, verdict, chats, holds, tool, struck>>

Killed ==
    /\ pc = "kill" /\ server = "killed"
    /\ server' = "dead"
    /\ Conclude(verdict)
    /\ UNCHANGED <<attempt, verdict, chats, holds, tool, struck>>

Retry ==
    /\ pc = "sleep"
    /\ pc' = "spawn"
    /\ attempt' = attempt + 1
    /\ verdict' = "none"
    /\ server' = "none"
    /\ chats' = FALSE /\ holds' = FALSE
    /\ asked' = FALSE /\ ran' = FALSE
    /\ UNCHANGED <<runs, lost, refused, struck>>

(* A CancelledError ends the call, by way of the finally if there is a     *)
(* process.  While it is created asyncio kills it itself; while its end is *)
(* awaited the finally is left as it is.                                   *)
Cancel ==
    /\ pc \in Waits
    /\ struck' = pc
    /\ IF pc \in Requests \union {"stderr"} THEN Finally("cancelled")
       ELSE pc' = "ended" /\ verdict' = "cancelled" /\ UNCHANGED server
    /\ UNCHANGED <<attempt, chats, holds, tool>>

(* The caller makes another call, with a new process.                      *)
CallAgain ==
    /\ pc = "ended"
    /\ pc' = "spawn"
    /\ attempt' = 1
    /\ verdict' = "none"
    /\ server' = "none"
    /\ chats' = FALSE /\ holds' = FALSE
    /\ asked' = FALSE /\ ran' = FALSE
    /\ runs' = 0 /\ lost' = 0
    /\ refused' = FALSE
    /\ struck' = "nowhere"

-----------------------------------------------------------------------------
(* External: the server and the tool *)

(* A request once made may be carried out after nobody waits any more.     *)
ToolRuns ==
    /\ asked /\ ~ran /\ ~refused
    /\ server \in {"alive", "signalled"}
    /\ ran' = TRUE
    /\ runs' = runs + 1
    /\ lost' = IF pc = "tool" THEN lost ELSE lost + 1
    /\ UNCHANGED <<call, server, chats, holds, asked, refused, struck>>

ServerExits ==
    /\ server = "alive"
    /\ server' = "exited"
    /\ holds' \in BOOLEAN
    /\ UNCHANGED <<call, chats, tool, struck>>

ServerObeys ==
    /\ server = "signalled"
    /\ server' = "dead"
    /\ UNCHANGED <<call, chats, holds, tool, struck>>

ServerChats ==
    /\ server = "alive" /\ pc \in Requests /\ ~chats
    /\ chats' = TRUE
    /\ UNCHANGED <<call, server, holds, tool, struck>>

Gateway ==
    \/ Spawn \/ ReadFails \/ ReadEnd \/ StderrRead
    \/ Terminated \/ Kill \/ Killed \/ Retry
    \/ \E line \in Lines : ReadResponse(line) \/ ReadAnswer(line)

Next ==
    \/ Gateway \/ Cancel \/ CallAgain \/ ReadFailsUntyped
    \/ \E line \in Lines : ReadOther(line)
    \/ ToolRuns \/ ServerExits \/ ServerObeys \/ ServerChats

(* Every wait of the gateway ends by a timeout of its own: thirty seconds  *)
(* for a line, five for the process, but for those CallEnds names.         *)
Spec == Init /\ [][Next]_vars /\ WF_vars(Gateway)

-----------------------------------------------------------------------------
(* Properties *)

(* When an attempt is over, however it ended, so is its app-server; but    *)
(* for one whose end was awaited when the call was cancelled.              *)
NoServerIsLeft ==
    pc \in {"sleep", "spawn", "ended"} =>
        \/ server \in {"none", "exited", "dead"}
        \/ struck \in {"terminate", "kill"}

(* A tool with effects is run again only if its answer was lost: repeating *)
(* a call never adds a comment whose first copy was acknowledged.  Requests *)
(* of the server do not pass for the answer.                               *)
RunsAreAccounted == runs <= lost + 1

(* A tool that says no is not asked again, and the caller is told.         *)
RefusalIsTold == refused => verdict \in {"raise", "cancelled"}

(* A call ends, unless its server chats on without responding, or exits    *)
(* and leaves stderr open in a child: both are waited for without a limit. *)
CallEnds ==
    pc # "ended" ~> pc = "ended" \/ chats \/ (pc = "stderr" /\ holds)
=============================================================================
