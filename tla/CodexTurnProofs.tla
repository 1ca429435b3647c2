--------------------------- MODULE CodexTurnProofs ---------------------------
(***************************************************************************)
(* Proofs about what comes from Codex: the turns of a session (CodexTurn)  *)
(* and the events of an issue's runs (IssueActivity).                      *)
(*                                                                         *)
(* The first part is about the turns of a session (CodexTurn.tla), for any *)
(* number of turns and messages and a pipe of any size: the variables keep *)
(* their types, client and server never wait for each other, the text of a *)
(* turn is captured once and not lost, only a turn that the server has     *)
(* completed is reported so, and a completion is not overlooked.           *)
(*                                                                         *)
(* The argument is about the lines in the pipe and their order, never      *)
(* about their positions: In(s) is the set of the lines of s, and          *)
(* Follows(s, x, y) says that y stands behind x.  What the client appends  *)
(* and removes is stated once for both, in the first lemmas.               *)
(*                                                                         *)
(* The second part is about the entry of an issue in running and the       *)
(* summaries that are asked for it, for any number of runs, tasks and      *)
(* tokens.  The argument follows a task from the run that creates it: only *)
(* one whose run is the present one may clear its pending flag, and there  *)
(* is one such task exactly while the flag is set.                         *)
(***************************************************************************)
EXTENDS CodexTurn, IssueActivity, FiniteSetTheorems, SequenceTheorems, TLAPS

In(s) == {s[k] : k \in DOMAIN s}
Follows(s, x, y) == \E j, k \in DOMAIN s : j < k /\ s[j] = x /\ s[k] = y

LEMMA Appended ==
    ASSUME NEW s \in Seq(Lines), NEW e \in Lines
    PROVE  /\ Append(s, e) \in Seq(Lines)
           /\ Len(Append(s, e)) = Len(s) + 1
           /\ In(Append(s, e)) = In(s) \union {e}
           /\ \A x, y : Follows(Append(s, e), x, y) <=>
                          Follows(s, x, y) \/ (x \in In(s) /\ y = e)
<1> DEFINE t == Append(s, e)
<1>1. /\ t \in Seq(Lines) /\ Len(t) = Len(s) + 1
      /\ DOMAIN s = 1 .. Len(s) /\ DOMAIN t = 1 .. Len(s) + 1
      /\ \A k \in 1 .. Len(s) : t[k] = s[k]
      /\ t[Len(s) + 1] = e
      /\ Len(s) \in Nat
  OBVIOUS
<1>. HIDE DEF t
<1>2. In(t) = In(s) \union {e}
  BY <1>1 DEF In
<1>3. ASSUME NEW x, NEW y, Follows(t, x, y)
      PROVE  Follows(s, x, y) \/ (x \in In(s) /\ y = e)
  <2>1. PICK j \in DOMAIN t, k \in DOMAIN t : j < k /\ t[j] = x /\ t[k] = y
    BY <1>3 DEF Follows
  <2>2. j \in DOMAIN s /\ s[j] = x
    BY <1>1, <2>1
  <2>3. CASE k = Len(s) + 1
    BY <1>1, <2>1, <2>2, <2>3 DEF In
  <2>4. CASE k \in 1 .. Len(s)
    BY <1>1, <2>1, <2>2, <2>4 DEF Follows
  <2>. QED  BY <1>1, <2>3, <2>4
<1>4. ASSUME NEW x, NEW y, Follows(s, x, y) \/ (x \in In(s) /\ y = e)
      PROVE  Follows(t, x, y)
  <2>1. CASE Follows(s, x, y)
    BY <1>1, <2>1 DEF Follows
  <2>2. CASE x \in In(s) /\ y = e
    <3>1. PICK j \in DOMAIN s : s[j] = x
      BY <2>2 DEF In
    <3>. QED  BY <1>1, <2>2, <3>1 DEF Follows
  <2>. QED  BY <1>4, <2>1, <2>2
<1>. QED  BY <1>1, <1>2, <1>3, <1>4 DEF t

LEMMA Removed ==
    ASSUME NEW s \in Seq(Lines), s # <<>>
    PROVE  /\ Head(s) \in Lines
           /\ Tail(s) \in Seq(Lines)
           /\ Len(Tail(s)) <= Len(s)
           /\ In(s) = {Head(s)} \union In(Tail(s))
           /\ \A x, y : Follows(s, x, y) <=>
                          Follows(Tail(s), x, y) \/ (x = Head(s) /\ y \in In(Tail(s)))
<1> DEFINE t == Tail(s)
           e == Head(s)
<1>1. /\ t \in Seq(Lines) /\ e \in Lines
      /\ Len(s) \in Nat /\ Len(s) >= 1 /\ Len(t) = Len(s) - 1
      /\ DOMAIN s = 1 .. Len(s) /\ DOMAIN t = 1 .. Len(s) - 1
      /\ s[1] = e
      /\ \A k \in 1 .. Len(s) - 1 : t[k] = s[k + 1]
  OBVIOUS
<1>. HIDE DEF t, e
<1>2. \A k \in 2 .. Len(s) : k - 1 \in DOMAIN t /\ t[k - 1] = s[k]
  BY <1>1
<1>3. In(s) = {e} \union In(t)
  <2>1. ASSUME NEW x \in In(s) PROVE x \in {e} \union In(t)
    <3>1. PICK k \in 1 .. Len(s) : s[k] = x
      BY <1>1, <2>1 DEF In
    <3>2. CASE k = 1
      BY <1>1, <3>1, <3>2
    <3>3. CASE k \in 2 .. Len(s)
      BY <1>2, <3>1, <3>3 DEF In
    <3>. QED  BY <1>1, <3>1, <3>2, <3>3
  <2>2. e \in In(s)
    BY <1>1 DEF In
  <2>3. ASSUME NEW x \in In(t) PROVE x \in In(s)
    <3>1. PICK k \in 1 .. Len(s) - 1 : t[k] = x
      BY <1>1, <2>3 DEF In
    <3>2. k + 1 \in DOMAIN s /\ s[k + 1] = x
      BY <1>1, <3>1
    <3>. QED  BY <3>2 DEF In
  <2>. QED  BY <2>1, <2>2, <2>3
<1>4. ASSUME NEW x, NEW y, Follows(s, x, y)
      PROVE  Follows(t, x, y) \/ (x = e /\ y \in In(t))
  <2>1. PICK j \in 1 .. Len(s), k \in 1 .. Len(s) : j < k /\ s[j] = x /\ s[k] = y
    BY <1>1, <1>4 DEF Follows
  <2>2. k - 1 \in DOMAIN t /\ t[k - 1] = y
    BY <1>1, <1>2, <2>1
  <2>3. CASE j = 1
    BY <1>1, <2>1, <2>2, <2>3 DEF In
  <2>4. CASE j \in 2 .. Len(s)
    <3>1. j - 1 \in DOMAIN t /\ t[j - 1] = x /\ j - 1 < k - 1
      BY <1>2, <2>1, <2>4
    <3>. QED  BY <2>2, <3>1 DEF Follows
  <2>. QED  BY <1>1, <2>1, <2>3, <2>4
<1>5. ASSUME NEW x, NEW y, Follows(t, x, y) \/ (x = e /\ y \in In(t))
      PROVE  Follows(s, x, y)
  <2>1. CASE Follows(t, x, y)
    <3>1. PICK j \in 1 .. Len(s) - 1, k \in 1 .. Len(s) - 1 : j < k /\ t[j] = x /\ t[k] = y
      BY <1>1, <2>1 DEF Follows
    <3>2. /\ j + 1 \in DOMAIN s /\ s[j + 1] = x
          /\ k + 1 \in DOMAIN s /\ s[k + 1] = y /\ j + 1 < k + 1
      BY <1>1, <3>1
    <3>. QED  BY <3>2 DEF Follows
  <2>2. CASE x = e /\ y \in In(t)
    <3>1. PICK k \in 1 .. Len(s) - 1 : t[k] = y
      BY <1>1, <2>2 DEF In
    <3>2. 1 \in DOMAIN s /\ k + 1 \in DOMAIN s /\ s[k + 1] = y /\ 1 < k + 1
      BY <1>1, <3>1
    <3>. QED  BY <1>1, <2>2, <3>2 DEF Follows
  <2>. QED  BY <1>5, <2>1, <2>2
<1>. QED  BY <1>1, <1>3, <1>4, <1>5 DEF t, e

LEMMA FollowsIn ==
    ASSUME NEW s, NEW x, NEW y, Follows(s, x, y)
    PROVE  x \in In(s) /\ y \in In(s)
BY DEF Follows, In

LEMMA Emptied == In(<<>>) = {} /\ \A x, y : ~Follows(<<>>, x, y)
BY DEF In, Follows

-----------------------------------------------------------------------------
(* The inductive invariant *)

Text(x) == x.kind \in {"delta", "item"}
(* A completion that is not that of another thread                         *)
Ends(x) == x.kind = "done" /\ x.turn # Foreign
Carries(x) == Text(x) \/ (x.kind = "done" /\ x.items # {})
Asks(x) == x.kind \in {"approval", "input"}

(* What is in the pipe, and in which order: nothing of the turn comes      *)
(* behind its completion, no delta behind the text it repeats, and all of  *)
(* a turn is read before the next one starts.                              *)
PipeInv ==
    /\ \A x \in In(pipe) :
         /\ Text(x) => x.msg \in delta
         /\ Ends(x) => x.turn \in {Unnamed, turn} /\ ~working /\ turn \in completed
         /\ x.kind = "done" /\ ~Ends(x) => x.items = {}
         /\ x.kind = "response" => client \in {"sent", "failed"} /\ ~pending
    /\ \A x, y \in Lines : Follows(pipe, x, y) =>
         /\ Text(x) /\ y.kind = "delta" => x.msg # y.msg
         /\ Ends(x) => ~Text(y) /\ ~Ends(y)
         /\ ~(x.kind = "response" /\ y.kind = "response")
    /\ client = "idle" =>
         /\ ~working /\ ~pending
         /\ \A x \in In(pipe) : ~Text(x) /\ ~Ends(x)
    /\ client = "turn" => ~pending
    /\ pending \/ working => turn # 0

(* A message that has been captured is not captured again.                 *)
TextInv ==
    /\ client = "sent" => text = Silence
    /\ client = "turn" =>
         \A m \in Msgs : text[m] # 0 =>
           m \in delta /\ \A x \in In(pipe) : ~(x.kind = "delta" /\ x.msg = m)

(* Text that was sent stands behind the response, or is captured, or is    *)
(* still in the pipe.                                                      *)
SpokenInv ==
    /\ pending => spoken = {}
    /\ client = "sent" /\ working /\ ~pending => \E x \in In(pipe) : IsResponse(x)
    /\ client = "sent" /\ spoken # {} =>
         \E x, y \in Lines : Follows(pipe, x, y) /\ IsResponse(x) /\ Carries(y)
    /\ client = "turn" /\ spoken # {} => HasText \/ \E x \in In(pipe) : Carries(x)
    /\ client = "idle" /\ spoken # {} => HasText

(* The completion of the turn stands behind the response, or has overtaken *)
(* it, or is still in the pipe.                                            *)
CompletedInv ==
    /\ completed \subseteq 1 .. turn
    /\ pending /\ turn \in completed => overtaken
    /\ client = "sent" /\ turn \in completed /\ ~overtaken =>
         \E x, y \in Lines : Follows(pipe, x, y) /\ IsResponse(x) /\ Ends(y)
    /\ client = "turn" /\ turn \in completed /\ ~overtaken => \E x \in In(pipe) : Ends(x)

TurnInv == TypeOK /\ PipeInv /\ TextInv /\ SpokenInv /\ CompletedInv /\ NobodyIsLeftWaiting

-----------------------------------------------------------------------------
(* What the server writes and the client takes *)

LEMMA Marks == TypeOK => turn # Foreign /\ Unnamed # Foreign /\ Unnamed # turn + 1
BY TurnsAssumption DEF TypeOK, Foreign, Unnamed

LEMMA Written ==
    ASSUME TypeOK, NEW line \in Lines, Writes(line)
    PROVE  /\ pipe' \in Seq(Lines) /\ Len(pipe') <= PipeBound
           /\ In(pipe') = In(pipe) \union {line}
           /\ \A x, y : Follows(pipe', x, y) <=>
                          Follows(pipe, x, y) \/ (x \in In(pipe) /\ y = line)
           /\ UNCHANGED <<client, turn, text>>
<1>1. pipe \in Seq(Lines) /\ Len(pipe) \in Nat /\ Len(pipe) < PipeBound
      /\ pipe' = Append(pipe, line)
  BY DEF TypeOK, Writes
<1>2. Len(pipe') <= PipeBound
  BY <1>1, Appended, PipeAssumption
<1>. QED  BY <1>1, <1>2, Appended DEF Writes

LEMMA TakenLine ==
    ASSUME TypeOK, Reads, Taken
    PROVE  /\ Line \in Lines
           /\ pipe' \in Seq(Lines) /\ Len(pipe') <= PipeBound
           /\ In(pipe) = {Line} \union In(pipe')
           /\ \A x, y : Follows(pipe, x, y) <=>
                          Follows(pipe', x, y) \/ (x = Line /\ y \in In(pipe'))
<1>1. pipe \in Seq(Lines) /\ Len(pipe) \in Nat /\ Len(pipe) <= PipeBound /\ pipe # <<>>
      /\ pipe' = Tail(pipe) /\ Len(pipe') \in Nat
  BY DEF TypeOK, Reads, Taken
<1>2. Len(pipe') <= PipeBound
  BY <1>1, Removed, PipeAssumption
<1>. QED  BY <1>1, <1>2, Removed DEF Line

(* The lines of the server are lines.                                      *)
LEMMA LineTypes ==
    ASSUME TypeOK
    PROVE  /\ turn # 0 => [kind |-> "response", id |-> turn] \in Lines
           /\ \A kind \in {"approval", "input"}, id \in Turns : [kind |-> kind, id |-> id] \in Lines
           /\ \A m \in Msgs : /\ [kind |-> "delta", msg |-> m] \in Lines
                            /\ [kind |-> "item", msg |-> m] \in Lines
           /\ \A named, good \in BOOLEAN, items \in {{}, Msgs} : turn # 0 =>
                [kind |-> "done", turn |-> IF named THEN turn ELSE Unnamed,
                 good |-> good, items |-> items] \in Lines
           /\ [kind |-> "done", turn |-> Foreign, good |-> TRUE, items |-> {}] \in Lines
           /\ [kind |-> "error"] \in Lines
           /\ [kind |-> "eof"] \in Lines
           /\ [kind |-> "chatter"] \in Lines
<1>1. turn # 0 => turn \in Turns
  BY TurnsAssumption DEF TypeOK, Turns
<1>. QED  BY <1>1 DEF Lines

(* What is in the pipe is a line.                                          *)
LEMMA InIsLine ==
    ASSUME TypeOK, NEW x \in In(pipe)
    PROVE  x \in Lines
<1>1. PICK k \in DOMAIN pipe : pipe[k] = x
  BY DEF In
<1>. QED  BY <1>1 DEF TypeOK

(* An action of the server writes a line, and changes only its own state.  *)
LEMMA ServerWrites ==
    ASSUME TypeOK, PipeInv, ServerStep
    PROVE  /\ \E line \in Lines : Writes(line)
           /\ pending' \in BOOLEAN /\ working' \in BOOLEAN /\ asked' \in BOOLEAN
           /\ spoken' \subseteq Msgs /\ delta' \subseteq Msgs
           /\ completed' \subseteq Turns
           /\ overtaken' \in BOOLEAN
<1>1. pending \/ working => turn \in Turns
  BY TurnsAssumption DEF TypeOK, PipeInv, Turns
<1>2. CASE Respond
  BY <1>2, LineTypes DEF Respond, TypeOK, PipeInv
<1>3. CASE Refuse
  BY <1>3, LineTypes DEF Refuse, TypeOK
<1>4. ASSUME NEW kind \in {"approval", "input"}, NEW id \in Turns, Ask(kind, id)
      PROVE  (\E line \in Lines : Writes(line)) /\ asked' \in BOOLEAN /\ UNCHANGED server
  BY <1>4, LineTypes DEF Ask
<1>5. ASSUME NEW m \in Msgs, SendDelta(m) \/ SendItem(m)
      PROVE  /\ \E line \in Lines : Writes(line)
             /\ spoken' \subseteq Msgs /\ delta' \subseteq Msgs
             /\ UNCHANGED <<pending, working, asked, completed, overtaken>>
  BY <1>5, LineTypes DEF SendDelta, SendItem, TypeOK
<1>6. ASSUME NEW named \in BOOLEAN, NEW good \in BOOLEAN, NEW items \in {{}, Msgs},
             Complete(named, good, items)
      PROVE  /\ \E line \in Lines : Writes(line)
             /\ working' = FALSE /\ overtaken' \in BOOLEAN
             /\ spoken' \subseteq Msgs /\ completed' \subseteq Turns
             /\ UNCHANGED <<pending, asked, delta>>
  <2>1. turn \in Turns /\ turn # 0
    BY <1>1, <1>6 DEF Complete, PipeInv
  <2>2. \E line \in Lines : Writes(line)
    BY <1>6, <2>1, LineTypes DEF Complete
  <2>. QED  BY <1>6, <2>1, <2>2 DEF Complete, TypeOK
<1>7. CASE Chat
  BY <1>7, LineTypes DEF Chat, server, TypeOK
<1>8. CASE Die
  BY <1>8, LineTypes DEF Die, TypeOK
<1>. QED
  BY <1>2, <1>3, <1>4, <1>5, <1>6, <1>7, <1>8 DEF ServerStep, server, TypeOK

LEMMA TypingStep ==
    ASSUME TypeOK, PipeInv, [Next]_vars, text' \in [Msgs -> 0 .. 1]
    PROVE  TypeOK'
<1>1. CASE ServerStep
  <2>1. /\ pipe' \in Seq(Lines) /\ Len(pipe') <= PipeBound
        /\ UNCHANGED <<client, turn, text>>
    BY <1>1, ServerWrites, Written
  <2>. QED  BY <1>1, <2>1, ServerWrites DEF TypeOK
<1>2. CASE StartTurn
  <2>1. turn' \in 0 .. MaxTurns
    BY <1>2, TurnsAssumption DEF StartTurn, TypeOK
  <2>. QED  BY <1>2, <2>1 DEF StartTurn, TypeOK
<1>3. CASE ClientStep
  <2>1. /\ Reads /\ Taken /\ asked' \in BOOLEAN
        /\ client' \in {"idle", "sent", "turn", "failed"}
    BY <1>3 DEF ClientStep, ReadResponse, AnswerRequest, ReadNotification, ReadFailure, TypeOK
  <2>2. pipe' \in Seq(Lines) /\ Len(pipe') <= PipeBound
    BY <2>1, TakenLine
  <2>. QED  BY <2>1, <2>2 DEF Taken, server, TypeOK
<1>4. CASE RequestTimesOut \/ TurnTimesOut
  BY <1>4 DEF RequestTimesOut, TurnTimesOut, server, TypeOK
<1>5. CASE Reopen
  <2>1. turn' \in 0 .. MaxTurns
    BY <1>5, TurnsAssumption DEF Reopen
  <2>2. pipe' \in Seq(Lines) /\ Len(pipe') <= PipeBound
    BY <1>5, PipeAssumption DEF Reopen
  <2>. QED  BY <1>5, <2>1, <2>2 DEF Reopen, TypeOK
<1>6. CASE UNCHANGED vars
  BY <1>6 DEF vars, server, TypeOK
<1>. QED  BY <1>1, <1>2, <1>3, <1>4, <1>5, <1>6 DEF Next

-----------------------------------------------------------------------------
(* The lines in the pipe *)

(* A line of the server that keeps its place in the order of PipeInv       *)
LEMMA PipeWritten ==
    ASSUME TypeOK, PipeInv, NEW line \in Lines, Writes(line),
           \A x \in In(pipe) : Ends(x) => ~working',
           Text(line) => line.msg \in delta' /\ working,
           line.kind = "delta" => line.msg \notin delta,
           delta \subseteq delta',
           Ends(line) => /\ line.turn \in {Unnamed, turn}
                         /\ working /\ ~working' /\ turn \in completed',
           completed \subseteq completed',
           line.kind = "done" /\ ~Ends(line) => line.items = {},
           line.kind = "response" => pending /\ ~pending',
           pending' => pending, working' => working
    PROVE  PipeInv'
<1>. USE Written, InIsLine
<1>1. \A x \in In(pipe') :
         /\ Text(x) => x.msg \in delta'
         /\ Ends(x) => x.turn \in {Unnamed, turn'} /\ ~working' /\ turn' \in completed'
         /\ x.kind = "done" /\ ~Ends(x) => x.items = {}
         /\ x.kind = "response" => client' \in {"sent", "failed"} /\ ~pending'
  BY DEF PipeInv, TypeOK
<1>2. \A x, y \in Lines : Follows(pipe', x, y) =>
         /\ Text(x) /\ y.kind = "delta" => x.msg # y.msg
         /\ Ends(x) => ~Text(y) /\ ~Ends(y)
         /\ ~(x.kind = "response" /\ y.kind = "response")
  BY DEF PipeInv
<1>3. client' = "idle" =>
         /\ ~working' /\ ~pending'
         /\ \A x \in In(pipe') : ~Text(x) /\ ~Ends(x)
  BY DEF PipeInv
<1>4. (client' = "turn" => ~pending') /\ (pending' \/ working' => turn' # 0)
  BY DEF PipeInv
<1>. QED  BY <1>1, <1>2, <1>3, <1>4 DEF PipeInv, Text, Ends

(* Reading a line leaves the rest as it stood.                             *)
LEMMA PipeTaken ==
    ASSUME TypeOK, PipeInv, Reads, Taken,
           client' \in {"idle", "sent", "turn", "failed"},
           client' # client =>
             \/ client' = "failed"
             \/ client' = "turn" /\ Line.kind = "response"
             \/ client' = "idle" /\ client = "turn" /\ Ends(Line)
    PROVE  PipeInv'
<1>. USE TakenLine
<1>0. UNCHANGED <<turn, pending, working, delta, completed>>
  BY DEF Taken, server
<1>1. Line.kind = "response" => ~pending /\ \A y \in In(pipe') : y.kind # "response"
  <2>1. \A y \in In(pipe') : y \in Lines /\ Follows(pipe, Line, y)
    BY InIsLine
  <2>. QED  BY <2>1 DEF PipeInv
<1>2. Ends(Line) => ~working /\ \A y \in In(pipe') : ~Text(y) /\ ~Ends(y)
  <2>1. \A y \in In(pipe') : y \in Lines /\ Follows(pipe, Line, y)
    BY InIsLine
  <2>. QED  BY <2>1 DEF PipeInv
<1>3. \A x \in In(pipe') :
         /\ Text(x) => x.msg \in delta'
         /\ Ends(x) => x.turn \in {Unnamed, turn'} /\ ~working' /\ turn' \in completed'
         /\ x.kind = "done" /\ ~Ends(x) => x.items = {}
         /\ x.kind = "response" => client' \in {"sent", "failed"} /\ ~pending'
  BY <1>0, <1>1 DEF PipeInv
<1>4. \A x, y \in Lines : Follows(pipe', x, y) =>
         /\ Text(x) /\ y.kind = "delta" => x.msg # y.msg
         /\ Ends(x) => ~Text(y) /\ ~Ends(y)
         /\ ~(x.kind = "response" /\ y.kind = "response")
  BY DEF PipeInv
<1>5. client' = "idle" =>
         /\ ~working' /\ ~pending'
         /\ \A x \in In(pipe') : ~Text(x) /\ ~Ends(x)
  BY <1>0, <1>2 DEF PipeInv, Reads
<1>6. (client' = "turn" => ~pending') /\ (pending' \/ working' => turn' # 0)
  BY <1>0, <1>1 DEF PipeInv
<1>. QED  BY <1>3, <1>4, <1>5, <1>6 DEF PipeInv, Text, Ends

LEMMA PipeStep ==
    ASSUME TypeOK, PipeInv, [Next]_vars
    PROVE  PipeInv'
<1>0. turn # Foreign /\ Unnamed # Foreign
  BY Marks
<1>a. pending \/ working => turn # 0
  BY DEF PipeInv
<1>b. \A x \in In(pipe) : Ends(x) => ~working
  BY DEF PipeInv
<1>1. CASE Respond
  BY <1>1, <1>a, <1>b, LineTypes, PipeWritten DEF Respond, Text, Ends
<1>2. CASE Refuse
  BY <1>2, <1>b, LineTypes, PipeWritten DEF Refuse, Text, Ends
<1>3. ASSUME NEW kind \in {"approval", "input"}, NEW id \in Turns, Ask(kind, id)
      PROVE  PipeInv'
  BY <1>3, <1>b, LineTypes, PipeWritten DEF Ask, server, Text, Ends
<1>4. ASSUME NEW m \in Msgs, SendDelta(m) \/ SendItem(m)
      PROVE  PipeInv'
  <2>1. CASE SendDelta(m)
    BY <2>1, <1>b, LineTypes, PipeWritten DEF SendDelta, Text, Ends
  <2>2. CASE SendItem(m)
    BY <2>2, <1>b, LineTypes, PipeWritten DEF SendItem, Text, Ends
  <2>. QED  BY <1>4, <2>1, <2>2
<1>5. ASSUME NEW named \in BOOLEAN, NEW good \in BOOLEAN, NEW items \in {{}, Msgs},
             Complete(named, good, items)
      PROVE  PipeInv'
  <2> DEFINE line == [kind |-> "done", turn |-> IF named THEN turn ELSE Unnamed,
                      good |-> good, items |-> items]
  <2>1. line \in Lines /\ Ends(line) /\ ~Text(line) /\ line.kind = "done"
        /\ line.turn \in {Unnamed, turn}
    BY <1>0, <1>a, <1>5, LineTypes DEF Complete, Ends, Text
  <2>2. /\ Writes(line) /\ working /\ ~working' /\ UNCHANGED <<pending, delta>>
        /\ completed' = completed \union {turn}
    BY <1>5 DEF Complete
  <2>. HIDE DEF line
  <2>. QED  BY <1>b, <2>1, <2>2, PipeWritten
<1>6. CASE Chat
  BY <1>6, <1>b, LineTypes, PipeWritten DEF Chat, server, Text, Ends
<1>7. CASE Die
  BY <1>7, <1>b, LineTypes, PipeWritten DEF Die, Text, Ends
<1>8. CASE StartTurn
  <2>1. /\ UNCHANGED pipe /\ client = "idle" /\ client' = "sent"
        /\ turn' # 0
    BY <1>8 DEF StartTurn, TypeOK
  <2>2. \A x \in In(pipe) : ~Text(x) /\ ~Ends(x) /\ x.kind # "response"
    BY <2>1 DEF PipeInv
  <2>. QED  BY <2>1, <2>2 DEF PipeInv, Text, Ends
<1>9. CASE ReadResponse
  BY <1>9, PipeTaken DEF ReadResponse, IsResponse
<1>10. CASE AnswerRequest
  BY <1>10, PipeTaken DEF AnswerRequest, TypeOK
<1>11. CASE ReadNotification
  <2>1. client' # client => client' = "failed" \/ (client' = "idle" /\ client = "turn" /\ Ends(Line))
    BY <1>0, <1>11 DEF ReadNotification, EndsTurn, Ends
  <2>2. Reads /\ Taken /\ client' \in {"idle", "sent", "turn", "failed"}
    BY <1>11 DEF ReadNotification, TypeOK
  <2>. QED  BY <2>1, <2>2, PipeTaken
<1>12. CASE ReadFailure
  BY <1>12, PipeTaken DEF ReadFailure
<1>13. CASE RequestTimesOut \/ TurnTimesOut
  BY <1>13 DEF RequestTimesOut, TurnTimesOut, server, PipeInv, Text, Ends
<1>14. CASE Reopen
  BY <1>14, Emptied DEF Reopen, PipeInv, Text, Ends
<1>15. CASE UNCHANGED vars
  BY <1>15 DEF vars, server, PipeInv, Text, Ends
<1>. QED
  BY <1>1, <1>2, <1>3, <1>4, <1>5, <1>6, <1>7, <1>8, <1>9, <1>10, <1>11, <1>12, <1>13,
     <1>14, <1>15 DEF Next, ServerStep, ClientStep

-----------------------------------------------------------------------------
(* The text of a turn *)

(* What a notification does to the text while a turn is awaited            *)
LEMMA Captured ==
    ASSUME TypeOK, PipeInv, TextInv, client = "turn",
           Reads, Taken, Capture(Line)
    PROVE  /\ text' \in [Msgs -> 0 .. 1]
           /\ \A m \in Msgs : text'[m] # 0 =>
                \/ text[m] # 0
                \/ Text(Line) /\ Line.msg = m
                \/ Ends(Line)
           /\ HasText \/ Carries(Line) => text' # Silence
<1>. Line \in Lines /\ text \in [Msgs -> 0 .. 1] /\ Line \in In(pipe)
  BY TakenLine DEF TypeOK
<1>1. CASE Text(Line) /\ (Line.kind = "item" => ~HasText)
  <2>1. Line.msg \in Msgs
    BY <1>1 DEF Lines, Text
  <2>2. text[Line.msg] = 0
    BY <1>1, <2>1 DEF TextInv, HasText, Silence, Text
  <2>3. text' = [text EXCEPT ![Line.msg] = 1]
    BY <1>1, <2>2 DEF Capture, Text
  <2>4. text'[Line.msg] # 0 /\ text' \in [Msgs -> 0 .. 1]
    BY <2>1, <2>3
  <2>5. \A m \in Msgs : text'[m] # 0 => text[m] # 0 \/ Line.msg = m
    BY <2>3
  <2>. QED  BY <1>1, <2>1, <2>4, <2>5 DEF Silence
<1>2. CASE Line.kind = "done" /\ ~HasText
  <2>1. text' = [m \in Msgs |-> IF m \in Line.items THEN 1 ELSE 0]
    BY <1>2 DEF Capture
  <2>2. Line.items \subseteq Msgs
    BY <1>2 DEF Lines
  <2>3. text' \in [Msgs -> 0 .. 1] /\ (Line.items # {} => text' # Silence)
    BY <2>1, <2>2 DEF Silence
  <2>4. ~Ends(Line) => Line.items = {}
    BY <1>2 DEF PipeInv
  <2>. QED  BY <1>2, <2>1, <2>3, <2>4 DEF Carries, Text
<1>3. CASE ~(Text(Line) /\ (Line.kind = "item" => ~HasText)) /\ ~(Line.kind = "done" /\ ~HasText)
  <2>1. text' = text
    BY <1>3 DEF Capture, Text
  <2>2. Carries(Line) => HasText
    BY <1>3 DEF Carries, Text
  <2>. QED  BY <2>1, <2>2 DEF HasText
<1>. QED  BY <1>1, <1>2, <1>3

LEMMA TextTyping ==
    ASSUME TypeOK, PipeInv, TextInv, [Next]_vars
    PROVE  text' \in [Msgs -> 0 .. 1]
<1>1. CASE ReadNotification
  <2>1. CASE client = "turn"
    BY <1>1, <2>1, Captured DEF ReadNotification
  <2>2. CASE client # "turn"
    BY <1>1, <2>2 DEF ReadNotification, Capture, TypeOK
  <2>. QED  BY <2>1, <2>2
<1>2. CASE StartTurn \/ Reopen
  BY <1>2 DEF StartTurn, Reopen, Silence
<1>3. CASE ServerStep
  BY <1>3, ServerWrites, Written DEF TypeOK
<1>4. CASE ReadResponse \/ AnswerRequest \/ ReadFailure \/ RequestTimesOut \/ TurnTimesOut
           \/ UNCHANGED vars
  BY <1>4 DEF ReadResponse, AnswerRequest, ReadFailure, RequestTimesOut, TurnTimesOut, vars,
              TypeOK
<1>. QED  BY <1>1, <1>2, <1>3, <1>4 DEF Next, ClientStep

LEMMA TextWritten ==
    ASSUME TypeOK, TextInv, NEW line \in Lines, Writes(line), delta \subseteq delta',
           line.kind = "delta" => line.msg \notin delta
    PROVE  TextInv'
BY Written DEF TextInv, Silence

LEMMA TextStep ==
    ASSUME TypeOK, PipeInv, TextInv, [Next]_vars
    PROVE  TextInv'
<1>1. ASSUME NEW m \in Msgs, SendDelta(m) \/ SendItem(m)
      PROVE  TextInv'
  <2>1. CASE SendDelta(m)
    BY <2>1, LineTypes, TextWritten DEF SendDelta
  <2>2. CASE SendItem(m)
    BY <2>2, LineTypes, TextWritten DEF SendItem
  <2>. QED  BY <1>1, <2>1, <2>2
<1>2. CASE ServerStep /\ ~\E m \in Msgs : SendDelta(m) \/ SendItem(m)
  <2>1. PICK line \in Lines : Writes(line) /\ line.kind # "delta"
    <3>1. turn # 0 \/ (~pending /\ ~working)
      BY DEF PipeInv
    <3>. QED
      BY <1>2, <3>1, LineTypes DEF ServerStep, Respond, Refuse, Ask, Complete, Chat, Die
  <2>2. delta' = delta
    BY <1>2 DEF ServerStep, Respond, Refuse, Ask, Complete, Chat, Die, server
  <2>. QED  BY <2>1, <2>2, TextWritten
<1>3. CASE StartTurn \/ Reopen
  BY <1>3 DEF StartTurn, Reopen, TextInv, Silence
<1>4. CASE ReadResponse
  <2>1. client = "sent" /\ client' = "turn" /\ UNCHANGED text
    BY <1>4 DEF ReadResponse
  <2>. QED  BY <2>1 DEF TextInv, Silence
<1>5. CASE ReadNotification
  <2>1. Reads /\ Taken /\ delta' = delta
    BY <1>5 DEF ReadNotification, Taken, server
  <2>2. CASE client = "turn"
    <3>1. client' = "turn" => ~Ends(Line)
      <4>1. EndsTurn(Line) => client' # "turn"
        BY <1>5 DEF ReadNotification
      <4>2. Line \in In(pipe)
        BY <2>1, TakenLine
      <4>. QED  BY <2>2, <4>1, <4>2 DEF EndsTurn, Ends, PipeInv
    <3>2. client' # "sent"
      BY <1>5, <2>2 DEF ReadNotification
    <3>3. ASSUME client' = "turn", NEW m \in Msgs, text'[m] # 0
          PROVE  m \in delta' /\ \A x \in In(pipe') : ~(x.kind = "delta" /\ x.msg = m)
      <4>1. text[m] # 0 \/ (Text(Line) /\ Line.msg = m)
        BY <1>5, <2>1, <2>2, <3>1, <3>3, Captured DEF ReadNotification
      <4>2. CASE text[m] # 0
        BY <2>1, <2>2, <4>2, TakenLine DEF TextInv
      <4>3. CASE Text(Line) /\ Line.msg = m
        <5>1. m \in delta
          BY <2>1, <4>3, TakenLine DEF PipeInv
        <5>2. \A x \in In(pipe') : x \in Lines /\ Follows(pipe, Line, x)
          BY <2>1, TakenLine, InIsLine
        <5>. QED  BY <2>1, <4>3, <5>1, <5>2, TakenLine DEF PipeInv
      <4>. QED  BY <4>1, <4>2, <4>3
    <3>. QED  BY <3>2, <3>3 DEF TextInv
  <2>3. CASE client # "turn"
    BY <1>5, <2>3 DEF ReadNotification, Capture, EndsTurn, TextInv, Silence
  <2>. QED  BY <2>2, <2>3
<1>6. CASE AnswerRequest
  <2>1. UNCHANGED <<text, delta>> /\ (client' = client \/ client' = "failed")
        /\ \A x \in In(pipe') : x \in In(pipe)
    BY <1>6, TakenLine DEF AnswerRequest, Taken, server
  <2>. QED  BY <2>1 DEF TextInv, Silence
<1>7. CASE ReadFailure \/ RequestTimesOut \/ TurnTimesOut
  BY <1>7 DEF ReadFailure, RequestTimesOut, TurnTimesOut, TextInv
<1>8. CASE UNCHANGED vars
  BY <1>8 DEF vars, server, TextInv, Silence
<1>. QED
  BY <1>1, <1>2, <1>3, <1>4, <1>5, <1>6, <1>7, <1>8 DEF Next, ClientStep

-----------------------------------------------------------------------------
(* Text that was sent *)

(* Another line takes nothing away, and if spoken grows it carries text.   *)
LEMMA SpokenWritten ==
    ASSUME TypeOK, PipeInv, SpokenInv, NEW line \in Lines, Writes(line),
           spoken' # spoken => working /\ ~pending /\ Carries(line),
           pending' => pending, working' => working,
           pending /\ ~pending' /\ working' => line.kind = "response" /\ line.id = turn
    PROVE  SpokenInv'
<1>. USE Written
<1>0. \A x : IsResponse(x)' <=> IsResponse(x)
  BY DEF IsResponse
<1>1. pending' => spoken' = {}
  BY DEF SpokenInv
<1>2. client' = "sent" /\ working' /\ ~pending' => \E x \in In(pipe') : IsResponse(x)'
  BY <1>0 DEF SpokenInv, IsResponse
<1>3. client' = "sent" /\ spoken' # {} =>
         \E x, y \in Lines : Follows(pipe', x, y) /\ IsResponse(x)' /\ Carries(y)
  <2>1. CASE client = "sent" /\ spoken' # spoken
    <3>1. PICK x \in In(pipe) : IsResponse(x)
      BY <2>1 DEF SpokenInv
    <3>. QED  BY <1>0, <2>1, <3>1, InIsLine
  <2>2. CASE spoken' = spoken
    BY <1>0, <2>2 DEF SpokenInv
  <2>. QED  BY <2>1, <2>2
<1>4. client' = "turn" /\ spoken' # {} => HasText' \/ \E x \in In(pipe') : Carries(x)
  BY DEF SpokenInv, HasText, Silence
<1>5. client' = "idle" /\ spoken' # {} => HasText'
  BY DEF SpokenInv, PipeInv, HasText, Silence
<1>. QED  BY <1>1, <1>2, <1>3, <1>4, <1>5 DEF SpokenInv, Carries, Text

LEMMA SpokenStep ==
    ASSUME TypeOK, PipeInv, TextInv, SpokenInv, [Next]_vars
    PROVE  SpokenInv'
<1>a. turn # 0 \/ (~pending /\ ~working)
  BY DEF PipeInv
<1>1. CASE Respond
  BY <1>1, <1>a, LineTypes, SpokenWritten DEF Respond
<1>2. CASE Refuse
  BY <1>2, LineTypes, SpokenWritten DEF Refuse
<1>3. ASSUME NEW kind \in {"approval", "input"}, NEW id \in Turns, Ask(kind, id)
      PROVE  SpokenInv'
  BY <1>3, LineTypes, SpokenWritten DEF Ask, server
<1>4. ASSUME NEW m \in Msgs, SendDelta(m) \/ SendItem(m)
      PROVE  SpokenInv'
  <2>1. CASE SendDelta(m)
    BY <2>1, LineTypes, SpokenWritten DEF SendDelta, Carries, Text
  <2>2. CASE SendItem(m)
    BY <2>2, LineTypes, SpokenWritten DEF SendItem, Carries, Text
  <2>. QED  BY <1>4, <2>1, <2>2
<1>5. ASSUME NEW named \in BOOLEAN, NEW good \in BOOLEAN, NEW items \in {{}, Msgs},
             Complete(named, good, items)
      PROVE  SpokenInv'
  <2> DEFINE line == [kind |-> "done", turn |-> IF named THEN turn ELSE Unnamed,
                      good |-> good, items |-> items]
  <2>1. line \in Lines /\ line.kind = "done" /\ line.items = items
    BY <1>a, <1>5, LineTypes DEF Complete
  <2>2. Writes(line) /\ working /\ ~working' /\ UNCHANGED pending
    BY <1>5 DEF Complete
  <2>3. spoken' # spoken => ~pending /\ items # {}
    BY <1>5 DEF Complete
  <2>. HIDE DEF line
  <2>. QED  BY <2>1, <2>2, <2>3, SpokenWritten DEF Carries
<1>6. CASE Chat
  BY <1>6, LineTypes, SpokenWritten DEF Chat, server
<1>7. CASE Die
  BY <1>7, LineTypes, SpokenWritten DEF Die
<1>8. CASE StartTurn \/ Reopen
  BY <1>8 DEF StartTurn, Reopen, SpokenInv
<1>9. CASE ReadResponse
  <2>1. /\ client = "sent" /\ client' = "turn" /\ UNCHANGED <<text, pending, spoken>>
        /\ Reads /\ Taken /\ IsResponse(Line)
    BY <1>9 DEF ReadResponse, Taken, server
  <2>2. spoken # {} => \E x \in In(pipe') : Carries(x)
    <3>1. ASSUME spoken # {} PROVE \E x \in In(pipe') : Carries(x)
      <4>1. PICK x \in Lines, y \in Lines : Follows(pipe, x, y) /\ Carries(y)
        BY <2>1, <3>1 DEF SpokenInv
      <4>2. y \in In(pipe')
        BY <2>1, <4>1, TakenLine, FollowsIn
      <4>. QED  BY <4>1, <4>2
    <3>. QED  BY <3>1
  <2>. QED  BY <2>1, <2>2 DEF SpokenInv, Carries, Text
<1>10. CASE AnswerRequest \/ ReadNotification
  <2>0. /\ Reads /\ Taken /\ UNCHANGED <<turn, pending, working, spoken>>
        /\ ~(client = "sent" /\ IsResponse(Line))
    BY <1>10 DEF AnswerRequest, ReadNotification, Taken, server, IsResponse
  <2>1. CASE client = "sent" /\ client' = "sent"
    <3>2. working /\ ~pending => \E x \in In(pipe') : IsResponse(x)'
      BY <2>0, <2>1, TakenLine DEF SpokenInv, IsResponse
    <3>3. spoken # {} =>
             \E x, y \in Lines : Follows(pipe', x, y) /\ IsResponse(x)' /\ Carries(y)
      BY <2>0, <2>1, TakenLine DEF SpokenInv, IsResponse
    <3>. QED  BY <2>0, <2>1, <3>2, <3>3 DEF SpokenInv, Carries, Text
  <2>2. CASE client = "turn" /\ client' \in {"turn", "idle"}
    <3>1. (HasText => HasText') /\ (Carries(Line) => HasText')
      <4>1. CASE AnswerRequest
        BY <4>1 DEF AnswerRequest, HasText, Silence, Carries, Text
      <4>2. CASE ReadNotification
        BY <2>2, <4>2, Captured DEF ReadNotification, HasText, Silence
      <4>. QED  BY <1>10, <4>1, <4>2
    <3>2. spoken # {} => HasText' \/ \E x \in In(pipe') : Carries(x)
      BY <2>0, <2>2, <3>1, TakenLine DEF SpokenInv
    <3>3. client' = "idle" => \A x \in In(pipe') : ~Carries(x)
      <4>1. PipeInv'
        BY PipeStep
      <4>. QED  BY <4>1 DEF PipeInv, Carries, Text, Ends
    <3>. QED  BY <2>0, <2>2, <3>2, <3>3 DEF SpokenInv, Carries, Text
  <2>3. CASE client' = "failed"
    BY <2>0, <2>3 DEF SpokenInv
  <2>. QED
    BY <1>10, <2>0, <2>1, <2>2, <2>3 DEF AnswerRequest, ReadNotification, EndsTurn, Reads
<1>11. CASE ReadFailure \/ RequestTimesOut \/ TurnTimesOut
  BY <1>11 DEF ReadFailure, RequestTimesOut, TurnTimesOut, Taken, server, SpokenInv
<1>12. CASE UNCHANGED vars
  BY <1>12 DEF vars, server, SpokenInv, HasText, Silence, IsResponse, Carries, Text
<1>. QED
  BY <1>1, <1>2, <1>3, <1>4, <1>5, <1>6, <1>7, <1>8, <1>9, <1>10, <1>11, <1>12
     DEF Next, ServerStep, ClientStep

-----------------------------------------------------------------------------
(* The completion of a turn *)

LEMMA CompletedWritten ==
    ASSUME TypeOK, PipeInv, CompletedInv, NEW line \in Lines, Writes(line),
           UNCHANGED <<completed, overtaken>>, pending' => pending
    PROVE  CompletedInv'
<1>. USE Written
<1>1. completed' \subseteq 1 .. turn'
  BY DEF CompletedInv
<1>2. client' = "sent" /\ turn' \in completed' /\ ~overtaken' =>
         \E x, y \in Lines : Follows(pipe', x, y) /\ IsResponse(x)' /\ Ends(y)
  BY DEF CompletedInv, IsResponse
<1>. QED  BY <1>1, <1>2 DEF CompletedInv, Ends

LEMMA CompletedStep ==
    ASSUME TypeOK, PipeInv, SpokenInv, CompletedInv, [Next]_vars
    PROVE  CompletedInv'
<1>a. turn # 0 \/ (~pending /\ ~working)
  BY DEF PipeInv
<1>1. CASE Respond
  BY <1>1, <1>a, LineTypes, CompletedWritten DEF Respond
<1>2. CASE Refuse
  BY <1>2, LineTypes, CompletedWritten DEF Refuse
<1>3. ASSUME NEW kind \in {"approval", "input"}, NEW id \in Turns, Ask(kind, id)
      PROVE  CompletedInv'
  BY <1>3, LineTypes, CompletedWritten DEF Ask, server
<1>4. ASSUME NEW m \in Msgs, SendDelta(m) \/ SendItem(m)
      PROVE  CompletedInv'
  <2>1. CASE SendDelta(m)
    BY <2>1, LineTypes, CompletedWritten DEF SendDelta
  <2>2. CASE SendItem(m)
    BY <2>2, LineTypes, CompletedWritten DEF SendItem
  <2>. QED  BY <1>4, <2>1, <2>2
<1>5. ASSUME NEW named \in BOOLEAN, NEW good \in BOOLEAN, NEW items \in {{}, Msgs},
             Complete(named, good, items)
      PROVE  CompletedInv'
  <2> DEFINE line == [kind |-> "done", turn |-> IF named THEN turn ELSE Unnamed,
                      good |-> good, items |-> items]
  <2>1. line \in Lines /\ Ends(line)
    BY <1>a, <1>5, LineTypes, Marks DEF Complete, Ends
  <2>2. /\ Writes(line) /\ working /\ UNCHANGED pending
        /\ completed' = completed \union {turn} /\ overtaken' = (overtaken \/ pending)
    BY <1>5 DEF Complete
  <2>. HIDE DEF line
  <2>3. completed' \subseteq 1 .. turn'
    <3>1. turn \in 1 .. turn
      BY <1>a, <2>2, TurnsAssumption DEF TypeOK
    <3>. QED  BY <2>1, <2>2, <3>1, Written DEF CompletedInv
  <2>4. client' = "sent" /\ ~overtaken' =>
           \E x, y \in Lines : Follows(pipe', x, y) /\ IsResponse(x)' /\ Ends(y)
    <3>1. ASSUME client = "sent", ~overtaken'
          PROVE  \E x \in In(pipe) : IsResponse(x)
      BY <2>2, <3>1 DEF SpokenInv
    <3>. QED  BY <2>1, <2>2, <3>1, Written, InIsLine DEF IsResponse
  <2>5. \E x \in In(pipe') : Ends(x)
    BY <2>1, <2>2, Written
  <2>. QED  BY <2>2, <2>3, <2>4, <2>5 DEF CompletedInv, Ends
<1>6. CASE Chat
  BY <1>6, LineTypes, CompletedWritten DEF Chat, server
<1>7. CASE Die
  BY <1>7, LineTypes, CompletedWritten DEF Die
<1>8. CASE StartTurn
  <2>1. completed' \subseteq 1 .. turn' /\ turn' \notin completed'
    BY <1>8, TurnsAssumption DEF StartTurn, CompletedInv, TypeOK
  <2>. QED  BY <2>1 DEF CompletedInv
<1>9. CASE ClientStep
  <2>0. /\ Reads /\ Taken /\ UNCHANGED <<turn, pending, completed, overtaken>>
    BY <1>9 DEF ClientStep, ReadResponse, AnswerRequest, ReadNotification, ReadFailure, Taken,
                server
  <2>1. CASE client' = "sent"
    <3>1. client = "sent" /\ ~IsResponse(Line)
      BY <1>9, <2>0, <2>1 DEF ClientStep, ReadResponse, AnswerRequest, ReadNotification,
                              ReadFailure, IsResponse, EndsTurn
    <3>2. turn \in completed /\ ~overtaken =>
             \E x, y \in Lines : Follows(pipe', x, y) /\ IsResponse(x)' /\ Ends(y)
      BY <2>0, <3>1, TakenLine DEF CompletedInv, IsResponse
    <3>. QED  BY <2>0, <2>1, <3>2 DEF CompletedInv, Ends
  <2>2. CASE client = "sent" /\ client' = "turn"
    <3>1. ASSUME turn \in completed, ~overtaken PROVE \E x \in In(pipe') : Ends(x)
      <4>1. PICK x \in Lines, y \in Lines : Follows(pipe, x, y) /\ Ends(y)
        BY <2>2, <3>1 DEF CompletedInv
      <4>2. y \in In(pipe')
        BY <2>0, <4>1, TakenLine, FollowsIn
      <4>. QED  BY <4>1, <4>2
    <3>. QED  BY <2>0, <2>2, <3>1 DEF CompletedInv, Ends
  <2>3. CASE client = "turn" /\ client' = "turn"
    <3>1. ~Ends(Line)
      <4>1. EndsTurn(Line) => ~ReadNotification
        BY <2>3 DEF ReadNotification
      <4>2. Line \in In(pipe)
        BY <2>0, TakenLine
      <4>. QED
        BY <1>9, <2>3, <4>1, <4>2 DEF ClientStep, ReadResponse, AnswerRequest, ReadFailure, Ends,
                                      EndsTurn, PipeInv
    <3>. QED  BY <2>0, <2>3, <3>1, TakenLine DEF CompletedInv, Ends
  <2>4. CASE client' \in {"idle", "failed"}
    BY <2>0, <2>4 DEF CompletedInv
  <2>. QED
    BY <1>9, <2>1, <2>2, <2>3, <2>4 DEF ClientStep, ReadResponse, AnswerRequest,
                                        ReadNotification, ReadFailure, Reads
<1>10. CASE RequestTimesOut \/ TurnTimesOut
  <2>1. client' = "failed" /\ UNCHANGED <<turn, pending, completed, overtaken>>
    BY <1>10 DEF RequestTimesOut, TurnTimesOut, server
  <2>. QED  BY <2>1 DEF CompletedInv
<1>11. CASE Reopen
  BY <1>11 DEF Reopen, CompletedInv
<1>12. CASE UNCHANGED vars
  BY <1>12 DEF vars, server, CompletedInv, IsResponse, Ends
<1>. QED
  BY <1>1, <1>2, <1>3, <1>4, <1>5, <1>6, <1>7, <1>8, <1>9, <1>10, <1>11, <1>12
     DEF Next, ServerStep

-----------------------------------------------------------------------------
(* Requests of the server *)

LEMMA WaitingStep ==
    ASSUME TypeOK, PipeInv, NobodyIsLeftWaiting, [Next]_vars
    PROVE  NobodyIsLeftWaiting'
<1> DEFINE Open(s) == \E x \in In(s) : Asks(x)
<1>0. /\ NobodyIsLeftWaiting <=> (asked /\ client # "failed" => Open(pipe))
      /\ NobodyIsLeftWaiting' <=> (asked' /\ client' # "failed" => Open(pipe'))
  BY DEF NobodyIsLeftWaiting, In, Asks
<1>. HIDE DEF Open
<1>1. ASSUME NEW kind \in {"approval", "input"}, NEW id \in Turns, Ask(kind, id)
      PROVE  Open(pipe')
  <2>1. [kind |-> kind, id |-> id] \in In(pipe')
    BY <1>1, LineTypes, Written DEF Ask
  <2>. QED  BY <2>1 DEF Open, Asks
<1>2. CASE ServerStep /\ UNCHANGED asked
  BY <1>0, <1>2, ServerWrites, Written DEF Open
<1>3. CASE ServerStep /\ ~UNCHANGED asked
  BY <1>0, <1>1, <1>3 DEF ServerStep, Respond, Refuse, SendDelta, SendItem, Complete, Chat, Die
<1>4. CASE StartTurn
  BY <1>0, <1>4 DEF StartTurn
<1>5. CASE AnswerRequest \/ ReadFailure \/ RequestTimesOut \/ TurnTimesOut \/ Reopen
  BY <1>0, <1>5 DEF AnswerRequest, ReadFailure, RequestTimesOut, TurnTimesOut, Reopen
<1>6. CASE ReadResponse \/ ReadNotification
  <2>1. /\ Reads /\ Taken /\ UNCHANGED asked /\ client # "failed"
        /\ ~Asks(Line)
    BY <1>6 DEF ReadResponse, ReadNotification, Reads, IsResponse, Asks
  <2>. QED  BY <1>0, <2>1, TakenLine DEF Open
<1>7. CASE UNCHANGED vars
  BY <1>0, <1>7 DEF vars
<1>. QED  BY <1>2, <1>3, <1>4, <1>5, <1>6, <1>7 DEF Next, ClientStep

-----------------------------------------------------------------------------
(* Theorems *)

LEMMA TurnInvInit == Init => TurnInv
<1>. SUFFICES ASSUME Init PROVE TurnInv
  OBVIOUS
<1>1. turn \in 0 .. MaxTurns /\ Len(pipe) <= PipeBound /\ pipe \in Seq(Lines)
  BY TurnsAssumption, PipeAssumption DEF Init
<1>2. TypeOK
  <2>1. text \in [Msgs -> 0 .. 1]
    BY DEF Init, Silence
  <2>2. pending \in BOOLEAN /\ working \in BOOLEAN /\ asked \in BOOLEAN /\ overtaken \in BOOLEAN
    BY DEF Init
  <2>. QED  BY <1>1, <2>1, <2>2 DEF Init, TypeOK
<1>3. PipeInv /\ TextInv /\ SpokenInv /\ CompletedInv /\ NobodyIsLeftWaiting
  BY Emptied DEF Init, PipeInv, TextInv, SpokenInv, CompletedInv, NobodyIsLeftWaiting
<1>. QED  BY <1>2, <1>3 DEF TurnInv

LEMMA TurnInvStep == TurnInv /\ [Next]_vars => TurnInv'
BY TypingStep, TextTyping, PipeStep, TextStep, SpokenStep, CompletedStep, WaitingStep DEF TurnInv

(* The variables of the session keep their types: in particular the pipe   *)
(* keeps to its bound, and no message is in the text of a turn twice.      *)
THEOREM TurnTyping == Spec => []TypeOK
BY TurnInvInit, TurnInvStep, PTL DEF Spec, TurnInv

(* Client and server never wait for each other.                            *)
THEOREM NoStandoff == Spec => []NobodyIsLeftWaiting
BY TurnInvInit, TurnInvStep, PTL DEF Spec, TurnInv

(* The text of a turn that has ended is what the server sent of it once it *)
(* had responded: without repetition, and not empty.                       *)
THEOREM FaithfulText == Spec => []TextIsFaithful
<1>1. TurnInv => TextIsFaithful
  <2>1. TurnInv => \A m \in Msgs : text[m] <= 1
    BY DEF TurnInv, TypeOK
  <2>2. TurnInv => (client = "idle" /\ spoken # {} => HasText)
    BY DEF TurnInv, SpokenInv
  <2>. QED  BY <2>1, <2>2 DEF TextIsFaithful
<1>. QED  BY <1>1, TurnInvInit, TurnInvStep, PTL DEF Spec

(* A turn reported as completed was started by the client and completed by *)
(* the server, whatever else the server wrote.                             *)
THEOREM RealTurns == Spec => TurnIsReal
<1>1. ASSUME TurnInv, [Next]_vars, client = "turn", client' = "idle"
      PROVE  turn \in completed
  <2>1. Reads /\ Taken /\ EndsTurn(Line)
    BY <1>1 DEF Next, StartTurn, ClientStep, ReadResponse, AnswerRequest, ReadNotification,
                ReadFailure, RequestTimesOut, TurnTimesOut, Reopen, ServerStep, Respond, Refuse,
                Ask, SendDelta, SendItem, Complete, Chat, Die, Writes, vars
  <2>2. Line \in In(pipe) /\ Ends(Line)
    BY <1>1, <2>1, TakenLine, Marks DEF EndsTurn, Ends, TurnInv
  <2>. QED  BY <1>1, <2>2 DEF TurnInv, PipeInv
<1>2. TurnInv /\ [Next]_vars => (client = "turn" /\ client' = "idle" => turn \in completed)
  BY <1>1
<1>. QED  BY <1>2, TurnInvInit, TurnInvStep, PTL DEF Spec, TurnIsReal

(* A turn that the server has completed does not run into its deadline for *)
(* want of lines, unless its completion came before the response.          *)
THEOREM CompletionsSeen == Spec => CompletionIsSeen
<1>1. TurnInv => (client = "turn" /\ pipe = <<>> /\ turn \in completed => overtaken)
  BY Emptied DEF TurnInv, CompletedInv
<1>. QED  BY <1>1, TurnInvInit, TurnInvStep, PTL DEF Spec, CompletionIsSeen

-----------------------------------------------------------------------------
(* The summaries and the tokens of an issue's runs *)

(* Nothing of a process outlives it, and only a stop strikes tasks.        *)
ServiceFits ==
    /\ service = "down" => worker = "none" /\ task = [t \in Tasks |-> Idle]
    /\ service = "up" => \A t \in Tasks : task[t].at # "struck"

(* A task was created by a run that was, and asks about one that was then  *)
(* or is later; if another run than its own is asked about, its entry      *)
(* knows.                                                                  *)
TasksFitRuns ==
    /\ worker # "none" => run \in Runs
    /\ \A t \in Tasks :
          /\ task[t].by <= run /\ task[t].of <= run
          /\ task[t].at = "asked" /\ task[t].by = run => task[t].of = run
          /\ task[t].at = "asked" /\ task[t].of = run /\ task[t].by # run /\ InRunning
                => entry.crossed

Writing == {t \in Tasks : Alive(t) /\ task[t].by = run}

PendingHasItsTask ==
    service = "up" /\ InRunning /\ ~entry.crossed =>
        IF entry.pending THEN \E t \in Tasks : Writing = {t} ELSE Writing = {}

(* A task that stop() does not find has lost its place.                    *)
LostTasksAreDisplaced ==
    \A t \in Tasks : task[t].at \in {"new", "asked"} => t = place \/ t \in displaced

(* The counter of an entry is the highest count of its run, and the books  *)
(* hold what was reported, while there is no loss in them.                 *)
CountsFit ==
    /\ InRunning => entry.reported = peak[run]
    /\ \A r \in Runs : r > run => peak[r] = 0

IsSum(f) ==
    /\ f \in [0 .. MaxRuns -> Nat]
    /\ f[0] = 0
    /\ \A r \in Runs : f[r] = f[r - 1] + peak[r]
    /\ \A r \in Runs : f[r] <= r * MaxTokens
    /\ \A r \in 0 .. MaxRuns : r >= run => f[r] = f[run]

BooksFit(sum) ==
    /\ totals <= sum
    /\ saved <= sum
    /\ lost = {} => totals = sum
    /\ lost = {} /\ service = "down" => saved = sum

BooksAreRight == \E f \in [0 .. MaxRuns -> 0 .. MaxRuns * MaxTokens] : IsSum(f) /\ BooksFit(f[MaxRuns])

ActivityInv ==
    /\ ActivityTypeOK
    /\ ServiceFits
    /\ TasksFitRuns
    /\ PendingHasItsTask
    /\ LostTasksAreDisplaced
    /\ CountsFit
    /\ BooksAreRight

Entries ==
    [activity : Seq({"talk", "work"}), revision : 0 .. MaxRevision,
     summarized : 0 .. MaxRevision, pending : BOOLEAN, text : 0 .. MaxRuns,
     cooling : BOOLEAN, reported : 0 .. MaxTokens, crossed : BOOLEAN]

TaskStates ==
    [at : {"none", "new", "asked", "struck", "ended"},
     by : 0 .. MaxRuns, of : 0 .. MaxRuns, revision : 0 .. MaxRevision]

LEMMA LastOfProperties ==
    ASSUME NEW S, NEW s \in Seq(S), NEW n \in Nat
    PROVE  LastOf(s, n) \in Seq(S) /\ Len(LastOf(s, n)) <= n
<1>1. CASE Len(s) > n
  <2>1. /\ SubSeq(s, Len(s) - n + 1, Len(s)) \in Seq(S)
        /\ Len(SubSeq(s, Len(s) - n + 1, Len(s))) = n
    BY <1>1, LenProperties, SubSeqProperties
  <2>. QED  BY <1>1, <2>1 DEF LastOf
<1>2. CASE ~(Len(s) > n)
  BY <1>2, LenProperties DEF LastOf
<1>. QED  BY <1>1, <1>2

(* What an event, and the end of a summary, make of an entry               *)
LEMMA RecordedEntry ==
    ASSUME NEW e \in Entries, Len(e.activity) <= Window,
           NEW kind \in {"silent", "talk", "work"}, kind # "silent" => e.revision < MaxRevision
    PROVE  /\ Recorded(e, kind) \in Entries
           /\ Len(Recorded(e, kind).activity) <= Window
           /\ Recorded(e, kind).reported = e.reported
           /\ Recorded(e, kind).pending = e.pending
           /\ Recorded(e, kind).crossed = e.crossed
<1>1. CASE kind = "silent"
  BY <1>1 DEF Recorded
<1>2. CASE kind # "silent"
  <2>. DEFINE longer == Append(e.activity, kind)
  <2>1. longer \in Seq({"talk", "work"})
    BY <1>2 DEF Entries
  <2>2. LastOf(longer, Window) \in Seq({"talk", "work"}) /\ Len(LastOf(longer, Window)) <= Window
    BY <2>1, LastOfProperties, BoundsAssumption
  <2>3. Recorded(e, kind) = [e EXCEPT !.activity = LastOf(longer, Window), !.revision = @ + 1]
    BY <1>2 DEF Recorded, Entries
  <2>4. e.revision + 1 \in 0 .. MaxRevision
    BY <1>2, BoundsAssumption DEF Entries
  <2>. HIDE DEF longer
  <2>. QED  BY <2>2, <2>3, <2>4 DEF Entries
<1>. QED  BY <1>1, <1>2

LEMMA ServedEntry ==
    ASSUME ActivityTypeOK, NEW t \in Tasks, NEW e \in {WithSummary(entry, t), WithFailure(entry, t)}
    PROVE  /\ e \in Entries
           /\ e.activity = entry.activity
           /\ e.reported = entry.reported
           /\ e.pending = FALSE
           /\ e.crossed = (entry.crossed \/ task[t].of # run)
<1>1. entry \in Entries /\ task[t] \in TaskStates
  BY DEF ActivityTypeOK, Entries, TaskStates
<1>2. Larger(entry.summarized, task[t].revision) \in 0 .. MaxRevision
  BY <1>1 DEF Larger, Entries, TaskStates
<1>3. (entry.crossed \/ task[t].of # run) \in BOOLEAN
  OBVIOUS
<1>4. WithFailure(entry, t) =
        [entry EXCEPT !.pending = FALSE, !.summarized = Larger(entry.summarized, task[t].revision),
                      !.cooling = TRUE, !.crossed = (entry.crossed \/ task[t].of # run)]
  BY <1>1 DEF WithFailure, Entries
<1>5. /\ WithFailure(entry, t) \in Entries
      /\ WithFailure(entry, t).activity = entry.activity
      /\ WithFailure(entry, t).reported = entry.reported
      /\ WithFailure(entry, t).pending = FALSE
      /\ WithFailure(entry, t).crossed = (entry.crossed \/ task[t].of # run)
  BY <1>1, <1>2, <1>3, <1>4 DEF Entries
<1>6. task[t].of \in 0 .. MaxRuns
  BY <1>1 DEF TaskStates
<1>. QED  BY <1>5, <1>6 DEF WithSummary, Entries

LEMMA EntryTyped ==
    ActivityTypeOK => entry \in Entries /\ Len(entry.activity) <= Window
                      /\ task \in [Tasks -> TaskStates]
BY DEF ActivityTypeOK, Entries, TaskStates

LEMMA NewIsEntry == NewEntry \in Entries /\ Len(NewEntry.activity) <= Window
BY BoundsAssumption, RunsAssumption DEF NewEntry, Entries, Nobody

LEMMA IdleIsTask == Idle \in TaskStates
BY BoundsAssumption, RunsAssumption DEF Idle, TaskStates, Nobody

(* What the counter of an event adds to the books of its run               *)
LEMMA UsageAdds ==
    ASSUME NEW e \in Entries, NEW n \in 0 .. MaxTokens
    PROVE  /\ Usage(e, n).growth \in Nat
           /\ Usage(e, n).reported = e.reported + Usage(e, n).growth
           /\ Usage(e, n).reported = Larger(e.reported, n)
           /\ Usage(e, n).reported \in 0 .. MaxTokens
BY BoundsAssumption DEF Usage, Entries, Larger

(* What an event of the worker does: it adds the same to the totals, to    *)
(* the counter of the entry and to the highest count of the run, and may   *)
(* begin a summary if none is pending.                                     *)
EventAdds(growth) ==
    /\ totals' = totals + growth
    /\ peak' = [peak EXCEPT ![run] = @ + growth]
    /\ peak[run] + growth <= MaxTokens
    /\ entry' \in Entries /\ Len(entry'.activity) <= Window
    /\ entry'.reported = peak[run] + growth
    /\ entry'.crossed = entry.crossed
    /\ \/ entry'.pending = entry.pending /\ UNCHANGED summaries
       \/ /\ ~entry.pending /\ entry'.pending = TRUE
          /\ \E t \in Tasks : task[t] = Idle /\ Started(t)

LEMMA EventEffect ==
    ASSUME ActivityTypeOK, CountsFit, worker # "none" => run \in Runs,
           NEW kind \in {"silent", "talk", "work"}, NEW counts \in BOOLEAN,
           NEW n \in 0 .. MaxTokens, Event(kind, counts, n)
    PROVE  \E growth \in Nat : EventAdds(growth)
<1>1. /\ run \in Runs /\ entry.reported = peak[run] /\ peak \in [Runs -> 0 .. MaxTokens]
      /\ kind # "silent" => entry.revision < MaxRevision
      /\ service # "down" /\ InRunning
  BY DEF Event, CountsFit, InRunning, ActivityTypeOK
<1>2. entry \in Entries /\ Len(entry.activity) <= Window
  BY EntryTyped
<1>. DEFINE usage == IF counts THEN Usage(entry, n)
                     ELSE [growth |-> 0, reported |-> entry.reported]
            noted == Recorded([entry EXCEPT !.reported = usage.reported], kind)
<1>3. /\ usage.growth \in Nat
      /\ usage.reported = peak[run] + usage.growth
      /\ usage.reported \in 0 .. MaxTokens
  <2>1. CASE counts
    BY <1>1, <1>2, <2>1, UsageAdds
  <2>2. CASE ~counts
    <3>1. usage = [growth |-> 0, reported |-> entry.reported]
      BY <2>2
    <3>2. entry.reported \in 0 .. MaxTokens
      BY <1>2 DEF Entries
    <3>. QED  BY <1>1, <3>1, <3>2
  <2>. QED  BY <2>1, <2>2
<1>4. peak' = [peak EXCEPT ![run] = @ + usage.growth]
  <2>1. CASE counts
    <3>1. peak' = [peak EXCEPT ![run] = Larger(peak[run], n)]
      BY <2>1, <1>1 DEF Event
    <3>2. Larger(peak[run], n) = peak[run] + usage.growth
      BY <1>1, <1>2, <2>1, UsageAdds
    <3>. QED  BY <1>1, <3>1, <3>2
  <2>2. CASE ~counts
    <3>1. peak' = peak /\ usage.growth = 0
      BY <2>2 DEF Event
    <3>2. peak[run] + 0 = peak[run]
      BY <1>1, BoundsAssumption
    <3>. QED  BY <1>1, <3>1, <3>2
  <2>. QED  BY <2>1, <2>2
<1>5. /\ totals' = totals + usage.growth
      /\ IF WantsSummary(noted)
         THEN /\ entry' = [noted EXCEPT !.pending = TRUE]
              /\ \E t \in Tasks : LeastIdle(t) /\ Started(t)
         ELSE entry' = noted /\ UNCHANGED summaries
  BY DEF Event
<1>. HIDE DEF usage
<1>6. /\ [entry EXCEPT !.reported = usage.reported] \in Entries
      /\ [entry EXCEPT !.reported = usage.reported].activity = entry.activity
      /\ [entry EXCEPT !.reported = usage.reported].revision = entry.revision
      /\ [entry EXCEPT !.reported = usage.reported].pending = entry.pending
      /\ [entry EXCEPT !.reported = usage.reported].crossed = entry.crossed
      /\ [entry EXCEPT !.reported = usage.reported].reported = usage.reported
  BY <1>2, <1>3 DEF Entries
<1>7. /\ noted \in Entries /\ Len(noted.activity) <= Window
      /\ noted.reported = usage.reported
      /\ noted.pending = entry.pending /\ noted.crossed = entry.crossed
  BY <1>1, <1>2, <1>6, RecordedEntry
<1>. HIDE DEF noted
<1>8. CASE WantsSummary(noted)
  <2>1. ~noted.pending
    BY <1>8 DEF WantsSummary
  <2>2. PICK t \in Tasks : LeastIdle(t) /\ Started(t)
    BY <1>5, <1>8
  <2>3. task[t] = Idle
    BY <2>2 DEF LeastIdle
  <2>4. entry' = [noted EXCEPT !.pending = TRUE]
    BY <1>5, <1>8
  <2>5. /\ entry' \in Entries /\ entry'.activity = noted.activity
        /\ entry'.reported = noted.reported /\ entry'.crossed = noted.crossed
        /\ entry'.pending = TRUE
    BY <1>7, <2>4 DEF Entries
  <2>6. ~entry.pending
    BY <1>7, <2>1
  <2>7. peak[run] + usage.growth <= MaxTokens
    BY <1>3, BoundsAssumption
  <2>. QED  BY <1>3, <1>4, <1>5, <1>7, <2>2, <2>3, <2>5, <2>6, <2>7 DEF EventAdds
<1>9. CASE ~WantsSummary(noted)
  <2>1. entry' = noted /\ UNCHANGED summaries
    BY <1>5, <1>9
  <2>2. peak[run] + usage.growth <= MaxTokens
    BY <1>3, BoundsAssumption
  <2>. QED  BY <1>3, <1>4, <1>5, <1>7, <2>1, <2>2 DEF EventAdds
<1>. QED  BY <1>8, <1>9

(* What the end of the process leaves *)
LEMMA GoneEffect ==
    ASSUME Stopped \/ Crash
    PROVE  /\ service' = "down" /\ worker' = "none" /\ entry' = NewEntry
           /\ task' = [t \in Tasks |-> Idle] /\ place' = Nobody /\ displaced' = {}
           /\ UNCHANGED <<run, totals, peak>>
           /\ saved' \in {totals, saved}
           /\ lost' = IF saved' = totals THEN lost ELSE lost \union {"unsaved"}
BY DEF Stopped, Crash, Gone, Persisted

(* The steps that leave the books and the runs alone                       *)
QuietStep ==
    \/ WorkerEnds \/ IntervalOver \/ Stop
    \/ \E t \in Tasks : SummaryStep(t)
    \/ UNCHANGED activityVars

LEMMA QuietEffect ==
    ASSUME QuietStep
    PROVE  /\ UNCHANGED <<run, totals, saved, peak, lost>>
           /\ service' = "down" => service = "down"
           /\ (worker' = "none") <=> (worker = "none")
<1>1. CASE WorkerEnds \/ IntervalOver \/ Stop
  BY <1>1 DEF WorkerEnds, IntervalOver, Stop, books, InRunning
<1>2. ASSUME NEW t \in Tasks, SummaryStep(t)
      PROVE  UNCHANGED <<service, run, worker, totals, saved, peak, lost>>
  BY <1>2 DEF SummaryStep, SummaryStarts, SummaryAnswers, SummaryCancelled, SummaryDone, books
<1>3. CASE UNCHANGED activityVars
  BY <1>3 DEF activityVars
<1>. QED  BY <1>1, <1>2, <1>3 DEF QuietStep

LEMMA ActivitySteps ==
    ASSUME [ActivityNext]_activityVars
    PROVE  \/ Dispatch \/ WorkerDone \/ CodexEvent \/ Stopped \/ Crash \/ Restart \/ QuietStep
BY DEF ActivityNext, QuietStep

LEMMA EventPicked ==
    ASSUME CodexEvent
    PROVE  \E kind \in {"silent", "talk", "work"}, counts \in BOOLEAN, n \in 0 .. MaxTokens :
              Event(kind, counts, n)
<1>1. PICK kind \in {"silent", "talk", "work"}, n \in 0 .. MaxTokens :
          Event(kind, FALSE, 0) \/ Event(kind, TRUE, n)
  BY DEF CodexEvent
<1>2. 0 \in 0 .. MaxTokens
  BY BoundsAssumption
<1>. QED  BY <1>1, <1>2

(* The partial sums of the counts after an event                           *)
LEMMA SumGrows ==
    ASSUME ActivityTypeOK, CountsFit, run \in Runs, NEW growth \in Nat,
           peak' = [peak EXCEPT ![run] = @ + growth], run' = run,
           peak[run] + growth <= MaxTokens,
           NEW f \in [0 .. MaxRuns -> 0 .. MaxRuns * MaxTokens], IsSum(f)
    PROVE  \E g \in [0 .. MaxRuns -> 0 .. MaxRuns * MaxTokens] :
              IsSum(g)' /\ g[MaxRuns] = f[MaxRuns] + growth
<1>. DEFINE g == [r \in 0 .. MaxRuns |-> IF r >= run THEN f[r] + growth ELSE f[r]]
<1>1. /\ run \in 1 .. MaxRuns /\ MaxRuns \in Nat \ {0} /\ MaxTokens \in Nat
      /\ Runs = 1 .. MaxRuns
  BY RunsAssumption, BoundsAssumption DEF Runs
<1>2. peak \in [1 .. MaxRuns -> 0 .. MaxTokens]
  BY <1>1 DEF ActivityTypeOK
<1>3. f \in [0 .. MaxRuns -> Nat]
  BY DEF IsSum
<1>4. \A r \in 0 .. MaxRuns : g[r] \in Nat /\ (r >= run => g[r] = f[r] + growth)
                              /\ (r < run => g[r] = f[r])
  BY <1>1, <1>3
<1>5. g[0] = 0
  BY <1>1, <1>4 DEF IsSum
<1>6. \A r \in 1 .. MaxRuns : g[r] = g[r - 1] + peak'[r]
  <2>. SUFFICES ASSUME NEW r \in 1 .. MaxRuns PROVE g[r] = g[r - 1] + peak'[r]
    OBVIOUS
  <2>1. f[r] = f[r - 1] + peak[r] /\ r - 1 \in 0 .. MaxRuns /\ f[r] \in Nat /\ f[r - 1] \in Nat
    BY <1>1, <1>3 DEF IsSum
  <2>2. peak'[r] = IF r = run THEN peak[r] + growth ELSE peak[r]
    BY <1>1, <1>2
  <2>3. peak[r] \in Nat
    BY <1>2
  <2>4. CASE r < run
    BY <1>1, <1>4, <2>1, <2>2, <2>3, <2>4
  <2>5. CASE r = run
    <3>1. r - 1 < run /\ g[r - 1] = f[r - 1] /\ g[r] = f[r] + growth
      BY <1>1, <1>4, <2>1, <2>5
    <3>. HIDE DEF g
    <3>. QED  BY <2>1, <2>2, <2>3, <2>5, <3>1
  <2>6. CASE r > run
    <3>1. r - 1 >= run /\ g[r - 1] = f[r - 1] + growth /\ g[r] = f[r] + growth
      BY <1>1, <1>4, <2>1, <2>6
    <3>. HIDE DEF g
    <3>. QED  BY <2>1, <2>2, <2>3, <2>6, <3>1
  <2>. QED  BY <1>1, <2>4, <2>5, <2>6
<1>7. \A r \in 0 .. MaxRuns : r >= run => g[r] = g[run]
  BY <1>1, <1>3, <1>4 DEF IsSum
<1>. HIDE DEF g
<1>8. \A r \in 1 .. MaxRuns : g[r] <= r * MaxTokens
  <2>1. g[run] <= run * MaxTokens
    <3>1. g[run] = g[run - 1] + peak'[run] /\ g[run - 1] = f[run - 1] /\ run - 1 \in 0 .. MaxRuns
      BY <1>1, <1>4, <1>6
    <3>2. f[run - 1] <= (run - 1) * MaxTokens
      BY <1>1 DEF IsSum
    <3>3. peak'[run] <= MaxTokens /\ peak'[run] \in Nat
      BY <1>1, <1>2
    <3>4. (run - 1) * MaxTokens + MaxTokens = run * MaxTokens
      BY <1>1
    <3>5. f[run - 1] \in Nat /\ (run - 1) * MaxTokens \in Nat
      BY <1>1, <1>3, <3>1
    <3>. QED  BY <1>1, <3>1, <3>2, <3>3, <3>4, <3>5
  <2>. SUFFICES ASSUME NEW r \in 1 .. MaxRuns PROVE g[r] <= r * MaxTokens
    OBVIOUS
  <2>2. CASE r < run
    <3>1. f[r] <= r * MaxTokens
      BY <1>1 DEF IsSum
    <3>2. g[r] = f[r]
      BY <1>1, <1>4, <2>2
    <3>. QED  BY <3>1, <3>2
  <2>3. CASE r >= run
    <3>1. g[r] = g[run] /\ g[run] \in Nat
      BY <1>1, <1>4, <1>7, <2>3
    <3>2. run * MaxTokens <= r * MaxTokens
      BY <1>1, <2>3
    <3>3. run * MaxTokens \in Nat /\ r * MaxTokens \in Nat
      BY <1>1
    <3>. QED  BY <2>1, <3>1, <3>2, <3>3
  <2>. QED  BY <1>1, <2>2, <2>3
<1>9. g \in [0 .. MaxRuns -> 0 .. MaxRuns * MaxTokens]
  <2>1. \A r \in 0 .. MaxRuns : g[r] \in 0 .. MaxRuns * MaxTokens
    <3>. SUFFICES ASSUME NEW r \in 0 .. MaxRuns PROVE g[r] \in 0 .. MaxRuns * MaxTokens
      OBVIOUS
    <3>1. MaxRuns * MaxTokens \in Nat /\ r * MaxTokens \in Nat
      BY <1>1
    <3>2. r * MaxTokens <= MaxRuns * MaxTokens
      BY <1>1
    <3>3. CASE r = 0
      BY <1>5, <3>1, <3>3
    <3>4. CASE r # 0
      BY <1>4, <1>8, <3>1, <3>2, <3>4
    <3>. QED  BY <3>3, <3>4
  <2>. QED  BY <2>1 DEF g
<1>10. g \in [0 .. MaxRuns -> Nat]
  BY <1>4 DEF g
<1>11. g[MaxRuns] = f[MaxRuns] + growth
  BY <1>1, <1>4
<1>12. PICK h \in [0 .. MaxRuns -> 0 .. MaxRuns * MaxTokens] : h = g
  BY <1>9
<1>13. IsSum(h)'
  BY <1>1, <1>5, <1>6, <1>7, <1>8, <1>10, <1>12 DEF IsSum
<1>. QED  BY <1>11, <1>12, <1>13

LEMMA SameSum ==
    ASSUME run' = run, peak' = peak, NEW f, IsSum(f)
    PROVE  IsSum(f)'
BY DEF IsSum

LEMMA BooksStep ==
    ASSUME ActivityInv, [ActivityNext]_activityVars
    PROVE  BooksAreRight'
<1>. USE DEF ActivityInv
<1>1. PICK f \in [0 .. MaxRuns -> 0 .. MaxRuns * MaxTokens] : IsSum(f) /\ BooksFit(f[MaxRuns])
  BY DEF BooksAreRight
<1>2. f[MaxRuns] \in Nat /\ totals \in Nat /\ saved \in Nat
  BY <1>1, RunsAssumption DEF IsSum, ActivityTypeOK
<1>3. CASE Dispatch
  <2>1. /\ run' = run + 1 /\ run < MaxRuns /\ service' # "down"
        /\ UNCHANGED <<totals, peak, lost>> /\ saved' \in {totals, saved}
    BY <1>3 DEF Dispatch, Persisted
  <2>2. run \in 0 .. MaxRuns /\ run + 1 \in 0 .. MaxRuns
    BY <2>1, RunsAssumption DEF ActivityTypeOK
  <2>3. \A r \in 0 .. MaxRuns : r >= run + 1 => f[r] = f[run + 1]
    BY <1>1, <2>2 DEF IsSum
  <2>4. IsSum(f)'
    BY <1>1, <2>1, <2>3 DEF IsSum
  <2>5. BooksFit(f[MaxRuns])'
    BY <1>1, <1>2, <2>1 DEF BooksFit
  <2>. QED  BY <2>4, <2>5 DEF BooksAreRight
<1>4. CASE CodexEvent
  <2>1. PICK kind \in {"silent", "talk", "work"}, counts \in BOOLEAN, n \in 0 .. MaxTokens :
            Event(kind, counts, n)
    BY <1>4, EventPicked
  <2>2. PICK growth \in Nat : EventAdds(growth)
    BY <2>1, EventEffect DEF TasksFitRuns
  <2>3. /\ service' # "down" /\ UNCHANGED <<run, lost>> /\ saved' \in {totals', saved}
        /\ run \in Runs
    BY <2>1 DEF Event, Persisted, TasksFitRuns
  <2>4. PICK g \in [0 .. MaxRuns -> 0 .. MaxRuns * MaxTokens] :
            IsSum(g)' /\ g[MaxRuns] = f[MaxRuns] + growth
    BY <1>1, <2>2, <2>3, SumGrows DEF EventAdds
  <2>5. BooksFit(f[MaxRuns] + growth)'
    BY <1>1, <1>2, <2>2, <2>3 DEF BooksFit, EventAdds
  <2>6. BooksFit(g[MaxRuns])'
    BY <2>4, <2>5 DEF BooksFit
  <2>. QED  BY <2>4, <2>6 DEF BooksAreRight
<1>5. CASE Stopped \/ Crash
  <2>1. IsSum(f)'
    BY <1>1, <1>5, GoneEffect, SameSum
  <2>2. BooksFit(f[MaxRuns])'
    BY <1>1, <1>2, <1>5, GoneEffect DEF BooksFit
  <2>. QED  BY <2>1, <2>2 DEF BooksAreRight
<1>6. CASE Restart
  <2>1. IsSum(f)'
    BY <1>1, <1>6, SameSum DEF Restart
  <2>2. BooksFit(f[MaxRuns])'
    BY <1>1, <1>2, <1>6 DEF BooksFit, Restart
  <2>. QED  BY <2>1, <2>2 DEF BooksAreRight
<1>7. CASE WorkerDone
  <2>1. /\ UNCHANGED <<service, run, totals, peak, lost>> /\ saved' \in {totals, saved}
        /\ service # "down"
    BY <1>7 DEF WorkerDone, Persisted
  <2>2. IsSum(f)'
    BY <1>1, <2>1, SameSum
  <2>3. BooksFit(f[MaxRuns])'
    BY <1>1, <1>2, <2>1 DEF BooksFit
  <2>. QED  BY <2>2, <2>3 DEF BooksAreRight
<1>8. CASE QuietStep
  <2>1. IsSum(f)'
    BY <1>1, <1>8, QuietEffect, SameSum
  <2>2. BooksFit(f[MaxRuns])'
    BY <1>1, <1>2, <1>8, QuietEffect DEF BooksFit
  <2>. QED  BY <2>1, <2>2 DEF BooksAreRight
<1>. QED  BY <1>3, <1>4, <1>5, <1>6, <1>7, <1>8, ActivitySteps

(* The entry of a running issue keeps its counter but for an event.        *)
LEMMA QuietKeepsCounter ==
    ASSUME ActivityTypeOK, QuietStep
    PROVE  entry'.reported = entry.reported
<1>1. CASE \E t \in Tasks : SummaryAnswers(t)
  <2>1. PICK t \in Tasks : SummaryAnswers(t)
    BY <1>1
  <2>. QED  BY <2>1, ServedEntry DEF SummaryAnswers
<1>2. CASE \E t \in Tasks : SummaryStarts(t)
  BY <1>2, EntryTyped DEF SummaryStarts, Entries
<1>3. CASE IntervalOver
  BY <1>3, EntryTyped DEF IntervalOver, Entries
<1>. QED  BY <1>1, <1>2, <1>3
          DEF QuietStep, WorkerEnds, Stop, SummaryStep, SummaryCancelled, SummaryDone, activityVars

LEMMA CountsStep ==
    ASSUME ActivityInv, [ActivityNext]_activityVars
    PROVE  CountsFit'
<1>. USE DEF ActivityInv, InRunning
<1>1. CASE Dispatch
  <2>1. run' = run + 1 /\ run \in Nat /\ run < MaxRuns /\ peak' = peak /\ entry' = NewEntry
    BY <1>1 DEF Dispatch, ActivityTypeOK
  <2>2. run + 1 \in Runs
    BY <2>1, RunsAssumption DEF Runs
  <2>3. NewEntry.reported = 0
    BY DEF NewEntry
  <2>4. \A r \in Runs : r > run + 1 => r > run
    BY <2>1 DEF Runs
  <2>5. run + 1 > run
    BY <2>1
  <2>. QED  BY <2>1, <2>2, <2>3, <2>4, <2>5 DEF CountsFit
<1>2. CASE CodexEvent
  <2>1. PICK kind \in {"silent", "talk", "work"}, counts \in BOOLEAN, n \in 0 .. MaxTokens :
            Event(kind, counts, n)
    BY <1>2, EventPicked
  <2>2. PICK growth \in Nat : EventAdds(growth)
    BY <2>1, EventEffect DEF TasksFitRuns
  <2>3. run' = run /\ run \in Runs
    BY <2>1 DEF Event, TasksFitRuns
  <2>4. /\ peak' = [peak EXCEPT ![run] = @ + growth] /\ entry'.reported = peak[run] + growth
        /\ peak \in [Runs -> 0 .. MaxTokens]
    BY <2>2 DEF EventAdds, ActivityTypeOK
  <2>5. \A r \in Runs : r > run => peak'[r] = peak[r]
    BY <2>3, <2>4 DEF Runs
  <2>. QED  BY <2>3, <2>4, <2>5 DEF CountsFit
<1>3. CASE QuietStep
  BY <1>3, QuietEffect, QuietKeepsCounter DEF CountsFit
<1>4. CASE Stopped \/ Crash
  BY <1>4, GoneEffect DEF CountsFit
<1>5. CASE Restart
  BY <1>5 DEF Restart, CountsFit, ServiceFits
<1>6. CASE WorkerDone
  BY <1>6 DEF WorkerDone, CountsFit
<1>. QED  BY <1>1, <1>2, <1>3, <1>4, <1>5, <1>6, ActivitySteps

-----------------------------------------------------------------------------
(* The tasks *)

(* What a step of a summary task does                                      *)
LEMMA SummaryEffect ==
    ASSUME ActivityTypeOK, NEW t \in Tasks, SummaryStep(t)
    PROVE  /\ UNCHANGED <<service, run, worker, totals, saved, peak, lost>>
           /\ task' \in [Tasks -> TaskStates]
           /\ \A u \in Tasks \ {t} : task'[u] = task[u]
           /\ \/ /\ task[t].at = "new" /\ InRunning
                 /\ task'[t].at = "asked" /\ task'[t].by = task[t].by /\ task'[t].of = run
                 /\ entry' = [entry EXCEPT !.crossed = @ \/ task[t].by # run]
                 /\ UNCHANGED <<place, displaced>>
              \/ /\ task[t].at = "new" /\ ~InRunning
                 /\ task'[t].at = "ended" /\ task'[t].by = task[t].by /\ task'[t].of = task[t].of
                 /\ UNCHANGED <<entry, place, displaced>>
              \/ /\ task[t].at \in {"asked", "struck"}
                 /\ task'[t].at = "ended" /\ task'[t].by = task[t].by /\ task'[t].of = task[t].of
                 /\ InRunning => entry' \in {WithSummary(entry, t), WithFailure(entry, t)}
                 /\ ~InRunning => entry' = entry
                 /\ UNCHANGED <<place, displaced>>
              \/ /\ task[t].at = "struck"
                 /\ task'[t].at = "ended" /\ task'[t].by = task[t].by /\ task'[t].of = task[t].of
                 /\ UNCHANGED <<entry, place, displaced>>
              \/ /\ task[t].at = "ended"
                 /\ task'[t] = Idle
                 /\ place' = Nobody /\ UNCHANGED entry
                 /\ displaced' = IF place \in {t, Nobody} THEN displaced \ {t}
                                 ELSE (displaced \ {t}) \union {place}
<1>1. task \in [Tasks -> TaskStates] /\ entry \in Entries
  BY EntryTyped
<1>2. run \in 0 .. MaxRuns /\ entry.revision \in 0 .. MaxRevision
  BY <1>1 DEF ActivityTypeOK, Entries
<1>3. CASE SummaryStarts(t) /\ InRunning
  <2>1. /\ task' = [task EXCEPT ![t] = [@ EXCEPT !.at = "asked", !.of = run,
                                              !.revision = entry.revision]]
        /\ task[t].at = "new"
        /\ UNCHANGED <<service, run, worker, place, totals, saved, peak, lost, displaced>>
    BY <1>3 DEF SummaryStarts, books
  <2>2. entry' = [entry EXCEPT !.crossed = @ \/ task[t].by # run]
    BY <1>3 DEF SummaryStarts
  <2>3. /\ task' \in [Tasks -> TaskStates]
        /\ \A u \in Tasks \ {t} : task'[u] = task[u]
        /\ task'[t].at = "asked" /\ task'[t].by = task[t].by /\ task'[t].of = run
    BY <1>1, <1>2, <2>1 DEF TaskStates
  <2>. HIDE DEF InRunning
  <2>. QED  BY <1>3, <2>1, <2>2, <2>3, Zenon
<1>4. CASE SummaryStarts(t) /\ ~InRunning
  BY <1>1, <1>4 DEF SummaryStarts, TaskStates, books
<1>5. CASE SummaryAnswers(t)
  BY <1>1, <1>5 DEF SummaryAnswers, TaskStates, books
<1>6. CASE SummaryCancelled(t)
  BY <1>1, <1>6 DEF SummaryCancelled, TaskStates, books
<1>7. CASE SummaryDone(t)
  BY <1>1, <1>7, IdleIsTask DEF SummaryDone, books
<1>. QED  BY <1>3, <1>4, <1>5, <1>6, <1>7 DEF SummaryStep

LEMMA CrossedEntry ==
    ASSUME NEW e \in Entries, NEW b \in BOOLEAN, NEW c, c = [e EXCEPT !.crossed = @ \/ b]
    PROVE  /\ c \in Entries /\ c.activity = e.activity
           /\ c.pending = e.pending /\ c.crossed = (e.crossed \/ b)
<1>1. (e.crossed \/ b) \in BOOLEAN
  OBVIOUS
<1>2. PICK x \in BOOLEAN : x = (e.crossed \/ b)
  BY <1>1
<1>3. c = [e EXCEPT !.crossed = x]
  BY <1>2, Zenon
<1>4. c \in Entries /\ c.activity = e.activity /\ c.pending = e.pending /\ c.crossed = x
  BY <1>2, <1>3 DEF Entries
<1>. QED  BY <1>2, <1>4, Zenon

LEMMA StartedTask ==
    ASSUME ActivityTypeOK, NEW t \in Tasks, task[t] = Idle, Started(t)
    PROVE  /\ task' \in [Tasks -> TaskStates]
           /\ task'[t].at = "new" /\ task'[t].by = run /\ task'[t].of = Nobody
           /\ \A u \in Tasks \ {t} : task'[u] = task[u]
           /\ place' = t /\ displaced' \subseteq Tasks
           /\ displaced' = IF place = Nobody THEN displaced ELSE displaced \union {place}
<1>1. task \in [Tasks -> TaskStates] /\ run \in 0 .. MaxRuns
  BY EntryTyped DEF ActivityTypeOK
<1>2. [Idle EXCEPT !.at = "new", !.by = run] \in TaskStates
  BY <1>1, IdleIsTask DEF TaskStates, Idle
<1>3. place # Nobody => place \in Tasks
  BY TasksAssumption DEF ActivityTypeOK, Tasks, Nobody
<1>4. displaced \subseteq Tasks
  BY DEF ActivityTypeOK
<1>. QED  BY <1>1, <1>2, <1>3, <1>4 DEF Started, Idle, Nobody

LEMMA StopEffect ==
    ASSUME ActivityTypeOK, Stop
    PROVE  /\ service = "up" /\ service' \in {"stopping", "late"}
           /\ place' = Nobody /\ task' \in [Tasks -> TaskStates]
           /\ worker' \in {worker, "struck"}
           /\ \A t \in Tasks :
                 /\ task'[t].by = task[t].by /\ task'[t].of = task[t].of
                 /\ task'[t].at = IF t = place /\ task[t].at \in {"new", "asked"}
                                  THEN "struck" ELSE task[t].at
           /\ UNCHANGED <<run, entry, totals, saved, peak, lost, displaced>>
<1>1. task \in [Tasks -> TaskStates]
  BY EntryTyped
<1>2. /\ service = "up" /\ service' \in {"stopping", "late"} /\ place' = Nobody
      /\ worker' \in {worker, "struck"}
      /\ UNCHANGED <<run, entry, totals, saved, peak, lost, displaced>>
  BY DEF Stop, books
<1>3. CASE place = Nobody
  <2>1. task' = task /\ place \notin Tasks
    BY <1>3 DEF Stop, Nobody, Tasks
  <2>. QED  BY <1>1, <1>2, <2>1
<1>4. CASE place # Nobody
  <2>1. place \in Tasks /\ task' = Strike(place)
    BY <1>4, TasksAssumption DEF Stop, ActivityTypeOK, Tasks, Nobody
  <2>2. CASE task[place].at \in {"new", "asked"}
    BY <1>1, <1>2, <2>1, <2>2 DEF Strike, TaskStates
  <2>3. CASE task[place].at \notin {"new", "asked"}
    BY <1>1, <1>2, <2>1, <2>3 DEF Strike
  <2>. QED  BY <2>2, <2>3
<1>. QED  BY <1>3, <1>4

(* The type invariant but for the totals, which BooksAreRight bounds       *)
CoreTypeOK ==
    /\ service \in {"up", "stopping", "late", "down"}
    /\ run \in 0 .. MaxRuns
    /\ worker \in {"alive", "struck", "ended", "none"}
    /\ entry \in Entries /\ Len(entry.activity) <= Window
    /\ task \in [Tasks -> TaskStates]
    /\ place \in 0 .. MaxTasks
    /\ totals \in Nat /\ saved \in Nat
    /\ peak \in [Runs -> 0 .. MaxTokens]
    /\ lost \subseteq {"unsaved", "unread"}
    /\ displaced \subseteq Tasks

LEMMA CoreStep ==
    ASSUME ActivityInv, [ActivityNext]_activityVars
    PROVE  CoreTypeOK'
<1>1. CoreTypeOK /\ ActivityTypeOK
  <2>1. ActivityTypeOK
    BY DEF ActivityInv
  <2>2. entry \in Entries /\ Len(entry.activity) <= Window /\ task \in [Tasks -> TaskStates]
    BY <2>1, EntryTyped
  <2>3. totals \in Nat /\ saved \in Nat
    BY <2>1 DEF ActivityTypeOK
  <2>4. /\ service \in {"up", "stopping", "late", "down"}
        /\ run \in 0 .. MaxRuns
        /\ worker \in {"alive", "struck", "ended", "none"}
        /\ place \in 0 .. MaxTasks
        /\ peak \in [Runs -> 0 .. MaxTokens]
        /\ lost \subseteq {"unsaved", "unread"}
        /\ displaced \subseteq Tasks
    BY <2>1 DEF ActivityTypeOK
  <2>. QED  BY <2>1, <2>2, <2>3, <2>4 DEF CoreTypeOK
<1>. USE TasksAssumption, RunsAssumption DEF Nobody
<1>2. CASE Dispatch
  BY <1>1, <1>2, NewIsEntry DEF Dispatch, Persisted, CoreTypeOK, summaries
<1>3. CASE WorkerDone
  BY <1>1, <1>3, NewIsEntry DEF WorkerDone, Persisted, CoreTypeOK, summaries
<1>4. CASE CodexEvent
  <2>1. PICK kind \in {"silent", "talk", "work"}, counts \in BOOLEAN, n \in 0 .. MaxTokens :
            Event(kind, counts, n)
    BY <1>4, EventPicked
  <2>2. PICK growth \in Nat : EventAdds(growth)
    BY <1>1, <2>1, EventEffect DEF ActivityInv, TasksFitRuns
  <2>3. run \in Runs /\ saved' \in {totals', saved} /\ UNCHANGED <<service, run, worker, lost>>
    BY <2>1 DEF Event, Persisted, ActivityInv, TasksFitRuns
  <2>4. peak[run] + growth \in 0 .. MaxTokens
    BY <1>1, <2>2, <2>3, BoundsAssumption DEF CoreTypeOK, EventAdds
  <2>5. peak' \in [Runs -> 0 .. MaxTokens] /\ totals' \in Nat /\ saved' \in Nat
    BY <1>1, <2>2, <2>3, <2>4 DEF CoreTypeOK, EventAdds
  <2>6. entry' \in Entries /\ Len(entry'.activity) <= Window
    BY <2>2 DEF EventAdds
  <2>7. task' \in [Tasks -> TaskStates] /\ place' \in 0 .. MaxTasks /\ displaced' \subseteq Tasks
    <3>1. CASE UNCHANGED summaries
      BY <1>1, <3>1 DEF CoreTypeOK, summaries
    <3>2. CASE \E t \in Tasks : task[t] = Idle /\ Started(t)
      BY <1>1, <3>2, StartedTask DEF Tasks
    <3>. QED  BY <2>2, <3>1, <3>2 DEF EventAdds
  <2>. QED  BY <1>1, <2>3, <2>5, <2>6, <2>7 DEF CoreTypeOK
<1>5. CASE Stopped \/ Crash
  <2>1. [t \in Tasks |-> Idle] \in [Tasks -> TaskStates]
    BY IdleIsTask
  <2>2. lost' \subseteq {"unsaved", "unread"} /\ saved' \in Nat
    BY <1>1, <1>5, GoneEffect DEF CoreTypeOK
  <2>3. entry' \in Entries /\ Len(entry'.activity) <= Window
    BY <1>5, NewIsEntry, GoneEffect
  <2>4. /\ service' = "down" /\ worker' = "none" /\ place' = 0 /\ displaced' = {}
        /\ task' \in [Tasks -> TaskStates] /\ UNCHANGED <<run, totals, peak>>
    BY <1>5, <2>1, GoneEffect
  <2>. QED  BY <1>1, <2>2, <2>3, <2>4 DEF CoreTypeOK
<1>6. CASE Restart
  <2>1. service' = "up" /\ UNCHANGED <<run, worker, entry, saved, peak, task, place, displaced>>
    BY <1>6 DEF Restart, summaries
  <2>2. \/ totals' = saved /\ lost' = lost
        \/ totals' = 0 /\ lost' = lost \union {"unread"}
    BY <1>6 DEF Restart
  <2>3. totals' \in Nat
    BY <1>1, <2>2 DEF CoreTypeOK
  <2>4. lost' \subseteq {"unsaved", "unread"}
    BY <1>1, <2>2 DEF CoreTypeOK
  <2>. QED  BY <1>1, <2>1, <2>3, <2>4 DEF CoreTypeOK
<1>7. CASE QuietStep
  <2>1. ASSUME NEW t \in Tasks, SummaryStep(t) PROVE CoreTypeOK'
    <3>1. /\ UNCHANGED <<service, run, worker, totals, saved, peak, lost>>
          /\ task' \in [Tasks -> TaskStates]
      BY <1>1, <2>1, SummaryEffect
    <3>2. place' \in 0 .. MaxTasks /\ displaced' \subseteq Tasks
      BY <1>1, <2>1, SummaryEffect DEF CoreTypeOK, Tasks
    <3>3. entry' \in Entries /\ Len(entry'.activity) <= Window
      <4>1. CASE entry' = [entry EXCEPT !.crossed = @ \/ task[t].by # run]
        <5>1. PICK b \in BOOLEAN : b = (task[t].by # run)
          OBVIOUS
        <5>2. entry' = [entry EXCEPT !.crossed = @ \/ b]
          BY <4>1, <5>1, Zenon
        <5>3. entry' \in Entries /\ entry'.activity = entry.activity
          BY <1>1, <5>2, CrossedEntry DEF CoreTypeOK
        <5>. QED  BY <1>1, <5>3 DEF CoreTypeOK
      <4>2. CASE entry' \in {WithSummary(entry, t), WithFailure(entry, t)}
        BY <1>1, <4>2, ServedEntry DEF CoreTypeOK
      <4>. QED  BY <1>1, <2>1, <4>1, <4>2, SummaryEffect DEF CoreTypeOK
    <3>. QED  BY <1>1, <3>1, <3>2, <3>3 DEF CoreTypeOK
  <2>2. CASE IntervalOver
    BY <1>1, <2>2 DEF IntervalOver, CoreTypeOK, Entries, books, summaries
  <2>3. CASE WorkerEnds
    BY <1>1, <2>3 DEF WorkerEnds, CoreTypeOK, books, summaries
  <2>4. CASE Stop
    <3>1. /\ service' \in {"stopping", "late"} /\ place' = 0 /\ task' \in [Tasks -> TaskStates]
          /\ worker' \in {worker, "struck"}
          /\ UNCHANGED <<run, entry, totals, saved, peak, lost, displaced>>
      BY <1>1, <2>4, StopEffect
    <3>. QED  BY <1>1, <3>1 DEF CoreTypeOK
  <2>5. CASE UNCHANGED activityVars
    BY <1>1, <2>5 DEF activityVars, CoreTypeOK
  <2>. QED  BY <1>7, <2>1, <2>2, <2>3, <2>4, <2>5 DEF QuietStep
<1>. QED  BY <1>2, <1>3, <1>4, <1>5, <1>6, <1>7, ActivitySteps

LEMMA ActivityTypingStep ==
    ASSUME ActivityInv, [ActivityNext]_activityVars
    PROVE  ActivityTypeOK'
<1>1. CoreTypeOK' /\ BooksAreRight'
  BY CoreStep, BooksStep
<1>2. PICK sum \in 0 .. MaxRuns * MaxTokens : BooksFit(sum)'
  BY <1>1, RunsAssumption DEF BooksAreRight
<1>3. totals' \in 0 .. MaxRuns * MaxTokens /\ saved' \in 0 .. MaxRuns * MaxTokens
  <2>1. /\ totals' \in Nat /\ saved' \in Nat /\ totals' <= sum /\ saved' <= sum
    BY <1>1, <1>2 DEF CoreTypeOK, BooksFit
  <2>2. MaxRuns * MaxTokens \in Nat
    BY RunsAssumption, BoundsAssumption
  <2>. QED  BY <2>1, <2>2
<1>. QED  BY <1>1, <1>3 DEF CoreTypeOK, ActivityTypeOK, Entries, TaskStates

LEMMA ServiceStep ==
    ASSUME ActivityInv, [ActivityNext]_activityVars
    PROVE  ServiceFits'
<1>0. ActivityTypeOK /\ ServiceFits
  BY DEF ActivityInv
<1>. USE DEF ServiceFits
<1>1. CASE Dispatch
  BY <1>0, <1>1 DEF Dispatch, summaries
<1>2. CASE WorkerDone
  BY <1>0, <1>2 DEF WorkerDone, summaries
<1>3. CASE CodexEvent
  <2>1. PICK kind \in {"silent", "talk", "work"}, counts \in BOOLEAN, n \in 0 .. MaxTokens :
            Event(kind, counts, n)
    BY <1>3, EventPicked
  <2>2. PICK growth \in Nat : EventAdds(growth)
    BY <2>1, EventEffect DEF TasksFitRuns, ActivityInv
  <2>3. service' = service /\ service # "down"
    BY <2>1 DEF Event
  <2>4. service = "up" => \A t \in Tasks : task'[t].at # "struck"
    <3>. SUFFICES ASSUME service = "up" PROVE \A t \in Tasks : task'[t].at # "struck"
      OBVIOUS
    <3>1. CASE UNCHANGED summaries
      BY <1>0, <2>3, <3>1 DEF summaries
    <3>2. CASE \E t \in Tasks : task[t] = Idle /\ Started(t)
      <4>1. PICK t \in Tasks : task[t] = Idle /\ Started(t)
        BY <3>2
      <4>2. task'[t].at = "new" /\ \A u \in Tasks \ {t} : task'[u] = task[u]
        BY <1>0, <4>1, StartedTask
      <4>. QED  BY <1>0, <2>3, <4>2
    <3>. QED  BY <2>2, <3>1, <3>2 DEF EventAdds
  <2>. QED  BY <2>3, <2>4
<1>4. CASE Stopped \/ Crash
  BY <1>4, GoneEffect
<1>5. CASE Restart
  BY <1>0, <1>5 DEF Restart, summaries, Idle
<1>6. CASE QuietStep
  <2>1. ASSUME NEW t \in Tasks, SummaryStep(t) PROVE ServiceFits'
    <3>1. service' = service /\ worker' = worker
      BY <1>0, <2>1, SummaryEffect
    <3>2. service # "down"
      <4>1. service = "down" => task[t].at = "none"
        BY <1>0 DEF Idle
      <4>. QED  BY <1>0, <2>1, <4>1, SummaryEffect
    <3>3. service = "up" => \A u \in Tasks : task'[u].at # "struck"
      BY <1>0, <2>1, SummaryEffect DEF Idle
    <3>. QED  BY <3>1, <3>2, <3>3
  <2>2. CASE IntervalOver \/ WorkerEnds
    BY <1>0, <2>2 DEF IntervalOver, WorkerEnds, books, summaries
  <2>3. CASE Stop
    BY <1>0, <2>3, StopEffect
  <2>4. CASE UNCHANGED activityVars
    BY <1>0, <2>4 DEF activityVars
  <2>. QED  BY <1>6, <2>1, <2>2, <2>3, <2>4 DEF QuietStep
<1>. QED  BY <1>1, <1>2, <1>3, <1>4, <1>5, <1>6, ActivitySteps

(* Tasks keep fitting the runs when no run begins and the tasks are older  *)
LEMMA RunsStep ==
    ASSUME ActivityInv, [ActivityNext]_activityVars
    PROVE  TasksFitRuns'
<1>0. ActivityTypeOK /\ TasksFitRuns /\ ServiceFits /\ run \in Nat
  BY DEF ActivityInv, ActivityTypeOK
<1>0a. /\ entry \in Entries /\ task \in [Tasks -> TaskStates]
  BY <1>0, EntryTyped
<1>0b. \A t \in Tasks : task[t].by \in Nat /\ task[t].of \in Nat
  BY <1>0a DEF TaskStates
<1>. USE DEF TasksFitRuns, InRunning
<1>1. CASE Dispatch
  <2>1. run' = run + 1 /\ run < MaxRuns /\ task' = task
    BY <1>1 DEF Dispatch, summaries
  <2>2. run + 1 \in Runs
    BY <1>0, <2>1, RunsAssumption DEF Runs
  <2>3. \A t \in Tasks : /\ task[t].by <= run + 1 /\ task[t].of <= run + 1
                         /\ task[t].by # run + 1 /\ task[t].of # run + 1
    BY <1>0, <1>0b
  <2>. QED  BY <2>1, <2>2, <2>3
<1>2. CASE WorkerDone
  BY <1>0, <1>2 DEF WorkerDone, summaries
<1>3. CASE CodexEvent
  <2>1. PICK kind \in {"silent", "talk", "work"}, counts \in BOOLEAN, n \in 0 .. MaxTokens :
            Event(kind, counts, n)
    BY <1>3, EventPicked
  <2>2. PICK growth \in Nat : EventAdds(growth)
    BY <1>0, <2>1, EventEffect DEF ActivityInv
  <2>3. run' = run /\ worker' = worker
    BY <2>1 DEF Event
  <2>4. entry'.crossed = entry.crossed
    BY <2>2 DEF EventAdds
  <2>5. CASE UNCHANGED summaries
    BY <1>0, <2>3, <2>4, <2>5 DEF summaries
  <2>6. CASE \E t \in Tasks : task[t] = Idle /\ Started(t)
    <3>1. PICK t \in Tasks : task[t] = Idle /\ Started(t)
      BY <2>6
    <3>2. /\ task'[t].at = "new" /\ task'[t].by = run /\ task'[t].of = 0
          /\ \A u \in Tasks \ {t} : task'[u] = task[u]
      BY <1>0, <3>1, StartedTask DEF Nobody
    <3>. QED  BY <1>0, <2>3, <2>4, <3>2
  <2>. QED  BY <2>2, <2>5, <2>6 DEF EventAdds
<1>4. CASE Stopped \/ Crash
  <2>1. Idle.at = "none" /\ Idle.by = 0 /\ Idle.of = 0
    BY DEF Idle, Nobody
  <2>. QED  BY <1>0, <1>4, <2>1, GoneEffect
<1>5. CASE Restart
  BY <1>0, <1>5 DEF Restart, summaries
<1>6. CASE QuietStep
  <2>1. ASSUME NEW t \in Tasks, SummaryStep(t) PROVE TasksFitRuns'
    <3>1. run' = run /\ worker' = worker
      BY <1>0, <2>1, SummaryEffect
    <3>2. task'[t].by <= run /\ task'[t].of <= run
      BY <1>0, <2>1, SummaryEffect DEF Idle, Nobody
    <3>3. \A u \in Tasks \ {t} : task'[u] = task[u]
      BY <1>0, <2>1, SummaryEffect
    <3>4. InRunning /\ entry.crossed => entry'.crossed
      <4>1. CASE entry' = [entry EXCEPT !.crossed = @ \/ task[t].by # run]
        <5>1. PICK b \in BOOLEAN : b = (task[t].by # run)
          OBVIOUS
        <5>2. entry' = [entry EXCEPT !.crossed = @ \/ b]
          BY <4>1, <5>1, Zenon
        <5>3. entry'.crossed = (entry.crossed \/ b)
          BY <1>0a, <5>2, CrossedEntry
        <5>. QED  BY <5>3
      <4>2. CASE entry' \in {WithSummary(entry, t), WithFailure(entry, t)}
        BY <1>0, <4>2, ServedEntry
      <4>. QED  BY <1>0, <2>1, <4>1, <4>2, SummaryEffect
    <3>5. task'[t].at = "asked" =>
              /\ task'[t].of = run
              /\ task'[t].by # run /\ InRunning => entry'.crossed
      <4>. SUFFICES ASSUME task'[t].at = "asked"
                    PROVE  /\ task'[t].of = run
                           /\ task'[t].by # run => entry'.crossed
        OBVIOUS
      <4>1. /\ task'[t].of = run /\ task'[t].by = task[t].by
            /\ entry' = [entry EXCEPT !.crossed = @ \/ task[t].by # run]
        BY <1>0, <2>1, SummaryEffect DEF Idle
      <4>2. PICK b \in BOOLEAN : b = (task[t].by # run)
        OBVIOUS
      <4>3. entry' = [entry EXCEPT !.crossed = @ \/ b]
        BY <4>1, <4>2, Zenon
      <4>4. entry'.crossed = (entry.crossed \/ b)
        BY <1>0a, <4>3, CrossedEntry
      <4>. QED  BY <4>1, <4>2, <4>4
    <3>. QED  BY <1>0, <3>1, <3>2, <3>3, <3>4, <3>5
  <2>2. CASE IntervalOver
    <3>1. entry'.crossed = entry.crossed
      BY <1>0a, <2>2 DEF IntervalOver, Entries
    <3>. QED  BY <1>0, <2>2, <3>1 DEF IntervalOver, summaries
  <2>3. CASE WorkerEnds
    BY <1>0, <2>3 DEF WorkerEnds, summaries
  <2>4. CASE Stop
    <3>1. worker' = "none" <=> worker = "none"
      BY <2>4, QuietEffect DEF QuietStep
    <3>. QED  BY <1>0, <2>4, <3>1, StopEffect
  <2>5. CASE UNCHANGED activityVars
    BY <1>0, <2>5 DEF activityVars
  <2>. QED  BY <1>6, <2>1, <2>2, <2>3, <2>4, <2>5 DEF QuietStep
<1>. QED  BY <1>1, <1>2, <1>3, <1>4, <1>5, <1>6, ActivitySteps

LEMMA DisplacedStep ==
    ASSUME ActivityInv, [ActivityNext]_activityVars
    PROVE  LostTasksAreDisplaced'
<1>0. ActivityTypeOK /\ LostTasksAreDisplaced /\ ServiceFits
  BY DEF ActivityInv
<1>. USE DEF LostTasksAreDisplaced
<1>1. CASE UNCHANGED summaries
  BY <1>0, <1>1 DEF summaries
<1>2. ASSUME NEW t \in Tasks, task[t] = Idle, Started(t) PROVE LostTasksAreDisplaced'
  <2>1. /\ \A u \in Tasks \ {t} : task'[u] = task[u]
        /\ place' = t
        /\ displaced' = IF place = Nobody THEN displaced ELSE displaced \union {place}
    BY <1>0, <1>2, StartedTask
  <2>2. \A u \in Tasks : u # Nobody
    BY DEF Tasks, Nobody
  <2>. QED  BY <1>0, <2>1, <2>2
<1>3. CASE Stopped \/ Crash
  BY <1>3, GoneEffect DEF Idle
<1>4. ASSUME NEW t \in Tasks, SummaryStep(t) PROVE LostTasksAreDisplaced'
  <2>1. \A u \in Tasks \ {t} : task'[u] = task[u]
    BY <1>0, <1>4, SummaryEffect
  <2>2. CASE UNCHANGED <<place, displaced>>
    BY <1>0, <1>4, <2>1, <2>2, SummaryEffect DEF Idle
  <2>3. CASE /\ task'[t] = Idle /\ place' = Nobody
             /\ displaced' = IF place \in {t, Nobody} THEN displaced \ {t}
                             ELSE (displaced \ {t}) \union {place}
    <3>1. \A u \in Tasks : u # Nobody
      BY DEF Tasks, Nobody
    <3>. QED  BY <1>0, <2>1, <2>3, <3>1 DEF Idle
  <2>. QED  BY <1>0, <1>4, <2>2, <2>3, SummaryEffect
<1>5. CASE Stop
  BY <1>0, <1>5, StopEffect
<1>6. CASE CodexEvent
  <2>1. PICK kind \in {"silent", "talk", "work"}, counts \in BOOLEAN, n \in 0 .. MaxTokens :
            Event(kind, counts, n)
    BY <1>6, EventPicked
  <2>2. PICK growth \in Nat : EventAdds(growth)
    BY <1>0, <2>1, EventEffect DEF ActivityInv, TasksFitRuns
  <2>. QED  BY <1>1, <1>2, <2>2 DEF EventAdds
<1>. QED  BY <1>1, <1>2, <1>3, <1>4, <1>5, <1>6, ActivitySteps
          DEF QuietStep, Dispatch, WorkerDone, Restart, WorkerEnds, IntervalOver, activityVars,
              summaries

(* Who writes after a step that changes one task at most                   *)
LEMMA WritingElsewhere ==
    ASSUME NEW t \in Tasks, \A u \in Tasks \ {t} : task'[u] = task[u], run' = run
    PROVE  /\ Writing' \ {t} = Writing \ {t}
           /\ t \in Writing' <=> Alive(t)' /\ task'[t].by = run
BY DEF Writing, Alive

LEMMA PendingStep ==
    ASSUME ActivityInv, [ActivityNext]_activityVars
    PROVE  PendingHasItsTask'
<1>0. /\ ActivityTypeOK /\ PendingHasItsTask /\ ServiceFits /\ TasksFitRuns /\ run \in Nat
      /\ entry \in Entries /\ task \in [Tasks -> TaskStates]
  BY EntryTyped DEF ActivityInv, ActivityTypeOK
<1>. USE DEF PendingHasItsTask
<1>1. CASE Dispatch
  <2>1. run' = run + 1 /\ task' = task /\ entry' = NewEntry
    BY <1>1 DEF Dispatch, summaries
  <2>2. \A t \in Tasks : task[t].by # run + 1
    <3>1. \A t \in Tasks : task[t].by \in Nat /\ task[t].by <= run
      BY <1>0 DEF TasksFitRuns, TaskStates
    <3>. QED  BY <1>0, <3>1
  <2>3. Writing' = {}
    BY <2>1, <2>2 DEF Writing
  <2>4. NewEntry.pending = FALSE
    BY DEF NewEntry
  <2>. QED  BY <2>1, <2>3, <2>4
<1>2. CASE WorkerDone \/ Stopped \/ Crash
  <2>1. worker' = "none"
    BY <1>2, GoneEffect DEF WorkerDone
  <2>. QED  BY <2>1 DEF InRunning
<1>3. CASE Restart
  <2>1. worker' = "none"
    BY <1>0, <1>3 DEF Restart, ServiceFits
  <2>. QED  BY <2>1 DEF InRunning
<1>4. CASE CodexEvent /\ service = "up"
  <2>1. PICK kind \in {"silent", "talk", "work"}, counts \in BOOLEAN, n \in 0 .. MaxTokens :
            Event(kind, counts, n)
    BY <1>4, EventPicked
  <2>2. PICK growth \in Nat : EventAdds(growth)
    BY <1>0, <2>1, EventEffect DEF ActivityInv, TasksFitRuns
  <2>3. /\ run' = run /\ service = "up" /\ InRunning
        /\ entry'.crossed = entry.crossed
    BY <1>4, <2>1, <2>2 DEF Event, EventAdds, InRunning
  <2>4. CASE entry'.pending = entry.pending /\ UNCHANGED summaries
    <3>1. Writing' = Writing
      BY <2>3, <2>4 DEF Writing, Alive, summaries
    <3>. QED  BY <1>0, <2>3, <2>4, <3>1
  <2>5. CASE /\ ~entry.pending /\ entry'.pending = TRUE
             /\ \E t \in Tasks : task[t] = Idle /\ Started(t)
    <3>1. PICK t \in Tasks : task[t] = Idle /\ Started(t)
      BY <2>5
    <3>2. /\ task'[t].at = "new" /\ task'[t].by = run
          /\ \A u \in Tasks \ {t} : task'[u] = task[u]
      BY <1>0, <3>1, StartedTask
    <3>3. Writing' \ {t} = Writing \ {t} /\ t \in Writing'
      BY <2>3, <3>2, WritingElsewhere DEF Alive
    <3>4. ~entry.crossed => Writing = {}
      BY <1>0, <2>3, <2>5
    <3>5. ~entry.crossed => Writing' = {t}
      BY <3>3, <3>4
    <3>. QED  BY <2>3, <2>5, <3>5
  <2>. QED  BY <2>2, <2>4, <2>5 DEF EventAdds
<1>4a. CASE CodexEvent /\ service # "up"
  BY <1>4a, EventPicked DEF Event
<1>5. ASSUME NEW t \in Tasks, SummaryStep(t) PROVE PendingHasItsTask'
  <2>. SUFFICES ASSUME service' = "up", InRunning', ~entry'.crossed
                PROVE  IF entry'.pending THEN \E u \in Tasks : Writing' = {u} ELSE Writing' = {}
    OBVIOUS
  <2>1. /\ UNCHANGED <<service, run, worker>> /\ \A u \in Tasks \ {t} : task'[u] = task[u]
    BY <1>0, <1>5, SummaryEffect
  <2>2. service = "up" /\ InRunning
    BY <2>1 DEF InRunning
  <2>3. Writing' \ {t} = Writing \ {t} /\ (t \in Writing' <=> Alive(t)' /\ task'[t].by = run)
    BY <2>1, WritingElsewhere
  <2>4. t \in Writing <=> Alive(t) /\ task[t].by = run
    BY DEF Writing
  <2>5. CASE /\ task[t].at = "new" /\ task'[t].at = "asked" /\ task'[t].by = task[t].by
             /\ entry' = [entry EXCEPT !.crossed = @ \/ task[t].by # run]
    <3>1. PICK b \in BOOLEAN : b = (task[t].by # run)
      OBVIOUS
    <3>2. entry' = [entry EXCEPT !.crossed = @ \/ b]
      BY <2>5, <3>1, Zenon
    <3>3. entry'.crossed = (entry.crossed \/ b) /\ entry'.pending = entry.pending
      BY <1>0, <3>2, CrossedEntry
    <3>4. ~entry.crossed
      BY <3>3
    <3>5. t \in Writing' <=> t \in Writing
      BY <2>3, <2>4, <2>5 DEF Alive
    <3>6. Writing' = Writing
      BY <2>3, <3>5
    <3>. QED  BY <1>0, <2>2, <3>3, <3>4, <3>6
  <2>6. CASE /\ task[t].at = "asked" /\ task'[t].at = "ended"
             /\ entry' \in {WithSummary(entry, t), WithFailure(entry, t)}
    <3>1. entry'.pending = FALSE /\ entry'.crossed = (entry.crossed \/ task[t].of # run)
      BY <1>0, <2>6, ServedEntry
    <3>2. ~entry.crossed /\ task[t].of = run
      BY <3>1
    <3>3. task[t].by = run
      BY <1>0, <2>2, <2>6, <3>2 DEF TasksFitRuns
    <3>4. t \in Writing
      BY <2>4, <2>6, <3>3 DEF Alive
    <3>5. \E u \in Tasks : Writing = {u}
      BY <1>0, <2>2, <3>2, <3>4
    <3>6. t \notin Writing'
      BY <2>3, <2>6 DEF Alive
    <3>7. Writing' = {}
      BY <2>3, <3>4, <3>5, <3>6
    <3>. QED  BY <3>1, <3>7
  <2>7. CASE task[t].at = "ended" /\ task'[t] = Idle /\ UNCHANGED entry
    <3>1. t \notin Writing /\ t \notin Writing'
      BY <2>3, <2>4, <2>7 DEF Alive, Idle
    <3>2. Writing' = Writing
      BY <2>3, <3>1
    <3>. QED  BY <1>0, <2>2, <2>7, <3>2
  <2>8. task[t].at # "struck"
    BY <1>0, <2>2 DEF ServiceFits
  <2>. QED  BY <1>0, <1>5, <2>2, <2>5, <2>6, <2>7, <2>8, SummaryEffect
<1>6. CASE IntervalOver
  <2>1. entry'.crossed = entry.crossed /\ entry'.pending = entry.pending
    BY <1>0, <1>6 DEF IntervalOver, Entries
  <2>2. UNCHANGED <<service, worker>> /\ Writing' = Writing
    BY <1>6 DEF IntervalOver, summaries, Writing, Alive
  <2>. QED  BY <1>0, <2>1, <2>2 DEF InRunning
<1>7. CASE WorkerEnds
  <2>1. service' = service /\ entry' = entry /\ InRunning /\ Writing' = Writing
    BY <1>7 DEF WorkerEnds, summaries, InRunning, Writing, Alive
  <2>. QED  BY <1>0, <2>1
<1>8. CASE Stop
  BY <1>0, <1>8, StopEffect
<1>9. CASE UNCHANGED activityVars
  <2>1. Writing' = Writing
    BY <1>9 DEF activityVars, Writing, Alive
  <2>. QED  BY <1>0, <1>9, <2>1 DEF activityVars, InRunning
<1>. QED  BY <1>1, <1>2, <1>3, <1>4, <1>4a, <1>5, <1>6, <1>7, <1>8, <1>9, ActivitySteps
          DEF QuietStep

LEMMA ActivityInvInit == ActivityInit => ActivityInv
<1>. SUFFICES ASSUME ActivityInit PROVE ActivityInv
  OBVIOUS
<1>1. /\ run = 0 /\ worker = "none" /\ service = "up" /\ entry = NewEntry
      /\ task = [t \in Tasks |-> Idle]
      /\ place = 0 /\ totals = 0 /\ saved = 0 /\ peak = [r \in Runs |-> 0] /\ lost = {}
      /\ displaced = {}
  BY DEF ActivityInit, Nobody
<1>2. ActivityTypeOK
  <2>1. 0 \in 0 .. MaxRuns * MaxTokens
    BY RunsAssumption, BoundsAssumption
  <2>2. task \in [Tasks -> TaskStates]
    BY <1>1, IdleIsTask
  <2>3. peak \in [Runs -> 0 .. MaxTokens]
    BY <1>1, BoundsAssumption
  <2>4. 0 \in 0 .. MaxRuns /\ 0 \in 0 .. MaxTasks
    BY RunsAssumption, TasksAssumption
  <2>. QED  BY <1>1, <2>1, <2>2, <2>3, <2>4, NewIsEntry DEF ActivityTypeOK, Entries, TaskStates
<1>3. \A t \in Tasks : task[t].at = "none" /\ task[t].by = 0 /\ task[t].of = 0
  BY <1>1 DEF Idle, Nobody
<1>4. ServiceFits /\ TasksFitRuns /\ PendingHasItsTask /\ LostTasksAreDisplaced /\ CountsFit
  BY <1>1, <1>3 DEF ServiceFits, TasksFitRuns, PendingHasItsTask, LostTasksAreDisplaced,
                    CountsFit, InRunning, Nobody
<1>5. BooksAreRight
  <2>1. PICK f \in [0 .. MaxRuns -> 0 .. MaxRuns * MaxTokens] : f = [r \in 0 .. MaxRuns |-> 0]
    <3>1. 0 \in 0 .. MaxRuns * MaxTokens
      BY RunsAssumption, BoundsAssumption
    <3>. QED  BY <3>1
  <2>2. \A r \in 0 .. MaxRuns : f[r] = 0
    BY <2>1
  <2>3. \A r \in Runs : r \in 0 .. MaxRuns /\ r - 1 \in 0 .. MaxRuns /\ peak[r] = 0
                        /\ 0 <= r * MaxTokens
    BY <1>1, RunsAssumption, BoundsAssumption DEF Runs
  <2>4. 0 \in 0 .. MaxRuns /\ MaxRuns \in 0 .. MaxRuns
    BY RunsAssumption
  <2>5. IsSum(f)
    BY <1>1, <2>1, <2>2, <2>3, <2>4 DEF IsSum
  <2>6. BooksFit(f[MaxRuns])
    BY <1>1, <2>2, <2>4 DEF BooksFit
  <2>. QED  BY <2>5, <2>6 DEF BooksAreRight
<1>. QED  BY <1>2, <1>4, <1>5 DEF ActivityInv

LEMMA ActivityInvStep == ActivityInv /\ [ActivityNext]_activityVars => ActivityInv'
BY ActivityTypingStep, ServiceStep, RunsStep, PendingStep, DisplacedStep, CountsStep, BooksStep
   DEF ActivityInv

(* The entry, the summary tasks and the totals keep their types, and the   *)
(* activity of an entry its window.                                        *)
THEOREM ActivityTyping == ActivitySpec => []ActivityTypeOK
<1>1. ActivityInv => ActivityTypeOK
  BY DEF ActivityInv
<1>. QED  BY <1>1, ActivityInvInit, ActivityInvStep, PTL DEF ActivitySpec

(* However often counters fall, rise again or are restarted, the totals    *)
(* hold every reported token once, but for what was lost with a process or *)
(* a file.                                                                 *)
THEOREM TokensCount == ActivitySpec => []TokensCountOnce
<1>1. ActivityInv => TokensCountOnce
  BY DEF ActivityInv, BooksAreRight, IsSum, BooksFit, TokensCountOnce
<1>. QED  BY <1>1, ActivityInvInit, ActivityInvStep, PTL DEF ActivitySpec

(* Whatever ends, is replaced or answers late, an entry that no foreign    *)
(* task has served is pending exactly while one task of its run writes.    *)
THEOREM PendingTells == ActivitySpec => []PendingIsTrue
<1>1. ActivityInv => PendingIsTrue
  <2>. SUFFICES ASSUME PendingHasItsTask, service = "up", InRunning, ~entry.crossed
                PROVE  Cardinality(Writing) = IF entry.pending THEN 1 ELSE 0
    BY DEF ActivityInv, PendingIsTrue, Writing
  <2>1. CASE entry.pending
    <3>1. PICK t \in Tasks : Writing = {t}
      BY <2>1 DEF PendingHasItsTask
    <3>. QED  BY <2>1, <3>1, FS_Singleton
  <2>2. CASE ~entry.pending
    BY <2>2, FS_EmptySet DEF PendingHasItsTask
  <2>. QED  BY <2>1, <2>2
<1>. QED  BY <1>1, ActivityInvInit, ActivityInvStep, PTL DEF ActivitySpec

(* When stop() is through, the summary tasks still alive are those whose   *)
(* place in its table was taken or emptied by others, and the one that is  *)
(* in the table again, for a worker that spoke after it was emptied.       *)
THEOREM StopFindsSummaries == ActivitySpec => StopEndsSummaries
<1>1. ActivityInv /\ [ActivityNext]_activityVars =>
         [Stopped => \A t \in Tasks : Alive(t) => t \in displaced \/ t = place]_activityVars
  <2>. SUFFICES ASSUME ActivityInv, Stopped, NEW t \in Tasks, Alive(t)
                PROVE  t \in displaced \/ t = place
    OBVIOUS
  <2>1. task[t].at \in {"new", "asked"}
    BY DEF Stopped, Alive
  <2>. QED  BY <2>1 DEF ActivityInv, LostTasksAreDisplaced
<1>. QED  BY <1>1, ActivityInvInit, ActivityInvStep, PTL DEF ActivitySpec, StopEndsSummaries
=============================================================================
